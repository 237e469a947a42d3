SPECIFICATION Spec
CONSTANTS
  Configs <- Default
  MaxTurns = 2
  MaxRounds = 1
  MaxAnnouncements = 1
  MaxText = 0
  MaxDue = 0
CHECK_DEADLOCK FALSE
INVARIANT InterruptionWins
