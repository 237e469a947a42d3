SPECIFICATION Spec
CONSTANTS
  Configs <- MCConfigs
  MaxTurns = 2
  MaxRounds = 1
  MaxAnnouncements = 1
  MaxText = 1
  MaxDue = 1
CHECK_DEADLOCK FALSE
INVARIANTS
  LoopMatchesState
  CommandInConversation
  OneMicReader
  OnlyEndIsRefused
  InterruptionProcessed
PROPERTIES
  TextIsRead
  TurnEnds
  MonitorWaitEnds
