CONSTANTS
  EventIds = {1, 2}
  Summaries = {"x", "y"}
  DayHours = 4
  Days = 2
  WorkStart = 1
  WorkEnd = 4
  Queries <- MCQueries
  MaxSlots = 2
  MaxEdits = 2
SPECIFICATION CalendarSpec
INVARIANT NoneIsLeftOut
CHECK_DEADLOCK FALSE
