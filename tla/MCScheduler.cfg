SPECIFICATION Spec
CONSTANTS
  MaxTasks = 2
  ClaimLimit = 2
  DrainLimit = 2
  Intervals = {1}
  Delays = {1}
  MaxTime = 2
  MaxIds = 2
  MaxSnoozes = 1
  MaxExits = 1
CHECK_DEADLOCK FALSE
INVARIANTS
  ClaimsInOrder
  OncePerOccasion
PROPERTIES
  ImplementsDelivery
  DueIsSettled
