CONSTANTS
  Keys = {"t", "d"}
  KindOf <- MCKindOf
  Names = {"n"}
  Values = {"v"}
  MaxEntries = 2
  MaxHistory = 2
  MaxConflicts = 2
  MaxRaised = 2
SPECIFICATION MemorySpec
INVARIANT PendingCanBeDecided
CHECK_DEADLOCK FALSE
