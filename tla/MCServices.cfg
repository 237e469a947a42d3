CONSTANTS
  Pages = {1, 2}
  Catalog <- MCCatalog
  Doms <- MCDoms
  MaxTabRefs = 2
  MaxElementRefs = 3
  MaxChanges = 2
  Kinds = {"all"}
  MaxWorkflowSteps = 2
  MaxFlowSteps = 2
  Ports = {1, 2}
  KeepRunning = FALSE
  MaxEvents = 5
  Controls = {c1, c2}
  TTL = 2
  MaxUiRefs = 2
  MaxUiTime = 3
  Keys = {"t", "d"}
  KindOf <- MCKindOf
  Names = {"n"}
  Values = {"v"}
  MaxEntries = 2
  MaxHistory = 2
  MaxConflicts = 2
  MaxRaised = 2
  Files = {1, 2}
  Below <- MCBelow
  Roots = {"all", "one"}
  Texts <- MCTexts
  Secret <- MCSecret
  TooLarge <- MCTooLarge
  ChunkCharacters = 5
  Overlap = 3
  MaxRagFiles = 2
  MaxRagChunks = 4
  MaxWrites = 3
  EventIds = {1, 2}
  Summaries = {"x"}
  DayHours = 4
  Days = 2
  WorkStart = 1
  WorkEnd = 4
  Queries <- MCQueries
  MaxSlots = 2
  MaxEdits = 2
  MaxToolRounds = 2
  MaxDelegations = 1
  RoutingEnabled = TRUE
  AllowUserOverride = TRUE
  AllowAutomatic = TRUE
  UseMemory = TRUE
  MaxCalls = 2
  MaxTurns = 2
  ByApi <- MCByApi
  ByName <- MCByName
  Loopbacks = {1}
  DefaultInput = 1
  ProbeDevices = TRUE
  AllowRecovery = TRUE
  Persist = TRUE
  QueueSize = 2
  MaxFrames = 4
  MaxRigChanges = 1
SPECIFICATION ServicesSpec
INVARIANTS
  ReferencesAgree ActsOnWhatWasMeant CompletedIsVerified
  HandsOutOurBrowser ActsOnWhatWasInspected HistoryLeadsToPresent
  IndexFollowsFiles EveryLineIsCited SlotsAreFree
  HeardIsTheReply ExplicitRequestHonoured FramesInOrder
CHECK_DEADLOCK FALSE
