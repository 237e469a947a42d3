SPECIFICATION Spec
CONSTANTS
  MaxLeft = 1
  MaxChunks = 2
  MaxParts = 2
INVARIANTS
  FinishedMeansHeard
  CancelSpeaksNoMore
  StopEndsChunk
PROPERTIES
  WorkerEnds
