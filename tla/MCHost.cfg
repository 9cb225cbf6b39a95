CONSTANTS
  Calls = 2
  Budgets <- MCBudgets
  Tracks <- MCTracks
  Gap = 3
  Leadin = 3
  Chunk = 2
  CdtChunk = 2
  StallCap = 2
  UARetries = 2
  TimeoutPolls = 3
  NChunks = 5
  BufWant = 3
  BufMin = 2
  BufMax = 3
  CountMod = 8
  NSeg = 3
  SegStart <- MCSegStart
  sectors_per_slot = 2
  FifoWant = 1
  FifoMin = 2
  FifoMax = 4
  burnproof_on = TRUE
SPECIFICATION MCSpec
INVARIANT TypesOK
INVARIANT RetriedSafely
INVARIANT SinkContract
INVARIANT LaserIsAllowed
INVARIANT LeftAsFound
INVARIANT RecordedInOrder
INVARIANT SuccessMeansWhole
INVARIANT CompletedWithinBudget
PROPERTY LoadMeansSettled
PROPERTY ThreadsEnd
PROPERTY CallsEnd
