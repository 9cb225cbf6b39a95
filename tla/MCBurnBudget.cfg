CONSTANTS
  Calls = 2
  Budgets <- MCBudgets
  Tracks <- MCTracks
  Gap = 3
  Leadin = 3
  Chunk = 2
  CdtChunk = 2
  StallCap = 2
SPECIFICATION Spec
INVARIANT PassesWithinBudget
