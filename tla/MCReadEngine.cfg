CONSTANTS
  Before = 0
  Count = 5
  Chunk = 2
  Requests <- MCRequests
  Copies <- MCCopies
  Silent = {3}
  Rereads = 2
  AnchorReads = 4
  Margin = 1
  Faults = 3
SPECIFICATION Spec
INVARIANT CondemnedIsWitnessed
INVARIANT OKMeansNoDisagreement
INVARIANT EachOnceInOrder
PROPERTY SlipNeedsContext
