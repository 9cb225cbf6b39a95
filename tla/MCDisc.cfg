CONSTANTS
  Bits = 3
  Poly = {0, 1}
  FrameWords = 4
  Requests <- MCRequests
  Truth <- MCTruth
  LayoutFiles <- MCLayoutFiles
  LayoutLeadIns = {0, 435000}
  LayoutSector = 2352
  LayoutTracks = 2
  LayoutCap = 10
  RangeTop = 12
  RangeDiscs <- MCRangeDiscs
  RangeSpecs <- MCRangeSpecs
CHECK_DEADLOCK FALSE
SPECIFICATION MCSpec
INVARIANT TypesOK
INVARIANT DamageIsUndone
INVARIANT RepairIsWhole
INVARIANT CueIsWhatIsWritten
INVARIANT MapIsTheDisc
INVARIANT RangeIsAudio
INVARIANT PackIsWhatWasWritten
INVARIANT TextIsTheirs
INVARIANT SweepIsExact
