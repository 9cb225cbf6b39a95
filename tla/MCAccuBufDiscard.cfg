CONSTANTS
  NChunks = 4
  WantSlots = 2
  MinSlots = 2
  MaxSlots = 3
  CountMod = 8
SPECIFICATION FairSpec
PROPERTY NothingAfterDiscard
