CONSTANTS
  NSeg = 3
  SegStart <- MCSegStart
  sectors_per_slot = 2
  WantSlots = 3
  MinSlots = 2
  MaxSlots = 4
  burnproof_on = FALSE
SPECIFICATION Spec
INVARIANT HandedOutIntact
INVARIANT CompleteOnSuccess
PROPERTY SlotsStable
PROPERTY ImplementsStream
