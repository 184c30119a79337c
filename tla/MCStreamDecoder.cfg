SPECIFICATION Spec
CONSTANTS
  Wires <- MCWires
  CompactAt = 3
  DecodedBlock = 2
  Capacities = {1, 3, 5}
  StripeSize = 2
  Word = 2
  Half = 1
INVARIANTS
  WindowRetained
  StorageHoldsFrame
  FinishedHasReadAll
PROPERTIES
  ReadsTheStream
  CallsReturn
