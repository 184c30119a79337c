SPECIFICATION Spec
CONSTANTS
  Parameters <- MCParameters
  BlockSize = 3
  Splitting = TRUE
  SizeField = TRUE
  Window = 3
  MaxSource = 9
  StripeSize = 8
  Word = 4
  Half = 2
INVARIANTS
  NothingLost
  FrameIsSound
  UnfinishedIsOpen
  EveryByteCounts
PROPERTIES
  FlushedWhenUnpledged
  CallsReturn
