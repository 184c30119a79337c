SPECIFICATION GatheringSpec
CONSTANTS
  Half = 2
  ShortMatch = 1
  Forms <- SomeForms
  OffsetEnd = 32
  BlockSizes = {2, 4}
  Builds <- OtherCompiler
  ShortCopy = 2
  Storage = 4
  MaxInput = 6
INVARIANTS
  LiteralsAreTheBlocks
