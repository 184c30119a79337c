SPECIFICATION Spec
CONSTANTS
  b1 = b1
  b2 = b2
  Buckets <- TwoBuckets
  ChainSize = 6
  MaxIndex = 32
  Window = 7
  Parsers <- MCParsers
  Hashes <- MCHashes
  RowEntries = 4
  CacheSize = 2
  BlockTail = 2
  ReadSize = 4
  MinMatch = 4
  SkipThreshold = 3
  HeadUpdates = 1
  TailUpdates = 1
  SkippingStep = 1
  Attempts = 3
  BlockSizes <- MCBlockSizes
  MaxStep = 3
  MaxInput = 16
INVARIANTS
  WalksWhatWasRecorded
  HashesAreTrue
  NeverSearchesBehind
SYMMETRY Interchangeable
