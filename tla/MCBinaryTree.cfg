SPECIFICATION Spec
CONSTANTS
  Kinds = {"lazy", "optimal", "optimal3"}
  Inputs <- SomeWords
  HashBytes = 0
  TreeSize = 4
  CacheSize = 4
  MaxIndex = 30
  Window = 4
  ReadSize = 2
  Slack = 1
  MinMatch = 2
  MaxPath = 2
  Sufficient = 2
  Attempts = 2
  BlockSkip = 4
  BlockTail = 1
  RunLength = 3
  RunSkip = 2
  BlockSizes = {1, 4}
  MaxStep = 2
INVARIANTS
  LengthsAreExact
  MatchesAreReal
  TreesAreOrdered
  SortedBeforeSearched
