SPECIFICATION Spec
CONSTANTS
  Strategies = {"optimal", "ultra2"}
  BlockSizes = {4}
  ReadSize = 1
  PathWindow = 3
  MinMatch = 1
  Sufficient = 2
  MinSplit = 2
  MaxSplits = 1
  OffsetBases = {1, 3, 5}
  MaxCandidates = 2
  MaxInput = 4
INVARIANTS
  SequencesCover
  PathsLeadBack
  MatchesDecodeAsFound
  PartitionsTile
CHECK_DEADLOCK FALSE
