SPECIFICATION EntropySpec
CONSTANTS
  NewOffsets = {2}
  RepeatBases = {1}
  Alphabets = {}
  FseTables = {}
  HuffmanTables = {}
  Partitioning = FALSE
  MaxSequences = 1
INVARIANTS BlocksAreInteroperable
