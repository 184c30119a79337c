SPECIFICATION EntropySpec
CONSTANTS
  NewOffsets = {2}
  RepeatBases = {1, 3}
  Alphabets = {ll}
  FseTables = {f1, f2}
  HuffmanTables = {h1}
  Partitioning = TRUE
  MaxSequences = 2
SYMMETRY Interchangeable
CONSTRAINTS UntilDivergence FewDistances
INVARIANTS
  OffsetsDecodeAsParsed
  TablesDecodeAsEncoded
  EntropyInv
