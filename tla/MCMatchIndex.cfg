SPECIFICATION IndexSpec
CONSTANTS
  LongSlots = {l1, l2}
  ShortSlots = {s1}
  MaxIndex = 36
  WindowSize = 10
  ReadSize = 2
  MinMatch = 4
  BlockLengths = {1, 6, 12}
  MaxGap = 4
  MaxInput = 18
SYMMETRY Interchangeable
INVARIANTS
  TablesHoldThisFrame
  MatchesPointBack
