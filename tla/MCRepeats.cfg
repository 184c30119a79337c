SPECIFICATION MCSpec
CONSTANTS
  Window = 8
  BlockSizes = {4, 7, 11}
  MinMatch = 4
  RepeatAhead = 2
  MaxInput = 19
  LongRun = 6
  RunForms = {"repeat", "offset"}
INVARIANTS
  MatchesDecodeAsParsed
  MatchesInWindow
  HistoriesFollow
