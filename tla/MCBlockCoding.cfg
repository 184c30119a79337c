SPECIFICATION MCSpec
CONSTANTS
  LiteralCounts <- MCLiteralCounts
  TableChoices <- MCAllChoices
  Followers <- MCFollowers
  ExtraTables = 2
  Sequences <- MCSequences
  MaxLiterals = 2
  MaxSequences = 3
  Sources <- MCSources
INVARIANTS
  TreesAreWhole
  ShortestUnlessLimited
  LiteralsSurvive
  SequencesSurvive
  CachesAreTrue
  AnsweredAsRead
CHECK_DEADLOCK FALSE
