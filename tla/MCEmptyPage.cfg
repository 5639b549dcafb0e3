SPECIFICATION Spec
CONSTANTS
  w1 = w1
  w2 = w2
  NULL = NULL
  MaxPoints = 99999
  Ids <- MCIds
  Texts <- MCTexts
  Subjects <- MCSubjects
  kSubjects <- MCkSubjects
  Workers <- Single
  Filters <- SomeFilters
  DbStates <- SeededOnly
  DbMoves <- NoMoves
  Pooled = FALSE
  Restarts = FALSE
INVARIANTS
  EmptyMeansNoData
