SPECIFICATION FairSpec
CONSTANTS
  w1 = w1
  w2 = w2
  NULL = NULL
  MaxPoints = 99999
  Ids <- MCIds
  Texts <- MCTexts
  Subjects <- MCSubjects
  kSubjects <- MCkSubjects
  Workers <- Single
  Filters <- AllFilters
  DbStates <- SomeStill
  DbMoves <- SetUpMoves
  Pooled = FALSE
  Restarts = TRUE
INVARIANTS
  TypeOK
  FilterRespected
  
PROPERTIES
  ImplementsFairService
  RequestServed
