SPECIFICATION MCSpec
CONSTANTS
  NULL = NULL
  MaxPoints = 99999
  Ids <- MCIds
  Texts <- MCTexts
  Subjects <- MCSubjects
  kSubjects <- MCkSubjects
  SomePoints <- MCSomePoints
  MaxScores = 2
  Lengths = {0, 3}
  Specs <- MCSpecs
  MaxAsked = 4
  MaxRanges = 4
  \* "ban" stands for the characters a form submission encodes.
  Safe = {"class"}
  Chars = {"class", "=", "&", "+", " ", "ban"}
  MaxName = 2
  MaxQuery = 4
  MaxBoth = 5
  Words = {"x"}
  MaxTexts = 4
  Bodies <- MCBodies
  MaxLine = 3
  MaxFiles = 2
INVARIANTS
  TypesOK
  ReportRight
  
  
  ProgramsAgree
  TextsComeBack
  SettingsArrive
  PreferencesAsSent
  RangesAnswered
  
  ChunksAsSent
CHECK_DEADLOCK FALSE
