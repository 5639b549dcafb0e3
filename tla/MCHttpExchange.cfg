\* Three requests of twenty-one kinds on a connection that takes three; three
\* responses, of which the kernel does not hold one, on their way to a client that
\* reads or does not.
SPECIFICATION MCSpec
CONSTANTS
  Requests <- All
  MaxSent = 3
  MaxCount = 3
  Heads = 2
  Bodies = 3
  MaxResponses = 3
  Room = 4
INVARIANTS
  TypesOK
  AnswersMatch
  CloseIsAnnounced
  
PROPERTIES
  RequestsAnswered
CHECK_DEADLOCK FALSE
