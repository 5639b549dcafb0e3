\* As many threads as connections, and a list without a limit, as in app_a.
SPECIFICATION FairHttpSpec
CONSTANTS
  w1 = w1
  w2 = w2
  j1 = j1
  j2 = j2
  j3 = j3
  Main = Main
  None = None
  Threads <- TwoThreads
  Jobs <- TwoJobs
  MaxQueued = 0
  MaxCount = 1
PROPERTIES
  ConnectionEnds
  ListenReturns
  ImplementsFairTaskQueue
CHECK_DEADLOCK FALSE
