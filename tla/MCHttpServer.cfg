\* Three connections, two threads, and room for two in the list.
SPECIFICATION HttpSpec
CONSTANTS
  w1 = w1
  w2 = w2
  j1 = j1
  j2 = j2
  j3 = j3
  Main = Main
  None = None
  Threads <- TwoThreads
  Jobs <- ThreeJobs
  MaxQueued = 2
  MaxCount = 1
SYMMETRY Alike
INVARIANTS
  HttpTypeOK
  ReturnLeavesNone
  NoConnectionLost
PROPERTIES
  ImplementsTaskQueue
  KeepsLifecycle
CHECK_DEADLOCK FALSE
