\* Two start.sh and one stop.sh at any time; three and two with care; two
\* runs of the database setup over each other, and in order; the containers of
\* both schemes.
SPECIFICATION MCSpec
CONSTANTS
  s1 = s1
  s2 = s2
  t1 = t1
  t2 = t2
  CareStarts = {s1, s2, s3}
  CareStops = {t1}
  None = None
  Starts <- TwoStarts
  Stops <- OneStop
  Timeout = 1
  Care = "none"
  Runs <- TwoStarts
  Envs <- Environment
  SeedCount = 3
  Faults = {"stop", "lost"}
  Together = TRUE
  Scheme = "D"
  Steps = 3
  Retries = 5
  StartRetries = 3
  Halts = TRUE
INVARIANTS
  TypesOK
  StoppedHasEnded
  OneNamedServerWithCare
  MarkedIsSeeded
  SeededOnceWhenCalm
  ServesWhatStepsMade
PROPERTIES
  StopsCompletely
  StackComesUp
CHECK_DEADLOCK FALSE
