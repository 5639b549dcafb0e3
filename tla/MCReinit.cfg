\* Two undisturbed runs of start.sh, one after the other.
SPECIFICATION SetupOnlySpec
CONSTANTS
  s1 = s1
  s2 = s2
  t1 = t1
  t2 = t2
  CareStarts = {s1, s2, s3}
  CareStops = {t1}
  None = None
  Starts <- TwoStarts
  Stops <- OneStop
  Timeout = 1
  Care = "none"
  Runs <- TwoStarts
  Envs <- Usual
  SeedCount = 2
  Faults = {}
  Together = FALSE
  Scheme = "D"
  Steps = 3
  Retries = 5
  StartRetries = 3
  Halts = TRUE
INVARIANTS
  ReinitEmpties
CHECK_DEADLOCK FALSE
