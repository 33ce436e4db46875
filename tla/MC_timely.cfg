SPECIFICATION Spec
CONSTANTS
  Tasks = {t1, t2}
  Phones = {p1, p2}
  Workers = {w1, w2}
  Recoverers = {r1}
  None = None
  MaxRetries = 1
  StopOnFailure = TRUE
  UsbMonitor = FALSE
  OverdueAction = "pause"
  Outcomes = {"published", "debug_ready", "retryable"}
  Crashes = 1
  Lapses = 0
  DbErrors = 1
  Elapses = 1
  Stops = 0
  Unhealthy = 0
  MaxFaults <- MCMaxFaults
SYMMETRY MCSymmetry
INVARIANTS
  ClaimIsCurrent
  StatusMatchesHistory
  PhoneRunsIffTaskRuns
  OneWorkerPerPhone
PROPERTIES
  ImplementsLifecycle
CHECK_DEADLOCK FALSE
