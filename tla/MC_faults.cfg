SPECIFICATION Spec
CONSTANTS
  Tasks = {t1, t2}
  Phones = {p1}
  Workers = {w1, w2}
  Recoverers = {r1, r2}
  None = None
  MaxRetries = 0
  StopOnFailure = FALSE
  UsbMonitor = FALSE
  OverdueAction = "none"
  Outcomes = {"published", "retryable"}
  Crashes = 0
  Lapses = 1
  DbErrors = 0
  Elapses = 0
  Stops = 0
  Unhealthy = 0
  MaxFaults <- MCMaxFaults
SYMMETRY MCSymmetry
INVARIANTS
  TypeOK
  OneRunningTaskPerPhone
CHECK_DEADLOCK FALSE
