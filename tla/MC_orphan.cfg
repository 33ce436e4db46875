SPECIFICATION Spec
CONSTANTS
  Tasks = {t1}
  Phones = {p1}
  Workers = {w1, w2}
  Recoverers = {r1}
  None = None
  MaxRetries = 1
  StopOnFailure = TRUE
  UsbMonitor = FALSE
  OverdueAction = "reschedule"
  Outcomes = {"published", "retryable"}
  Crashes = 1
  Lapses = 0
  DbErrors = 0
  Elapses = 0
  Stops = 0
  Unhealthy = 0
  MaxFaults <- MCMaxFaults
INVARIANTS
  OnePipelinePerPhone
CHECK_DEADLOCK FALSE
