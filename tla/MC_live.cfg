SPECIFICATION FairSpec
CONSTANTS
  Tasks = {t1}
  Phones = {p1}
  Workers = {w1, w2}
  Recoverers = {r1}
  None = None
  MaxRetries = 1
  StopOnFailure = TRUE
  UsbMonitor = TRUE
  OverdueAction = "reschedule"
  Outcomes = {"published", "retryable"}
  Crashes = 1
  Lapses = 0
  DbErrors = 0
  Elapses = 1
  Stops = 1
  Unhealthy = 1
  MaxFaults <- MCMaxFaults
INVARIANTS
  RunningTaskIsRecoverable
PROPERTIES
  EveryTaskSettles
  EveryPhoneRecovers
CHECK_DEADLOCK FALSE
