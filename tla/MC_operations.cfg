SPECIFICATION OperationsSpec
CONSTANTS
  Tasks = {t1, t2}
  Phones = {p1, p2}
  Workers = {w1}
  Recoverers = {r1}
  None = None
  MaxRetries = 0
  StopOnFailure = TRUE
  UsbMonitor = FALSE
  OverdueAction = "none"
  Outcomes = {"published", "retryable"}
  Crashes = 1
  Lapses = 0
  DbErrors = 0
  Elapses = 0
  Stops = 0
  Unhealthy = 0
  MaxFaults <- MCMaxFaults
  Callers = {c1}
  OperatorStatuses = {"cancelled"}
  MaxOperations = 2
SYMMETRY MCSymmetry
INVARIANTS
  OperationsTypeOK
  UntouchedClaimIsCurrent
  OneRunningTaskUnlessTouched
  PublishedOncePerQueueing
PROPERTIES
  WithdrawnTaskStaysWithdrawn
CHECK_DEADLOCK FALSE
