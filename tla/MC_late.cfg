SPECIFICATION Spec
CONSTANTS
  Tasks = {t1}
  Phones = {p1}
  Workers = {w1, w2}
  Recoverers = {r1, r2}
  None = None
  MaxRetries = 1
  StopOnFailure = FALSE
  UsbMonitor = FALSE
  OverdueAction = "none"
  Outcomes = {"published", "retryable", "dry_run"}
  Crashes = 0
  Lapses = 1
  DbErrors = 0
  Elapses = 0
  Stops = 0
  Unhealthy = 0
  MaxFaults <- MCMaxFaults
SYMMETRY MCSymmetry
INVARIANTS
  RunningTaskHasOpenAttempt
  UsageMatchesHistory
  RetriesNeverOvercount
PROPERTIES
  ReportedResultsAreFinal
CHECK_DEADLOCK FALSE
