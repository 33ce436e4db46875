-------------------------- MODULE MC_QueueOperations --------------------------
(* Instances of QueueOperations for TLC. *)
EXTENDS QueueOperations, TLC

CONSTANTS Crashes, Lapses, DbErrors, Elapses, Stops, Unhealthy

\* The bound on each kind of disturbance, from the configuration.
MCMaxFaults ==
  [k \in Faults |-> CASE k = "crash" -> Crashes
                      [] k = "lapse" -> Lapses
                      [] k = "db_error" -> DbErrors
                      [] k = "elapse" -> Elapses
                      [] k = "stop" -> Stops
                      [] k = "unhealthy" -> Unhealthy]

\* Tasks, phones, workers and recovery callers are interchangeable.
MCSymmetry ==
  Permutations(Tasks) \cup Permutations(Phones) \cup Permutations(Workers)
    \cup Permutations(Recoverers)
===============================================================================
