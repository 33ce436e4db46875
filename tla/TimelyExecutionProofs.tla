------------------------ MODULE TimelyExecutionProofs ------------------------
(* What ExecutionQueue guarantees as long as executions are timely: leases   *)
(* of live workers are renewed before they run out, a worker stops after a   *)
(* failure and one caller recovers at a time; for the status of the phones   *)
(* also that no USB monitor runs.  Every theorem names the part of this that *)
(* it needs; all hold for every number of tasks, phones and workers and any  *)
(* number of crashes, passed target times, stops and failed health checks.   *)
EXTENDS AttemptCountingProofs

\* The lease of a live worker never runs out, and a worker that reported a
\* failure leaves instead of waiting under an inactive row.
LeasesHold == MaxFaults["lapse"] = 0 /\ StopOnFailure

\* The database serves every call of a worker.
NoDbErrors == MaxFaults["db_error"] = 0

\* At most one caller of recover_* at a time.
OneRecoverer == \A q, r \in Recoverers : q = r

Timely == LeasesHold /\ OneRecoverer

-----------------------------------------------------------------------------
(* Leases: a worker that serves its phone keeps an active row.               *)

LeaseInv ==
  /\ \A w \in Workers : Alive(w) => lease[w] # "expired"
  /\ \A w \in Workers : Serving(w) =>
       HoldsLease(w) /\ localStatus[w] \in {"idle", "running"} /\ pc[w] # "cooldown"
  /\ \A r \in Recoverers : \A w \in recovery[r].workers : ~Alive(w)

\* One step per action that writes rows, processes or recovery calls.
LEMMA StepLeases ==
  ASSUME LeasesHold, MemoryOK, LeaseInv, [Next]_vars
  PROVE  LeaseInv'
<1> USE DEF LeaseInv, Alive, Active, HoldsLease, Serving, ACTIVE_WORKER_STATUSES,
            phoneVars, rowVars, claimVars, workerVars
<1>0. /\ pc \in [Workers -> WorkerPcs]
      /\ rowStatus \in [Workers -> ACTIVE_WORKER_STATUSES \cup {"none", "error", "stale", "stopped"}]
      /\ lease \in [Workers -> {"none", "live", "expired"}]
      /\ localStatus \in [Workers -> {"starting", "idle", "running", "error"}]
      /\ RecoveryTyped
  BY DEF MemoryOK, ProcessesTyped, RowsTyped
<1>1. ASSUME NEW w \in Workers, NEW p \in Phones, Launch(w, p) PROVE LeaseInv'
  BY <1>0, <1>1 DEF Launch, Unused
<1>2. ASSUME NEW w \in Workers, Register(w) PROVE LeaseInv'
  <2>1. CASE PhoneTaken(w)
    <3>1. pc' = [pc EXCEPT ![w] = "gone"] /\ UNCHANGED <<rowVars, localStatus, recovery>>
      BY <1>2, <2>1 DEF Register
    <3> QED BY <1>0, <3>1
  <2>2. CASE ~PhoneTaken(w)
    <3>1. /\ pc[w] = "launched" /\ pc' = [pc EXCEPT ![w] = "poll"]
          /\ localStatus' = [localStatus EXCEPT ![w] = "idle"]
          /\ rowStatus' = [rowStatus EXCEPT ![w] = "starting"]
          /\ lease' = [lease EXCEPT ![w] = "live"]
          /\ recovery' = recovery
      BY <1>2, <2>2 DEF Register
    <3> QED BY <1>0, <3>1
  <2> QED BY <2>1, <2>2
<1>3. ASSUME UNCHANGED <<rowVars, recovery>>, NEW w \in Workers, NEW l \in WorkerPcs,
             Serving(w), pc' = [pc EXCEPT ![w] = l],
             \/ localStatus' = [localStatus EXCEPT ![w] = "idle"] /\ l # "cooldown"
             \/ localStatus' = localStatus /\ l # "cooldown"
             \/ l = "exit" /\ localStatus' = [localStatus EXCEPT ![w] = "error"],
             l \notin {"launched", "off", "gone"}
      PROVE  LeaseInv'
  BY <1>0, <1>3
<1>4. ASSUME NEW w \in Workers, BeginHealthCheck(w) \/ NoCandidate(w) PROVE LeaseInv'
  BY <1>3, <1>4 DEF BeginHealthCheck, NoCandidate, Looking, WorkerPcs
<1>5. ASSUME NEW w \in Workers, NEW s \in HealthStatuses, EndHealthCheck(w, s) PROVE LeaseInv'
  BY <1>3, <1>5 DEF EndHealthCheck, WorkerPcs
<1>6. ASSUME NEW w \in Workers, NEW t \in Tasks, SelectCandidate(w, t) PROVE LeaseInv'
  BY <1>3, <1>6 DEF SelectCandidate, Looking, WorkerPcs
<1>7. ASSUME NEW w \in Workers, claim_next(w) \/ ClaimRefused(w) \/ StartPipeline(w)
                                 \/ ReadRetryCount(w)
      PROVE  LeaseInv'
  BY <1>3, <1>7 DEF claim_next, ClaimRefused, StartPipeline, ReadRetryCount, WorkerPcs
<1>8. ASSUME NEW w \in Workers, ClaimHook(w) PROVE LeaseInv'
  BY <1>0, <1>8 DEF ClaimHook
<1>9. ASSUME NEW w \in Workers, NEW o \in Outcomes, RejectBeforeRun(w, o) \/ PipelineEnds(w, o)
      PROVE  LeaseInv'
  BY <1>3, <1>9 DEF RejectBeforeRun, PipelineEnds, Conclude, WorkerPcs
<1>10. ASSUME NEW w \in Workers, mark_success(w) \/ mark_debug_ready(w) PROVE LeaseInv'
  BY <1>3, <1>10 DEF mark_success, mark_debug_ready, BackToPolling, WorkerPcs
<1>11. ASSUME NEW w \in Workers, mark_dry_run(w) PROVE LeaseInv'
  BY <1>3, <1>11 DEF mark_dry_run, BackToPolling, WorkerPcs
<1>12. ASSUME NEW w \in Workers, mark_failure(w) PROVE LeaseInv'
  BY <1>3, <1>12 DEF mark_failure, LeasesHold, WorkerPcs
<1>13. ASSUME NEW w \in Workers, CooldownEnds(w) PROVE LeaseInv'
  BY <1>3, <1>13 DEF CooldownEnds, BackToPolling, WorkerPcs
<1>14. ASSUME NEW w \in Workers, StopWorker(w) \/ WorkerException(w) PROVE LeaseInv'
  BY <1>3, <1>14 DEF StopWorker, WorkerException, WorkerPcs
<1>15. ASSUME NEW w \in Workers, finish(w) PROVE LeaseInv'
  BY <1>0, <1>15 DEF finish, ProcessEnds
<1>16. ASSUME NEW w \in Workers, Crash(w) PROVE LeaseInv'
  BY <1>0, <1>16 DEF Crash, ProcessEnds
<1>17. ASSUME NEW w \in Workers, Heartbeat(w) PROVE LeaseInv'
  BY <1>0, <1>17 DEF Heartbeat
<1>18. ASSUME NEW w \in Workers, OrphanEnds(w) PROVE LeaseInv'
  BY <1>18 DEF OrphanEnds
<1>19. ASSUME NEW w \in Workers, LeaseExpires(w) PROVE LeaseInv'
  BY <1>0, <1>19 DEF LeaseExpires, Expire
<1>20. ASSUME NEW w \in Workers, LeaseLapses(w) PROVE LeaseInv'
  <2>1. faults["lapse"] \in Nat
    BY DEF MemoryOK, Faults
  <2> QED BY <1>20, <2>1 DEF LeaseLapses, Disturb, LeasesHold
<1>21. ASSUME NEW r \in Recoverers, recover_stale(r) \/ recover_dead_processes(r) PROVE LeaseInv'
  <2>1. PICK S \in {ExpiredRows, DeadRows} : SelectForRecovery(r, S)
    BY <1>21 DEF recover_stale, recover_dead_processes
  <2>2. \A w \in S : w \in Workers /\ ~Alive(w)
    BY <2>1 DEF ExpiredRows, DeadRows
  <2>3. \A q \in Recoverers : recovery'[q].workers = IF q = r THEN S ELSE recovery[q].workers
    BY <1>0, <2>1 DEF SelectForRecovery, NoRecovery, RecoveryTyped
  <2> QED BY <2>1, <2>2, <2>3 DEF SelectForRecovery
<1>22. ASSUME NEW r \in Recoverers, NEW w \in Workers, ReadLockedTasks(r, w) PROVE LeaseInv'
  BY <1>0, <1>22 DEF ReadLockedTasks, RecoveryTyped
<1>23. ASSUME NEW r \in Recoverers, recover_worker(r) PROVE LeaseInv'
  BY <1>0, <1>23 DEF recover_worker, NoRecovery, RecoveryTyped
<1>24. ASSUME UNCHANGED <<rowVars, workerVars, recovery>> PROVE LeaseInv'
  BY <1>24
<1>25. ASSUME reschedule_overdue_tasks \/ pause_overdue_tasks PROVE LeaseInv'
  BY <1>24, <1>25 DEF reschedule_overdue_tasks, pause_overdue_tasks
<1>26. ASSUME NEW p \in Phones, MonitorStep(p) PROVE LeaseInv'
  BY <1>24, <1>26 DEF MonitorStep, BeginUsbCheck, EndUsbCheck
<1>27. ASSUME NEW t \in Tasks, Elapse(t) PROVE LeaseInv'
  BY <1>24, <1>27 DEF Elapse
<1>28. CASE UNCHANGED vars
  BY <1>24, <1>28 DEF vars
<1> QED
  BY <1>1, <1>2, <1>4, <1>5, <1>6, <1>7, <1>8, <1>9, <1>10, <1>11, <1>12, <1>13, <1>14, <1>15,
     <1>16, <1>17, <1>18, <1>19, <1>20, <1>21, <1>22, <1>23, <1>25, <1>26, <1>27, <1>28
  DEF Next, WorkerStep, RecoveryStep

\* Who serves a phone has registered for it and has kept it since.
LEMMA ServingStep ==
  ASSUME MemoryOK, [Next]_vars, NEW w \in Workers, Serving(w)'
  PROVE  \/ Serving(w) /\ phoneOf'[w] = phoneOf[w]
         \/ Register(w) /\ ~PhoneTaken(w) /\ phoneOf' = phoneOf
<1> USE DEF Serving, Alive, claimVars, workerVars
<1>0. pc \in [Workers -> WorkerPcs] /\ phoneOf \in [Workers -> Phones \cup {None}]
  BY DEF MemoryOK, ProcessesTyped
<1> DEFINE Goal == \/ Serving(w) /\ phoneOf'[w] = phoneOf[w]
                   \/ Register(w) /\ ~PhoneTaken(w) /\ phoneOf' = phoneOf
<1>1. ASSUME NEW v \in Workers, NEW l \in WorkerPcs, pc' = [pc EXCEPT ![v] = l],
             phoneOf' = phoneOf, Serving(v) \/ l \in {"exit", "gone"}
      PROVE  Goal
  BY <1>0, <1>1
<1>2. ASSUME pc' = pc, phoneOf' = phoneOf PROVE Goal
  BY <1>2
<1>3. ASSUME NEW v \in Workers, NEW p \in Phones, Launch(v, p) PROVE Goal
  BY <1>0, <1>3 DEF Launch
<1>4. ASSUME NEW v \in Workers, Register(v) PROVE Goal
  <2>1. CASE PhoneTaken(v)
    BY <1>0, <1>4, <2>1 DEF Register
  <2>2. CASE ~PhoneTaken(v)
    BY <1>0, <1>4, <2>2 DEF Register
  <2> QED BY <2>1, <2>2
<1>5. ASSUME NEW v \in Workers, BeginHealthCheck(v) \/ NoCandidate(v) PROVE Goal
  BY <1>1, <1>5 DEF BeginHealthCheck, NoCandidate, Looking, WorkerPcs
<1>6. ASSUME NEW v \in Workers, NEW s \in HealthStatuses, EndHealthCheck(v, s) PROVE Goal
  BY <1>1, <1>6 DEF EndHealthCheck, WorkerPcs
<1>7. ASSUME NEW v \in Workers, NEW t \in Tasks, SelectCandidate(v, t) PROVE Goal
  BY <1>1, <1>7 DEF SelectCandidate, Looking, WorkerPcs
<1>8. ASSUME NEW v \in Workers, claim_next(v) \/ ClaimRefused(v) \/ ClaimHook(v)
                                \/ StartPipeline(v) \/ ReadRetryCount(v)
      PROVE  Goal
  BY <1>1, <1>8 DEF claim_next, ClaimRefused, ClaimHook, StartPipeline, ReadRetryCount, WorkerPcs
<1>9. ASSUME NEW v \in Workers, NEW o \in Outcomes, RejectBeforeRun(v, o) \/ PipelineEnds(v, o)
      PROVE  Goal
  BY <1>1, <1>9 DEF RejectBeforeRun, PipelineEnds, Conclude, WorkerPcs
<1>10. ASSUME NEW v \in Workers, mark_success(v) \/ mark_debug_ready(v) PROVE Goal
  BY <1>1, <1>10 DEF mark_success, mark_debug_ready, BackToPolling, WorkerPcs
<1>11. ASSUME NEW v \in Workers, mark_dry_run(v) PROVE Goal
  BY <1>1, <1>11 DEF mark_dry_run, BackToPolling, WorkerPcs
<1>12. ASSUME NEW v \in Workers, mark_failure(v) PROVE Goal
  BY <1>1, <1>12 DEF mark_failure, WorkerPcs
<1>13. ASSUME NEW v \in Workers, CooldownEnds(v) \/ StopWorker(v) \/ WorkerException(v) PROVE Goal
  BY <1>1, <1>13 DEF CooldownEnds, BackToPolling, StopWorker, WorkerException, WorkerPcs
<1>14. ASSUME NEW v \in Workers, finish(v) \/ Crash(v) PROVE Goal
  BY <1>1, <1>14 DEF finish, Crash, ProcessEnds, WorkerPcs
<1>15. ASSUME NEW v \in Workers, Heartbeat(v) \/ OrphanEnds(v) \/ LeaseExpires(v)
                                 \/ LeaseLapses(v)
       PROVE  Goal
  BY <1>2, <1>15 DEF Heartbeat, OrphanEnds, LeaseExpires, LeaseLapses, Expire
<1>16. ASSUME NEW r \in Recoverers, RecoveryStep(r) PROVE Goal
  BY <1>2, <1>16
  DEF RecoveryStep, recover_stale, recover_dead_processes, SelectForRecovery,
      ReadLockedTasks, recover_worker
<1>17. ASSUME NEW p \in Phones, MonitorStep(p) PROVE Goal
  BY <1>2, <1>17 DEF MonitorStep, BeginUsbCheck, EndUsbCheck
<1>18. ASSUME reschedule_overdue_tasks \/ pause_overdue_tasks PROVE Goal
  BY <1>2, <1>18 DEF reschedule_overdue_tasks, pause_overdue_tasks
<1>19. ASSUME NEW t \in Tasks, Elapse(t) PROVE Goal
  BY <1>2, <1>19 DEF Elapse
<1>20. CASE UNCHANGED vars
  BY <1>2, <1>20 DEF vars
<1> QED
  BY <1>3, <1>4, <1>5, <1>6, <1>7, <1>8, <1>9, <1>10, <1>11, <1>12, <1>13, <1>14, <1>15, <1>16,
     <1>17, <1>18, <1>19, <1>20
  DEF Next, WorkerStep

\* A registration sees the lease of whoever serves the phone, so it is refused.
LEMMA StepOneWorker ==
  ASSUME MemoryOK, LeaseInv, OneWorkerPerPhone, [Next]_vars
  PROVE  OneWorkerPerPhone'
<1> SUFFICES ASSUME NEW v \in Workers, NEW w \in Workers, Serving(v)', Serving(w)',
                    phoneOf'[v] = phoneOf'[w], v # w
             PROVE  FALSE
  BY DEF OneWorkerPerPhone, Serving, Alive
<1>1. CASE Serving(v) /\ phoneOf'[v] = phoneOf[v] /\ Serving(w) /\ phoneOf'[w] = phoneOf[w]
  BY <1>1 DEF OneWorkerPerPhone
<1>2. CASE Register(v) /\ ~PhoneTaken(v) /\ phoneOf' = phoneOf /\ Serving(w)
  BY <1>2 DEF PhoneTaken, LeaseInv
<1>3. CASE Register(w) /\ ~PhoneTaken(w) /\ phoneOf' = phoneOf /\ Serving(v)
  BY <1>3 DEF PhoneTaken, LeaseInv
<1>4. ~(Register(v) /\ Register(w))
  BY DEF Register, MemoryOK, ProcessesTyped
<1> QED BY <1>1, <1>2, <1>3, <1>4, ServingStep

\* Without a lost lease at most one worker serves a phone, for any number of
\* launched processes: the leases that register looks at tell who serves.
THEOREM OneWorkerPerPhoneHolds ==
  ASSUME LeasesHold PROVE Spec => []OneWorkerPerPhone
<1>1. Init => TypeInv /\ LeaseInv /\ OneWorkerPerPhone
  <2>1. Init => LeaseInv /\ OneWorkerPerPhone
    BY DEF Init, LeaseInv, OneWorkerPerPhone, Alive, Serving, NoRecovery
  <2> QED BY <2>1, InitTyped
<1>2. TypeInv /\ LeaseInv /\ OneWorkerPerPhone /\ [Next]_vars
        => (TypeInv /\ LeaseInv /\ OneWorkerPerPhone)'
  BY StepTyped, MemoryOfTypes, StepLeases, StepOneWorker
<1> QED BY <1>1, <1>2, PTL DEF Spec

-----------------------------------------------------------------------------
(* Running tasks can be recovered.                                           *)

\* A running task is worked on by its owner, or its owner is dead and still
\* has an active row, by which the recovery calls find it.
TasksHeld ==
  \A t \in Tasks : status[t] = "running" =>
    /\ lockedBy[t] \in Workers
    /\ \/ pc[lockedBy[t]] \in Working /\ claim[lockedBy[t]].task = t
       \/ ~Alive(lockedBy[t]) /\ Active(lockedBy[t])

\* A recovery call has read every task that its first worker left behind.
ReadsComplete ==
  \A r \in Recoverers : recovery[r].pc = "read" =>
    /\ recovery[r].first \in recovery[r].workers
    /\ RunningTasksLockedBy(recovery[r].first) \subseteq recovery[r].tasks

\* A task starts to run by a claim only, and changes its owner by a claim only.
LEMMA RunningStep ==
  ASSUME TypeInv, [Next]_vars, NEW t \in Tasks, status'[t] = "running"
  PROVE  \/ \E w \in Workers : claim_next(w) /\ t = claim[w].task
         \/ status[t] = "running" /\ lockedBy'[t] = lockedBy[t]
<1>1. CASE Quiet
  BY <1>1 DEF Quiet
<1>2. ASSUME NEW w \in Workers, claim_next(w), t # claim[w].task
      PROVE  status[t] = "running" /\ lockedBy'[t] = lockedBy[t]
  BY <1>2 DEF claim_next, TypeInv, TypeOK, TasksTyped
<1>3. ASSUME NEW w \in Workers, Reported(w)
      PROVE  status[t] = "running" /\ lockedBy'[t] = lockedBy[t]
  BY <1>3 DEF Reported, Settle, TypeInv, TypeOK, TasksTyped
<1>4. ASSUME NEW r \in Recoverers, recover_worker(r)
      PROVE  status[t] = "running" /\ lockedBy'[t] = lockedBy[t]
  BY <1>4 DEF recover_worker
<1> QED BY <1>1, <1>2, <1>3, <1>4, Effects

\* A worker lets go of its task by reporting it or by dying under an active
\* row; a dead worker's row is closed by recovery only.
LEMMA HolderStep ==
  ASSUME LeasesHold, NoDbErrors, TypeInv, LeaseInv, [Next]_vars, NEW w \in Workers
  PROVE  /\ pc[w] \in Working =>
              \/ pc'[w] \in Working /\ claim'[w] = claim[w]
              \/ Reported(w)
              \/ ~Alive(w)' /\ Active(w)'
         /\ ~Alive(w) /\ Active(w) =>
              \/ ~Alive(w)' /\ Active(w)'
              \/ \E r \in Recoverers : recover_worker(r) /\ w \in recovery[r].workers
<1> DEFINE Goal ==
      /\ pc[w] \in Working =>
           \/ pc'[w] \in Working /\ claim'[w] = claim[w]
           \/ Reported(w)
           \/ ~Alive(w)' /\ Active(w)'
      /\ ~Alive(w) /\ Active(w) =>
           \/ ~Alive(w)' /\ Active(w)'
           \/ \E r \in Recoverers : recover_worker(r) /\ w \in recovery[r].workers
<1> USE DEF Working, Holding, Alive, Active, ACTIVE_WORKER_STATUSES, phoneVars, rowVars,
            claimVars, workerVars
<1>0. /\ pc \in [Workers -> WorkerPcs]
      /\ claim \in [Workers -> [task : Tasks \cup {None}, attempt : Nat]]
      /\ rowStatus \in [Workers -> ACTIVE_WORKER_STATUSES \cup {"none", "error", "stale", "stopped"}]
      /\ localStatus \in [Workers -> {"starting", "idle", "running", "error"}]
  BY DEF TypeInv, TypeOK, ProcessesTyped, RowsTyped
<1>1. ASSUME NEW v \in Workers, NEW l \in WorkerPcs, Alive(v), pc[v] \notin Working,
             pc' = [pc EXCEPT ![v] = l],
             \A u \in Workers \ {v} : rowStatus'[u] = rowStatus[u] /\ claim'[u] = claim[u]
      PROVE  Goal
  BY <1>0, <1>1
<1>2. ASSUME NEW v \in Workers, NEW l \in Working, pc[v] \in Working,
             pc' = [pc EXCEPT ![v] = l], claim' = claim,
             \A u \in Workers \ {v} : rowStatus'[u] = rowStatus[u]
      PROVE  Goal
  BY <1>0, <1>2
<1>3. ASSUME NEW v \in Workers, Reported(v), NEW l \in WorkerPcs,
             pc' = [pc EXCEPT ![v] = l], rowStatus' = rowStatus
      PROVE  Goal
  <2>1. \A u \in Workers \ {v} : claim'[u] = claim[u]
    BY <1>0, <1>3 DEF Reported, ForgetClaim
  <2>2. pc[v] \in Working
    BY <1>3 DEF Reported
  <2> QED BY <1>0, <1>3, <2>1, <2>2
<1>4. ASSUME pc' = pc, claim' = claim,
             \A u \in Workers : ~Alive(u) => rowStatus'[u] = rowStatus[u]
      PROVE  Goal
  BY <1>4
<1>5. ASSUME NEW v \in Workers, NEW p \in Phones, Launch(v, p) PROVE Goal
  BY <1>0, <1>5 DEF Launch, Unused
<1>6. ASSUME NEW v \in Workers, Register(v) PROVE Goal
  <2>1. PICK l \in {"gone", "poll"} : pc' = [pc EXCEPT ![v] = l]
    BY <1>6 DEF Register
  <2>2. \A u \in Workers \ {v} : rowStatus'[u] = rowStatus[u] /\ claim'[u] = claim[u]
    BY <1>0, <1>6 DEF Register
  <2>3. Alive(v) /\ pc[v] \notin Working
    BY <1>6 DEF Register
  <2>4. l \in WorkerPcs
    BY DEF WorkerPcs
  <2> QED BY <1>1, <2>1, <2>2, <2>3, <2>4
<1>7. ASSUME NEW v \in Workers, BeginHealthCheck(v) \/ NoCandidate(v) PROVE Goal
  BY <1>1, <1>7 DEF BeginHealthCheck, NoCandidate, Looking, WorkerPcs
<1>8. ASSUME NEW v \in Workers, NEW s \in HealthStatuses, EndHealthCheck(v, s) PROVE Goal
  BY <1>1, <1>8 DEF EndHealthCheck, WorkerPcs
<1>9. ASSUME NEW v \in Workers, NEW t \in Tasks, SelectCandidate(v, t) PROVE Goal
  BY <1>0, <1>1, <1>9 DEF SelectCandidate, Looking, WorkerPcs
<1>10. ASSUME NEW v \in Workers, claim_next(v) PROVE Goal
  <2>1. \A u \in Workers \ {v} : claim'[u] = claim[u]
    BY <1>0, <1>10 DEF claim_next
  <2>2. /\ pc[v] = "claim" /\ pc' = [pc EXCEPT ![v] = "prepare"] /\ rowStatus' = rowStatus
    BY <1>10 DEF claim_next
  <2> QED BY <1>1, <2>1, <2>2 DEF WorkerPcs
<1>11. ASSUME NEW v \in Workers, ClaimRefused(v) PROVE Goal
  BY <1>0, <1>1, <1>11 DEF ClaimRefused, WorkerPcs
<1>12. ASSUME NEW v \in Workers, ClaimHook(v) \/ StartPipeline(v) \/ ReadRetryCount(v) PROVE Goal
  BY <1>0, <1>2, <1>12 DEF ClaimHook, StartPipeline, ReadRetryCount
<1>13. ASSUME NEW v \in Workers, NEW o \in Outcomes, RejectBeforeRun(v, o) \/ PipelineEnds(v, o)
       PROVE  Goal
  BY <1>2, <1>13 DEF RejectBeforeRun, PipelineEnds, Conclude
<1>14. ASSUME NEW v \in Workers, mark_success(v) PROVE Goal
  <2>1. Reported(v)
    BY <1>14 DEF mark_success, Reported, ReportedResults, TaskStatuses
  <2> QED BY <1>3, <1>14, <2>1 DEF mark_success, BackToPolling, WorkerPcs
<1>15. ASSUME NEW v \in Workers, mark_debug_ready(v) PROVE Goal
  <2>1. Reported(v)
    BY <1>15 DEF mark_debug_ready, Reported, ReportedResults, TaskStatuses
  <2> QED BY <1>3, <1>15, <2>1 DEF mark_debug_ready, BackToPolling, WorkerPcs
<1>16. ASSUME NEW v \in Workers, mark_dry_run(v) PROVE Goal
  <2>1. Reported(v)
    BY <1>16 DEF mark_dry_run, Reported, ReportedResults, TaskStatuses
  <2> QED BY <1>3, <1>16, <2>1 DEF mark_dry_run, BackToPolling, WorkerPcs
<1>17. ASSUME NEW v \in Workers, mark_failure(v) PROVE Goal
  <2>1. Reported(v)
    BY <1>17 DEF mark_failure, NextStatusAfterFailure, Reported, ReportedResults, TaskStatuses,
                 CLAIMABLE_TASK_STATUSES
  <2>2. PICK l \in {"exit", "cooldown"} : pc' = [pc EXCEPT ![v] = l]
    BY <1>17 DEF mark_failure
  <2> QED BY <1>3, <1>17, <2>1, <2>2 DEF mark_failure, WorkerPcs
<1>18. ASSUME NEW v \in Workers, CooldownEnds(v) \/ StopWorker(v) PROVE Goal
  BY <1>1, <1>18 DEF CooldownEnds, BackToPolling, StopWorker, WorkerPcs
<1>19. ASSUME NEW v \in Workers, WorkerException(v) PROVE Goal
  <2>1. faults["db_error"] \in Nat
    BY DEF TypeInv, TypeOK, Faults
  <2> QED BY <1>19, <2>1 DEF WorkerException, Disturb, NoDbErrors
<1>20. ASSUME NEW v \in Workers, finish(v) PROVE Goal
  BY <1>0, <1>1, <1>20 DEF finish, ProcessEnds, ForgetClaim, WorkerPcs
<1>21. ASSUME NEW v \in Workers, Crash(v) PROVE Goal
  <2>1. \A u \in Workers \ {v} : claim'[u] = claim[u]
    BY <1>0, <1>21 DEF Crash, ProcessEnds, ForgetClaim
  <2>2. pc' = [pc EXCEPT ![v] = "gone"] /\ rowStatus' = rowStatus /\ Alive(v)
    BY <1>21 DEF Crash, ProcessEnds
  <2>3. pc[v] \in Working => Active(v)
    BY DEF LeaseInv, Serving, HoldsLease
  <2> QED BY <1>0, <2>1, <2>2, <2>3
<1>22. ASSUME NEW v \in Workers, Heartbeat(v) PROVE Goal
  BY <1>0, <1>4, <1>22 DEF Heartbeat
<1>23. ASSUME NEW v \in Workers, OrphanEnds(v) \/ LeaseExpires(v) \/ LeaseLapses(v) PROVE Goal
  BY <1>4, <1>23 DEF OrphanEnds, LeaseExpires, LeaseLapses, Expire
<1>24. ASSUME NEW r \in Recoverers, recover_worker(r) PROVE Goal
  BY <1>24 DEF recover_worker
<1>25. ASSUME NEW r \in Recoverers,
              \/ recover_stale(r) \/ recover_dead_processes(r)
              \/ \E v \in Workers : ReadLockedTasks(r, v)
       PROVE  Goal
  BY <1>4, <1>25
  DEF recover_stale, recover_dead_processes, SelectForRecovery, ReadLockedTasks
<1>26. ASSUME reschedule_overdue_tasks \/ pause_overdue_tasks PROVE Goal
  BY <1>4, <1>26 DEF reschedule_overdue_tasks, pause_overdue_tasks
<1>27. ASSUME NEW p \in Phones, MonitorStep(p) PROVE Goal
  BY <1>4, <1>27 DEF MonitorStep, BeginUsbCheck, EndUsbCheck
<1>28. ASSUME NEW t \in Tasks, Elapse(t) PROVE Goal
  BY <1>4, <1>28 DEF Elapse
<1>29. CASE UNCHANGED vars
  BY <1>4, <1>29 DEF vars
<1> QED
  BY <1>5, <1>6, <1>7, <1>8, <1>9, <1>10, <1>11, <1>12, <1>13, <1>14, <1>15, <1>16, <1>17,
     <1>18, <1>19, <1>20, <1>21, <1>22, <1>23, <1>24, <1>25, <1>26, <1>27, <1>28, <1>29
  DEF Next, WorkerStep, RecoveryStep

\* A recovery call that has read its tasks keeps what it read until it writes.
LEMMA ReadStep ==
  ASSUME MemoryOK, [Next]_vars, NEW r \in Recoverers, recovery'[r].pc = "read"
  PROVE  \/ \E w \in Workers : ReadLockedTasks(r, w)
         \/ recovery'[r] = recovery[r]
<1> DEFINE Goal == \/ \E w \in Workers : ReadLockedTasks(r, w)
                   \/ recovery'[r] = recovery[r]
<1>0. recovery \in [Recoverers -> [pc : {"idle", "selected", "read"}, workers : SUBSET Workers,
                                   first : Workers \cup {None}, tasks : SUBSET Tasks]]
  BY DEF MemoryOK, RecoveryTyped
<1>1. ASSUME NEW q \in Recoverers, recover_stale(q) \/ recover_dead_processes(q) PROVE Goal
  BY <1>0, <1>1 DEF recover_stale, recover_dead_processes, SelectForRecovery, NoRecovery
<1>2. ASSUME NEW q \in Recoverers, NEW w \in Workers, ReadLockedTasks(q, w) PROVE Goal
  BY <1>0, <1>2 DEF ReadLockedTasks
<1>3. ASSUME NEW q \in Recoverers, recover_worker(q) PROVE Goal
  BY <1>0, <1>3 DEF recover_worker, NoRecovery
<1>4. ASSUME NEW w \in Workers, WorkerStep(w) PROVE Goal
  BY <1>4
  DEF WorkerStep, Register, BeginHealthCheck, NoCandidate, EndHealthCheck, SelectCandidate,
      claim_next, ClaimRefused, ClaimHook, StartPipeline, RejectBeforeRun, PipelineEnds,
      mark_success, mark_debug_ready, mark_dry_run, ReadRetryCount, mark_failure,
      CooldownEnds, finish
<1>5. ASSUME NEW w \in Workers, \/ Heartbeat(w) \/ OrphanEnds(w) \/ LeaseExpires(w)
                                 \/ LeaseLapses(w) \/ WorkerException(w) \/ StopWorker(w)
                                 \/ Crash(w) \/ \E p \in Phones : Launch(w, p)
      PROVE  Goal
  BY <1>5
  DEF Heartbeat, OrphanEnds, LeaseExpires, LeaseLapses, Expire, WorkerException, StopWorker,
      Crash, Launch
<1>6. ASSUME reschedule_overdue_tasks \/ pause_overdue_tasks PROVE Goal
  BY <1>6 DEF reschedule_overdue_tasks, pause_overdue_tasks
<1>7. ASSUME NEW p \in Phones, MonitorStep(p) PROVE Goal
  BY <1>7 DEF MonitorStep, BeginUsbCheck, EndUsbCheck
<1>8. ASSUME NEW t \in Tasks, Elapse(t) PROVE Goal
  BY <1>8 DEF Elapse
<1>9. CASE UNCHANGED vars
  BY <1>9 DEF vars
<1> QED BY <1>1, <1>2, <1>3, <1>4, <1>5, <1>6, <1>7, <1>8, <1>9 DEF Next, RecoveryStep

\* A dead worker claims nothing, so what was read of it stays complete.
LEMMA StepReadsComplete ==
  ASSUME TypeInv, LeaseInv, ReadsComplete, [Next]_vars
  PROVE  ReadsComplete'
<1> SUFFICES ASSUME NEW r \in Recoverers, recovery'[r].pc = "read"
             PROVE  /\ recovery'[r].first \in recovery'[r].workers
                    /\ \A t \in Tasks : status'[t] = "running" /\ lockedBy'[t] = recovery'[r].first
                                         => t \in recovery'[r].tasks
  BY DEF ReadsComplete, RunningTasksLockedBy
<1>1. ASSUME NEW w \in Workers, ReadLockedTasks(r, w)
      PROVE  /\ recovery'[r].first \in recovery'[r].workers
             /\ \A t \in Tasks : status'[t] = "running" /\ lockedBy'[t] = recovery'[r].first
                                  => t \in recovery'[r].tasks
  BY <1>1 DEF ReadLockedTasks, RunningTasksLockedBy, taskVars, TypeInv, TypeOK, RecoveryTyped
<1>2. CASE recovery'[r] = recovery[r]
  <2>1. /\ recovery[r].first \in recovery[r].workers
        /\ RunningTasksLockedBy(recovery[r].first) \subseteq recovery[r].tasks
        /\ recovery[r].first \in Workers
    BY <1>2 DEF ReadsComplete, TypeInv, TypeOK, RecoveryTyped
  <2>2. ~Alive(recovery[r].first)
    BY <2>1 DEF LeaseInv
  <2>3. ASSUME NEW t \in Tasks, status'[t] = "running", lockedBy'[t] = recovery[r].first
        PROVE  t \in recovery[r].tasks
    <3>1. ASSUME NEW w \in Workers, claim_next(w), t = claim[w].task PROVE FALSE
      <4>1. lockedBy'[t] = w
        BY <3>1 DEF claim_next, TypeInv, TypeOK, TasksTyped
      <4> QED BY <2>2, <2>3, <3>1, <4>1 DEF claim_next, Alive
    <3>2. status[t] = "running" /\ lockedBy[t] = recovery[r].first
      BY <2>3, <3>1, RunningStep
    <3> QED BY <2>1, <3>2 DEF RunningTasksLockedBy
  <2> QED BY <1>2, <2>1, <2>3
<1> QED BY <1>1, <1>2, MemoryOfTypes, ReadStep

\* Owners keep their tasks until they report them or recovery takes them.
LEMMA StepTasksHeld ==
  ASSUME LeasesHold, NoDbErrors, TypeInv, LeaseInv, ReadsComplete, TasksHeld, [Next]_vars
  PROVE  TasksHeld'
<1> SUFFICES ASSUME NEW t \in Tasks, status'[t] = "running", NEW w, w = lockedBy'[t]
             PROVE  /\ w \in Workers
                    /\ \/ pc'[w] \in Working /\ claim'[w].task = t
                       \/ ~Alive(w)' /\ Active(w)'
  BY DEF TasksHeld, Alive, Active
<1>1. ASSUME NEW v \in Workers, claim_next(v), t = claim[v].task
      PROVE  w = v /\ pc'[v] \in Working /\ claim'[v].task = t
  BY <1>1 DEF claim_next, Working, Holding, TypeInv, TypeOK, TasksTyped, ProcessesTyped
<1>2. CASE status[t] = "running" /\ lockedBy[t] = w
  <2>1. /\ w \in Workers
        /\ \/ pc[w] \in Working /\ claim[w].task = t
           \/ ~Alive(w) /\ Active(w)
    BY <1>2 DEF TasksHeld
  <2>2. ~(Reported(w) /\ claim[w].task = t)
    BY DEF Reported, Settle, TypeInv, TypeOK, TasksTyped
  <2>3. ASSUME NEW r \in Recoverers, recover_worker(r), w \in recovery[r].workers PROVE FALSE
    <3>1. t \in RunningTasksLockedBy(w)
      BY <1>2 DEF RunningTasksLockedBy
    <3>2. t \in TasksToRecover(r)
      BY <2>3, <3>1 DEF TasksToRecover, recover_worker, ReadsComplete
    <3> QED BY <2>3, <3>2 DEF recover_worker
  <2> QED BY <2>1, <2>2, <2>3, HolderStep
<1> QED BY <1>1, <1>2, RunningStep

\* Without lost leases and database errors no task is stuck in running: its
\* owner is alive or has an active row, however many workers crash and however
\* many recovery calls overlap.
THEOREM RunningTaskIsRecoverableHolds ==
  ASSUME LeasesHold, NoDbErrors PROVE Spec => []RunningTaskIsRecoverable
<1> DEFINE Inv == TypeInv /\ LeaseInv /\ ReadsComplete /\ TasksHeld
<1>1. Init => Inv
  <2>1. Init => LeaseInv /\ ReadsComplete /\ TasksHeld
    BY DEF Init, LeaseInv, ReadsComplete, TasksHeld, Alive, Serving, NoRecovery
  <2> QED BY <2>1, InitTyped
<1>2. Inv /\ [Next]_vars => Inv'
  BY StepTyped, MemoryOfTypes, StepLeases, StepReadsComplete, StepTasksHeld
<1>3. Inv => RunningTaskIsRecoverable
  BY DEF TasksHeld, RunningTaskIsRecoverable, Working, Holding, Alive
<1> QED BY <1>1, <1>2, <1>3, PTL DEF Spec

-----------------------------------------------------------------------------
(* Claims: a worker that holds an attempt is working on it, on its phone.    *)

\* Whoever uses a task uses one of its own phone.
ClaimsOnPhone ==
  \A w \in Workers : pc[w] \in Holding => taskPhone[claim[w].task] = phoneOf[w]

\* A claim is held exactly while it is worked on.
ClaimsWhileWorking == \A w \in Workers : claim[w].attempt # 0 <=> pc[w] \in Working

\* How a worker gets to a task, to a health check and rid of a claim.
LEMMA WaitStep ==
  ASSUME MemoryOK, [Next]_vars, NEW v \in Workers
  PROVE  /\ pc'[v] = "claim" =>
              \/ \E t \in Tasks : SelectCandidate(v, t)
              \/ pc[v] = "claim" /\ claim'[v] = claim[v]
         /\ pc'[v] = "health" => BeginHealthCheck(v) \/ pc[v] = "health"
         /\ claim'[v].attempt # 0 =>
              \/ claim_next(v)
              \/ claim'[v] = claim[v] /\ (pc[v] \in Working => pc'[v] \in Working)
<1> DEFINE Goal ==
      /\ pc'[v] = "claim" =>
           \/ \E t \in Tasks : SelectCandidate(v, t)
           \/ pc[v] = "claim" /\ claim'[v] = claim[v]
      /\ pc'[v] = "health" => BeginHealthCheck(v) \/ pc[v] = "health"
      /\ claim'[v].attempt # 0 =>
           \/ claim_next(v)
           \/ claim'[v] = claim[v] /\ (pc[v] \in Working => pc'[v] \in Working)
<1> USE DEF Working, Holding, claimVars, workerVars
<1>0. /\ pc \in [Workers -> WorkerPcs]
      /\ claim \in [Workers -> [task : Tasks \cup {None}, attempt : Nat]]
  BY DEF MemoryOK, ProcessesTyped
<1>1. ASSUME NEW w \in Workers, NEW l, pc' = [pc EXCEPT ![w] = l], claim' = claim,
             pc[w] \notin Working, l \notin {"claim", "health"}
      PROVE  Goal
  BY <1>0, <1>1
<1>2. ASSUME NEW w \in Workers, NEW l \in Working, pc' = [pc EXCEPT ![w] = l], claim' = claim
      PROVE  Goal
  BY <1>0, <1>2
<1>3. ASSUME NEW w \in Workers, NEW l, pc' = [pc EXCEPT ![w] = l], ForgetClaim(w),
             l \notin {"claim", "health"}
      PROVE  Goal
  BY <1>0, <1>3 DEF ForgetClaim, NoClaim
<1>4. ASSUME pc' = pc, claim' = claim PROVE Goal
  BY <1>4
<1>5. ASSUME NEW w \in Workers, NEW p \in Phones, Launch(w, p) PROVE Goal
  BY <1>1, <1>5 DEF Launch, Unused
<1>6. ASSUME NEW w \in Workers, Register(w) PROVE Goal
  BY <1>1, <1>6 DEF Register
<1>7. ASSUME NEW w \in Workers, BeginHealthCheck(w) PROVE Goal
  <2>1. pc[w] = "poll" /\ pc' = [pc EXCEPT ![w] = "health"] /\ claim' = claim
    BY <1>7 DEF BeginHealthCheck
  <2> QED BY <1>0, <1>7, <2>1
<1>8. ASSUME NEW w \in Workers, NoCandidate(w) PROVE Goal
  BY <1>1, <1>8 DEF NoCandidate, Looking
<1>9. ASSUME NEW w \in Workers, NEW s \in HealthStatuses, EndHealthCheck(w, s) PROVE Goal
  BY <1>1, <1>9 DEF EndHealthCheck
<1>10. ASSUME NEW w \in Workers, NEW t \in Tasks, SelectCandidate(w, t) PROVE Goal
  <2>1. /\ pc' = [pc EXCEPT ![w] = "claim"]
        /\ claim' = [claim EXCEPT ![w] = [task |-> t, attempt |-> 0]]
    BY <1>10 DEF SelectCandidate
  <2> QED BY <1>0, <1>10, <2>1
<1>11. ASSUME NEW w \in Workers, claim_next(w) PROVE Goal
  <2>1. pc' = [pc EXCEPT ![w] = "prepare"] /\ \A u \in Workers \ {w} : claim'[u] = claim[u]
    BY <1>0, <1>11 DEF claim_next
  <2> QED BY <1>0, <1>11, <2>1
<1>12. ASSUME NEW w \in Workers, ClaimRefused(w) PROVE Goal
  <2>1. pc' = [pc EXCEPT ![w] = "poll"] /\ claim' = [claim EXCEPT ![w] = NoClaim]
    BY <1>12 DEF ClaimRefused
  <2> QED BY <1>0, <2>1 DEF NoClaim
<1>13. ASSUME NEW w \in Workers, ClaimHook(w) \/ StartPipeline(w) \/ ReadRetryCount(w) PROVE Goal
  BY <1>2, <1>13 DEF ClaimHook, StartPipeline, ReadRetryCount
<1>14. ASSUME NEW w \in Workers, NEW o \in Outcomes, RejectBeforeRun(w, o) \/ PipelineEnds(w, o)
       PROVE  Goal
  BY <1>2, <1>14 DEF RejectBeforeRun, PipelineEnds, Conclude
<1>15. ASSUME NEW w \in Workers, mark_success(w) \/ mark_debug_ready(w) PROVE Goal
  BY <1>3, <1>15 DEF mark_success, mark_debug_ready, BackToPolling
<1>16. ASSUME NEW w \in Workers, mark_dry_run(w) PROVE Goal
  BY <1>3, <1>16 DEF mark_dry_run, BackToPolling
<1>17. ASSUME NEW w \in Workers, mark_failure(w) PROVE Goal
  <2>1. PICK l \in {"exit", "cooldown"} : pc' = [pc EXCEPT ![w] = l]
    BY <1>17 DEF mark_failure
  <2> QED BY <1>3, <1>17, <2>1 DEF mark_failure
<1>18. ASSUME NEW w \in Workers, CooldownEnds(w) \/ StopWorker(w) PROVE Goal
  BY <1>1, <1>18 DEF CooldownEnds, StopWorker, BackToPolling
<1>19. ASSUME NEW w \in Workers, finish(w) \/ Crash(w) \/ WorkerException(w) PROVE Goal
  BY <1>3, <1>19 DEF finish, Crash, WorkerException, ProcessEnds
<1>20. ASSUME NEW w \in Workers, Heartbeat(w) \/ OrphanEnds(w) \/ LeaseExpires(w)
                                   \/ LeaseLapses(w)
       PROVE  Goal
  BY <1>4, <1>20 DEF Heartbeat, OrphanEnds, LeaseExpires, LeaseLapses, Expire
<1>21. ASSUME NEW r \in Recoverers, RecoveryStep(r) PROVE Goal
  BY <1>4, <1>21
  DEF RecoveryStep, recover_stale, recover_dead_processes, SelectForRecovery,
      ReadLockedTasks, recover_worker
<1>22. ASSUME NEW p \in Phones, MonitorStep(p) PROVE Goal
  BY <1>4, <1>22 DEF MonitorStep, BeginUsbCheck, EndUsbCheck
<1>23. ASSUME reschedule_overdue_tasks \/ pause_overdue_tasks PROVE Goal
  BY <1>4, <1>23 DEF reschedule_overdue_tasks, pause_overdue_tasks
<1>24. ASSUME NEW t \in Tasks, Elapse(t) PROVE Goal
  BY <1>4, <1>24 DEF Elapse
<1>25. CASE UNCHANGED vars
  BY <1>4, <1>25 DEF vars
<1> QED
  BY <1>5, <1>6, <1>7, <1>8, <1>9, <1>10, <1>11, <1>12, <1>13, <1>14, <1>15, <1>16, <1>17,
     <1>18, <1>19, <1>20, <1>21, <1>22, <1>23, <1>24, <1>25
  DEF Next, WorkerStep

PlacedInv == ClaimsOnPhone /\ ClaimsWhileWorking

\* A worker keeps its phone, and with it the phone of its task.
LEMMA StepPlaced ==
  ASSUME TypeInv, PlacedInv, [Next]_vars
  PROVE  PlacedInv'
<1>1. ASSUME NEW w \in Workers, pc'[w] \in Holding
      PROVE  taskPhone'[claim'[w].task] = phoneOf'[w]
  <2>1. phoneOf'[w] = phoneOf[w] /\ taskPhone' = taskPhone
    <3>1. Serving(w)'
      BY <1>1 DEF Serving, Alive, Holding
    <3> QED BY <3>1, MemoryOfTypes, ServingStep, Effects
  <2>2. CASE claim'[w] = claim[w] /\ pc[w] \in Holding
    BY <2>1, <2>2 DEF PlacedInv, ClaimsOnPhone
  <2>3. ASSUME NEW t \in Tasks, SelectCandidate(w, t)
        PROVE  claim'[w].task = t /\ taskPhone[t] = phoneOf[w]
    BY <2>3 DEF SelectCandidate, Candidate, TypeInv, TypeOK, ProcessesTyped
  <2>4. ASSUME claim_next(w)
        PROVE  claim'[w].task = claim[w].task /\ taskPhone[claim[w].task] = phoneOf[w]
    BY <2>4 DEF claim_next, Claimable, TypeInv, TypeOK, ProcessesTyped
  <2>5. pc'[w] = "claim" \/ pc'[w] \in Working
    BY <1>1 DEF Working
  <2> QED BY <2>1, <2>2, <2>3, <2>4, <2>5, MemoryOfTypes, WaitStep, WorkStep DEF Working, Holding
<1>2. ASSUME NEW w \in Workers, claim'[w].attempt # 0 PROVE pc'[w] \in Working
  <2>1. CASE claim_next(w)
    BY <2>1 DEF claim_next, Working, Holding, TypeInv, TypeOK, ProcessesTyped
  <2>2. CASE claim'[w] = claim[w] /\ (pc[w] \in Working => pc'[w] \in Working)
    BY <1>2, <2>2 DEF PlacedInv, ClaimsWhileWorking
  <2> QED BY <1>2, <2>1, <2>2, MemoryOfTypes, WaitStep
<1>3. AttemptKnown'
  BY StepAttemptKnown DEF PlacedInv, ClaimsWhileWorking, AttemptKnown
<1> QED BY <1>1, <1>2, <1>3 DEF PlacedInv, ClaimsOnPhone, ClaimsWhileWorking, AttemptKnown

-----------------------------------------------------------------------------
(* Timely executions: the claim of a live worker is never overtaken.         *)

\* A task that a worker has selected still waits, or has been paused because
\* its target time passed; in that case the claim will be refused.
SelectedWaits ==
  \A w \in Workers : pc[w] = "claim" =>
    LET t == claim[w].task IN
    \/ status[t] \in CLAIMABLE_TASK_STATUSES
    \/ status[t] = "paused" /\ window[t] = "overdue"

\* What a recovery call has read is still the case when it writes.
ReadsCurrent ==
  \A r \in Recoverers : recovery[r].pc = "read" =>
    \A t \in recovery[r].tasks : status[t] = "running" /\ lockedBy[t] \in recovery[r].workers

\* A dry run that was logged is not overwritten.
DryRunsDone == \A t \in Tasks : dryRunLogged[t] => status[t] = "dry_run"

\* Only running tasks have an owner.
LockedWhileRunning == \A t \in Tasks : status[t] # "running" => lockedBy[t] = None

ControlInv ==
  /\ TypeInv /\ LeaseInv /\ ClaimInv /\ PlacedInv
  /\ OneRunningTaskPerPhone /\ OneWorkerPerPhone

TablesInv ==
  /\ ClaimIsCurrent /\ SelectedWaits
  /\ ReadsCurrent /\ DryRunsDone /\ LockedWhileRunning

TimelyInv == ControlInv /\ TablesInv

\* A worker's write of a result.
Reporting(w) == mark_success(w) \/ mark_debug_ready(w) \/ mark_dry_run(w) \/ mark_failure(w)

\* The tables of tasks and phones are left alone.
Still == UNCHANGED <<status, lockedBy, retryCount, attempts, dryRunLogged, phoneStatus, window>>

\* A health check of a worker or a USB check writes the status of a phone.
EndCheck ==
  \/ \E w \in Workers, s \in HealthStatuses : EndHealthCheck(w, s)
  \/ \E p \in Phones, s \in HealthStatuses : EndUsbCheck(p, s)

\* What Reporting does to the tables.
LEMMA ReportEffect ==
  ASSUME NEW w \in Workers, Reporting(w)
  PROVE  /\ pc[w] \in Working
         /\ \E x \in ReportedResults, s \in {"published", "debug_ready", "dry_run", "failed", "pending"},
               h \in HealthStatuses :
              /\ Settle(w, x, s)
              /\ phoneStatus' = [phoneStatus EXCEPT ![phoneOf[w]] = h]
              /\ x = "dry_run" <=> s = "dry_run"
              /\ x = "published" <=> s = "published"
              /\ x = "failed" <=> mark_failure(w)
         /\ claim' = [claim EXCEPT ![w] = NoClaim]
<1> USE DEF ReleasePhone, ForgetClaim, Working, Holding, ReportedResults, HealthStatuses,
            READY_PHONE_STATUS
<1>1. CASE mark_success(w)
  <2>1. ~mark_failure(w)
    BY <1>1 DEF mark_success, mark_failure
  <2> QED BY <1>1, <2>1 DEF mark_success
<1>2. CASE mark_debug_ready(w)
  <2>1. ~mark_failure(w)
    BY <1>2 DEF mark_debug_ready, mark_failure
  <2> QED BY <1>2, <2>1 DEF mark_debug_ready
<1>3. CASE mark_dry_run(w)
  <2>1. ~mark_failure(w)
    BY <1>3 DEF mark_dry_run, mark_failure
  <2> QED BY <1>3, <2>1 DEF mark_dry_run
<1>4. CASE mark_failure(w)
  BY <1>4 DEF mark_failure, NextStatusAfterFailure
<1> QED BY <1>1, <1>2, <1>3, <1>4 DEF Reporting

\* The repair of overwritten dry runs finds nothing to repair: these are the
\* steps that touch the tables.
LEMMA TableStep ==
  ASSUME Timely, TimelyInv, [Next]_vars
  PROVE  \/ Still \/ EndCheck
         \/ \E w \in Workers : claim_next(w)
         \/ \E w \in Workers : Reporting(w)
         \/ \E r \in Recoverers : recover_worker(r)
         \/ reschedule_overdue_tasks \/ pause_overdue_tasks
         \/ \E t \in Tasks : Elapse(t)
<1> DEFINE Goal == \/ Still \/ EndCheck
                   \/ \E w \in Workers : claim_next(w)
                   \/ \E w \in Workers : Reporting(w)
                   \/ \E r \in Recoverers : recover_worker(r)
                   \/ reschedule_overdue_tasks \/ pause_overdue_tasks
                   \/ \E t \in Tasks : Elapse(t)
<1> USE DEF Still, EndCheck, taskVars, historyVars, phoneVars
<1>1. ASSUME mark_completed_dry_run_tasks, phoneStatus' = phoneStatus
      PROVE  Still
  <2>1. \A t \in Tasks : ~CompletedDryRun(t)
    BY DEF TimelyInv, TablesInv, DryRunsDone, CompletedDryRun, CLAIMABLE_TASK_STATUSES
  <2>2. status' = status /\ lockedBy' = lockedBy
    BY <1>1, <2>1 DEF mark_completed_dry_run_tasks, TimelyInv, ControlInv, TypeInv, TypeOK, TasksTyped
  <2> QED BY <1>1, <2>2 DEF mark_completed_dry_run_tasks
<1>2. ASSUME NEW w \in Workers, BeginHealthCheck(w) \/ NoCandidate(w) PROVE Goal
  BY <1>1, <1>2 DEF BeginHealthCheck, NoCandidate
<1>3. ASSUME NEW w \in Workers, NEW t \in Tasks, SelectCandidate(w, t) PROVE Goal
  BY <1>1, <1>3 DEF SelectCandidate
<1>4. ASSUME NEW w \in Workers, NEW s \in HealthStatuses, EndHealthCheck(w, s) PROVE Goal
  BY <1>4 DEF EndHealthCheck
<1>5. ASSUME NEW w \in Workers, claim_next(w) PROVE Goal
  BY <1>5 DEF claim_next
<1>6. ASSUME NEW w \in Workers, Reporting(w) PROVE Goal
  BY <1>6 DEF Reporting, mark_success, mark_debug_ready, mark_dry_run, mark_failure
<1>7. ASSUME NEW w \in Workers, WorkerStep(w) PROVE Goal
  BY <1>2, <1>3, <1>4, <1>5, <1>6, <1>7
  DEF WorkerStep, Reporting, Register, ClaimRefused, ClaimHook, StartPipeline, RejectBeforeRun,
      PipelineEnds, ReadRetryCount, CooldownEnds, finish
<1>8. ASSUME NEW w \in Workers, \/ Heartbeat(w) \/ OrphanEnds(w) \/ LeaseExpires(w)
                                 \/ LeaseLapses(w) \/ WorkerException(w) \/ StopWorker(w)
                                 \/ Crash(w) \/ \E p \in Phones : Launch(w, p)
      PROVE  Goal
  BY <1>8
  DEF Heartbeat, OrphanEnds, LeaseExpires, LeaseLapses, Expire, WorkerException, StopWorker,
      Crash, Launch
<1>9. ASSUME NEW r \in Recoverers, RecoveryStep(r) PROVE Goal
  BY <1>9
  DEF RecoveryStep, recover_stale, recover_dead_processes, SelectForRecovery,
      ReadLockedTasks, recover_worker
<1>10. ASSUME reschedule_overdue_tasks \/ pause_overdue_tasks PROVE Goal
  BY <1>10 DEF reschedule_overdue_tasks, pause_overdue_tasks
<1>11. ASSUME NEW p \in Phones, MonitorStep(p) PROVE Goal
  BY <1>11 DEF MonitorStep, BeginUsbCheck, EndUsbCheck
<1>12. ASSUME NEW t \in Tasks, Elapse(t) PROVE Goal
  BY <1>12 DEF Elapse
<1>13. CASE UNCHANGED vars
  BY <1>13 DEF vars
<1> QED
  BY <1>7, <1>8, <1>9, <1>10, <1>11, <1>12, <1>13 DEF Next

\* Recovery takes running tasks of dead workers only.
LEMMA RecoveredTasks ==
  ASSUME TimelyInv, NEW r \in Recoverers, recovery[r].pc = "read",
         NEW t \in TasksToRecover(r)
  PROVE  t \in Tasks /\ status[t] = "running" /\ lockedBy[t] \in Workers /\ ~Alive(lockedBy[t])
<1>1. /\ recovery[r].workers \subseteq Workers
      /\ recovery[r].tasks \subseteq Tasks
      /\ \A w \in recovery[r].workers : ~Alive(w)
  BY DEF TimelyInv, ControlInv, LeaseInv, TypeInv, TypeOK, RecoveryTyped
<1> QED BY <1>1 DEF TasksToRecover, RunningTasksLockedBy, TimelyInv, TablesInv, ReadsCurrent

\* A claim finds a waiting task on a phone where nothing runs.
LEMMA ClaimedTask ==
  ASSUME TimelyInv, NEW w \in Workers, claim_next(w), NEW t, t = claim[w].task
  PROVE  /\ t \in Tasks /\ phoneOf[w] \in Phones
         /\ status[t] \in CLAIMABLE_TASK_STATUSES
         /\ retryCount[t] <= MaxRetries
         /\ taskPhone[t] = phoneOf[w]
         /\ \A u \in Tasks : taskPhone[u] = phoneOf[w] => status[u] # "running"
         /\ pc[w] = "claim" /\ claim[w].attempt = 0
<1>1. t \in Tasks /\ taskPhone[t] \in Phones
  BY DEF claim_next, TimelyInv, ControlInv, TypeInv, TypeOK, TasksTyped, ClaimTyped, Holding
<1>2. /\ pc[w] = "claim"
      /\ taskPhone[t] = phoneOf[w]
      /\ phoneStatus[phoneOf[w]] = "online_idle"
      /\ retryCount[t] <= MaxRetries
      /\ window[t] = "open"
  BY DEF claim_next, Claimable, evaluate_task_candidate, READY_PHONE_STATUS
<1>3. status[t] \in CLAIMABLE_TASK_STATUSES
  BY <1>2 DEF TimelyInv, TablesInv, SelectedWaits
<1>4. \A u \in Tasks : taskPhone[u] = phoneOf[w] => status[u] # "running"
  <2>1. ~phone_has_running_task(phoneOf[w], t)
    BY DEF claim_next, Claimable
  <2>2. status[t] # "running"
    BY <1>3 DEF CLAIMABLE_TASK_STATUSES
  <2> QED BY <2>1, <2>2 DEF phone_has_running_task
<1>5. claim[w].attempt = 0
  BY <1>2 DEF TimelyInv, ControlInv, PlacedInv, ClaimsWhileWorking, Working
<1> QED BY <1>1, <1>2, <1>3, <1>4, <1>5

\* A result finds its task running under the claim that it belongs to.
LEMMA ReportedTask ==
  ASSUME TimelyInv, NEW w \in Workers, pc[w] \in Working, NEW t, t = claim[w].task
  PROVE  /\ t \in Tasks /\ phoneOf[w] \in Phones
         /\ status[t] = "running"
         /\ lockedBy[t] = w
         /\ taskPhone[t] = phoneOf[w]
         /\ claim[w].attempt # 0
         /\ claim[w].attempt = Len(attempts[t])
         /\ attempts[t][Len(attempts[t])] = "running"
<1>1. t \in Tasks /\ taskPhone[t] \in Phones
  BY DEF TimelyInv, ControlInv, TypeInv, TypeOK, TasksTyped, ClaimTyped, Working
<1>2. taskPhone[t] = phoneOf[w]
  BY DEF TimelyInv, ControlInv, PlacedInv, ClaimsOnPhone, Working
<1>3. claim[w].attempt # 0
  BY DEF TimelyInv, ControlInv, PlacedInv, ClaimsWhileWorking
<1> QED BY <1>1, <1>2, <1>3 DEF TimelyInv, TablesInv, ClaimIsCurrent

\* What the step of another worker, of a recovery call, of the supervisor or of
\* time does to a task that a worker holds: nothing but let its target pass.
LEMMA HeldTaskStep ==
  ASSUME Timely, TimelyInv, [Next]_vars,
         NEW w \in Workers, pc[w] \in Working, ~Reporting(w), NEW t, t = claim[w].task
  PROVE  status'[t] = "running" /\ lockedBy'[t] = w /\ attempts'[t] = attempts[t]
         /\ retryCount'[t] = retryCount[t]
<1>0. /\ t \in Tasks /\ status[t] = "running" /\ lockedBy[t] = w
      /\ taskPhone[t] = phoneOf[w] /\ Alive(w)
  BY ReportedTask DEF Alive, Working, Holding
<1>t. TasksTyped
  BY DEF TimelyInv, ControlInv, TypeInv, TypeOK
<1> USE DEF taskVars, historyVars
<1>1. CASE Still
  BY <1>0, <1>1 DEF Still
<1>2. ASSUME EndCheck
      PROVE  UNCHANGED taskVars
  BY <1>2 DEF EndCheck, EndHealthCheck, EndUsbCheck
<1>3. ASSUME NEW v \in Workers, claim_next(v)
      PROVE  status'[t] = status[t] /\ lockedBy'[t] = lockedBy[t] /\ attempts'[t] = attempts[t]
             /\ retryCount' = retryCount
  <2>1. t # claim[v].task /\ claim[v].task \in Tasks
    BY <1>0, <1>3, ClaimedTask DEF CLAIMABLE_TASK_STATUSES
  <2> QED BY <1>0, <1>t, <1>3, <2>1 DEF claim_next, OpenAttempt, TasksTyped
<1>4. ASSUME NEW v \in Workers, Reporting(v)
      PROVE  status'[t] = status[t] /\ lockedBy'[t] = lockedBy[t] /\ attempts'[t] = attempts[t]
             /\ retryCount'[t] = retryCount[t]
  <2>1. pc[v] \in Working /\ \E x, s : Settle(v, x, s)
    BY <1>4, ReportEffect
  <2>2. v # w
    BY <1>4
  <2>3. t # claim[v].task
    BY <1>0, <2>1, <2>2, ReportedTask
  <2>4. status'[t] = status[t] /\ lockedBy'[t] = lockedBy[t] /\ attempts'[t] = attempts[t]
    BY <1>0, <1>t, <2>1, <2>3 DEF Settle, TasksTyped
  <2>5. retryCount'[t] = retryCount[t]
    BY <1>0, <1>t, <1>4, <2>3
    DEF Reporting, mark_success, mark_debug_ready, mark_dry_run, mark_failure, TasksTyped
  <2> QED BY <2>4, <2>5
<1>5. ASSUME NEW r \in Recoverers, recover_worker(r)
      PROVE  status'[t] = status[t] /\ lockedBy'[t] = lockedBy[t] /\ attempts'[t] = attempts[t]
             /\ retryCount' = retryCount
  <2>1. t \notin TasksToRecover(r)
    BY <1>0, <1>5, RecoveredTasks DEF recover_worker
  <2> QED BY <1>0, <1>5, <2>1 DEF recover_worker
<1>6. ASSUME reschedule_overdue_tasks \/ pause_overdue_tasks
      PROVE  status'[t] = status[t] /\ lockedBy'[t] = lockedBy[t] /\ attempts' = attempts
             /\ retryCount' = retryCount
  BY <1>0, <1>6
  DEF reschedule_overdue_tasks, pause_overdue_tasks, OverdueTasks, CLAIMABLE_TASK_STATUSES
<1>7. ASSUME NEW u \in Tasks, Elapse(u)
      PROVE  UNCHANGED <<status, lockedBy, attempts, retryCount>>
  BY <1>7 DEF Elapse
<1> QED BY <1>0, <1>1, <1>2, <1>3, <1>4, <1>5, <1>6, <1>7, TableStep

\* The claim of a live worker stays the current one.
LEMMA StepClaimIsCurrent ==
  ASSUME Timely, TimelyInv, [Next]_vars
  PROVE  ClaimIsCurrent'
<1> SUFFICES ASSUME NEW w \in Workers, claim'[w].attempt # 0, NEW t, t = claim'[w].task
             PROVE  /\ status'[t] = "running"
                    /\ lockedBy'[t] = w
                    /\ claim'[w].attempt = Len(attempts'[t])
                    /\ attempts'[t][claim'[w].attempt] = "running"
  BY DEF ClaimIsCurrent
<1>0. TypeInv
  BY DEF TimelyInv, ControlInv
<1>1. CASE claim_next(w)
  <2>1. t = claim[w].task /\ claim'[w].attempt = Len(attempts[t]) + 1
    BY <1>0, <1>1 DEF claim_next, TypeInv, TypeOK, ProcessesTyped
  <2>2. t \in Tasks /\ attempts[t] \in Histories
    BY <1>0, <1>1, <2>1, ClaimedTask DEF TypeInv, TypeOK, TasksTyped, Histories
  <2>3. status'[t] = "running" /\ lockedBy'[t] = w /\ attempts'[t] = Append(attempts[t], "running")
    BY <1>0, <1>1, <2>1, <2>2 DEF claim_next, OpenAttempt, TypeInv, TypeOK, TasksTyped
  <2> QED BY <2>1, <2>2, <2>3, OpenedHistory
<1>2. CASE claim'[w] = claim[w]
  <2>1. pc[w] \in Working
    BY <1>2 DEF TimelyInv, ControlInv, PlacedInv, ClaimsWhileWorking
  <2>2. ~Reporting(w)
    BY <1>0, ReportEffect DEF NoClaim, TypeInv, TypeOK, ProcessesTyped
  <2>3. /\ claim[w].attempt = Len(attempts[t])
        /\ attempts[t][Len(attempts[t])] = "running"
    BY <1>2, <2>1, ReportedTask
  <2> QED BY <1>2, <2>1, <2>2, <2>3, HeldTaskStep
<1> QED BY <1>0, <1>1, <1>2, MemoryOfTypes, WaitStep

\* Nobody but its worker claims a selected task, and nothing but a passed
\* target time takes it out of the queue.
LEMMA StepSelectedWaits ==
  ASSUME Timely, TimelyInv, [Next]_vars
  PROVE  SelectedWaits'
<1> SUFFICES ASSUME NEW w \in Workers, pc'[w] = "claim", NEW t, t = claim'[w].task
             PROVE  \/ status'[t] \in CLAIMABLE_TASK_STATUSES
                    \/ status'[t] = "paused" /\ window'[t] = "overdue"
  BY DEF SelectedWaits
<1>0. TypeInv /\ TasksTyped
  BY DEF TimelyInv, ControlInv, TypeInv, TypeOK
<1> USE DEF taskVars, historyVars
<1>1. ASSUME NEW u \in Tasks, SelectCandidate(w, u)
      PROVE  status'[t] \in CLAIMABLE_TASK_STATUSES
  <2>1. u = t
    BY <1>0, <1>1 DEF SelectCandidate, TypeInv, TypeOK, ProcessesTyped
  <2>2. status'[t] = status[t] /\ status[t] \in CLAIMABLE_TASK_STATUSES
    BY <1>1, <2>1 DEF SelectCandidate, Candidate, mark_completed_dry_run_tasks
  <2> QED BY <2>2
<1>2. CASE pc[w] = "claim" /\ claim'[w] = claim[w]
  <2>1. /\ t \in Tasks /\ taskPhone[t] = phoneOf[w]
        /\ \/ status[t] \in CLAIMABLE_TASK_STATUSES
           \/ status[t] = "paused" /\ window[t] = "overdue"
    BY <1>0, <1>2
    DEF TimelyInv, TablesInv, SelectedWaits, ControlInv, PlacedInv, ClaimsOnPhone, TypeInv,
        ClaimTyped, Holding
  <2>2. status[t] # "running"
    BY <2>1 DEF CLAIMABLE_TASK_STATUSES
  <2>3. CASE Still
    BY <2>1, <2>3 DEF Still
  <2>4. ASSUME EndCheck
        PROVE  UNCHANGED taskVars
    BY <2>4 DEF EndCheck, EndHealthCheck, EndUsbCheck
  <2>5. ASSUME NEW v \in Workers, claim_next(v)
        PROVE  status'[t] = status[t] /\ window' = window
    <3>1. v # w
      BY <1>0, <1>2, <2>5 DEF claim_next, TypeInv, TypeOK, ProcessesTyped
    <3>2. phoneOf[v] # phoneOf[w]
      BY <1>2, <2>5, <3>1
      DEF TimelyInv, ControlInv, OneWorkerPerPhone, Serving, Alive, claim_next
    <3>3. t # claim[v].task
      BY <2>1, <2>5, <3>2, ClaimedTask
    <3> QED BY <1>0, <2>1, <2>5, <3>3 DEF claim_next, TasksTyped
  <2>6. ASSUME NEW v \in Workers, Reporting(v)
        PROVE  status'[t] = status[t] /\ window'[t] = window[t]
    <3>1. pc[v] \in Working /\ \E x, s : Settle(v, x, s)
      BY <2>6, ReportEffect
    <3>2. t # claim[v].task
      BY <2>2, <3>1, ReportedTask
    <3>3. status'[t] = status[t]
      BY <1>0, <2>1, <3>1, <3>2 DEF Settle, TasksTyped
    <3>4. window'[t] = window[t]
      BY <1>0, <2>1, <2>6, <3>2
      DEF Reporting, mark_success, mark_debug_ready, mark_dry_run, mark_failure, TasksTyped
    <3> QED BY <3>3, <3>4
  <2>7. ASSUME NEW r \in Recoverers, recover_worker(r)
        PROVE  status'[t] = status[t] /\ window' = window
    <3>1. t \notin TasksToRecover(r)
      BY <2>2, <2>7, RecoveredTasks DEF recover_worker
    <3> QED BY <2>1, <2>7, <3>1 DEF recover_worker
  <2>8. CASE reschedule_overdue_tasks
    BY <2>1, <2>8 DEF reschedule_overdue_tasks, OverdueTasks, CLAIMABLE_TASK_STATUSES
  <2>9. CASE pause_overdue_tasks
    BY <2>1, <2>9 DEF pause_overdue_tasks, OverdueTasks, CLAIMABLE_TASK_STATUSES
  <2>10. ASSUME NEW u \in Tasks, Elapse(u)
         PROVE  status' = status /\ (window'[t] = window[t] \/ window'[t] = "overdue")
    BY <1>0, <2>1, <2>10 DEF Elapse, TasksTyped
  <2> QED BY <2>1, <2>3, <2>4, <2>5, <2>6, <2>7, <2>8, <2>9, <2>10, TableStep
<1> QED BY <1>0, <1>1, <1>2, MemoryOfTypes, WaitStep

\* The only recovery call under way is the one that writes, and no live worker
\* touches what a recovery call has read.
LEMMA StepReadsCurrent ==
  ASSUME Timely, TimelyInv, [Next]_vars
  PROVE  ReadsCurrent'
<1> SUFFICES ASSUME NEW r \in Recoverers, recovery'[r].pc = "read", NEW t \in recovery'[r].tasks
             PROVE  status'[t] = "running" /\ lockedBy'[t] \in recovery'[r].workers
  BY DEF ReadsCurrent
<1>0. TypeInv /\ TasksTyped /\ RecoveryTyped
  BY DEF TimelyInv, ControlInv, TypeInv, TypeOK
<1> USE DEF taskVars, historyVars
<1>1. ASSUME NEW w \in Workers, ReadLockedTasks(r, w)
      PROVE  status'[t] = "running" /\ lockedBy'[t] \in recovery'[r].workers
  BY <1>0, <1>1 DEF ReadLockedTasks, RunningTasksLockedBy, RecoveryTyped
<1>2. CASE recovery'[r] = recovery[r]
  <2>1. /\ recovery[r].pc = "read" /\ t \in Tasks
        /\ status[t] = "running" /\ lockedBy[t] \in recovery[r].workers
        /\ ~Alive(lockedBy[t]) /\ lockedBy[t] \in Workers
    BY <1>0, <1>2 DEF RecoveryTyped, TimelyInv, TablesInv, ReadsCurrent, ControlInv, LeaseInv
  <2>3. CASE Still
    BY <1>2, <2>1, <2>3 DEF Still
  <2>4. ASSUME EndCheck
        PROVE  UNCHANGED taskVars
    BY <2>4 DEF EndCheck, EndHealthCheck, EndUsbCheck
  <2>5. ASSUME NEW v \in Workers, claim_next(v)
        PROVE  status'[t] = status[t] /\ lockedBy'[t] = lockedBy[t]
    <3>1. t # claim[v].task
      BY <2>1, <2>5, ClaimedTask DEF CLAIMABLE_TASK_STATUSES
    <3> QED BY <1>0, <2>1, <2>5, <3>1 DEF claim_next, TasksTyped
  <2>6. ASSUME NEW v \in Workers, Reporting(v)
        PROVE  status'[t] = status[t] /\ lockedBy'[t] = lockedBy[t]
    <3>1. pc[v] \in Working /\ \E x, s : Settle(v, x, s)
      BY <2>6, ReportEffect
    <3>2. t # claim[v].task
      BY <2>1, <3>1, ReportedTask DEF Alive, Working, Holding
    <3> QED BY <1>0, <2>1, <3>1, <3>2 DEF Settle, TasksTyped
  <2>7. ASSUME NEW q \in Recoverers, recover_worker(q) PROVE FALSE
    <3>1. q = r
      BY DEF Timely, OneRecoverer
    <3> QED BY <1>0, <2>7, <3>1 DEF recover_worker, NoRecovery, RecoveryTyped
  <2>8. ASSUME reschedule_overdue_tasks \/ pause_overdue_tasks
        PROVE  status'[t] = status[t] /\ lockedBy'[t] = lockedBy[t]
    BY <2>1, <2>8
    DEF reschedule_overdue_tasks, pause_overdue_tasks, OverdueTasks, CLAIMABLE_TASK_STATUSES
  <2>9. ASSUME NEW u \in Tasks, Elapse(u)
        PROVE  status' = status /\ lockedBy' = lockedBy
    BY <2>9 DEF Elapse
  <2> QED BY <1>2, <2>1, <2>3, <2>4, <2>5, <2>6, <2>7, <2>8, <2>9, TableStep
<1> QED BY <1>0, <1>1, <1>2, MemoryOfTypes, ReadStep

\* A dry run is logged with its status, and a new claim or a rescheduling
\* forgets the log with it.
LEMMA StepDryRunsDone ==
  ASSUME Timely, TimelyInv, [Next]_vars
  PROVE  DryRunsDone'
<1> SUFFICES ASSUME NEW t \in Tasks, dryRunLogged'[t] PROVE status'[t] = "dry_run"
  BY DEF DryRunsDone
<1>0. /\ dryRunLogged[t] => status[t] = "dry_run"
      /\ TasksTyped
  BY DEF TimelyInv, TablesInv, DryRunsDone, ControlInv, TypeInv, TypeOK
<1> USE DEF taskVars, historyVars
<1>1. CASE Still
  BY <1>0, <1>1 DEF Still
<1>2. ASSUME EndCheck
      PROVE  status' = status /\ dryRunLogged' = dryRunLogged
  BY <1>2 DEF EndCheck, EndHealthCheck, EndUsbCheck
<1>3. ASSUME NEW w \in Workers, claim_next(w)
      PROVE  dryRunLogged[t] /\ status'[t] = status[t]
  <2>1. dryRunLogged' = [dryRunLogged EXCEPT ![claim[w].task] = FALSE]
        /\ status' = [status EXCEPT ![claim[w].task] = "running"]
    BY <1>3 DEF claim_next
  <2>2. t # claim[w].task /\ dryRunLogged[t]
    BY <1>0, <2>1 DEF TasksTyped
  <2> QED BY <1>0, <2>1, <2>2 DEF TasksTyped
<1>4. ASSUME NEW w \in Workers, Reporting(w)
      PROVE  status'[t] = "dry_run"
  <2>1. PICK x \in ReportedResults,
             s \in {"published", "debug_ready", "dry_run", "failed", "pending"} :
               Settle(w, x, s) /\ (x = "dry_run" <=> s = "dry_run")
    BY <1>4, ReportEffect
  <2>2. /\ dryRunLogged' = [dryRunLogged EXCEPT ![claim[w].task] = x = "dry_run"]
        /\ status' = [status EXCEPT ![claim[w].task] = s]
    BY <2>1 DEF Settle
  <2>3. CASE t = claim[w].task
    <3>1. x = "dry_run"
      BY <1>0, <2>2, <2>3, Zenon DEF TasksTyped
    <3> QED BY <1>0, <2>1, <2>2, <2>3, <3>1 DEF TasksTyped
  <2>4. CASE t # claim[w].task
    <3>1. dryRunLogged[t]
      BY <1>0, <2>2, <2>4, Zenon DEF TasksTyped
    <3> QED BY <1>0, <2>2, <2>4, <3>1 DEF TasksTyped
  <2> QED BY <2>3, <2>4
<1>5. ASSUME NEW r \in Recoverers, recover_worker(r)
      PROVE  dryRunLogged[t] /\ status'[t] = status[t]
  <2>1. dryRunLogged[t] /\ status[t] = "dry_run"
    BY <1>0, <1>5 DEF recover_worker
  <2>2. t \notin TasksToRecover(r)
    BY <1>5, <2>1, RecoveredTasks DEF recover_worker
  <2> QED BY <1>5, <2>1, <2>2 DEF recover_worker
<1>6. ASSUME reschedule_overdue_tasks \/ pause_overdue_tasks
      PROVE  dryRunLogged[t] /\ status'[t] = status[t]
  BY <1>6 DEF reschedule_overdue_tasks, pause_overdue_tasks
<1>7. ASSUME NEW u \in Tasks, Elapse(u)
      PROVE  status' = status /\ dryRunLogged' = dryRunLogged
  BY <1>7 DEF Elapse
<1> QED BY <1>0, <1>1, <1>2, <1>3, <1>4, <1>5, <1>6, <1>7, TableStep

\* The owner of a task goes when its status does.
LEMMA StepLockedWhileRunning ==
  ASSUME Timely, TimelyInv, [Next]_vars
  PROVE  LockedWhileRunning'
<1> SUFFICES ASSUME NEW t \in Tasks, status'[t] # "running" PROVE lockedBy'[t] = None
  BY DEF LockedWhileRunning
<1>0. /\ status[t] # "running" => lockedBy[t] = None
      /\ TasksTyped
  BY DEF TimelyInv, TablesInv, LockedWhileRunning, ControlInv, TypeInv, TypeOK
<1> USE DEF taskVars, historyVars
<1>1. CASE Still
  BY <1>0, <1>1 DEF Still
<1>2. ASSUME EndCheck
      PROVE  status' = status /\ lockedBy' = lockedBy
  BY <1>2 DEF EndCheck, EndHealthCheck, EndUsbCheck
<1>3. ASSUME NEW w \in Workers, claim_next(w)
      PROVE  status'[t] = status[t] /\ lockedBy'[t] = lockedBy[t]
  BY <1>0, <1>3 DEF claim_next, TasksTyped
<1>4. ASSUME NEW w \in Workers, Reporting(w)
      PROVE  lockedBy'[t] = None
  <2>1. \E x, s : Settle(w, x, s)
    BY <1>4, ReportEffect
  <2> QED BY <1>0, <2>1 DEF Settle, TasksTyped
<1>5. ASSUME NEW r \in Recoverers, recover_worker(r)
      PROVE  lockedBy'[t] = None
  BY <1>0, <1>5 DEF recover_worker
<1>6. ASSUME reschedule_overdue_tasks \/ pause_overdue_tasks
      PROVE  lockedBy'[t] = None
  BY <1>0, <1>6
  DEF reschedule_overdue_tasks, pause_overdue_tasks, OverdueTasks, CLAIMABLE_TASK_STATUSES
<1>7. ASSUME NEW u \in Tasks, Elapse(u)
      PROVE  status' = status /\ lockedBy' = lockedBy
  BY <1>7 DEF Elapse
<1> QED BY <1>0, <1>1, <1>2, <1>3, <1>4, <1>5, <1>6, <1>7, TableStep

\* Together these parts are inductive; none of them is alone.
LEMMA TimelyInvariant ==
  ASSUME Timely
  PROVE  /\ Init => TimelyInv
         /\ TimelyInv /\ [Next]_vars => TimelyInv'
<1>1. ASSUME Init PROVE TimelyInv
  <2>1. LeaseInv /\ OneWorkerPerPhone /\ PlacedInv /\ OneRunningTaskPerPhone
    BY <1>1
    DEF Init, LeaseInv, OneWorkerPerPhone, PlacedInv, ClaimsOnPhone, ClaimsWhileWorking, Alive,
        Serving, NoRecovery, NoClaim, Working, Holding, OneRunningTaskPerPhone
  <2>2. TablesInv
    BY <1>1
    DEF Init, TablesInv, ClaimIsCurrent, SelectedWaits, ReadsCurrent, DryRunsDone,
        LockedWhileRunning, NoClaim, NoRecovery
  <2> QED BY <1>1, <2>1, <2>2, InitTyped, CountingInvariant
      DEF TimelyInv, ControlInv, CountingInv
<1>2. ASSUME TimelyInv, [Next]_vars PROVE TimelyInv'
  <2>1. ControlInv'
    <3>1. TypeInv' /\ LeaseInv' /\ ClaimInv' /\ PlacedInv'
      BY <1>2, StepTyped, MemoryOfTypes, StepLeases, StepClaims, StepPlaced DEF TimelyInv, ControlInv, Timely
    <3>2. OneRunningTaskPerPhone' /\ OneWorkerPerPhone'
      BY <1>2, StepOneRunningTask, MemoryOfTypes, StepOneWorker DEF TimelyInv, ControlInv
    <3> QED BY <3>1, <3>2 DEF ControlInv
  <2>2. TablesInv'
    BY <1>2, StepClaimIsCurrent, StepSelectedWaits, StepReadsCurrent, StepDryRunsDone,
       StepLockedWhileRunning
    DEF TablesInv
  <2> QED BY <2>1, <2>2 DEF TimelyInv
<1> QED BY <1>1, <1>2

\* In timely executions a worker that reports still owns the task, the attempt
\* and the lock it reports for: recovery and reclaiming never overtake a live
\* worker, however many workers crash in between.
THEOREM ClaimIsCurrentHolds ==
  ASSUME Timely PROVE Spec => []ClaimIsCurrent
<1>1. TimelyInv => ClaimIsCurrent
  BY DEF TimelyInv, TablesInv
<1> QED BY <1>1, TimelyInvariant, PTL DEF Spec

-----------------------------------------------------------------------------
(* Phones: without the USB monitor, whose checks may end in the middle of an *)
(* execution, the status of a phone tells whether one of its tasks runs.     *)

\* A health check of a worker does not overlap with an execution on its phone.
ChecksIdlePhone ==
  \A w \in Workers : pc[w] = "health" =>
    phoneOf[w] \in Phones /\ phoneStatus[phoneOf[w]] # "running"

PhonesInv == checking = {} /\ PhoneRunsIffTaskRuns /\ ChecksIdlePhone

\* A phone is marked when its task starts and released when its task ends.
LEMMA StepPhoneRuns ==
  ASSUME Timely, ~UsbMonitor, TimelyInv, PhonesInv, [Next]_vars
  PROVE  PhoneRunsIffTaskRuns'
<1> SUFFICES ASSUME NEW p \in Phones
             PROVE  phoneStatus'[p] = "running" <=>
                      \E t \in Tasks : taskPhone[t] = p /\ status'[t] = "running"
  <2>1. taskPhone' = taskPhone
    BY Effects DEF TimelyInv, ControlInv
  <2> QED BY <2>1 DEF PhoneRunsIffTaskRuns
<1> DEFINE Goal == phoneStatus'[p] = "running" <=>
                     \E t \in Tasks : taskPhone[t] = p /\ status'[t] = "running"
<1>0. /\ phoneStatus[p] = "running" <=>
           \E t \in Tasks : taskPhone[t] = p /\ status[t] = "running"
      /\ TasksTyped /\ PhonesTyped
  BY DEF PhonesInv, PhoneRunsIffTaskRuns, TimelyInv, ControlInv, TypeInv, TypeOK
<1> USE DEF taskVars, historyVars, phoneVars
<1>1. CASE Still
  BY <1>0, <1>1 DEF Still
<1>2. ASSUME NEW w \in Workers, NEW s \in HealthStatuses, EndHealthCheck(w, s) PROVE Goal
  <2>1. phoneStatus[phoneOf[w]] # "running"
    BY <1>2 DEF EndHealthCheck, PhonesInv, ChecksIdlePhone
  <2>2. phoneStatus' = [phoneStatus EXCEPT ![phoneOf[w]] = s] /\ status' = status
    BY <1>2 DEF EndHealthCheck, RecordStatus
  <2> QED BY <1>0, <2>1, <2>2 DEF PhonesTyped, HealthStatuses
<1>3. ASSUME NEW w \in Workers, claim_next(w) PROVE Goal
  <2> DEFINE c == claim[w].task
  <2>1. c \in Tasks /\ phoneOf[w] \in Phones /\ taskPhone[c] = phoneOf[w]
    BY <1>3, ClaimedTask
  <2>2. /\ phoneStatus' = [phoneStatus EXCEPT ![phoneOf[w]] = "running"]
        /\ status' = [status EXCEPT ![c] = "running"]
    BY <1>3 DEF claim_next
  <2>3. CASE p = phoneOf[w]
    <3>1. phoneStatus'[p] = "running" /\ status'[c] = "running"
      BY <1>0, <2>1, <2>2, <2>3 DEF TasksTyped, PhonesTyped
    <3> QED BY <2>1, <2>3, <3>1
  <2>4. CASE p # phoneOf[w]
    <3>1. phoneStatus'[p] = phoneStatus[p]
      BY <1>0, <2>2, <2>4 DEF PhonesTyped
    <3>2. \A t \in Tasks : taskPhone[t] = p => status'[t] = status[t]
      BY <1>0, <2>1, <2>2, <2>4 DEF TasksTyped
    <3> QED BY <1>0, <3>1, <3>2
  <2> QED BY <2>3, <2>4
<1>4. ASSUME NEW w \in Workers, Reporting(w) PROVE Goal
  <2> DEFINE c == claim[w].task
  <2>1. PICK s \in TaskStatuses, h \in HealthStatuses :
          /\ s # "running"
          /\ phoneStatus' = [phoneStatus EXCEPT ![phoneOf[w]] = h]
          /\ status' = [status EXCEPT ![c] = s]
    <3>1. PICK x \in ReportedResults,
               s \in {"published", "debug_ready", "dry_run", "failed", "pending"},
               h \in HealthStatuses :
                 Settle(w, x, s) /\ phoneStatus' = [phoneStatus EXCEPT ![phoneOf[w]] = h]
      BY <1>4, ReportEffect
    <3>2. status' = [status EXCEPT ![c] = s]
      BY <3>1 DEF Settle
    <3>3. s \in TaskStatuses /\ s # "running"
      BY DEF TaskStatuses, CLAIMABLE_TASK_STATUSES
    <3> QED BY <3>1, <3>2, <3>3
  <2>2. c \in Tasks /\ status[c] = "running" /\ taskPhone[c] = phoneOf[w] /\ phoneOf[w] \in Phones
    BY <1>4, ReportEffect, ReportedTask
  <2>3. CASE p = phoneOf[w]
    <3>1. phoneStatus'[p] # "running"
      BY <1>0, <2>1, <2>3 DEF PhonesTyped, HealthStatuses
    <3>2. \A t \in Tasks : taskPhone[t] = p => status'[t] # "running"
      <4>1. \A t \in Tasks : taskPhone[t] = p /\ status[t] = "running" => t = c
        BY <2>2, <2>3 DEF TimelyInv, ControlInv, OneRunningTaskPerPhone
      <4> QED BY <1>0, <2>1, <2>2, <4>1 DEF TasksTyped
    <3> QED BY <3>1, <3>2
  <2>4. CASE p # phoneOf[w]
    <3>1. phoneStatus'[p] = phoneStatus[p]
      BY <1>0, <2>1, <2>4 DEF PhonesTyped
    <3>2. \A t \in Tasks : taskPhone[t] = p => status'[t] = status[t]
      BY <1>0, <2>1, <2>2, <2>4 DEF TasksTyped
    <3> QED BY <1>0, <3>1, <3>2
  <2> QED BY <2>3, <2>4
<1>5. ASSUME NEW r \in Recoverers, recover_worker(r) PROVE Goal
  <2> DEFINE R == TasksToRecover(r)
  <2>1. \A t \in R : t \in Tasks /\ status[t] = "running"
    BY <1>5, RecoveredTasks DEF recover_worker
  <2>2. /\ status' = [t \in Tasks |-> IF t \in R THEN "pending" ELSE status[t]]
        /\ phoneStatus'[p] = IF p \in {taskPhone[t] : t \in R} /\ phoneStatus[p] = "running"
                               THEN "online_idle" ELSE phoneStatus[p]
    BY <1>5 DEF recover_worker
  <2>3. CASE p \in {taskPhone[t] : t \in R}
    <3>1. PICK c \in R : taskPhone[c] = p
      BY <2>3
    <3>2. phoneStatus'[p] # "running"
      BY <2>2, <2>3
    <3>3. \A t \in Tasks : taskPhone[t] = p /\ status[t] = "running" => t = c
      BY <2>1, <3>1 DEF TimelyInv, ControlInv, OneRunningTaskPerPhone
    <3> QED BY <2>2, <3>1, <3>2, <3>3
  <2>4. CASE p \notin {taskPhone[t] : t \in R}
    <3>1. phoneStatus'[p] = phoneStatus[p]
      BY <2>2, <2>4
    <3>2. \A t \in Tasks : taskPhone[t] = p => status'[t] = status[t]
      BY <2>2, <2>4
    <3> QED BY <1>0, <3>1, <3>2
  <2> QED BY <2>3, <2>4
<1>6. CASE reschedule_overdue_tasks \/ pause_overdue_tasks
  <2>1. phoneStatus' = phoneStatus
    BY <1>6 DEF reschedule_overdue_tasks, pause_overdue_tasks
  <2>2. \A t \in Tasks : status'[t] = "running" <=> status[t] = "running"
    BY <1>6
    DEF reschedule_overdue_tasks, pause_overdue_tasks, OverdueTasks, CLAIMABLE_TASK_STATUSES
  <2> QED BY <1>0, <2>1, <2>2
<1>7. ASSUME NEW t \in Tasks, Elapse(t) PROVE Goal
  BY <1>0, <1>7 DEF Elapse
<1> QED
  BY <1>1, <1>2, <1>3, <1>4, <1>5, <1>6, <1>7, TableStep DEF PhonesInv, EndCheck, EndUsbCheck

\* A phone under a health check is claimed by nobody else: the one worker that
\* serves it is busy checking it.
LEMMA StepChecksIdlePhone ==
  ASSUME Timely, ~UsbMonitor, TimelyInv, PhonesInv, [Next]_vars
  PROVE  ChecksIdlePhone'
<1> SUFFICES ASSUME NEW w \in Workers, pc'[w] = "health"
             PROVE  phoneOf'[w] \in Phones /\ phoneStatus'[phoneOf'[w]] # "running"
  BY DEF ChecksIdlePhone
<1>0. TypeInv /\ TasksTyped /\ PhonesTyped /\ pc \in [Workers -> WorkerPcs]
  BY DEF TimelyInv, ControlInv, TypeInv, TypeOK, ProcessesTyped
<1> USE DEF phoneVars
<1> DEFINE p == phoneOf[w]
<1>1. phoneOf'[w] = p /\ Serving(w)
  <2>1. Serving(w)' /\ ~Register(w)
    BY <1>0 DEF Serving, Alive, Register
  <2> QED BY <1>0, <2>1, MemoryOfTypes, ServingStep
<1>2. CASE BeginHealthCheck(w)
  <2>1. p \in Phones /\ phoneStatus' = phoneStatus /\ phoneStatus[p] # "running"
    BY <1>0, <1>2 DEF BeginHealthCheck, RefreshNeeded, Candidate, BLOCKING_PHONE_STATUSES, TasksTyped
  <2> QED BY <1>1, <2>1
<1>3. CASE pc[w] = "health"
  <2>1. p \in Phones /\ phoneStatus[p] # "running"
    BY <1>3 DEF PhonesInv, ChecksIdlePhone
  <2>2. CASE Still
    BY <1>1, <2>1, <2>2 DEF Still
  <2>3. ASSUME EndCheck
        PROVE  phoneStatus'[p] # "running"
    BY <1>0, <2>1, <2>3
    DEF EndCheck, EndHealthCheck, EndUsbCheck, RecordStatus, PhonesTyped, HealthStatuses
  <2>4. ASSUME NEW v \in Workers, claim_next(v)
        PROVE  phoneStatus'[p] = phoneStatus[p]
    <3>1. Serving(v) /\ v # w
      BY <1>3, <2>4 DEF claim_next, Serving, Alive
    <3>2. phoneOf[v] # p
      BY <1>1, <3>1 DEF TimelyInv, ControlInv, OneWorkerPerPhone
    <3> QED BY <1>0, <2>4, <3>2 DEF claim_next, PhonesTyped
  <2>5. ASSUME NEW v \in Workers, Reporting(v)
        PROVE  phoneStatus'[p] # "running"
    <3>1. PICK h \in HealthStatuses : phoneStatus' = [phoneStatus EXCEPT ![phoneOf[v]] = h]
      BY <2>5, ReportEffect
    <3> QED BY <1>0, <2>1, <3>1 DEF PhonesTyped, HealthStatuses
  <2>6. ASSUME NEW r \in Recoverers, recover_worker(r)
        PROVE  phoneStatus'[p] # "running"
    BY <2>1, <2>6 DEF recover_worker
  <2>7. ASSUME reschedule_overdue_tasks \/ pause_overdue_tasks \/ \E t \in Tasks : Elapse(t)
        PROVE  phoneStatus' = phoneStatus
    BY <2>7 DEF reschedule_overdue_tasks, pause_overdue_tasks, Elapse
  <2> QED BY <1>1, <2>1, <2>2, <2>3, <2>4, <2>5, <2>6, <2>7, TableStep
<1> QED BY <1>0, <1>2, <1>3, MemoryOfTypes, WaitStep

\* Without a monitor nobody starts a USB check.
LEMMA NoUsbCheck ==
  ASSUME ~UsbMonitor, checking = {}, [Next]_vars
  PROVE  checking' = {}
<1> USE DEF phoneVars
<1>1. ASSUME NEW w \in Workers, WorkerStep(w) PROVE checking' = checking
  BY <1>1
  DEF WorkerStep, Register, BeginHealthCheck, NoCandidate, EndHealthCheck, SelectCandidate,
      claim_next, ClaimRefused, ClaimHook, StartPipeline, RejectBeforeRun, PipelineEnds,
      mark_success, mark_debug_ready, mark_dry_run, ReadRetryCount, mark_failure,
      CooldownEnds, finish
<1>2. ASSUME NEW w \in Workers, \/ Heartbeat(w) \/ OrphanEnds(w) \/ LeaseExpires(w)
                                 \/ LeaseLapses(w) \/ WorkerException(w) \/ StopWorker(w)
                                 \/ Crash(w) \/ \E p \in Phones : Launch(w, p)
      PROVE  checking' = checking
  BY <1>2
  DEF Heartbeat, OrphanEnds, LeaseExpires, LeaseLapses, Expire, WorkerException, StopWorker,
      Crash, Launch
<1>3. ASSUME NEW r \in Recoverers, RecoveryStep(r) PROVE checking' = checking
  BY <1>3
  DEF RecoveryStep, recover_stale, recover_dead_processes, SelectForRecovery,
      ReadLockedTasks, recover_worker
<1>4. ASSUME reschedule_overdue_tasks \/ pause_overdue_tasks \/ \E t \in Tasks : Elapse(t)
      PROVE  checking' = checking
  BY <1>4 DEF reschedule_overdue_tasks, pause_overdue_tasks, Elapse
<1>5. ASSUME NEW p \in Phones, MonitorStep(p) PROVE FALSE
  BY <1>5 DEF MonitorStep, BeginUsbCheck, EndUsbCheck
<1>6. CASE UNCHANGED vars
  BY <1>6 DEF vars
<1> QED BY <1>1, <1>2, <1>3, <1>4, <1>5, <1>6 DEF Next

\* In timely executions without a USB monitor a phone is marked running exactly
\* while one of its tasks runs: no result, recovery or health check leaves it
\* blocked or frees it early.
THEOREM PhoneRunsIffTaskRunsHolds ==
  ASSUME Timely, ~UsbMonitor PROVE Spec => []PhoneRunsIffTaskRuns
<1>1. Init => TimelyInv /\ PhonesInv
  <2>1. Init => PhonesInv
    BY DEF Init, PhonesInv, PhoneRunsIffTaskRuns, ChecksIdlePhone
  <2> QED BY <2>1, TimelyInvariant
<1>2. TimelyInv /\ PhonesInv /\ [Next]_vars => (TimelyInv /\ PhonesInv)'
  BY TimelyInvariant, NoUsbCheck, StepPhoneRuns, StepChecksIdlePhone DEF PhonesInv
<1>3. PhonesInv => PhoneRunsIffTaskRuns
  BY DEF PhonesInv
<1> QED BY <1>1, <1>2, <1>3, PTL DEF Spec

-----------------------------------------------------------------------------
(* The status of a task is what its history says.                            *)

\* A history that fits a status: open at its last attempt exactly if the task
\* runs, published at its last attempt exactly if the task is published.
Fits(s, st) ==
  /\ IndicesOf(s, "running") = IF st = "running" THEN {Len(s)} ELSE {}
  /\ IndicesOf(s, "published") = IF st = "published" THEN {Len(s)} ELSE {}

\* A claim of a task without open and published attempts makes it run.
LEMMA OpenedFits ==
  ASSUME NEW s \in Histories, NEW st, Fits(s, st), st \notin {"running", "published"}
  PROVE  Fits(Append(s, "running"), "running")
<1>1. /\ Len(s) \in Nat
      /\ DOMAIN s = 1 .. Len(s)
      /\ DOMAIN Append(s, "running") = 1 .. (Len(s) + 1)
  BY LenProperties, OpenedHistory DEF Histories
<1>2. \A j \in 1 .. Len(s) : s[j] # "running" /\ s[j] # "published"
  BY <1>1 DEF Fits, IndicesOf
<1> QED BY <1>1, <1>2, OpenedHistory DEF Fits, IndicesOf

\* A result written to the open attempt of a running task ends it.
LEMMA SettledFits ==
  ASSUME NEW s \in Histories, Fits(s, "running"), Len(s) # 0,
         NEW x \in ReportedResults, NEW st, st # "running", x = "published" <=> st = "published"
  PROVE  Fits([s EXCEPT ![Len(s)] = x], st)
<1> DEFINE u == [s EXCEPT ![Len(s)] = x]
<1>0. x \in AttemptResults /\ x # "running"
  BY DEF ReportedResults, AttemptResults
<1>1. /\ Len(s) \in Nat /\ Len(s) \in 1 .. Len(s)
      /\ DOMAIN s = 1 .. Len(s)
      /\ DOMAIN u = 1 .. Len(s)
      /\ Len(u) = Len(s)
      /\ \A j \in 1 .. Len(s) : u[j] = IF j = Len(s) THEN x ELSE s[j]
  BY <1>0, LenProperties, SettledHistory DEF Histories
<1>2. \A j \in 1 .. Len(s) : (s[j] = "running" => j = Len(s)) /\ s[j] # "published"
  BY <1>1 DEF Fits, IndicesOf
<1>3. IndicesOf(u, "running") = {}
  BY <1>0, <1>1, <1>2 DEF IndicesOf
<1>4. IndicesOf(u, "published") = IF x = "published" THEN {Len(s)} ELSE {}
  BY <1>1, <1>2 DEF IndicesOf
<1> QED BY <1>1, <1>3, <1>4 DEF Fits

\* Recovery of a running task leaves no attempt open.
LEMMA ClosedFits ==
  ASSUME NEW s \in Histories, Fits(s, "running")
  PROVE  Fits(CloseAttempts(s), "pending")
<1>1. DOMAIN s = 1 .. Len(s) /\ DOMAIN CloseAttempts(s) = 1 .. Len(s)
  BY LenProperties, ClosedHistory DEF Histories
<1>2. \A j \in 1 .. Len(s) : s[j] # "published"
  BY <1>1 DEF Fits, IndicesOf
<1> QED BY <1>1, <1>2, ClosedHistory DEF Fits, IndicesOf

HistoryFits == \A t \in Tasks : Fits(attempts[t], status[t])

\* Every failure is counted, and a task that is given to a worker has retries left.
RetriesExact ==
  \A t \in Tasks :
    /\ retryCount[t] = Count(t, "failed")
    /\ retryCount[t] <= MaxRetries + 1
    /\ status[t] = "running" => retryCount[t] <= MaxRetries

\* What mark_failure read before its transaction is still the retry count.
ReadRetryExact ==
  \A w \in Workers : pc[w] = "report_failure" => readRetry[w] = retryCount[claim[w].task]

HistoryInv == TimelyInv /\ HistoryFits /\ RetriesExact /\ ReadRetryExact

\* Every write of a status comes with the attempt that justifies it.
LEMMA StepHistoryFits ==
  ASSUME Timely, HistoryInv, [Next]_vars
  PROVE  HistoryFits'
<1> SUFFICES ASSUME NEW t \in Tasks PROVE Fits(attempts'[t], status'[t])
  BY DEF HistoryFits, Fits, IndicesOf
<1>0. /\ TimelyInv /\ TasksTyped
      /\ Fits(attempts[t], status[t])
      /\ attempts[t] \in Histories
  BY DEF HistoryInv, HistoryFits, TimelyInv, ControlInv, TypeInv, TypeOK, TasksTyped, Histories
<1> USE DEF taskVars, historyVars
<1>1. CASE UNCHANGED <<status, attempts>>
  BY <1>0, <1>1
<1>2. ASSUME NEW w \in Workers, claim_next(w) PROVE Fits(attempts'[t], status'[t])
  <2>1. CASE t = claim[w].task
    <3>1. status'[t] = "running" /\ attempts'[t] = Append(attempts[t], "running")
      BY <1>0, <1>2, <2>1 DEF claim_next, OpenAttempt, TasksTyped
    <3>2. status[t] \notin {"running", "published"}
      BY <1>0, <1>2, <2>1, ClaimedTask DEF CLAIMABLE_TASK_STATUSES
    <3> QED BY <1>0, <3>1, <3>2, OpenedFits
  <2>2. CASE t # claim[w].task
    <3>1. status'[t] = status[t] /\ attempts'[t] = attempts[t]
      BY <1>0, <1>2, <2>2 DEF claim_next, OpenAttempt, TasksTyped
    <3> QED BY <1>0, <3>1
  <2> QED BY <2>1, <2>2
<1>3. ASSUME NEW w \in Workers, Reporting(w) PROVE Fits(attempts'[t], status'[t])
  <2>1. PICK x \in ReportedResults,
             s \in {"published", "debug_ready", "dry_run", "failed", "pending"} :
               Settle(w, x, s) /\ (x = "published" <=> s = "published")
    BY <1>3, ReportEffect
  <2>2. CASE t = claim[w].task
    <3>1. status[t] = "running" /\ claim[w].attempt = Len(attempts[t]) /\ Len(attempts[t]) # 0
      BY <1>0, <1>3, <2>2, ReportEffect, ReportedTask
    <3>2. status'[t] = s /\ attempts'[t] = [attempts[t] EXCEPT ![Len(attempts[t])] = x]
      BY <1>0, <2>1, <2>2, <3>1 DEF Settle, TasksTyped
    <3>3. s # "running"
      OBVIOUS
    <3>4. Fits(attempts[t], "running")
      BY <1>0, <3>1
    <3> QED BY <1>0, <2>1, <3>1, <3>2, <3>3, <3>4, SettledFits
  <2>3. CASE t # claim[w].task
    <3>1. status'[t] = status[t] /\ attempts'[t] = attempts[t]
      BY <1>0, <2>1, <2>3 DEF Settle, TasksTyped
    <3> QED BY <1>0, <3>1
  <2> QED BY <2>2, <2>3
<1>4. ASSUME NEW r \in Recoverers, recover_worker(r) PROVE Fits(attempts'[t], status'[t])
  <2>1. CASE t \in TasksToRecover(r)
    <3>1. status[t] = "running"
      BY <1>0, <1>4, <2>1, RecoveredTasks DEF recover_worker
    <3>2. status'[t] = "pending" /\ attempts'[t] = CloseAttempts(attempts[t])
      BY <1>4, <2>1 DEF recover_worker
    <3> QED BY <1>0, <3>1, <3>2, ClosedFits
  <2>2. CASE t \notin TasksToRecover(r)
    <3>1. status'[t] = status[t] /\ attempts'[t] = attempts[t]
      BY <1>4, <2>2 DEF recover_worker
    <3> QED BY <1>0, <3>1
  <2> QED BY <2>1, <2>2
<1>5. ASSUME reschedule_overdue_tasks \/ pause_overdue_tasks
      PROVE  Fits(attempts'[t], status'[t])
  <2>1. attempts' = attempts
    BY <1>5 DEF reschedule_overdue_tasks, pause_overdue_tasks
  <2>2. \/ status'[t] = status[t]
        \/ /\ status[t] \notin {"running", "published"}
           /\ status'[t] \notin {"running", "published"}
    BY <1>5
    DEF reschedule_overdue_tasks, pause_overdue_tasks, OverdueTasks, CLAIMABLE_TASK_STATUSES
  <2> QED BY <1>0, <2>1, <2>2 DEF Fits
<1>6. ASSUME EndCheck \/ Still \/ \E u \in Tasks : Elapse(u)
      PROVE  UNCHANGED <<status, attempts>>
  BY <1>6 DEF EndCheck, EndHealthCheck, EndUsbCheck, Elapse, Still
<1> QED BY <1>0, <1>1, <1>2, <1>3, <1>4, <1>5, <1>6, TableStep

\* A failure is charged from the count of the moment, and only to a task that
\* was claimed with a retry left.
LEMMA StepRetriesExact ==
  ASSUME Timely, HistoryInv, [Next]_vars
  PROVE  RetriesExact'
<1> SUFFICES ASSUME NEW t \in Tasks
             PROVE  /\ retryCount'[t] = Count(t, "failed")'
                    /\ retryCount'[t] <= MaxRetries + 1
                    /\ status'[t] = "running" => retryCount'[t] <= MaxRetries
  BY DEF RetriesExact, Count, AttemptsWith
<1>0. /\ TimelyInv /\ TypeInv /\ TasksTyped /\ CountingInv
      /\ MaxRetries \in Nat
      /\ retryCount[t] \in Nat
      /\ retryCount[t] = Count(t, "failed")
      /\ retryCount[t] <= MaxRetries + 1
      /\ status[t] = "running" => retryCount[t] <= MaxRetries
  BY ConstantsAssumption
  DEF HistoryInv, RetriesExact, TimelyInv, ControlInv, PlacedInv, TypeInv, TypeOK, TasksTyped,
      CountingInv, AttemptKnown, ClaimsWhileWorking
<1>1. status'[t] = "running" => retryCount[t] <= MaxRetries
  BY <1>0, RunningStep, ClaimedTask
<1>2. "failed" \in ReportedResults /\ "published" \in ReportedResults
  BY DEF ReportedResults
<1>3. CASE ResultsKept
  BY <1>0, <1>1, <1>2, <1>3, KeptCounts DEF ResultsKept
<1>4. ASSUME NEW w \in Workers, mark_success(w) \/ OtherResult(w)
      PROVE  retryCount' = retryCount /\ Count(t, "failed")' = Count(t, "failed")
  <2>1. PICK x \in ReportedResults, s \in TaskStatuses :
               Settle(w, x, s) /\ x # "failed" /\ pc[w] \in Working
    BY <1>4 DEF mark_success, OtherResult, ReportedResults, TaskStatuses, Working, Holding
  <2>2. Count(t, "failed") \in Nat
    BY <1>0
  <2> QED BY <1>0, <1>2, <1>4, <2>1, <2>2, SettledCounts DEF CountingInv, mark_success, OtherResult
<1>5. ASSUME NEW w \in Workers, mark_failure(w)
      PROVE  /\ retryCount'[t] = Count(t, "failed")'
             /\ retryCount'[t] <= MaxRetries + 1
             /\ status'[t] = "running" => retryCount'[t] <= MaxRetries
  <2>1. PICK s : pc[w] \in Working /\ Settle(w, "failed", s)
    BY <1>5 DEF mark_failure, Working, Holding
  <2>2. Count(t, "failed")' = Count(t, "failed") + (IF t = claim[w].task THEN 1 ELSE 0)
    BY <1>0, <1>2, <2>1, SettledCounts DEF CountingInv
  <2>3. CASE t = claim[w].task
    <3>1. retryCount'[t] = retryCount[t] + 1
      BY <1>0, <1>5, <2>3 DEF mark_failure, HistoryInv, ReadRetryExact, TasksTyped
    <3>2. retryCount[t] <= MaxRetries
      BY <1>0, <2>1, <2>3, ReportedTask
    <3>3. status'[t] # "running"
      BY <1>0, <1>5, <2>3 DEF mark_failure, NextStatusAfterFailure, Settle, TasksTyped
    <3> QED BY <1>0, <2>2, <2>3, <3>1, <3>2, <3>3
  <2>4. CASE t # claim[w].task
    <3>1. retryCount'[t] = retryCount[t]
      BY <1>0, <1>5, <2>4 DEF mark_failure, TasksTyped
    <3> QED BY <1>0, <1>1, <2>2, <2>4, <3>1
  <2> QED BY <2>3, <2>4
<1> QED BY <1>0, <1>1, <1>3, <1>4, <1>5, CounterStep

\* Between the read of a retry count and its write nobody changes it.
LEMMA StepReadRetryExact ==
  ASSUME Timely, HistoryInv, [Next]_vars
  PROVE  ReadRetryExact'
<1> SUFFICES ASSUME NEW w \in Workers, pc'[w] = "report_failure"
             PROVE  readRetry'[w] = retryCount'[claim'[w].task]
  BY DEF ReadRetryExact
<1>0. TimelyInv /\ TypeInv
  BY DEF HistoryInv, TimelyInv, ControlInv
<1>1. pc[w] \in Working /\ claim'[w] = claim[w]
  BY <1>0, MemoryOfTypes, WorkStep DEF Working, Holding, claim_next, TypeInv, TypeOK, ProcessesTyped
<1>2. ~Reporting(w)
  <2>1. claim[w].attempt # 0
    BY <1>0, <1>1, ReportedTask
  <2>2. Reporting(w) => claim'[w] = NoClaim
    BY <1>0, ReportEffect DEF TypeInv, TypeOK, ProcessesTyped
  <2> QED BY <1>1, <2>1, <2>2 DEF NoClaim
<1>3. retryCount'[claim[w].task] = retryCount[claim[w].task]
  BY <1>0, <1>1, <1>2, HeldTaskStep
<1>4. CASE ReadRetryCount(w)
  BY <1>0, <1>1, <1>3, <1>4 DEF ReadRetryCount, TypeInv, TypeOK, ProcessesTyped
<1>5. CASE pc[w] = "report_failure" /\ readRetry'[w] = readRetry[w]
  BY <1>1, <1>3, <1>5 DEF HistoryInv, ReadRetryExact
<1> QED BY <1>0, <1>4, <1>5, MemoryOfTypes, WorkStep

\* In timely executions the status of a task is what its history says, for every
\* number of retries, crashes and failures: it is published at most once, and
\* given up after exactly the failures its retry count shows.
THEOREM StatusMatchesHistoryHolds ==
  ASSUME Timely PROVE Spec => []StatusMatchesHistory
<1>1. Init => HistoryInv
  <2>1. ASSUME NEW x PROVE IndicesOf(<< >>, x) = {}
    BY DEF IndicesOf
  <2>2. Init => HistoryFits
    BY <2>1 DEF Init, HistoryFits, Fits
  <2>3. ASSUME Init, NEW t \in Tasks PROVE Count(t, "failed") = 0
    BY <2>1, <2>3, FS_EmptySet DEF Init, Count, AttemptsWith, IndicesOf
  <2>4. Init => RetriesExact
    BY <2>3, ConstantsAssumption DEF Init, RetriesExact
  <2>5. Init => ReadRetryExact
    BY DEF Init, ReadRetryExact
  <2> QED BY <2>2, <2>4, <2>5, TimelyInvariant DEF HistoryInv
<1>2. HistoryInv /\ [Next]_vars => HistoryInv'
  BY TimelyInvariant, StepHistoryFits, StepRetriesExact, StepReadRetryExact DEF HistoryInv
<1>3. HistoryInv => StatusMatchesHistory
  BY DEF HistoryInv, HistoryFits, RetriesExact, StatusMatchesHistory, Fits, IndicesOf,
         AttemptsWith, Count
<1> QED BY <1>1, <1>2, <1>3, PTL DEF Spec


-----------------------------------------------------------------------------
(* The queue implements TaskLifecycle.                                       *)

\* The task a worker believes it holds: what Lifecycle substitutes for working.
Belief == [w \in Workers |-> IF claim[w].attempt = 0 THEN None ELSE claim[w].task]

\* Nobody starts to work on a task or stops.
BeliefsKept ==
  \A w \in Workers :
    claim'[w] = claim[w] \/ (claim[w].attempt = 0 /\ claim'[w].attempt = 0)

\* A worker's belief changes when it claims, when it reports and when it dies.
LEMMA BeliefStep ==
  ASSUME TimelyInv, [Next]_vars
  PROVE  \/ BeliefsKept
         \/ \E w \in Workers : claim_next(w) \/ Reporting(w) \/ Crash(w) \/ WorkerException(w)
<1> DEFINE Goal ==
      \/ BeliefsKept
      \/ \E w \in Workers : claim_next(w) \/ Reporting(w) \/ Crash(w) \/ WorkerException(w)
<1>0. /\ claim \in [Workers -> [task : Tasks \cup {None}, attempt : Nat]]
      /\ \A w \in Workers : pc[w] \notin Working => claim[w].attempt = 0
  BY DEF TimelyInv, ControlInv, TypeInv, TypeOK, ProcessesTyped, PlacedInv, ClaimsWhileWorking
<1>1. ASSUME claim' = claim PROVE Goal
  BY <1>1 DEF BeliefsKept
<1>2. ASSUME NEW w \in Workers, NEW c, pc[w] \notin Working, c.attempt = 0,
             claim' = [claim EXCEPT ![w] = c]
      PROVE  Goal
  BY <1>0, <1>2 DEF BeliefsKept
<1> USE DEF claimVars, workerVars
<1>3. ASSUME NEW w \in Workers, NEW t \in Tasks, SelectCandidate(w, t) PROVE Goal
  BY <1>2, <1>3 DEF SelectCandidate, Looking, Working, Holding
<1>4. ASSUME NEW w \in Workers, ClaimRefused(w) PROVE Goal
  BY <1>2, <1>4 DEF ClaimRefused, NoClaim, Working
<1>5. ASSUME NEW w \in Workers, finish(w) PROVE Goal
  BY <1>2, <1>5 DEF finish, ProcessEnds, ForgetClaim, NoClaim, Working, Holding
<1>6. ASSUME NEW w \in Workers, WorkerStep(w) PROVE Goal
  BY <1>1, <1>3, <1>4, <1>5, <1>6
  DEF WorkerStep, Reporting, Register, BeginHealthCheck, NoCandidate, EndHealthCheck, ClaimHook,
      StartPipeline, RejectBeforeRun, PipelineEnds, ReadRetryCount, CooldownEnds
<1>7. ASSUME NEW w \in Workers, \/ Heartbeat(w) \/ OrphanEnds(w) \/ LeaseExpires(w)
                                 \/ LeaseLapses(w) \/ WorkerException(w) \/ StopWorker(w)
                                 \/ Crash(w) \/ \E p \in Phones : Launch(w, p)
      PROVE  Goal
  BY <1>1, <1>7
  DEF Heartbeat, OrphanEnds, LeaseExpires, LeaseLapses, Expire, StopWorker, Launch
<1>8. ASSUME NEW r \in Recoverers, RecoveryStep(r) PROVE Goal
  BY <1>1, <1>8
  DEF RecoveryStep, recover_stale, recover_dead_processes, SelectForRecovery,
      ReadLockedTasks, recover_worker
<1>9. ASSUME reschedule_overdue_tasks \/ pause_overdue_tasks PROVE Goal
  BY <1>1, <1>9 DEF reschedule_overdue_tasks, pause_overdue_tasks
<1>10. ASSUME NEW p \in Phones, MonitorStep(p) PROVE Goal
  BY <1>1, <1>10 DEF MonitorStep, BeginUsbCheck, EndUsbCheck
<1>11. ASSUME NEW t \in Tasks, Elapse(t) PROVE Goal
  BY <1>1, <1>11 DEF Elapse
<1>12. CASE UNCHANGED vars
  BY <1>1, <1>12 DEF vars
<1> QED
  BY <1>6, <1>7, <1>8, <1>9, <1>10, <1>11, <1>12 DEF Next

\* A claim is a Claim: it takes a waiting task whose phone has no task in work.
LEMMA ClaimImplements ==
  ASSUME TimelyInv, NEW w \in Workers, claim_next(w)
  PROVE  Lifecycle!Next
<1> SUFFICES ASSUME NEW t \in Tasks, t = claim[w].task PROVE Lifecycle!Next
  BY ClaimedTask
<1>0. /\ claim \in [Workers -> [task : Tasks \cup {None}, attempt : Nat]]
      /\ attempts[t] \in Histories
  BY ClaimedTask DEF TimelyInv, ControlInv, TypeInv, TypeOK, TasksTyped, ProcessesTyped, Histories
<1>1. Len(attempts[t]) \in Nat
  BY <1>0, LenProperties DEF Histories
<1>2. t \in Tasks /\ status[t] \in Lifecycle!Waiting
  BY ClaimedTask DEF CLAIMABLE_TASK_STATUSES, Lifecycle!Waiting
<1>3. \A u \in Tasks : taskPhone[u] = taskPhone[t] => status[u] # "running"
  BY ClaimedTask
<1>4. Belief[w] = None
  BY ClaimedTask DEF Belief
<1>5. Belief' = [Belief EXCEPT ![w] = t]
  <2>1. claim' = [claim EXCEPT ![w].attempt = Len(attempts[t]) + 1]
    BY DEF claim_next
  <2>2. claim'[w].task = t /\ claim'[w].attempt # 0
    BY <1>0, <1>1, <2>1
  <2>3. \A v \in Workers \ {w} : claim'[v] = claim[v]
    BY <1>0, <2>1
  <2> QED BY <2>2, <2>3 DEF Belief
<1>6. Lifecycle!Claim(w, t)
  BY <1>2, <1>3, <1>4, <1>5 DEF Lifecycle!Claim, Belief, claim_next
<1> QED BY <1>6 DEF Lifecycle!Next

\* A result is a Report: the reporting worker holds the running task.
LEMMA ReportImplements ==
  ASSUME TimelyInv, NEW w \in Workers, Reporting(w)
  PROVE  Lifecycle!Next
<1> DEFINE t == claim[w].task
<1>0. claim \in [Workers -> [task : Tasks \cup {None}, attempt : Nat]] /\ None \notin Tasks
  BY ConstantsAssumption DEF TimelyInv, ControlInv, TypeInv, TypeOK, ProcessesTyped
<1>1. /\ t \in Tasks /\ status[t] = "running" /\ lockedBy[t] = w
      /\ Belief[w] = t /\ t # None
  BY <1>0, ReportEffect, ReportedTask DEF Belief
<1>2. PICK x \in ReportedResults, s \in {"published", "debug_ready", "dry_run", "failed", "pending"} :
             Settle(w, x, s)
  BY ReportEffect
<1>3. /\ status' = [status EXCEPT ![t] = s]
      /\ lockedBy' = [lockedBy EXCEPT ![t] = None]
  BY <1>2 DEF Settle
<1>4. Belief' = [Belief EXCEPT ![w] = None]
  <2>1. claim' = [claim EXCEPT ![w] = NoClaim]
    BY ReportEffect
  <2> QED BY <1>0, <2>1 DEF Belief, NoClaim
<1>5. taskPhone' = taskPhone
  BY DEF Reporting, mark_success, mark_debug_ready, mark_dry_run, mark_failure
<1>6. s \in Lifecycle!FinalStatuses \cup {"pending"}
  BY DEF Lifecycle!FinalStatuses
<1>7. Lifecycle!Report(w, s)
  BY <1>1, <1>3, <1>4, <1>5, <1>6 DEF Lifecycle!Report, Belief
<1> QED BY <1>6, <1>7 DEF Lifecycle!Next

\* A worker that dies or gives up vanishes, if it was working on a task.
LEMMA DeathImplements ==
  ASSUME TimelyInv, NEW w \in Workers, Crash(w) \/ WorkerException(w)
  PROVE  [Lifecycle!Next]_(Lifecycle!vars)
<1>0. claim \in [Workers -> [task : Tasks \cup {None}, attempt : Nat]] /\ None \notin Tasks
  BY ConstantsAssumption DEF TimelyInv, ControlInv, TypeInv, TypeOK, ProcessesTyped
<1>1. UNCHANGED <<status, lockedBy, taskPhone>>
  BY DEF Crash, WorkerException, taskVars
<1>2. Belief' = [Belief EXCEPT ![w] = None]
  <2>1. claim' = [claim EXCEPT ![w] = NoClaim]
    BY DEF Crash, WorkerException, ProcessEnds, ForgetClaim
  <2> QED BY <1>0, <2>1 DEF Belief, NoClaim
<1>3. CASE Belief[w] # None
  BY <1>1, <1>2, <1>3 DEF Lifecycle!Next, Lifecycle!Vanish, Belief
<1>4. CASE Belief[w] = None
  <2>1. Belief' = Belief
    BY <1>2, <1>4 DEF Belief
  <2> QED BY <1>1, <2>1 DEF Lifecycle!vars, Belief
<1> QED BY <1>3, <1>4

\* A recovery gives back abandoned tasks, if it finds any.
LEMMA RecoveryImplements ==
  ASSUME TimelyInv, NEW r \in Recoverers, recover_worker(r)
  PROVE  [Lifecycle!Next]_(Lifecycle!vars)
<1> DEFINE S == TasksToRecover(r)
<1>0. TasksTyped /\ None \notin Tasks
  BY ConstantsAssumption DEF TimelyInv, ControlInv, TypeInv, TypeOK
<1>1. Belief' = Belief /\ taskPhone' = taskPhone
  BY DEF Belief, recover_worker, workerVars, claimVars
<1>2. /\ status' = [t \in Tasks |-> IF t \in S THEN "pending" ELSE status[t]]
      /\ lockedBy' = [t \in Tasks |-> IF t \in S THEN None ELSE lockedBy[t]]
  BY DEF recover_worker
<1>3. S \in SUBSET Lifecycle!Abandoned
  <2>1. ASSUME NEW t \in S PROVE t \in Tasks /\ status[t] = "running" /\ Belief[lockedBy[t]] # t
    <3>1. /\ t \in Tasks /\ status[t] = "running"
          /\ lockedBy[t] \in Workers /\ ~Alive(lockedBy[t])
      BY RecoveredTasks DEF recover_worker
    <3>2. claim[lockedBy[t]].attempt = 0
      BY <3>1 DEF TimelyInv, ControlInv, PlacedInv, ClaimsWhileWorking, Alive, Working, Holding
    <3> QED BY <1>0, <3>1, <3>2 DEF Belief
  <2> QED BY <2>1 DEF Lifecycle!Abandoned, Belief
<1>4. CASE S # {}
  <2>1. Lifecycle!Recover(S)
    BY <1>1, <1>2, <1>4 DEF Lifecycle!Recover, Belief
  <2> QED BY <1>3, <2>1 DEF Lifecycle!Next
<1>5. CASE S = {}
  <2>1. status' = status /\ lockedBy' = lockedBy
    BY <1>0, <1>2, <1>5 DEF TasksTyped
  <2> QED BY <1>1, <2>1 DEF Lifecycle!vars, Belief
<1> QED BY <1>4, <1>5

\* The supervisor withdraws waiting tasks, which have no owner to forget.
LEMMA OverdueImplements ==
  ASSUME TimelyInv, reschedule_overdue_tasks \/ pause_overdue_tasks
  PROVE  Lifecycle!Next
<1> DEFINE S == OverdueTasks
<1>0. TasksTyped /\ LockedWhileRunning
  BY DEF TimelyInv, TablesInv, ControlInv, TypeInv, TypeOK
<1>1. Belief' = Belief /\ taskPhone' = taskPhone
  BY DEF Belief, reschedule_overdue_tasks, pause_overdue_tasks, workerVars, claimVars
<1>2. S \in SUBSET {t \in Tasks : status[t] \in Lifecycle!Waiting}
  BY DEF OverdueTasks, CLAIMABLE_TASK_STATUSES, Lifecycle!Waiting
<1>3. PICK s \in {"paused", "pending"} :
             status' = [t \in Tasks |-> IF t \in S THEN s ELSE status[t]]
  BY DEF reschedule_overdue_tasks, pause_overdue_tasks
<1>4. lockedBy' = lockedBy
  <2>1. lockedBy' = [t \in Tasks |-> IF t \in S THEN None ELSE lockedBy[t]]
    BY DEF reschedule_overdue_tasks, pause_overdue_tasks
  <2>2. \A t \in S : lockedBy[t] = None
    BY <1>0 DEF OverdueTasks, CLAIMABLE_TASK_STATUSES, LockedWhileRunning
  <2> QED BY <1>0, <2>1, <2>2 DEF TasksTyped
<1>5. Lifecycle!Withdraw(S, s)
  BY <1>1, <1>3, <1>4 DEF Lifecycle!Withdraw, Belief
<1> QED BY <1>2, <1>5 DEF Lifecycle!Next

\* Every step of the queue is a step of the lock service, or none.
LEMMA StepImplements ==
  ASSUME Timely, TimelyInv, [Next]_vars
  PROVE  [Lifecycle!Next]_(Lifecycle!vars)
<1>1. taskPhone' = taskPhone
  BY Effects DEF TimelyInv, ControlInv
<1>2. CASE BeliefsKept /\ status' = status /\ lockedBy' = lockedBy
  <2>1. Belief' = Belief
    BY <1>2 DEF BeliefsKept, Belief
  <2> QED BY <1>1, <1>2, <2>1 DEF Lifecycle!vars, Belief
<1>3. ASSUME Still \/ EndCheck \/ \E t \in Tasks : Elapse(t)
      PROVE  status' = status /\ lockedBy' = lockedBy
  BY <1>3 DEF Still, EndCheck, EndHealthCheck, EndUsbCheck, Elapse, taskVars
<1> QED
  BY <1>2, <1>3, BeliefStep, TableStep, ClaimImplements, ReportImplements, DeathImplements,
     RecoveryImplements, OverdueImplements

\* In timely executions the queue implements the lock service TaskLifecycle: a
\* task has one holder at a time, is reported by its holder only, is taken from
\* nobody who still works on it, and is never reopened once it is final.
THEOREM ImplementsLifecycleHolds ==
  ASSUME Timely PROVE Spec => ImplementsLifecycle
<1>1. Init => Lifecycle!Init
  <2>1. ASSUME Init PROVE Belief = [w \in Workers |-> None]
    BY <2>1 DEF Init, Belief, NoClaim
  <2> QED BY <2>1 DEF Init, Lifecycle!Init, Lifecycle!Waiting, Belief
<1>2. TimelyInv /\ [Next]_vars => [Lifecycle!Next]_(Lifecycle!vars)
  BY StepImplements
<1> QED BY <1>1, <1>2, TimelyInvariant, PTL DEF Spec, ImplementsLifecycle, Lifecycle!Spec

=============================================================================
