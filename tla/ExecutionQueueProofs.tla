----------------------- MODULE ExecutionQueueProofs -----------------------
(* Theorems about ExecutionQueue, for every number of tasks, phones,         *)
(* workers and recovery callers and every bound on the disturbances.         *)
EXTENDS ExecutionQueue, SequenceTheorems, TLAPS

-----------------------------------------------------------------------------
(* Histories of attempts. *)

\* Writing a result into a history changes that attempt only, and nothing if
\* the history has no such attempt.
LEMMA SettledSeq ==
  ASSUME NEW R, NEW s \in Seq(R), NEW i \in Nat, NEW x \in R
  PROVE  /\ [s EXCEPT ![i] = x] \in Seq(R)
         /\ Len([s EXCEPT ![i] = x]) = Len(s)
         /\ \A j \in 1 .. Len(s) : [s EXCEPT ![i] = x][j] = IF j = i THEN x ELSE s[j]
<1>1. CASE i \in 1 .. Len(s)
  BY <1>1, ExceptSeq
<1>2. CASE i \notin 1 .. Len(s)
  <2>1. s \in [1 .. Len(s) -> R]
    BY LenProperties
  <2>2. [s EXCEPT ![i] = x] = s
    BY <1>2, <2>1
  <2> QED BY <1>2, <2>2
<1> QED BY <1>1, <1>2

\* A claim appends one open attempt and keeps the others.
LEMMA OpenedSeq ==
  ASSUME NEW R, "running" \in R, NEW s \in Seq(R)
  PROVE  /\ Append(s, "running") \in Seq(R)
         /\ Append(s, "running") # << >>
         /\ Len(Append(s, "running")) = Len(s) + 1
         /\ Append(s, "running")[Len(s) + 1] = "running"
         /\ \A j \in 1 .. Len(s) : Append(s, "running")[j] = s[j]
BY AppendProperties

\* Closing the open attempts of a history keeps the others.
LEMMA ClosedSeq ==
  ASSUME NEW R, NEW x \in R, NEW s \in Seq(R),
         NEW c, c = [i \in DOMAIN s |-> IF s[i] = "running" THEN x ELSE s[i]]
  PROVE  /\ c \in Seq(R) /\ Len(c) = Len(s)
         /\ \A j \in 1 .. Len(s) : c[j] = IF s[j] = "running" THEN x ELSE s[j]
<1>1. Len(s) \in Nat /\ s \in [1 .. Len(s) -> R] /\ DOMAIN s = 1 .. Len(s)
  BY LenProperties
<1>2. c \in [1 .. Len(s) -> R]
  BY <1>1
<1>3. c \in Seq(R)
  BY <1>1, <1>2, SeqDef
<1> QED BY <1>1, <1>2, <1>3, LenProperties

\* The histories that claims, reports and recoveries write.
Histories == Seq(AttemptResults)

\* A result is written to one attempt of a history.
LEMMA SettledHistory ==
  ASSUME NEW s \in Histories, NEW i \in Nat, NEW x \in AttemptResults
  PROVE  /\ [s EXCEPT ![i] = x] \in Histories
         /\ Len([s EXCEPT ![i] = x]) = Len(s)
         /\ \A j \in 1 .. Len(s) : [s EXCEPT ![i] = x][j] = IF j = i THEN x ELSE s[j]
BY SettledSeq DEF Histories

\* A claim opens one.
LEMMA OpenedHistory ==
  ASSUME NEW s \in Histories
  PROVE  /\ Append(s, "running") \in Histories
         /\ Append(s, "running") # << >>
         /\ Len(Append(s, "running")) = Len(s) + 1
         /\ Append(s, "running")[Len(s) + 1] = "running"
         /\ \A j \in 1 .. Len(s) : Append(s, "running")[j] = s[j]
<1>1. "running" \in AttemptResults
  BY DEF AttemptResults
<1> QED BY <1>1, OpenedSeq DEF Histories

\* Recovery closes the open attempts of a history and keeps the others.
LEMMA ClosedHistory ==
  ASSUME NEW s \in Histories
  PROVE  /\ CloseAttempts(s) \in Histories
         /\ Len(CloseAttempts(s)) = Len(s)
         /\ \A j \in 1 .. Len(s) :
              CloseAttempts(s)[j] = IF s[j] = "running" THEN "stale_recovered" ELSE s[j]
<1>1. "stale_recovered" \in AttemptResults
  BY DEF AttemptResults
<1>2. CloseAttempts(s) = [i \in DOMAIN s |-> IF s[i] = "running" THEN "stale_recovered" ELSE s[i]]
  BY DEF CloseAttempts
<1> QED BY <1>1, <1>2, ClosedSeq DEF Histories

-----------------------------------------------------------------------------
(* Type correctness. *)

\* The states of a worker in which it uses the task it selected.
Holding == {"claim", "prepare", "ready", "pipeline", "report", "report_failure"}

\* Such a worker knows a task: what mark_* and claim_next read is defined.
ClaimTyped == \A w \in Workers : pc[w] \in Holding => claim[w].task \in Tasks

TypeInv == TypeOK /\ ClaimTyped

\* The same with histories of any results R: the requests of an operator write
\* other results than the queue does.
TypedOver(R) ==
  /\ attempts \in [Tasks -> Seq(R)]
  /\ status \in [Tasks -> TaskStatuses]
  /\ lockedBy \in [Tasks -> Workers \cup {None}]
  /\ retryCount \in [Tasks -> Nat]
  /\ window \in [Tasks -> {"open", "overdue"}]
  /\ taskPhone \in [Tasks -> Phones]
  /\ dryRunLogged \in [Tasks -> BOOLEAN]
  /\ usedCount \in [Tasks -> Nat]
  /\ PhonesTyped /\ RowsTyped /\ ProcessesTyped /\ RecoveryTyped /\ ClaimTyped
  /\ faults \in [Faults -> Nat]

\* The queue alone writes its own results.
LEMMA TypedOverResults == TypeInv <=> TypedOver(AttemptResults)
BY DEF TypeInv, TypeOK, TasksTyped, TypedOver

\* The part of it that tells who serves, holds and recovers what.
MemoryOK ==
  RowsTyped /\ ProcessesTyped /\ RecoveryTyped /\ ClaimTyped /\ faults \in [Faults -> Nat]

\* Typed tables hold the memory of every process, whatever results they record.
LEMMA MemoryOfTypes ==
  /\ TypeInv => MemoryOK
  /\ \A R : TypedOver(R) => MemoryOK
BY DEF TypeInv, TypeOK, TypedOver, MemoryOK

\* The initial tables and the memory of processes yet to start are well typed.
LEMMA InitTyped == Init => TypeInv
<1> SUFFICES ASSUME Init PROVE TypeInv
  OBVIOUS
<1>1. << >> \in Seq(AttemptResults)
  BY EmptySeq
<1>2. TasksTyped /\ PhonesTyped
  BY <1>1 DEF Init, TasksTyped, PhonesTyped, TaskStatuses, CLAIMABLE_TASK_STATUSES,
              PhoneStatuses, HealthStatuses
<1>3. RowsTyped /\ ProcessesTyped
  BY DEF Init, RowsTyped, ProcessesTyped, WorkerPcs, NoClaim
<1>4. RecoveryTyped /\ faults \in [Faults -> Nat]
  BY DEF Init, RecoveryTyped, NoRecovery
<1>5. ClaimTyped
  BY DEF Init, ClaimTyped, Holding
<1> QED BY <1>2, <1>3, <1>4, <1>5 DEF TypeInv, TypeOK

\* What the shared parts of the actions do to the types.
LEMMA DisturbTyped ==
  ASSUME faults \in [Faults -> Nat], NEW k \in Faults, Disturb(k)
  PROVE  faults' \in [Faults -> Nat]
BY DEF Disturb

\* The verdict of a health check is a phone status.
LEMMA RecordStatusTyped ==
  ASSUME PhonesTyped, faults \in [Faults -> Nat], NEW p, NEW s \in HealthStatuses, RecordStatus(p, s)
  PROVE  faults' \in [Faults -> Nat] /\ phoneStatus' \in [Phones -> PhoneStatuses]
<1>1. faults' \in [Faults -> Nat]
  BY DisturbTyped DEF RecordStatus, Faults
<1>2. phoneStatus' \in [Phones -> PhoneStatuses]
  BY DEF RecordStatus, PhonesTyped, PhoneStatuses
<1> QED BY <1>1, <1>2

\* A written result keeps the task tables typed.
LEMMA SettleTyped ==
  ASSUME NEW R, TypedOver(R), NEW w \in Workers, pc[w] \in Holding,
         NEW x \in R, NEW s \in TaskStatuses, Settle(w, x, s)
  PROVE  /\ attempts' \in [Tasks -> Seq(R)]
         /\ dryRunLogged' \in [Tasks -> BOOLEAN]
         /\ status' \in [Tasks -> TaskStatuses]
         /\ lockedBy' \in [Tasks -> Workers \cup {None}]
<1>1. claim[w].task \in Tasks /\ claim[w].attempt \in Nat
  BY DEF TypedOver, ProcessesTyped, ClaimTyped
<1>2. [attempts[claim[w].task] EXCEPT ![claim[w].attempt] = x] \in Seq(R)
  BY <1>1, SettledSeq DEF TypedOver
<1> QED BY <1>1, <1>2 DEF TypedOver, Settle

\* Forgetting a claim touches the claim of that worker only.
LEMMA ForgetClaimTyped ==
  ASSUME ProcessesTyped, NEW w \in Workers, ForgetClaim(w)
  PROVE  /\ claim' \in [Workers -> [task : Tasks \cup {None}, attempt : Nat]]
         /\ outcome' \in [Workers -> AllOutcomes \cup {None}]
         /\ readRetry' \in [Workers -> Nat]
         /\ \A v \in Workers \ {w} : claim'[v] = claim[v]
BY DEF ProcessesTyped, ForgetClaim, NoClaim

\* A worker that leaves the states in which it uses a task may forget it.
LEMMA LetGoTyped ==
  ASSUME ProcessesTyped, ClaimTyped, NEW w \in Workers, ForgetClaim(w),
         \E l \in WorkerPcs \ Holding : pc' = [pc EXCEPT ![w] = l]
  PROVE  pc' \in [Workers -> WorkerPcs] /\ ClaimTyped'
<1>1. PICK l \in WorkerPcs \ Holding : pc' = [pc EXCEPT ![w] = l]
  OBVIOUS
<1>2. pc' \in [Workers -> WorkerPcs]
  BY <1>1 DEF ProcessesTyped
<1>3. ASSUME NEW v \in Workers, pc'[v] \in Holding PROVE claim'[v].task \in Tasks
  <2>1. v # w /\ pc'[v] = pc[v]
    BY <1>1, <1>3 DEF ProcessesTyped
  <2>2. claim'[v] = claim[v]
    BY <2>1 DEF ProcessesTyped, ForgetClaim
  <2> QED BY <1>3, <2>1, <2>2 DEF ClaimTyped
<1> QED BY <1>2, <1>3 DEF ClaimTyped

\* One step per action; under it one step for the tables and one for the
\* memory of the processes and recovery calls, where both are disturbed.
LEMMA StepTypedOver ==
  ASSUME NEW R, AttemptResults \subseteq R, TypedOver(R), [Next]_vars
  PROVE  TypedOver(R)'
<1> DEFINE TasksOver == /\ attempts \in [Tasks -> Seq(R)]
                        /\ status \in [Tasks -> TaskStatuses]
                        /\ lockedBy \in [Tasks -> Workers \cup {None}]
                        /\ retryCount \in [Tasks -> Nat]
                        /\ window \in [Tasks -> {"open", "overdue"}]
                        /\ taskPhone \in [Tasks -> Phones]
                        /\ dryRunLogged \in [Tasks -> BOOLEAN]
                        /\ usedCount \in [Tasks -> Nat]
           TablesTyped == TasksOver /\ PhonesTyped /\ RowsTyped /\ faults \in [Faults -> Nat]
           MemoryTyped == ProcessesTyped /\ ClaimTyped /\ RecoveryTyped
<1> USE DEF TypedOver, PhonesTyped, RowsTyped, ProcessesTyped,
            RecoveryTyped, ClaimTyped, WorkerPcs, Holding, taskVars, historyVars,
            phoneVars, rowVars, claimVars, workerVars
<1>1. ASSUME NEW w \in Workers, NEW p \in Phones, Launch(w, p) PROVE TypedOver(R)'
  BY <1>1 DEF Launch
<1>2. ASSUME NEW w \in Workers, Register(w) PROVE TypedOver(R)'
  <2>1. CASE PhoneTaken(w)
    <3>1. TablesTyped' BY <1>2, <2>1 DEF Register
    <3>2. ProcessesTyped' BY <1>2, <2>1 DEF Register
    <3>3. ClaimTyped' BY <1>2, <2>1 DEF Register
    <3> QED BY <1>2, <3>1, <3>2, <3>3 DEF Register
  <2>2. CASE ~PhoneTaken(w)
    <3>1. TablesTyped'
      <4>1. /\ rowStatus' = [rowStatus EXCEPT ![w] = "starting"]
            /\ lease' = [lease EXCEPT ![w] = "live"]
        BY <1>2, <2>2 DEF Register
      <4>2. RowsTyped' BY <4>1 DEF ACTIVE_WORKER_STATUSES
      <4> QED BY <1>2, <4>2 DEF Register
    <3>2. ProcessesTyped'
      <4>1. /\ pc' = [pc EXCEPT ![w] = "poll"]
            /\ localStatus' = [localStatus EXCEPT ![w] = "idle"]
            /\ UNCHANGED <<claimVars, pipeline, phoneOf>>
        BY <1>2, <2>2 DEF Register
      <4> QED BY <4>1
    <3>3. ClaimTyped' BY <1>2, <2>2 DEF Register
    <3> QED BY <1>2, <3>1, <3>2, <3>3 DEF Register
  <2> QED BY <2>1, <2>2
<1>3. ASSUME NEW w \in Workers, BeginHealthCheck(w) PROVE TypedOver(R)'
  BY <1>3 DEF BeginHealthCheck, mark_completed_dry_run_tasks, TaskStatuses
<1>4. ASSUME NEW w \in Workers, NoCandidate(w) PROVE TypedOver(R)'
  BY <1>4 DEF NoCandidate, mark_completed_dry_run_tasks, TaskStatuses
<1>5. ASSUME NEW w \in Workers, NEW s \in HealthStatuses, EndHealthCheck(w, s) PROVE TypedOver(R)'
  <2>1. faults' \in [Faults -> Nat] /\ phoneStatus' \in [Phones -> PhoneStatuses]
    BY <1>5, RecordStatusTyped DEF EndHealthCheck
  <2>2. TablesTyped' BY <1>5, <2>1 DEF EndHealthCheck
  <2>3. MemoryTyped' BY <1>5 DEF EndHealthCheck
  <2> QED BY <2>2, <2>3
<1>6. ASSUME NEW w \in Workers, NEW t \in Tasks, SelectCandidate(w, t) PROVE TypedOver(R)'
  BY <1>6 DEF SelectCandidate, mark_completed_dry_run_tasks, TaskStatuses
<1>7. ASSUME NEW w \in Workers, claim_next(w) PROVE TypedOver(R)'
  <2> DEFINE t == claim[w].task
  <2>1. t \in Tasks /\ attempts[t] \in Seq(R) BY <1>7 DEF claim_next
  <2>2. Append(attempts[t], "running") \in Seq(R) /\ Len(attempts[t]) \in Nat
    BY <2>1, OpenedSeq, LenProperties DEF AttemptResults
  <2>3. TablesTyped'
    BY <1>7, <2>1, <2>2
      DEF claim_next, OpenAttempt, TaskStatuses, PhoneStatuses,
          BLOCKING_PHONE_STATUSES
  <2>4. ProcessesTyped'
    <3> DEFINE claimed == [claim[w] EXCEPT !.attempt = Len(attempts[t]) + 1]
    <3>1. claimed \in [task : Tasks \cup {None}, attempt : Nat]
      <4>1. claim[w] \in [task : Tasks \cup {None}, attempt : Nat] OBVIOUS
      <4>2. Len(attempts[t]) + 1 \in Nat BY <2>2
      <4> QED BY <4>1, <4>2
    <3>2. claim' \in [Workers -> [task : Tasks \cup {None}, attempt : Nat]]
      <4>1. claim' = [claim EXCEPT ![w] = claimed] BY <1>7 DEF claim_next
      <4> QED BY <3>1, <4>1
    <3>3. pc' \in [Workers -> WorkerPcs] BY <1>7 DEF claim_next
    <3> QED BY <1>7, <3>2, <3>3 DEF claim_next
  <2>5. ClaimTyped' BY <1>7, <2>1, <2>2 DEF claim_next
  <2>6. RecoveryTyped' BY <1>7 DEF claim_next
  <2> QED BY <2>3, <2>4, <2>5, <2>6
<1>8. ASSUME NEW w \in Workers, ClaimRefused(w) PROVE TypedOver(R)'
  BY <1>8 DEF ClaimRefused, NoClaim
<1>9. ASSUME NEW w \in Workers, ClaimHook(w) PROVE TypedOver(R)'
  BY <1>9 DEF ClaimHook, ACTIVE_WORKER_STATUSES
<1>10. ASSUME NEW w \in Workers, StartPipeline(w) PROVE TypedOver(R)'
  BY <1>10 DEF StartPipeline
<1>11. ASSUME NEW w \in Workers, NEW o \in Outcomes, RejectBeforeRun(w, o) PROVE TypedOver(R)'
  BY <1>11, ConstantsAssumption DEF RejectBeforeRun, Conclude
<1>12. ASSUME NEW w \in Workers, NEW o \in Outcomes, PipelineEnds(w, o) PROVE TypedOver(R)'
  BY <1>12, ConstantsAssumption DEF PipelineEnds, Conclude
<1>13. ASSUME NEW w \in Workers, mark_success(w) PROVE TypedOver(R)'
  <2>1. PICK x \in R, s \in TaskStatuses : Settle(w, x, s) /\ pc[w] \in Holding
    BY <1>13 DEF mark_success, AttemptResults, TaskStatuses
  <2>2. TablesTyped'
    <3>1. /\ attempts' \in [Tasks -> Seq(R)]
          /\ dryRunLogged' \in [Tasks -> BOOLEAN]
          /\ status' \in [Tasks -> TaskStatuses]
          /\ lockedBy' \in [Tasks -> Workers \cup {None}]
      BY <2>1, SettleTyped
    <3>2. usedCount' \in [Tasks -> Nat] BY <1>13 DEF mark_success
    <3>3. UNCHANGED <<retryCount, window, taskPhone>> BY <1>13 DEF mark_success
    <3>4. PhonesTyped'
      BY <1>13 DEF mark_success, ReleasePhone, PhoneStatuses, HealthStatuses, READY_PHONE_STATUS
    <3>5. RowsTyped' /\ faults' = faults BY <1>13 DEF mark_success
    <3> QED BY <3>1, <3>2, <3>3, <3>4, <3>5
  <2>3. \E l \in WorkerPcs \ Holding : pc' = [pc EXCEPT ![w] = l]
    BY <1>13 DEF mark_success, BackToPolling
  <2>4. pc' \in [Workers -> WorkerPcs] /\ ClaimTyped'
    BY <1>13, <2>3, LetGoTyped DEF mark_success
  <2>5. localStatus' \in [Workers -> {"starting", "idle", "running", "error"}]
    BY <1>13 DEF mark_success, BackToPolling
  <2>6. ProcessesTyped' BY <1>13, <2>4, <2>5, ForgetClaimTyped DEF mark_success
  <2>7. RecoveryTyped' BY <1>13 DEF mark_success
  <2> QED BY <2>2, <2>4, <2>6, <2>7
<1>14. ASSUME NEW w \in Workers, mark_debug_ready(w) PROVE TypedOver(R)'
  <2>1. PICK x \in R, s \in TaskStatuses : Settle(w, x, s) /\ pc[w] \in Holding
    BY <1>14 DEF mark_debug_ready, AttemptResults, TaskStatuses
  <2>2. TablesTyped'
    <3>1. TasksOver' BY <1>14, <2>1, SettleTyped DEF mark_debug_ready
    <3>2. PhonesTyped'
      BY <1>14
        DEF mark_debug_ready, ReleasePhone, PhoneStatuses, HealthStatuses, READY_PHONE_STATUS
    <3> QED BY <1>14, <3>1, <3>2 DEF mark_debug_ready
  <2>3. \E l \in WorkerPcs \ Holding : pc' = [pc EXCEPT ![w] = l]
    BY <1>14 DEF mark_debug_ready, BackToPolling
  <2>4. pc' \in [Workers -> WorkerPcs] /\ ClaimTyped'
    BY <1>14, <2>3, LetGoTyped DEF mark_debug_ready
  <2>5. localStatus' \in [Workers -> {"starting", "idle", "running", "error"}]
    BY <1>14 DEF mark_debug_ready, BackToPolling
  <2>6. ProcessesTyped' BY <1>14, <2>4, <2>5, ForgetClaimTyped DEF mark_debug_ready
  <2>7. RecoveryTyped' BY <1>14 DEF mark_debug_ready
  <2> QED BY <2>2, <2>4, <2>6, <2>7
<1>15. ASSUME NEW w \in Workers, mark_dry_run(w) PROVE TypedOver(R)'
  <2>1. PICK x \in R, s \in TaskStatuses : Settle(w, x, s) /\ pc[w] \in Holding
    BY <1>15 DEF mark_dry_run, AttemptResults, TaskStatuses
  <2>2. TablesTyped'
    <3>1. TasksOver' BY <1>15, <2>1, SettleTyped DEF mark_dry_run
    <3>2. PhonesTyped'
      BY <1>15 DEF mark_dry_run, ReleasePhone, PhoneStatuses, HealthStatuses, READY_PHONE_STATUS
    <3> QED BY <1>15, <3>1, <3>2 DEF mark_dry_run
  <2>3. \E l \in WorkerPcs \ Holding : pc' = [pc EXCEPT ![w] = l]
    BY <1>15 DEF mark_dry_run, BackToPolling
  <2>4. pc' \in [Workers -> WorkerPcs] /\ ClaimTyped'
    BY <1>15, <2>3, LetGoTyped DEF mark_dry_run
  <2>5. localStatus' \in [Workers -> {"starting", "idle", "running", "error"}]
    BY <1>15 DEF mark_dry_run, BackToPolling
  <2>6. ProcessesTyped' BY <1>15, <2>4, <2>5, ForgetClaimTyped DEF mark_dry_run
  <2>7. RecoveryTyped' BY <1>15 DEF mark_dry_run
  <2> QED BY <2>2, <2>4, <2>6, <2>7
<1>16. ASSUME NEW w \in Workers, ReadRetryCount(w) PROVE TypedOver(R)'
  BY <1>16 DEF ReadRetryCount
<1>17. ASSUME NEW w \in Workers, mark_failure(w) PROVE TypedOver(R)'
  <2>1. PICK x \in R, s \in TaskStatuses : Settle(w, x, s) /\ pc[w] \in Holding
    BY <1>17
      DEF mark_failure, NextStatusAfterFailure, AttemptResults, TaskStatuses,
          CLAIMABLE_TASK_STATUSES
  <2>2. TablesTyped'
    <3>1. /\ attempts' \in [Tasks -> Seq(R)]
          /\ dryRunLogged' \in [Tasks -> BOOLEAN]
          /\ status' \in [Tasks -> TaskStatuses]
          /\ lockedBy' \in [Tasks -> Workers \cup {None}]
      BY <2>1, SettleTyped
    <3>2. retryCount' \in [Tasks -> Nat] BY <1>17 DEF mark_failure
    <3>3. window' \in [Tasks -> {"open", "overdue"}] BY <1>17 DEF mark_failure, ReportedWindows
    <3>4. UNCHANGED <<usedCount, taskPhone>> BY <1>17 DEF mark_failure
    <3>5. PhonesTyped' BY <1>17 DEF mark_failure, ReleasePhone, PhoneStatuses, HealthStatuses
    <3>6. RowsTyped' /\ faults' = faults BY <1>17 DEF mark_failure
    <3> QED BY <3>1, <3>2, <3>3, <3>4, <3>5, <3>6
  <2>3. \E l \in WorkerPcs \ Holding : pc' = [pc EXCEPT ![w] = l]
    <3>1. CASE StopOnFailure BY <1>17, <3>1 DEF mark_failure
    <3>2. CASE ~StopOnFailure BY <1>17, <3>2 DEF mark_failure
    <3> QED BY <3>1, <3>2
  <2>4. pc' \in [Workers -> WorkerPcs] /\ ClaimTyped'
    BY <1>17, <2>3, LetGoTyped DEF mark_failure
  <2>5. localStatus' \in [Workers -> {"starting", "idle", "running", "error"}]
    BY <1>17 DEF mark_failure
  <2>6. ProcessesTyped' BY <1>17, <2>4, <2>5, ForgetClaimTyped DEF mark_failure
  <2>7. RecoveryTyped' BY <1>17 DEF mark_failure
  <2> QED BY <2>2, <2>4, <2>6, <2>7
<1>18. ASSUME NEW w \in Workers, CooldownEnds(w) PROVE TypedOver(R)'
  BY <1>18 DEF CooldownEnds, BackToPolling
<1>19. ASSUME NEW w \in Workers, finish(w) PROVE TypedOver(R)'
  BY <1>19, ForgetClaimTyped DEF finish, ProcessEnds
<1>20. ASSUME NEW w \in Workers, Heartbeat(w) PROVE TypedOver(R)'
  BY <1>20 DEF Heartbeat, ACTIVE_WORKER_STATUSES
<1>21. ASSUME NEW w \in Workers, OrphanEnds(w) PROVE TypedOver(R)'
  BY <1>21 DEF OrphanEnds
<1>22. ASSUME NEW r \in Recoverers, recover_stale(r) PROVE TypedOver(R)'
  BY <1>22 DEF recover_stale, SelectForRecovery, ExpiredRows, NoRecovery
<1>23. ASSUME NEW r \in Recoverers, recover_dead_processes(r) PROVE TypedOver(R)'
  BY <1>23 DEF recover_dead_processes, SelectForRecovery, DeadRows, NoRecovery
<1>24. ASSUME NEW r \in Recoverers, NEW w \in Workers, ReadLockedTasks(r, w) PROVE TypedOver(R)'
  <2>1. RunningTasksLockedBy(w) \in SUBSET Tasks BY DEF RunningTasksLockedBy
  <2> DEFINE selected == [recovery[r] EXCEPT !.pc = "read", !.first = w,
                                               !.tasks = RunningTasksLockedBy(w)]
  <2>2. selected \in [pc : {"idle", "selected", "read"}, workers : SUBSET Workers,
                     first : Workers \cup {None}, tasks : SUBSET Tasks]
    <3>1. recovery[r] \in [pc : {"idle", "selected", "read"}, workers : SUBSET Workers,
                           first : Workers \cup {None}, tasks : SUBSET Tasks]
      OBVIOUS
    <3> QED BY <2>1, <3>1
  <2>3. recovery' = [recovery EXCEPT ![r] = selected] BY <1>24 DEF ReadLockedTasks
  <2>4. RecoveryTyped'
    BY <2>2, <2>3
  <2> QED BY <1>24, <2>4 DEF ReadLockedTasks
<1>25. ASSUME NEW r \in Recoverers, recover_worker(r) PROVE TypedOver(R)'
  <2>1. ASSUME NEW t \in Tasks PROVE CloseAttempts(attempts[t]) \in Seq(R)
    <3>1. "stale_recovered" \in R /\ attempts[t] \in Seq(R)
      BY DEF AttemptResults
    <3>2. CloseAttempts(attempts[t])
            = [i \in DOMAIN attempts[t] |-> IF attempts[t][i] = "running" THEN "stale_recovered"
                                            ELSE attempts[t][i]]
      BY DEF CloseAttempts
    <3> QED BY <3>1, <3>2, ClosedSeq
  <2>2. TablesTyped'
    BY <1>25, <2>1
      DEF recover_worker, TaskStatuses, CLAIMABLE_TASK_STATUSES, PhoneStatuses,
          HealthStatuses
  <2>3. MemoryTyped' BY <1>25 DEF recover_worker, NoRecovery
  <2> QED BY <2>2, <2>3
<1>26. ASSUME reschedule_overdue_tasks PROVE TypedOver(R)'
  BY <1>26 DEF reschedule_overdue_tasks, TaskStatuses, CLAIMABLE_TASK_STATUSES
<1>27. ASSUME pause_overdue_tasks PROVE TypedOver(R)'
  BY <1>27 DEF pause_overdue_tasks, TaskStatuses
<1>28. ASSUME NEW p \in Phones, BeginUsbCheck(p) PROVE TypedOver(R)'
  BY <1>28 DEF BeginUsbCheck
<1>29. ASSUME NEW p \in Phones, NEW s \in HealthStatuses, EndUsbCheck(p, s) PROVE TypedOver(R)'
  BY <1>29, RecordStatusTyped DEF EndUsbCheck
<1>30. ASSUME NEW w \in Workers, LeaseExpires(w) PROVE TypedOver(R)'
  BY <1>30 DEF LeaseExpires, Expire
<1>31. ASSUME NEW w \in Workers, LeaseLapses(w) PROVE TypedOver(R)'
  BY <1>31, DisturbTyped DEF LeaseLapses, Expire, Faults
<1>32. ASSUME NEW w \in Workers, WorkerException(w) PROVE TypedOver(R)'
  <2>1. TablesTyped' BY <1>32, DisturbTyped DEF WorkerException, Faults
  <2>2. MemoryTyped' BY <1>32, ForgetClaimTyped DEF WorkerException
  <2> QED BY <2>1, <2>2
<1>33. ASSUME NEW w \in Workers, StopWorker(w) PROVE TypedOver(R)'
  <2>1. TablesTyped' BY <1>33, DisturbTyped DEF StopWorker, Faults
  <2>2. MemoryTyped' BY <1>33 DEF StopWorker
  <2> QED BY <2>1, <2>2
<1>34. ASSUME NEW w \in Workers, Crash(w) PROVE TypedOver(R)'
  <2>1. TablesTyped' BY <1>34, DisturbTyped DEF Crash, Faults
  <2>2. MemoryTyped' BY <1>34, ForgetClaimTyped DEF Crash, ProcessEnds
  <2> QED BY <2>1, <2>2
<1>35. ASSUME NEW t \in Tasks, Elapse(t) PROVE TypedOver(R)'
  BY <1>35, DisturbTyped DEF Elapse, Faults
<1>36. CASE UNCHANGED vars
  BY <1>36 DEF vars
<1> QED
  BY <1>1, <1>2, <1>3, <1>4, <1>5, <1>6, <1>7, <1>8, <1>9, <1>10, <1>11, <1>12, <1>13, <1>14,
     <1>15, <1>16, <1>17, <1>18, <1>19, <1>20, <1>21, <1>22, <1>23, <1>24, <1>25, <1>26, <1>27,
     <1>28, <1>29, <1>30, <1>31, <1>32, <1>33, <1>34, <1>35, <1>36
    DEF Next, WorkerStep, RecoveryStep, MonitorStep

\* ... which the queue does.
LEMMA StepTyped == TypeInv /\ [Next]_vars => TypeInv'
<1>1. TypedOver(AttemptResults) /\ [Next]_vars => TypedOver(AttemptResults)'
  BY StepTypedOver
<1>2. TypeInv' <=> TypedOver(AttemptResults)'
  BY TypedOverResults, PTL
<1> QED BY <1>1, <1>2, TypedOverResults

-----------------------------------------------------------------------------
\* Every reachable state is well typed.
THEOREM TypeCorrect == Spec => []TypeOK
<1>1. TypeInv => TypeOK
  BY DEF TypeInv
<1> QED BY <1>1, InitTyped, StepTyped, PTL DEF Spec

-----------------------------------------------------------------------------
(* What a step can do to the tasks. *)

\* A worker writes a result for its claim and forgets the claim.
Reported(w) ==
  /\ pc[w] \in Holding \ {"claim"}
  /\ ForgetClaim(w)
  /\ \E x \in ReportedResults, s \in TaskStatuses \ {"running"} : Settle(w, x, s)

\* Nothing happens to the attempts, no task starts and no claim is opened.
Quiet ==
  /\ attempts' = attempts
  /\ \A t \in Tasks : status'[t] = "running" => status[t] = "running" /\ lockedBy'[t] = lockedBy[t]
  /\ \A w \in Workers : claim'[w] = claim[w] \/ claim'[w].attempt = 0

\* Seen from the tasks, a step opens a claim, reports a result, recovers tasks
\* or is quiet.
LEMMA TaskEffects ==
  ASSUME ProcessesTyped, [Next]_vars
  PROVE  /\ taskPhone' = taskPhone
         /\ \/ Quiet
            \/ \E w \in Workers : claim_next(w)
            \/ \E w \in Workers : Reported(w)
            \/ \E r \in Recoverers : recover_worker(r)
<1> DEFINE Goal == /\ taskPhone' = taskPhone
                   /\ \/ Quiet
                      \/ \E w \in Workers : claim_next(w)
                      \/ \E w \in Workers : Reported(w)
                      \/ \E r \in Recoverers : recover_worker(r)
<1> USE DEF taskVars, historyVars, phoneVars, rowVars, claimVars, workerVars
<1>1. ASSUME NEW w \in Workers, Heartbeat(w) \/ OrphanEnds(w) \/ StopWorker(w)
                                  \/ LeaseExpires(w) \/ LeaseLapses(w)
      PROVE  Goal
  BY <1>1 DEF Heartbeat, OrphanEnds, StopWorker, LeaseExpires, LeaseLapses, Expire, Quiet
<1>2. ASSUME NEW w \in Workers, NEW p \in Phones, Launch(w, p) PROVE Goal
  BY <1>2 DEF Launch, Quiet
<1>3. ASSUME NEW w \in Workers, Register(w) \/ ClaimHook(w) \/ StartPipeline(w)
                                  \/ ReadRetryCount(w) \/ CooldownEnds(w)
      PROVE  Goal
  BY <1>3
    DEF Register, ClaimHook, StartPipeline, ReadRetryCount, CooldownEnds, BackToPolling, Quiet
<1>4. ASSUME NEW w \in Workers, NEW o \in Outcomes, RejectBeforeRun(w, o) \/ PipelineEnds(w, o)
      PROVE  Goal
  BY <1>4 DEF RejectBeforeRun, PipelineEnds, Quiet
<1>5. ASSUME NEW w \in Workers, NEW s \in HealthStatuses, EndHealthCheck(w, s) PROVE Goal
  BY <1>5 DEF EndHealthCheck, Quiet
<1>6. ASSUME mark_completed_dry_run_tasks
      PROVE  /\ attempts' = attempts
             /\ \A t \in Tasks : status'[t] = "running" =>
                                   status[t] = "running" /\ lockedBy'[t] = lockedBy[t]
  BY <1>6 DEF mark_completed_dry_run_tasks, CompletedDryRun, CLAIMABLE_TASK_STATUSES
<1>7. ASSUME NEW w \in Workers, BeginHealthCheck(w) \/ NoCandidate(w) PROVE Goal
  BY <1>6, <1>7 DEF BeginHealthCheck, NoCandidate, Quiet
<1>8. ASSUME NEW w \in Workers, ClaimRefused(w) PROVE Goal
  BY <1>8 DEF ClaimRefused, Quiet, NoClaim, ProcessesTyped
<1>9. ASSUME NEW w \in Workers, NEW t \in Tasks, SelectCandidate(w, t) PROVE Goal
  BY <1>6, <1>9 DEF SelectCandidate, Quiet, ProcessesTyped
<1>10. ASSUME NEW w \in Workers, finish(w) \/ Crash(w) \/ WorkerException(w) PROVE Goal
  BY <1>10
    DEF finish, Crash, WorkerException, ProcessEnds, ForgetClaim, NoClaim, Quiet,
        ProcessesTyped
<1>11. ASSUME NEW w \in Workers, claim_next(w) PROVE Goal
  BY <1>11 DEF claim_next
<1>12. ASSUME NEW w \in Workers, mark_success(w) PROVE Goal
  BY <1>12 DEF mark_success, Reported, Holding, ReportedResults, TaskStatuses
<1>13. ASSUME NEW w \in Workers, mark_debug_ready(w) PROVE Goal
  BY <1>13 DEF mark_debug_ready, Reported, Holding, ReportedResults, TaskStatuses
<1>14. ASSUME NEW w \in Workers, mark_dry_run(w) PROVE Goal
  BY <1>14 DEF mark_dry_run, Reported, Holding, ReportedResults, TaskStatuses
<1>15. ASSUME NEW w \in Workers, mark_failure(w) PROVE Goal
  BY <1>15 DEF mark_failure, NextStatusAfterFailure, Reported, Holding, ReportedResults,
               TaskStatuses, CLAIMABLE_TASK_STATUSES
<1>16. ASSUME NEW r \in Recoverers, recover_stale(r) \/ recover_dead_processes(r) PROVE Goal
  BY <1>16 DEF recover_stale, recover_dead_processes, SelectForRecovery, Quiet
<1>17. ASSUME NEW r \in Recoverers, NEW w \in Workers, ReadLockedTasks(r, w) PROVE Goal
  BY <1>17 DEF ReadLockedTasks, Quiet
<1>18. ASSUME NEW r \in Recoverers, recover_worker(r) PROVE Goal
  BY <1>18 DEF recover_worker
<1>19. ASSUME reschedule_overdue_tasks \/ pause_overdue_tasks PROVE Goal
  BY <1>19 DEF reschedule_overdue_tasks, pause_overdue_tasks, Quiet
<1>20. ASSUME NEW p \in Phones, BeginUsbCheck(p) PROVE Goal
  BY <1>20 DEF BeginUsbCheck, Quiet
<1>21. ASSUME NEW p \in Phones, NEW s \in HealthStatuses, EndUsbCheck(p, s) PROVE Goal
  BY <1>21 DEF EndUsbCheck, Quiet
<1>22. ASSUME NEW t \in Tasks, Elapse(t) PROVE Goal
  BY <1>22 DEF Elapse, Quiet
<1>23. CASE UNCHANGED vars
  BY <1>23 DEF vars, Quiet
<1> QED
  BY <1>1, <1>2, <1>3, <1>4, <1>5, <1>7, <1>8, <1>9, <1>10, <1>11, <1>12, <1>13, <1>14, <1>15,
     <1>16, <1>17, <1>18, <1>19, <1>20, <1>21, <1>22, <1>23
  DEF Next, WorkerStep, RecoveryStep, MonitorStep

\* ... in every reachable state.
LEMMA Effects ==
  ASSUME TypeInv, [Next]_vars
  PROVE  /\ taskPhone' = taskPhone
         /\ \/ Quiet
            \/ \E w \in Workers : claim_next(w)
            \/ \E w \in Workers : Reported(w)
            \/ \E r \in Recoverers : recover_worker(r)
BY TaskEffects DEF TypeInv, TypeOK

-----------------------------------------------------------------------------
(* One running task per phone. *)

\* The check of claim_next keeps the invariant, nothing else starts a task.
LEMMA StepOneRunningTask ==
  TypeInv /\ OneRunningTaskPerPhone /\ [Next]_vars => OneRunningTaskPerPhone'
<1> SUFFICES ASSUME TypeInv, OneRunningTaskPerPhone, [Next]_vars
             PROVE  OneRunningTaskPerPhone'
  OBVIOUS
<1> USE DEF OneRunningTaskPerPhone
<1>0. taskPhone' = taskPhone
  BY Effects
<1>1. CASE Quiet
  BY <1>0, <1>1 DEF Quiet
<1>2. ASSUME NEW w \in Workers, claim_next(w) PROVE OneRunningTaskPerPhone'
  <2> DEFINE t == claim[w].task
  <2>1. /\ taskPhone[t] = phoneOf[w]
        /\ \A u \in Tasks \ {t} : taskPhone[u] = taskPhone[t] => status[u] # "running"
        /\ status' = [status EXCEPT ![t] = "running"]
    BY <1>2 DEF claim_next, Claimable, phone_has_running_task
  <2> QED BY <1>0, <2>1 DEF TypeInv, TypeOK, TasksTyped
<1>3. ASSUME NEW w \in Workers, Reported(w) PROVE OneRunningTaskPerPhone'
  BY <1>0, <1>3 DEF Reported, Settle, TypeInv, TypeOK, TasksTyped
<1>4. ASSUME NEW r \in Recoverers, recover_worker(r) PROVE OneRunningTaskPerPhone'
  BY <1>0, <1>4 DEF recover_worker
<1> QED BY <1>1, <1>2, <1>3, <1>4, Effects

\* The database never shows two running tasks on one phone, for any number of
\* tasks, phones, workers and recovery callers and any disturbances.
THEOREM OneRunningTaskPerPhoneHolds == Spec => []OneRunningTaskPerPhone
<1>1. Init => OneRunningTaskPerPhone
  BY DEF Init, OneRunningTaskPerPhone
<1> QED BY <1>1, InitTyped, StepTyped, StepOneRunningTask, PTL DEF Spec

-----------------------------------------------------------------------------
(* A running task has an open attempt. *)

\* Every action that closes the latest attempt of a task also ends the task.
LEMMA StepOpenAttempt ==
  TypeInv /\ RunningTaskHasOpenAttempt /\ [Next]_vars => RunningTaskHasOpenAttempt'
<1> SUFFICES ASSUME TypeInv, RunningTaskHasOpenAttempt, [Next]_vars,
                    NEW t \in Tasks, status'[t] = "running"
             PROVE  /\ lockedBy'[t] # None
                    /\ attempts'[t] # << >>
                    /\ attempts'[t][Len(attempts'[t])] = "running"
  BY DEF RunningTaskHasOpenAttempt
<1> USE DEF RunningTaskHasOpenAttempt
<1>1. CASE Quiet
  BY <1>1 DEF Quiet
<1>2. ASSUME NEW w \in Workers, claim_next(w), t = claim[w].task
      PROVE  /\ lockedBy'[t] # None
             /\ attempts'[t] # << >>
             /\ attempts'[t][Len(attempts'[t])] = "running"
  <2>1. attempts'[t] = Append(attempts[t], "running") /\ lockedBy'[t] = w
    BY <1>2 DEF claim_next, OpenAttempt, TypeInv, TypeOK, TasksTyped
  <2>2. attempts[t] \in Histories
    BY DEF TypeInv, TypeOK, TasksTyped, Histories
  <2>3. w # None
    BY ConstantsAssumption
  <2> QED BY <2>1, <2>2, <2>3, OpenedHistory
<1>3. ASSUME NEW w \in Workers, claim_next(w), t # claim[w].task
      PROVE  status[t] = "running" /\ lockedBy'[t] = lockedBy[t] /\ attempts'[t] = attempts[t]
  BY <1>3 DEF claim_next, OpenAttempt, TypeInv, TypeOK, TasksTyped
<1>4. ASSUME NEW w \in Workers, Reported(w)
      PROVE  status[t] = "running" /\ lockedBy'[t] = lockedBy[t] /\ attempts'[t] = attempts[t]
  BY <1>4 DEF Reported, Settle, TypeInv, TypeOK, TasksTyped
<1>5. ASSUME NEW r \in Recoverers, recover_worker(r)
      PROVE  status[t] = "running" /\ lockedBy'[t] = lockedBy[t] /\ attempts'[t] = attempts[t]
  BY <1>5 DEF recover_worker
<1> QED BY <1>1, <1>2, <1>3, <1>4, <1>5, Effects

\* A task shown as running has an owner and an open latest attempt, however
\* recoveries and late results interleave.
THEOREM RunningTaskHasOpenAttemptHolds == Spec => []RunningTaskHasOpenAttempt
<1>1. Init => RunningTaskHasOpenAttempt
  BY DEF Init, RunningTaskHasOpenAttempt
<1> QED BY <1>1, InitTyped, StepTyped, StepOpenAttempt, PTL DEF Spec

-----------------------------------------------------------------------------
(* Reported results are final. *)

OpenResults == {"running", "stale_recovered"}

\* The attempt a worker claimed has no result yet, and no two workers hold the
\* same attempt: no late result finds its place already taken.
ClaimsOpen ==
  \A w \in Workers : claim[w].attempt # 0 =>
    /\ claim[w].task \in Tasks
    /\ claim[w].attempt \in 1 .. Len(attempts[claim[w].task])
    /\ attempts[claim[w].task][claim[w].attempt] \in OpenResults

ClaimsDistinct ==
  \A v, w \in Workers : claim[v].attempt # 0 /\ claim[v] = claim[w] => v = w

ClaimInv == ClaimsOpen /\ ClaimsDistinct

\* What ReportedResultsAreFinal asks of one step.
HistoryGrows ==
  \A t \in Tasks : \A i \in DOMAIN attempts[t] :
    /\ i \in DOMAIN attempts'[t]
    /\ attempts[t][i] \in ReportedResults => attempts'[t][i] = attempts[t][i]

\* A claim opens a new attempt, so it is nobody else's.
LEMMA ClaimStep ==
  ASSUME TypeInv, ClaimInv, NEW w \in Workers, claim_next(w)
  PROVE  ClaimInv' /\ HistoryGrows
<1> DEFINE t == claim[w].task
<1>1. t \in Tasks /\ attempts[t] \in Histories /\ Len(attempts[t]) \in Nat
  BY LenProperties DEF claim_next, TypeInv, TypeOK, TasksTyped, ClaimTyped, Holding, Histories
<1>2. \A u \in Tasks : attempts'[u] = IF u = t THEN Append(attempts[u], "running") ELSE attempts[u]
  BY <1>1 DEF claim_next, OpenAttempt, TypeInv, TypeOK, TasksTyped
<1>3. /\ claim'[w].task = t
      /\ claim'[w].attempt = Len(attempts[t]) + 1
      /\ \A v \in Workers \ {w} : claim'[v] = claim[v]
  BY DEF claim_next, TypeInv, TypeOK, ProcessesTyped
<1>4. /\ DOMAIN attempts'[t] = 1 .. (Len(attempts[t]) + 1)
      /\ Len(attempts'[t]) = Len(attempts[t]) + 1
      /\ attempts'[t][Len(attempts[t]) + 1] = "running"
      /\ \A i \in 1 .. Len(attempts[t]) : attempts'[t][i] = attempts[t][i]
  <2>1. attempts'[t] = Append(attempts[t], "running") /\ attempts'[t] \in Histories
    BY <1>1, <1>2, OpenedHistory
  <2>2. DOMAIN attempts'[t] = 1 .. Len(attempts'[t])
    BY <2>1, LenProperties DEF Histories
  <2> QED BY <1>1, <2>1, <2>2, OpenedHistory
<1>5. \A u \in Tasks : /\ DOMAIN attempts[u] = 1 .. Len(attempts[u])
                       /\ Len(attempts[u]) \in Nat
                       /\ u # t => attempts'[u] = attempts[u]
  BY <1>2, LenProperties DEF TypeInv, TypeOK, TasksTyped
<1> HIDE DEF t
<1>6. HistoryGrows
  <2> SUFFICES ASSUME NEW u \in Tasks, NEW i \in DOMAIN attempts[u]
               PROVE  i \in DOMAIN attempts'[u] /\ attempts'[u][i] = attempts[u][i]
    BY DEF HistoryGrows
  <2>1. CASE u = t
    <3>1. i \in 1 .. Len(attempts[t])
      BY <1>1, <1>5, <2>1
    <3>2. i \in 1 .. (Len(attempts[t]) + 1)
      BY <1>1, <3>1
    <3> QED BY <1>4, <2>1, <3>1, <3>2
  <2>2. CASE u # t
    BY <1>5, <2>2
  <2> QED BY <2>1, <2>2
<1>7. ClaimsOpen'
  <2> SUFFICES ASSUME NEW v \in Workers, claim'[v].attempt # 0
               PROVE  /\ claim'[v].task \in Tasks
                      /\ claim'[v].attempt \in 1 .. Len(attempts'[claim'[v].task])
                      /\ attempts'[claim'[v].task][claim'[v].attempt] \in OpenResults
    BY DEF ClaimsOpen
  <2>1. CASE v = w
    <3>1. Len(attempts[t]) + 1 \in 1 .. (Len(attempts[t]) + 1)
      BY <1>1
    <3> QED BY <1>1, <1>3, <1>4, <2>1, <3>1 DEF OpenResults
  <2>2. CASE v # w
    <3>1. /\ claim'[v] = claim[v]
          /\ claim[v].task \in Tasks
          /\ claim[v].attempt \in 1 .. Len(attempts[claim[v].task])
          /\ attempts[claim[v].task][claim[v].attempt] \in OpenResults
      BY <1>3, <2>2 DEF ClaimInv, ClaimsOpen
    <3>2. CASE claim[v].task = t
      <4>1. claim[v].attempt \in 1 .. (Len(attempts[t]) + 1)
        BY <1>1, <3>1, <3>2
      <4> QED BY <1>4, <3>1, <3>2, <4>1
    <3>3. CASE claim[v].task # t
      BY <1>5, <3>1, <3>3
    <3> QED BY <3>2, <3>3
  <2> QED BY <2>1, <2>2
<1>8. ClaimsDistinct'
  <2>1. ASSUME NEW v \in Workers \ {w} PROVE claim'[v] # claim'[w] \/ claim'[v].attempt = 0
    <3>1. claim'[v].task = t /\ claim'[v].attempt # 0 => claim'[v].attempt \in 1 .. Len(attempts[t])
      BY <1>3 DEF ClaimInv, ClaimsOpen
    <3> QED BY <1>1, <1>3, <3>1
  <2> QED BY <1>1, <1>3, <2>1 DEF ClaimInv, ClaimsDistinct
<1> QED BY <1>6, <1>7, <1>8 DEF ClaimInv

\* A result goes to the attempt of the claim, which had none.
LEMMA ReportStep ==
  ASSUME TypeInv, ClaimInv, NEW w \in Workers, Reported(w)
  PROVE  ClaimInv' /\ HistoryGrows
<1> DEFINE t == claim[w].task
           n == claim[w].attempt
<1>1. PICK x \in ReportedResults : \E s : Settle(w, x, s)
  BY DEF Reported
<1>2. /\ t \in Tasks /\ n \in Nat /\ attempts[t] \in Histories /\ x \in AttemptResults
      /\ Len(attempts[t]) \in Nat
  BY LenProperties
    DEF Reported, TypeInv, TypeOK, TasksTyped, ProcessesTyped, ClaimTyped, Holding, Histories,
                       ReportedResults, AttemptResults
<1>3. \A u \in Tasks : attempts'[u] = IF u = t THEN [attempts[u] EXCEPT ![n] = x] ELSE attempts[u]
  BY <1>1, <1>2 DEF Settle, TypeInv, TypeOK, TasksTyped
<1>4. \A u \in Tasks : /\ attempts[u] \in Histories
                       /\ DOMAIN attempts[u] = 1 .. Len(attempts[u])
                       /\ DOMAIN attempts'[u] = 1 .. Len(attempts[u])
                       /\ Len(attempts'[u]) = Len(attempts[u])
                       /\ \A i \in 1 .. Len(attempts[u]) :
                            attempts'[u][i] = IF u = t /\ i = n THEN x ELSE attempts[u][i]
  BY <1>2, <1>3, SettledHistory, LenProperties DEF TypeInv, TypeOK, TasksTyped, Histories
<1>5. claim'[w].attempt = 0 /\ \A v \in Workers \ {w} : claim'[v] = claim[v]
  BY DEF Reported, ForgetClaim, NoClaim, TypeInv, TypeOK, ProcessesTyped
<1>6. n # 0 => attempts[t][n] \notin ReportedResults
  BY DEF ClaimInv, ClaimsOpen, OpenResults, ReportedResults
<1>7. HistoryGrows
  BY <1>2, <1>4, <1>6 DEF HistoryGrows
<1>8. ClaimsOpen'
  <2> SUFFICES ASSUME NEW v \in Workers \ {w}, claim[v].attempt # 0
               PROVE  /\ claim[v].task \in Tasks
                      /\ claim[v].attempt \in 1 .. Len(attempts'[claim[v].task])
                      /\ attempts'[claim[v].task][claim[v].attempt] \in OpenResults
    BY <1>5 DEF ClaimsOpen
  <2>1. /\ claim[v].task \in Tasks
        /\ claim[v].attempt \in 1 .. Len(attempts[claim[v].task])
        /\ attempts[claim[v].task][claim[v].attempt] \in OpenResults
    BY DEF ClaimInv, ClaimsOpen
  <2>2. ~(claim[v].task = t /\ claim[v].attempt = n)
    <3>1. /\ claim[v] \in [task : Tasks \cup {None}, attempt : Nat]
          /\ claim[w] \in [task : Tasks \cup {None}, attempt : Nat]
      BY DEF TypeInv, TypeOK, ProcessesTyped
    <3>2. claim[v].task = t /\ claim[v].attempt = n => claim[v] = claim[w]
      BY <3>1
    <3> QED BY <3>2 DEF ClaimInv, ClaimsDistinct
  <2> QED BY <1>4, <2>1, <2>2
<1>9. ClaimsDistinct'
  BY <1>5 DEF ClaimInv, ClaimsDistinct
<1> QED BY <1>7, <1>8, <1>9 DEF ClaimInv

\* Recovery rewrites open attempts only.
LEMMA RecoverStep ==
  ASSUME TypeInv, ClaimInv, NEW r \in Recoverers, recover_worker(r)
  PROVE  ClaimInv' /\ HistoryGrows
<1>1. \A u \in Tasks : /\ attempts[u] \in Histories
                       /\ DOMAIN attempts[u] = 1 .. Len(attempts[u])
                       /\ attempts'[u] = attempts[u] \/ attempts'[u] = CloseAttempts(attempts[u])
  BY LenProperties DEF recover_worker, TypeInv, TypeOK, TasksTyped, Histories
<1>2. \A u \in Tasks : /\ DOMAIN attempts'[u] = 1 .. Len(attempts[u])
                       /\ Len(attempts'[u]) = Len(attempts[u])
                       /\ \A i \in 1 .. Len(attempts[u]) :
                            \/ attempts'[u][i] = attempts[u][i]
                            \/ attempts[u][i] = "running" /\ attempts'[u][i] = "stale_recovered"
  BY <1>1, ClosedHistory, LenProperties DEF Histories
<1>3. claim' = claim
  BY DEF recover_worker, workerVars, claimVars
<1>4. HistoryGrows
  BY <1>1, <1>2 DEF HistoryGrows, ReportedResults
<1>5. ClaimsOpen'
  BY <1>2, <1>3 DEF ClaimInv, ClaimsOpen, OpenResults
<1>6. ClaimsDistinct'
  BY <1>3 DEF ClaimInv, ClaimsDistinct
<1> QED BY <1>4, <1>5, <1>6 DEF ClaimInv

\* Other steps at most forget claims.
LEMMA QuietStep ==
  ASSUME TypeInv, ClaimInv, Quiet
  PROVE  ClaimInv' /\ HistoryGrows
<1>1. HistoryGrows
  BY DEF Quiet, HistoryGrows
<1>2. ClaimsOpen'
  BY DEF Quiet, ClaimInv, ClaimsOpen
<1>3. ClaimsDistinct'
  BY DEF Quiet, ClaimInv, ClaimsDistinct
<1> QED BY <1>1, <1>2, <1>3 DEF ClaimInv

\* Every step keeps the claims open and distinct and the history final.
LEMMA StepClaims == TypeInv /\ ClaimInv /\ [Next]_vars => ClaimInv' /\ HistoryGrows
BY Effects, ClaimStep, ReportStep, RecoverStep, QuietStep

\* A reported result is never rewritten and no attempt disappears, for any
\* number of overlapping recoveries, lost leases and late results.
THEOREM ReportedResultsAreFinalHolds == Spec => ReportedResultsAreFinal
<1>1. Init => TypeInv /\ ClaimInv
  <2>1. Init => ClaimInv
    BY DEF Init, ClaimInv, ClaimsOpen, ClaimsDistinct, NoClaim
  <2> QED BY <2>1, InitTyped
<1>2. TypeInv /\ ClaimInv /\ [Next]_vars => (TypeInv /\ ClaimInv)'
  BY StepTyped, StepClaims
<1>3. TypeInv /\ ClaimInv /\ [Next]_vars =>
        [\A t \in Tasks : \A i \in DOMAIN attempts[t] :
           /\ i \in DOMAIN attempts'[t]
           /\ attempts[t][i] \in ReportedResults => attempts'[t][i] = attempts[t][i]]_vars
  BY StepClaims DEF HistoryGrows
<1> QED BY <1>1, <1>2, <1>3, PTL DEF Spec, ReportedResultsAreFinal

=============================================================================
