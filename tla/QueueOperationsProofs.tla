------------------------ MODULE QueueOperationsProofs ------------------------
(* Theorems about QueueOperations, for any tasks, workers, phones,           *)
(* recoveries, disturbances and number of requests: the tables stay well     *)
(* typed under every request; two tasks run on one phone only after one of   *)
(* them was touched; what was taken out of the queue stays out; and where    *)
(* leases are kept and one caller recovers, a worker owns its untouched task *)
(* and a task is published once per queueing.  Where a request could set a   *)
(* status that only a run may give, the theorem says that none does.         *)
EXTENDS QueueOperations, TimelyExecutionProofs

-----------------------------------------------------------------------------

\* The tables keep their tasks, and a request to queue again is about one.
WithdrawnInv ==
  /\ status = [t \in Tasks |-> status[t]]
  /\ reopened \in [Tasks -> Nat]
  /\ "request" \in DOMAIN operator
  /\ operator.request = "requeue" => \E t \in Tasks : operator.tasks = {t}

\* What a step may do to the tasks: it revives only those that are held or
\* selected, were claimable or running, or are put back in the queue.
Revives ==
  /\ status' = [t \in Tasks |-> status'[t]]
  /\ \A t \in Tasks :
       status[t] \in Withdrawn /\ ~Held(t) /\ ~Selected(t) /\ reopened'[t] = reopened[t]
         => status'[t] \in Withdrawn

\* A task at rest neither waits nor runs.
LEMMA WithdrawnIsAtRest ==
  Withdrawn \cap (CLAIMABLE_TASK_STATUSES \cup {"running"}) = {}
BY DEF Withdrawn, CLAIMABLE_TASK_STATUSES

\* One task gets a status, of one that is held, selected or not withdrawn.
LEMMA OneStatus ==
  ASSUME WithdrawnInv, NEW t, NEW s, status' = [status EXCEPT ![t] = s],
         s \in Withdrawn \/ (t \in Tasks => \/ Held(t) \/ Selected(t) \/ status[t] \notin Withdrawn
                                           \/ reopened'[t] # reopened[t])
  PROVE  Revives
BY DEF WithdrawnInv, Revives

\* Tasks that are not withdrawn, or are held, get a status together.
LEMMA SomeStatuses ==
  ASSUME WithdrawnInv, NEW S, NEW s, status' = [t \in Tasks |-> IF t \in S THEN s ELSE status[t]],
         s \in Withdrawn \/ \A t \in S \cap Tasks : Held(t) \/ status[t] \notin Withdrawn
  PROVE  Revives
BY DEF Revives

\* A step that sets no status.
LEMMA SameStatus ==
  ASSUME WithdrawnInv, status' = status
  PROVE  Revives
BY DEF WithdrawnInv, Revives

\* The repair of dry runs ends what waits.
LEMMA RepairRevivesNothing ==
  ASSUME WithdrawnInv, mark_completed_dry_run_tasks
  PROVE  Revives
<1> DEFINE S == { t \in Tasks : CompletedDryRun(t) }
<1>1. status' = [t \in Tasks |-> IF t \in S THEN "dry_run" ELSE status[t]]
  BY DEF mark_completed_dry_run_tasks
<1>2. \A t \in S : status[t] \notin Withdrawn
  BY WithdrawnIsAtRest DEF CompletedDryRun
<1> HIDE DEF S
<1> QED BY <1>1, <1>2, SomeStatuses

\* The queue's own processes revive nothing that nobody holds.
LEMMA QueueRevivesNothing ==
  ASSUME WithdrawnInv, [Next]_vars
  PROVE  Revives
<1> USE DEF taskVars
<1>1. ASSUME mark_completed_dry_run_tasks PROVE Revives
  BY <1>1, RepairRevivesNothing
<1>2. ASSUME NEW w \in Workers, NEW result, NEW s, Settle(w, result, s) PROVE Revives
  <2>1. status' = [status EXCEPT ![claim[w].task] = s] /\ (claim[w].task \in Tasks => Held(claim[w].task))
    BY <1>2 DEF Settle, Held
  <2> QED BY <2>1, OneStatus
<1>3. ASSUME NEW w \in Workers, WorkerStep(w) PROVE Revives
  <2>1. CASE BeginHealthCheck(w) \/ NoCandidate(w) \/ \E t \in Tasks : SelectCandidate(w, t)
    BY <1>1, <2>1 DEF BeginHealthCheck, NoCandidate, SelectCandidate
  <2>2. CASE claim_next(w)
    <3>1. status' = [status EXCEPT ![claim[w].task] = "running"]
          /\ (claim[w].task \in Tasks => Held(claim[w].task))
      BY <2>2 DEF claim_next, Held
    <3> QED BY <3>1, OneStatus
  <2>3. CASE mark_success(w) \/ mark_debug_ready(w) \/ mark_dry_run(w) \/ mark_failure(w)
    BY <1>2, <2>3 DEF mark_success, mark_debug_ready, mark_dry_run, mark_failure
  <2>4. CASE \/ Register(w) \/ ClaimRefused(w) \/ ClaimHook(w) \/ StartPipeline(w)
             \/ \E s \in HealthStatuses : EndHealthCheck(w, s)
             \/ \E o \in Outcomes : RejectBeforeRun(w, o) \/ PipelineEnds(w, o)
             \/ ReadRetryCount(w) \/ CooldownEnds(w) \/ finish(w)
    <3>1. status' = status
      BY <2>4 DEF Register, ClaimRefused, ClaimHook, StartPipeline, EndHealthCheck, RejectBeforeRun,
                  PipelineEnds, ReadRetryCount, CooldownEnds, finish
    <3> QED BY <3>1, SameStatus
  <2> QED BY <1>3, <2>1, <2>2, <2>3, <2>4 DEF WorkerStep
<1>4. ASSUME NEW r \in Recoverers, RecoveryStep(r) PROVE Revives
  <2>1. CASE recover_worker(r)
    <3>1. status' = [t \in Tasks |-> IF t \in TasksToRecover(r) THEN "pending" ELSE status[t]]
      BY <2>1 DEF recover_worker
    <3>2. \A t \in TasksToRecover(r) \cap Tasks : Held(t) \/ status[t] \notin Withdrawn
      BY WithdrawnIsAtRest DEF TasksToRecover, RunningTasksLockedBy, Held
    <3> QED BY <3>1, <3>2, SomeStatuses
  <2>2. CASE recover_stale(r) \/ recover_dead_processes(r) \/ \E w \in Workers : ReadLockedTasks(r, w)
    <3>1. status' = status
      BY <2>2 DEF recover_stale, recover_dead_processes, SelectForRecovery, ReadLockedTasks
    <3> QED BY <3>1, SameStatus
  <2> QED BY <1>4, <2>1, <2>2 DEF RecoveryStep
<1>5. CASE reschedule_overdue_tasks \/ pause_overdue_tasks
  <2>1. \A t \in OverdueTasks : status[t] \notin Withdrawn
    BY WithdrawnIsAtRest DEF OverdueTasks
  <2>2. \E s : status' = [t \in Tasks |-> IF t \in OverdueTasks THEN s ELSE status[t]]
    BY <1>5 DEF reschedule_overdue_tasks, pause_overdue_tasks
  <2> QED BY <2>1, <2>2, SomeStatuses
<1>6. CASE \/ \E w \in Workers, p \in Phones : Launch(w, p)
           \/ \E w \in Workers : \/ Heartbeat(w) \/ OrphanEnds(w) \/ LeaseExpires(w) \/ LeaseLapses(w)
                                 \/ WorkerException(w) \/ StopWorker(w) \/ Crash(w)
           \/ \E p \in Phones : MonitorStep(p)
           \/ \E t \in Tasks : Elapse(t)
           \/ UNCHANGED vars
  <2>1. status' = status
    BY <1>6 DEF Launch, Heartbeat, OrphanEnds, LeaseExpires, LeaseLapses, Expire, WorkerException,
                StopWorker, Crash, MonitorStep, BeginUsbCheck, EndUsbCheck, Elapse, vars
  <2> QED BY <2>1, SameStatus
<1> QED BY <1>3, <1>4, <1>5, <1>6 DEF Next

\* A request to queue a task again counts it, so that its task may come back.
LEMMA ReopenCounts ==
  ASSUME WithdrawnInv, NEW S, Reopen(S)
  PROVE  reopened' \in [Tasks -> Nat] /\ \A t \in S \cap Tasks : reopened'[t] # reopened[t]
BY DEF WithdrawnInv, Reopen

\* No request revives a task but one to queue it again, a status that does, or
\* a claim by hand that selected it.
LEMMA OperatorRevivesOnRequest ==
  ASSUME OperatorStatuses \subseteq Withdrawn \cup CLAIMABLE_TASK_STATUSES,
         WithdrawnInv, Operation
  PROVE  Revives
<1>1. ASSUME NEW t \in Tasks, NEW s \in OperatorStatuses, update_status(t, s) PROVE Revives
  <2>1. status' = [status EXCEPT ![t] = s]
    BY <1>1 DEF update_status
  <2>2. s \in CLAIMABLE_TASK_STATUSES => reopened'[t] # reopened[t]
    BY <1>1, ReopenCounts DEF update_status
  <2> QED BY <2>1, <2>2, OneStatus
<1>2. ASSUME NEW c \in Callers, queue_claim_next(c) PROVE Revives
  <2>1. CASE status' = [status EXCEPT ![selection[c].task] = "running"]
    <3>1. Selected(selection[c].task)
      BY DEF Selected
    <3> QED BY <2>1, <3>1, OneStatus
  <2> QED BY <1>2, <2>1, SameStatus DEF queue_claim_next
<1>3. CASE requeue
  <2>1. PICK t \in Tasks : operator.tasks = {t}
    BY <1>3 DEF requeue, WithdrawnInv
  <2>2. (CHOOSE u \in Tasks : u \in operator.tasks) = t
    BY <2>1
  <2>3. status' = [status EXCEPT ![t] = "pending"] /\ Reopen({t})
    BY <1>3, <2>1, <2>2 DEF requeue
  <2> QED BY <2>3, OneStatus, ReopenCounts
<1>4. CASE remove_tasks \/ cleanup_queue_state
  <2>1. "removed" \in Withdrawn /\ \E S : status' = [t \in Tasks |-> IF t \in S THEN "removed" ELSE status[t]]
    BY <1>4 DEF remove_tasks, cleanup_queue_state, Withdrawn
  <2> QED BY <2>1, SomeStatuses
<1>5. CASE \/ \E t \in Tasks : \/ \E p \in Phones : assign_phone(t, p)
                               \/ \E force, reset \in BOOLEAN : BeginRequeue(t, force, reset)
                               \/ reschedule(t)
           \/ \E S \in SUBSET Tasks \ {{}} : BeginRemove(S)
           \/ \E keepTasks \in BOOLEAN : stop_all(keepTasks)
           \/ \E w \in Workers : kill_process(w)
  <2>1. status' = status
    BY <1>5 DEF assign_phone, BeginRequeue, reschedule, BeginRemove, stop_all, Begin, kill_process, Killed,
                vars, taskVars
  <2> QED BY <2>1, SameStatus
<1>6. ASSUME ListedByHand PROVE Revives
  BY <1>6, RepairRevivesNothing DEF ListedByHand
<1> QED BY <1>1, <1>2, <1>3, <1>4, <1>5, <1>6 DEF Operation, queue_preview, SelectByHand

\* Requests keep count, and one to queue again is about one task.
LEMMA OperatorKeepsCount ==
  ASSUME WithdrawnInv, Operation
  PROVE  /\ reopened' \in [Tasks -> Nat]
         /\ "request" \in DOMAIN operator'
         /\ operator'.request = "requeue" => \E t \in Tasks : operator'.tasks = {t}
<1> USE DEF AtOnce, Begin, End
<1>1. UNCHANGED reopened \/ \E S : Reopen(S)
  BY DEF Operation, update_status, assign_phone, BeginRequeue, reschedule, queue_claim_next, queue_preview,
         SelectByHand, ListedByHand, BeginRemove, stop_all, requeue, remove_tasks, cleanup_queue_state, kill_process
<1>2. reopened' \in [Tasks -> Nat]
  BY <1>1, ReopenCounts DEF WithdrawnInv
<1>3. NoRequest.request = "none" /\ "request" \in DOMAIN NoRequest
  BY DEF NoRequest
<1>4. CASE UNCHANGED operator \/ operator' = NoRequest
  BY <1>2, <1>3, <1>4 DEF WithdrawnInv
<1>5. ASSUME NEW t \in Tasks, NEW force, NEW reset, BeginRequeue(t, force, reset)
      PROVE  operator'.tasks = {t} /\ "request" \in DOMAIN operator'
  BY <1>5 DEF BeginRequeue, NoRequest
<1>6. CASE (\E S : BeginRemove(S)) \/ (\E keep : stop_all(keep)) \/ (\E w : kill_process(w))
  <2>1. operator'.request # "requeue" /\ "request" \in DOMAIN operator'
    BY <1>6 DEF BeginRemove, stop_all, kill_process, NoRequest, WithdrawnInv
  <2> QED BY <1>2, <2>1
<1>7. CASE \E t \in Tasks, force, reset \in BOOLEAN : BeginRequeue(t, force, reset)
  BY <1>2, <1>5, <1>7
<1>8. CASE \/ \E t \in Tasks : \/ \E s \in OperatorStatuses : update_status(t, s)
                               \/ \E p \in Phones : assign_phone(t, p)
                               \/ reschedule(t)
                               \/ \E c \in Callers : SelectByHand(c, t)
           \/ requeue \/ remove_tasks \/ cleanup_queue_state \/ queue_preview
           \/ \E c \in Callers : queue_claim_next(c)
  BY <1>4, <1>8 DEF update_status, assign_phone, reschedule, queue_claim_next, queue_preview, SelectByHand,
                    ListedByHand, requeue, remove_tasks, cleanup_queue_state
<1> QED BY <1>6, <1>7, <1>8 DEF Operation

\* A task that was taken out of the queue, and that nobody holds or has selected,
\* comes back only by a request to queue it again, provided that requests set no
\* status of a task that runs or has run for a test: those would revive it too.
THEOREM OnlyRequestsReviveTasks ==
  ASSUME OperatorStatuses \subseteq Withdrawn \cup CLAIMABLE_TASK_STATUSES
  PROVE  OperationsSpec => WithdrawnTaskStaysWithdrawn
<1> DEFINE Act == \A t \in Tasks :
             status[t] \in Withdrawn /\ ~Held(t) /\ ~Selected(t) /\ reopened'[t] = reopened[t]
               => status'[t] \in Withdrawn
<1>1. InitOperations => WithdrawnInv
  BY DEF InitOperations, Init, WithdrawnInv, NoRequest
<1>2. WithdrawnInv /\ [NextWithOperations]_operationVars => WithdrawnInv' /\ [Act]_operationVars
  <2> SUFFICES ASSUME WithdrawnInv, [NextWithOperations]_operationVars
               PROVE  WithdrawnInv' /\ Act
    OBVIOUS
  <2>1. CASE Operation
    <3>1. Revives
      BY <2>1, OperatorRevivesOnRequest
    <3> QED BY <2>1, <3>1, OperatorKeepsCount DEF WithdrawnInv, Revives
  <2>2. CASE [Next]_vars /\ UNCHANGED operatorVars
    <3>1. Revives
      BY <2>2, QueueRevivesNothing
    <3> QED BY <2>2, <3>1 DEF WithdrawnInv, Revives, operatorVars
  <2> QED BY <2>1, <2>2 DEF NextWithOperations, operationVars
<1> QED BY <1>1, <1>2, PTL DEF OperationsSpec, WithdrawnTaskStaysWithdrawn

-----------------------------------------------------------------------------
(* Type correctness. *)

\* The results that claims, reports, recoveries and requests write.
OperationResults == AttemptResults \cup {"requeued", "terminated"}

\* What a request remembers between its two transactions.
RequestTyped ==
  /\ operator \in [request : Requests, tasks : SUBSET Tasks, read : TaskStatuses \cup {"none"},
                   force : BOOLEAN, reset : BOOLEAN, workers : SUBSET Workers, keepTasks : BOOLEAN]
  /\ selection \in [Callers -> [task : Tasks \cup {None}, phone : Phones \cup {None}]]

CountsTyped ==
  operations \in Nat /\ touched \subseteq Tasks /\ reopened \in [Tasks -> Nat]

\* The inductive invariant: the tables, the memory of processes and requests,
\* and that a request to queue again is about one task.
OperationsInv ==
  /\ TypedOver(OperationResults)
  /\ RequestTyped /\ CountsTyped
  /\ operator.request = "requeue" => \E t \in Tasks : operator.tasks = {t}

\* Before the first request there is none under way.
LEMMA InitOperationsTyped == InitOperations => OperationsInv
<1> SUFFICES ASSUME InitOperations PROVE OperationsInv
  OBVIOUS
<1>1. TypeInv
  BY InitTyped DEF InitOperations
<1>2. attempts \in [Tasks -> Seq(OperationResults)]
  <2>1. << >> \in Seq(OperationResults)
    BY EmptySeq
  <2> QED BY <2>1 DEF InitOperations, Init
<1>3. TypedOver(OperationResults)
  BY <1>1, <1>2, TypedOverResults DEF TypedOver
<1>4. RequestTyped /\ CountsTyped /\ operator.request # "requeue"
  BY DEF InitOperations, RequestTyped, CountsTyped, NoRequest, NoSelection, Requests
<1> QED BY <1>3, <1>4 DEF OperationsInv

\* A request that is one transaction, or the end of one, keeps the memory typed.
LEMMA CountsStayTyped ==
  ASSUME CountsTyped, AtOnce \/ End, \E S \in SUBSET Tasks : touched' = touched \cup S,
         UNCHANGED reopened \/ \E S : Reopen(S)
  PROVE  CountsTyped'
<1>1. operations' \in Nat
  BY DEF CountsTyped, AtOnce, End
<1>2. reopened' \in [Tasks -> Nat]
  <2>1. CASE UNCHANGED reopened
    BY <2>1 DEF CountsTyped
  <2>2. ASSUME NEW S, Reopen(S) PROVE reopened' \in [Tasks -> Nat]
    <3>1. \A t \in Tasks : reopened[t] + (IF t \in S THEN 1 ELSE 0) \in Nat
      BY DEF CountsTyped
    <3> QED BY <2>2, <3>1 DEF Reopen
  <2> QED BY <2>1, <2>2
<1> QED BY <1>1, <1>2 DEF CountsTyped

\* No request is under way after it.
LEMMA RequestStaysTyped ==
  ASSUME RequestTyped, operator.request = "requeue" => \E t \in Tasks : operator.tasks = {t},
         AtOnce \/ End
  PROVE  RequestTyped' /\ (operator'.request = "requeue" => \E t \in Tasks : operator'.tasks = {t})
<1>1. CASE AtOnce
  BY <1>1 DEF AtOnce, RequestTyped
<1>2. CASE End
  BY <1>2 DEF End, NoRequest, RequestTyped, Requests
<1> QED BY <1>1, <1>2

\* Touching tasks, and renewing them, keeps both sets within the tasks.
LEMMA TouchTyped ==
  ASSUME NEW S \in SUBSET Tasks, Touch(S)
  PROVE  \E X \in SUBSET Tasks : touched' = touched \cup X
<1>1. { t \in S : Held(t) } \in SUBSET Tasks
  OBVIOUS
<1> QED BY <1>1 DEF Touch

\* Clearing the logs of dry runs keeps them typed.
LEMMA RenewTyped ==
  ASSUME dryRunLogged \in [Tasks -> BOOLEAN], NEW S, Renew(S)
  PROVE  dryRunLogged' \in [Tasks -> BOOLEAN]
BY DEF Renew

\* Every request that changes the tables keeps them typed, one after another.
LEMMA OneTaskRequestTyped ==
  ASSUME OperationsInv, NEW t \in Tasks,
         \/ \E s \in OperatorStatuses : update_status(t, s)
         \/ \E p \in Phones : assign_phone(t, p)
         \/ reschedule(t)
  PROVE  OperationsInv'
<1> USE DEF phoneVars, rowVars, workerVars, claimVars, Processes
<1>0. /\ TypedOver(OperationResults) /\ RequestTyped /\ CountsTyped
      /\ operator.request = "requeue" => \E u \in Tasks : operator.tasks = {u}
  BY DEF OperationsInv
<1>1. /\ AtOnce /\ UNCHANGED <<rowVars, workerVars, recovery, faults, checking, retryCount>>
      /\ Renew({t})
      /\ \E X \in SUBSET Tasks : touched' = touched \cup X
      /\ UNCHANGED reopened \/ Reopen({t})
  BY TouchTyped DEF update_status, assign_phone, reschedule
<1>2. /\ RequestTyped' /\ CountsTyped'
      /\ operator'.request = "requeue" => \E u \in Tasks : operator'.tasks = {u}
  BY <1>0, <1>1, CountsStayTyped, RequestStaysTyped
<1>3. dryRunLogged' \in [Tasks -> BOOLEAN]
  BY <1>0, <1>1, RenewTyped DEF TypedOver
<1>4. RowsTyped' /\ ProcessesTyped' /\ RecoveryTyped' /\ ClaimTyped' /\ faults' \in [Faults -> Nat]
      /\ retryCount' \in [Tasks -> Nat] /\ checking' \in SUBSET Phones
  BY <1>0, <1>1 DEF TypedOver, RowsTyped, ProcessesTyped, RecoveryTyped, ClaimTyped, PhonesTyped
<1>5. ASSUME NEW s \in OperatorStatuses, update_status(t, s) PROVE TypedOver(OperationResults)'
  <2>1. /\ status' \in [Tasks -> TaskStatuses] /\ lockedBy' \in [Tasks -> Workers \cup {None}]
        /\ usedCount' \in [Tasks -> Nat]
    BY <1>0, <1>5, OperationsAssumption DEF TypedOver, update_status
  <2>2. UNCHANGED <<attempts, window, taskPhone, phoneStatus>>
    BY <1>5 DEF update_status
  <2> QED BY <1>0, <1>3, <1>4, <2>1, <2>2 DEF TypedOver, PhonesTyped
<1>6. ASSUME NEW p \in Phones, assign_phone(t, p) PROVE TypedOver(OperationResults)'
  <2>1. taskPhone' \in [Tasks -> Phones] /\ UNCHANGED <<status, lockedBy, usedCount, attempts, window, phoneStatus>>
    BY <1>0, <1>6 DEF TypedOver, assign_phone
  <2> QED BY <1>0, <1>3, <1>4, <2>1 DEF TypedOver, PhonesTyped
<1>7. CASE reschedule(t)
  <2>1. /\ window' \in [Tasks -> {"open", "overdue"}]
        /\ UNCHANGED <<status, lockedBy, usedCount, attempts, taskPhone, phoneStatus>>
    BY <1>0, <1>7 DEF TypedOver, reschedule
  <2> QED BY <1>0, <1>2, <1>3, <1>4, <2>1 DEF TypedOver, PhonesTyped, OperationsInv
<1> QED BY <1>2, <1>5, <1>6, <1>7 DEF OperationsInv

\* A listing keeps the tables typed; only the statuses and locks of finished dry
\* runs change.
LEMMA ListingTyped ==
  ASSUME OperationsInv, ListedByHand,
         selection' \in [Callers -> [task : Tasks \cup {None}, phone : Phones \cup {None}]]
  PROVE  OperationsInv'
<1> USE DEF phoneVars, rowVars, workerVars, claimVars, Processes
<1>0. TypedOver(OperationResults) /\ RequestTyped /\ CountsTyped
  BY DEF OperationsInv
<1>1. /\ UNCHANGED <<retryCount, window, historyVars, usedCount, taskPhone, phoneVars, Processes>>
      /\ UNCHANGED <<operator, touched, reopened>> /\ operations' = operations + 1
  BY DEF ListedByHand, mark_completed_dry_run_tasks
<1>2. status' \in [Tasks -> TaskStatuses] /\ lockedBy' \in [Tasks -> Workers \cup {None}]
  BY <1>0 DEF TypedOver, ListedByHand, mark_completed_dry_run_tasks, TaskStatuses
<1>3. TypedOver(OperationResults)'
  BY <1>0, <1>1, <1>2
    DEF TypedOver, historyVars, PhonesTyped, RowsTyped, ProcessesTyped, RecoveryTyped, ClaimTyped
<1> QED BY <1>0, <1>1, <1>3 DEF RequestTyped, CountsTyped, OperationsInv

\* A claim by hand remembers what it selected, and its transaction writes typed
\* rows.
LEMMA ClaimByHandTyped ==
  ASSUME OperationsInv, NEW c \in Callers,
         queue_claim_next(c) \/ \E t \in Tasks : SelectByHand(c, t)
  PROVE  OperationsInv'
<1> USE DEF phoneVars, rowVars, workerVars, claimVars, Processes
<1>0. TypedOver(OperationResults) /\ RequestTyped /\ CountsTyped
  BY DEF OperationsInv
<1>1. ASSUME NEW t \in Tasks, SelectByHand(c, t) PROVE OperationsInv'
  <2>1. taskPhone[t] \in Phones
    BY <1>0 DEF TypedOver, PhonesTyped
  <2> QED BY <1>0, <1>1, <2>1, ListingTyped DEF SelectByHand, RequestTyped
<1>2. CASE queue_claim_next(c)
  <2> DEFINE t == selection[c].task
  <2>1. /\ UNCHANGED <<retryCount, window, usedCount, taskPhone, checking, Processes>>
        /\ UNCHANGED <<operator, operations, reopened>>
        /\ selection' = [selection EXCEPT ![c] = NoSelection]
    BY <1>2 DEF queue_claim_next
  <2>2. RequestTyped'
    BY <1>0, <2>1 DEF RequestTyped, NoSelection
  <2>3. CASE ~ClaimableByHand(c, t)
    <3>1. UNCHANGED <<status, lockedBy, phoneStatus, historyVars, touched>>
      BY <1>2, <2>3 DEF queue_claim_next
    <3>2. TypedOver(OperationResults)'
      BY <1>0, <2>1, <3>1
        DEF TypedOver, historyVars, PhonesTyped, RowsTyped, ProcessesTyped, RecoveryTyped, ClaimTyped
    <3> QED BY <1>0, <2>1, <2>2, <3>1, <3>2 DEF CountsTyped, OperationsInv
  <2>4. CASE ClaimableByHand(c, t)
    <3>1. /\ status' = [status EXCEPT ![t] = "running"] /\ lockedBy' = [lockedBy EXCEPT ![t] = None]
          /\ phoneStatus' = [phoneStatus EXCEPT ![taskPhone[t]] = "running"]
          /\ OpenAttempt(t) /\ Renew({t}) /\ Touch({t})
      BY <1>2, <2>4 DEF queue_claim_next
    <3>2. t \in Tasks
      BY <1>0, <1>2 DEF RequestTyped, queue_claim_next
    <3>3. Append(attempts[t], "running") \in Seq(OperationResults)
      BY <1>0, <3>2, OpenedSeq DEF TypedOver, OperationResults, AttemptResults
    <3>4. attempts' \in [Tasks -> Seq(OperationResults)]
      BY <1>0, <3>1, <3>3 DEF TypedOver, OpenAttempt
    <3>5. /\ status' \in [Tasks -> TaskStatuses] /\ lockedBy' \in [Tasks -> Workers \cup {None}]
          /\ phoneStatus' \in [Phones -> PhoneStatuses]
      BY <1>0, <3>1 DEF TypedOver, PhonesTyped, TaskStatuses, PhoneStatuses, BLOCKING_PHONE_STATUSES
    <3>6. dryRunLogged' \in [Tasks -> BOOLEAN]
      BY <1>0, <3>1, RenewTyped DEF TypedOver
    <3>7. TypedOver(OperationResults)'
      BY <1>0, <2>1, <3>4, <3>5, <3>6
        DEF TypedOver, PhonesTyped, RowsTyped, ProcessesTyped, RecoveryTyped, ClaimTyped
    <3>8. touched' \subseteq Tasks
      BY <1>0, <3>1, <3>2 DEF CountsTyped, Touch
    <3> QED BY <1>0, <2>1, <2>2, <3>7, <3>8 DEF CountsTyped, OperationsInv
  <2> QED BY <2>3, <2>4
<1> QED BY <1>1, <1>2

\* A request that reads before it writes remembers what it read.
LEMMA BegunRequestTyped ==
  ASSUME OperationsInv,
         \/ \E t \in Tasks, force, reset \in BOOLEAN : BeginRequeue(t, force, reset)
         \/ \E S \in SUBSET Tasks \ {{}} : BeginRemove(S)
         \/ \E keepTasks \in BOOLEAN : stop_all(keepTasks)
  PROVE  OperationsInv'
<1>0. /\ TypedOver(OperationResults) /\ RequestTyped /\ CountsTyped
  BY DEF OperationsInv
<1>1. ASSUME NEW request, Begin(request),
             request \in [request : Requests, tasks : SUBSET Tasks, read : TaskStatuses \cup {"none"},
                          force : BOOLEAN, reset : BOOLEAN, workers : SUBSET Workers,
                          keepTasks : BOOLEAN],
             request.request = "requeue" => \E t \in Tasks : request.tasks = {t}
      PROVE  OperationsInv'
  <2>1. TypedOver(OperationResults)'
    BY <1>0, <1>1
      DEF Begin, vars, taskVars, historyVars, phoneVars, rowVars, claimVars, workerVars, TypedOver,
          PhonesTyped, RowsTyped, ProcessesTyped, RecoveryTyped, ClaimTyped
  <2>2. RequestTyped' /\ CountsTyped'
    BY <1>0, <1>1 DEF Begin, Idle, RequestTyped, CountsTyped
  <2>3. operator' = request
    BY <1>1 DEF Begin
  <2> QED BY <1>1, <2>1, <2>2, <2>3 DEF OperationsInv
<1>2. ASSUME NEW t \in Tasks, NEW force \in BOOLEAN, NEW reset \in BOOLEAN, BeginRequeue(t, force, reset)
      PROVE  OperationsInv'
  <2>1. status[t] \in TaskStatuses
    BY <1>0 DEF TypedOver
  <2> QED BY <1>1, <1>2, <2>1 DEF BeginRequeue, NoRequest, Requests
<1>3. ASSUME NEW S \in SUBSET Tasks, BeginRemove(S) PROVE OperationsInv'
  <2> DEFINE T == { t \in S : status[t] \notin {"running", "removed"} }
  <2>1. T \in SUBSET Tasks
    OBVIOUS
  <2>2. Begin([NoRequest EXCEPT !.request = "remove_tasks", !.tasks = T])
    BY <1>3 DEF BeginRemove
  <2> HIDE DEF T
  <2> QED BY <1>1, <2>1, <2>2 DEF NoRequest, Requests
<1>4. ASSUME NEW keepTasks \in BOOLEAN, stop_all(keepTasks) PROVE OperationsInv'
  <2>1. active_worker_processes \in SUBSET Workers
    BY DEF active_worker_processes
  <2> QED BY <1>1, <1>4, <2>1 DEF stop_all, NoRequest, Requests
<1> QED BY <1>2, <1>3, <1>4

\* requeue, remove_tasks and the clean-up of stop-all write typed rows.
LEMMA EndedRequestTyped ==
  ASSUME OperationsInv, requeue \/ remove_tasks \/ cleanup_queue_state
  PROVE  OperationsInv'
<1> USE DEF phoneVars, rowVars, workerVars, claimVars, Processes
<1>0. /\ TypedOver(OperationResults) /\ RequestTyped /\ CountsTyped
      /\ operator.request = "requeue" => \E u \in Tasks : operator.tasks = {u}
      /\ operator.tasks \in SUBSET Tasks
  BY DEF OperationsInv, RequestTyped
<1>1. End /\ (UNCHANGED reopened \/ \E S : Reopen(S))
  <2>1. CASE requeue
    BY <2>1 DEF requeue
  <2>2. CASE remove_tasks \/ cleanup_queue_state
    BY <2>2 DEF remove_tasks, cleanup_queue_state
  <2> QED BY <2>1, <2>2
<1>2. \E X \in SUBSET Tasks : touched' = touched \cup X
  <2>1. CASE Touch(Tasks) \/ Touch(operator.tasks)
    BY <1>0, <2>1, TouchTyped
  <2>2. CASE touched' = Tasks
    BY <1>0, <2>2 DEF CountsTyped
  <2> QED BY <2>1, <2>2 DEF requeue, remove_tasks, cleanup_queue_state
<1>3. /\ RequestTyped' /\ CountsTyped'
      /\ operator'.request = "requeue" => \E u \in Tasks : operator'.tasks = {u}
  BY <1>0, <1>1, <1>2, CountsStayTyped, RequestStaysTyped
<1>4. dryRunLogged' \in [Tasks -> BOOLEAN]
  <2>1. \E S : Renew(S)
    BY DEF requeue, remove_tasks, cleanup_queue_state
  <2> QED BY <1>0, <2>1, RenewTyped DEF TypedOver
<1>5. ProcessesTyped' /\ RecoveryTyped' /\ ClaimTyped' /\ faults' \in [Faults -> Nat]
      /\ window' \in [Tasks -> {"open", "overdue"}] /\ taskPhone' \in [Tasks -> Phones]
      /\ usedCount' \in [Tasks -> Nat] /\ checking' \in SUBSET Phones
  <2>1. UNCHANGED <<workerVars, recovery, faults, window, taskPhone, usedCount, checking>>
    BY DEF requeue, remove_tasks, cleanup_queue_state
  <2> QED BY <1>0, <2>1 DEF TypedOver, ProcessesTyped, RecoveryTyped, ClaimTyped, PhonesTyped
<1>6. CASE requeue
  <2>1. PICK t \in Tasks : operator.tasks = {t}
    BY <1>0, <1>6 DEF requeue
  <2>2. (CHOOSE u \in Tasks : u \in operator.tasks) = t
    BY <2>1
  <2>3. CloseRequeued(attempts[t]) \in Seq(OperationResults)
    <3>1. attempts[t] \in Seq(OperationResults) /\ "requeued" \in OperationResults
      BY <1>0 DEF TypedOver, OperationResults
    <3> QED BY <3>1, ClosedSeq DEF CloseRequeued
  <2>4. attempts' \in [Tasks -> Seq(OperationResults)]
    BY <1>0, <1>6, <2>2, <2>3 DEF TypedOver, requeue
  <2>5. /\ status' \in [Tasks -> TaskStatuses] /\ lockedBy' \in [Tasks -> Workers \cup {None}]
        /\ retryCount' \in [Tasks -> Nat]
    BY <1>0, <1>6, <2>2 DEF TypedOver, requeue, TaskStatuses, CLAIMABLE_TASK_STATUSES
  <2>6. phoneStatus' \in [Phones -> PhoneStatuses]
    BY <1>0, <1>6, <2>2 DEF TypedOver, PhonesTyped, requeue, PhoneStatuses, HealthStatuses
  <2>7. RowsTyped'
    BY <1>0, <1>6 DEF TypedOver, RowsTyped, requeue
  <2> QED BY <1>3, <1>4, <1>5, <2>4, <2>5, <2>6, <2>7 DEF TypedOver, PhonesTyped, OperationsInv
<1>7. CASE remove_tasks
  <2>1. status' \in [Tasks -> TaskStatuses] /\ lockedBy' \in [Tasks -> Workers \cup {None}]
    BY <1>0, <1>7 DEF TypedOver, remove_tasks, TaskStatuses
  <2>2. UNCHANGED <<attempts, retryCount, phoneStatus, rowVars>>
    BY <1>7 DEF remove_tasks
  <2> QED BY <1>0, <1>3, <1>4, <1>5, <2>1, <2>2 DEF TypedOver, PhonesTyped, RowsTyped, OperationsInv
<1>8. CASE cleanup_queue_state
  <2>1. ASSUME NEW t \in Tasks PROVE Terminate(attempts[t]) \in Seq(OperationResults)
    <3>1. attempts[t] \in Seq(OperationResults) /\ "terminated" \in OperationResults
      BY <1>0 DEF TypedOver, OperationResults
    <3> QED BY <3>1, ClosedSeq DEF Terminate
  <2>2. attempts' \in [Tasks -> Seq(OperationResults)]
    BY <1>8, <2>1 DEF cleanup_queue_state
  <2>3. status' \in [Tasks -> TaskStatuses] /\ lockedBy' \in [Tasks -> Workers \cup {None}]
    BY <1>0, <1>8 DEF TypedOver, cleanup_queue_state, TaskStatuses
  <2>4. phoneStatus' \in [Phones -> PhoneStatuses]
    BY <1>0, <1>8 DEF TypedOver, PhonesTyped, cleanup_queue_state, FreedPhones, PhoneStatuses,
                      HealthStatuses
  <2>5. RowsTyped'
    BY <1>0, <1>8 DEF TypedOver, RowsTyped, cleanup_queue_state
  <2>6. UNCHANGED retryCount
    BY <1>8 DEF cleanup_queue_state
  <2> QED BY <1>0, <1>3, <1>4, <1>5, <2>2, <2>3, <2>4, <2>5, <2>6 DEF TypedOver, PhonesTyped, OperationsInv
<1> QED BY <1>6, <1>7, <1>8

\* A killed worker forgets its claim; the tables are untouched.
LEMMA KillTyped ==
  ASSUME OperationsInv, NEW w \in Workers, kill_process(w)
  PROVE  OperationsInv'
<1>0. TypedOver(OperationResults) /\ RequestTyped /\ CountsTyped
  BY DEF OperationsInv
<1>1. RequestTyped' /\ CountsTyped' /\ operator'.request # "requeue"
  BY <1>0 DEF kill_process, RequestTyped, CountsTyped
<1>2. CASE UNCHANGED vars
  BY <1>0, <1>1, <1>2
    DEF vars, taskVars, historyVars, phoneVars, rowVars, claimVars, workerVars, TypedOver,
        PhonesTyped, RowsTyped, ProcessesTyped, RecoveryTyped, ClaimTyped, OperationsInv
<1>3. CASE Killed(w)
  <2>1. ForgetClaim(w) /\ pc' = [pc EXCEPT ![w] = "gone"] /\ "gone" \in WorkerPcs \ Holding
    BY <1>3 DEF Killed, ProcessEnds, WorkerPcs, Holding
  <2>2. ProcessesTyped' /\ ClaimTyped'
    BY <1>0, <1>3, <2>1, LetGoTyped, ForgetClaimTyped DEF TypedOver, ProcessesTyped, Killed, ProcessEnds
  <2> QED BY <1>0, <1>1, <1>3, <2>2
        DEF Killed, taskVars, historyVars, phoneVars, rowVars, TypedOver, PhonesTyped, RowsTyped,
            RecoveryTyped, OperationsInv
<1> QED BY <1>2, <1>3 DEF kill_process

\* Every step, of the queue or of an operator, keeps everything typed.
LEMMA OperationsStepTyped ==
  ASSUME OperationsInv, [NextWithOperations]_operationVars
  PROVE  OperationsInv'
<1>1. CASE Operation
  <2>1. CASE queue_preview
    BY <2>1, ListingTyped DEF queue_preview, OperationsInv, RequestTyped
  <2> QED BY <1>1, <2>1, OneTaskRequestTyped, ClaimByHandTyped, BegunRequestTyped, EndedRequestTyped,
             KillTyped DEF Operation
<1>2. CASE [Next]_vars /\ UNCHANGED operatorVars
  <2>1. AttemptResults \subseteq OperationResults /\ TypedOver(OperationResults)
    BY DEF OperationResults, OperationsInv
  <2>2. TypedOver(OperationResults)'
    BY <1>2, <2>1, StepTypedOver
  <2> QED BY <1>2, <2>2 DEF operatorVars, OperationsInv, RequestTyped, CountsTyped
<1> QED BY <1>1, <1>2 DEF NextWithOperations, operationVars

\* The tables, the processes and the requests are well typed in every state the
\* queue reaches with an operator at work.
THEOREM OperationsTypeCorrect == OperationsSpec => []OperationsTypeOK
<1>1. OperationsInv => OperationsTypeOK
  BY DEF OperationsInv, TypedOver, RequestTyped, CountsTyped, OperationsTypeOK, OperationResults
<1>2. OperationsInv /\ [NextWithOperations]_operationVars => OperationsInv'
  BY OperationsStepTyped
<1> QED BY <1>1, <1>2, InitOperationsTyped, PTL DEF OperationsSpec

-----------------------------------------------------------------------------
(* One running task per phone. *)

\* What a request may do to running tasks: start one on a phone that runs no
\* other, or move one and mark it as touched.
StartsOnFreePhone ==
  /\ touched \subseteq touched'
  /\ \A t \in Tasks \ touched' :
       /\ status'[t] = "running" /\ status[t] = "running" => taskPhone'[t] = taskPhone[t]
       /\ status'[t] = "running" /\ status[t] # "running" =>
            \A u \in Tasks \ {t} : taskPhone'[u] = taskPhone'[t] => status'[u] # "running"

\* A step that starts tasks on free phones only keeps them from overlapping.
LEMMA OneTaskStays ==
  ASSUME OneRunningTaskUnlessTouched, StartsOnFreePhone
  PROVE  OneRunningTaskUnlessTouched'
BY DEF OneRunningTaskUnlessTouched, StartsOnFreePhone

\* Requests: only a claim by hand starts a task, after the same check as a
\* worker's claim; a running task that changes phones is touched.
LEMMA OperatorStartsOnFreePhone ==
  ASSUME "running" \notin OperatorStatuses, OperationsInv, Operation
  PROVE  StartsOnFreePhone
<1>0. status \in [Tasks -> TaskStatuses] /\ taskPhone \in [Tasks -> Phones] /\ touched \subseteq Tasks
  BY DEF OperationsInv, TypedOver, CountsTyped
<1>1. ASSUME touched \subseteq touched', taskPhone' = taskPhone,
             \A t \in Tasks : status'[t] = "running" => status[t] = "running"
      PROVE  StartsOnFreePhone
  BY <1>1 DEF StartsOnFreePhone
<1>2. ASSUME NEW t \in Tasks, NEW s \in OperatorStatuses, update_status(t, s) PROVE StartsOnFreePhone
  BY <1>0, <1>1, <1>2 DEF update_status, Touch
<1>3. ASSUME NEW t \in Tasks, NEW p \in Phones, assign_phone(t, p) PROVE StartsOnFreePhone
  BY <1>0, <1>3 DEF assign_phone, Touch, StartsOnFreePhone
<1>4. ASSUME NEW c \in Callers, queue_claim_next(c) PROVE StartsOnFreePhone
  <2> DEFINE t == selection[c].task
  <2>1. CASE ~ClaimableByHand(c, t)
    BY <1>1, <1>4, <2>1 DEF queue_claim_next
  <2>2. CASE ClaimableByHand(c, t)
    <3>1. /\ status' = [status EXCEPT ![t] = "running"] /\ taskPhone' = taskPhone
          /\ touched \subseteq touched'
      BY <1>4, <2>2 DEF queue_claim_next, Touch
    <3>2. \A u \in Tasks \ {t} : taskPhone[u] = taskPhone[t] => status[u] # "running"
      BY <2>2 DEF ClaimableByHand, phone_has_running_task
    <3> QED BY <1>0, <3>1, <3>2 DEF StartsOnFreePhone
  <2> QED BY <2>1, <2>2
<1>5. CASE requeue \/ remove_tasks \/ cleanup_queue_state
  <2>1. touched \subseteq touched'
    BY <1>0, <1>5 DEF requeue, remove_tasks, cleanup_queue_state, Touch
  <2> QED BY <1>0, <1>1, <1>5, <2>1 DEF requeue, remove_tasks, cleanup_queue_state
<1>6. CASE \/ \E t \in Tasks : reschedule(t) \/ \E force, reset \in BOOLEAN : BeginRequeue(t, force, reset)
           \/ \E S \in SUBSET Tasks \ {{}} : BeginRemove(S)
           \/ \E keepTasks \in BOOLEAN : stop_all(keepTasks)
           \/ \E w \in Workers : kill_process(w)
  <2>1. UNCHANGED <<status, taskPhone>> /\ touched \subseteq touched'
    BY <1>6 DEF reschedule, Touch, BeginRequeue, BeginRemove, stop_all, Begin, kill_process, Killed,
                vars, taskVars
  <2> QED BY <1>1, <2>1
<1>7. ASSUME ListedByHand PROVE StartsOnFreePhone
  BY <1>1, <1>7 DEF ListedByHand, mark_completed_dry_run_tasks
<1> QED BY <1>2, <1>3, <1>4, <1>5, <1>6, <1>7 DEF Operation, queue_preview, SelectByHand

\* The queue: claim_next checks the phone, nothing else starts a task.
LEMMA QueueStartsOnFreePhone ==
  ASSUME OperationsInv, [Next]_vars, UNCHANGED operatorVars
  PROVE  StartsOnFreePhone
<1>0. /\ status \in [Tasks -> TaskStatuses] /\ ProcessesTyped
      /\ taskPhone' = taskPhone /\ touched' = touched
  BY TaskEffects DEF OperationsInv, TypedOver, operatorVars
<1>1. ASSUME \A t \in Tasks : status'[t] = "running" => status[t] = "running"
      PROVE  StartsOnFreePhone
  BY <1>0, <1>1 DEF StartsOnFreePhone
<1>2. ASSUME NEW w \in Workers, claim_next(w) PROVE StartsOnFreePhone
  BY <1>0, <1>2 DEF claim_next, Claimable, phone_has_running_task, StartsOnFreePhone
<1>3. CASE Quiet
  BY <1>1, <1>3 DEF Quiet
<1>4. ASSUME NEW w \in Workers, Reported(w) PROVE StartsOnFreePhone
  BY <1>0, <1>1, <1>4 DEF Reported, Settle
<1>5. ASSUME NEW r \in Recoverers, recover_worker(r) PROVE StartsOnFreePhone
  BY <1>1, <1>5 DEF recover_worker
<1> QED BY <1>0, <1>2, <1>3, <1>4, <1>5, TaskEffects

\* Two tasks run on one phone only if one of them was moved there or given
\* another status while it was held, whatever else an operator does to tasks,
\* phones and workers; a request that sets the status running is excluded,
\* since it starts a task without looking at the phone.
THEOREM OneRunningTaskUnlessTouchedHolds ==
  ASSUME "running" \notin OperatorStatuses
  PROVE  OperationsSpec => []OneRunningTaskUnlessTouched
<1>1. InitOperations => OneRunningTaskUnlessTouched
  BY DEF InitOperations, Init, OneRunningTaskUnlessTouched
<1>2. OperationsInv /\ [NextWithOperations]_operationVars => OperationsInv'
  BY OperationsStepTyped
<1>3. OperationsInv /\ OneRunningTaskUnlessTouched /\ [NextWithOperations]_operationVars
        => OneRunningTaskUnlessTouched'
  <2> SUFFICES ASSUME OperationsInv, OneRunningTaskUnlessTouched, [NextWithOperations]_operationVars
               PROVE  OneRunningTaskUnlessTouched'
    OBVIOUS
  <2>1. Operation \/ ([Next]_vars /\ UNCHANGED operatorVars)
    BY DEF NextWithOperations, operationVars
  <2>2. StartsOnFreePhone
    BY <2>1, OperatorStartsOnFreePhone, QueueStartsOnFreePhone
  <2> QED BY <2>2, OneTaskStays
<1> QED BY <1>1, <1>2, <1>3, InitOperationsTyped, PTL DEF OperationsSpec


-----------------------------------------------------------------------------
(* Claims that no request touched: what the claim, the lease and the recovery  *)
(* rely on holds for every task that no request changed under its holder.      *)

\* As long as some task is untouched, no worker that stop-all overlooked works
\* under a closed row: leases tell who serves.
LeasesKept == touched = Tasks \/ (LeaseInv /\ OneWorkerPerPhone)

\* A worker uses a task of its own phone.
UntouchedOnPhone ==
  \A w \in Workers : pc[w] \in Holding /\ claim[w].task \notin touched =>
    taskPhone[claim[w].task] = phoneOf[w]

\* A selected task does not run: nobody else can have claimed it.
UntouchedSelected ==
  \A w \in Workers : pc[w] = "claim" /\ claim[w].task \notin touched =>
    status[claim[w].task] # "running"

\* What a recovery call has read still runs under a worker it recovers.
UntouchedReads ==
  \A r \in Recoverers : recovery[r].pc = "read" =>
    \A t \in recovery[r].tasks \ touched :
      status[t] = "running" /\ lockedBy[t] \in recovery[r].workers

\* The inductive invariant.
UntouchedInv ==
  /\ OperationsInv /\ LeasesKept /\ ClaimsWhileWorking
  /\ UntouchedOnPhone /\ UntouchedSelected /\ UntouchedReads /\ UntouchedClaimIsCurrent

\* What the step of a request leaves to the tasks that it does not touch: who
\* holds them goes on holding them, and they look the same, except that a
\* listing ends the dry run of one that waits.
SparesUntouched ==
  /\ touched \subseteq touched' /\ touched' \subseteq Tasks
  /\ \A t \in Tasks \ touched' : Held(t) =>
       /\ \/ status'[t] = status[t] /\ lockedBy'[t] = lockedBy[t]
          \/ status[t] \in CLAIMABLE_TASK_STATUSES /\ status'[t] = "dry_run"
       /\ taskPhone'[t] = taskPhone[t]
       /\ Len(attempts'[t]) = Len(attempts[t])
       /\ \A i \in DOMAIN attempts[t] : attempts'[t][i] = attempts[t][i]

\* Requests change no task that is held without touching it.
LEMMA OperatorSparesUntouched ==
  ASSUME OperationsInv, Operation
  PROVE  SparesUntouched
<1>0. /\ status \in [Tasks -> TaskStatuses] /\ lockedBy \in [Tasks -> Workers \cup {None}]
      /\ taskPhone \in [Tasks -> Phones] /\ attempts \in [Tasks -> Seq(OperationResults)]
      /\ touched \subseteq Tasks /\ operator.tasks \subseteq Tasks
  BY DEF OperationsInv, TypedOver, CountsTyped, RequestTyped
<1>1. ASSUME NEW S \in SUBSET Tasks, Touch(S),
             \A t \in Tasks \ S : /\ status'[t] = status[t] /\ lockedBy'[t] = lockedBy[t]
                                  /\ taskPhone'[t] = taskPhone[t] /\ attempts'[t] = attempts[t]
      PROVE  SparesUntouched
  BY <1>0, <1>1 DEF Touch, SparesUntouched
<1>2. ASSUME UNCHANGED <<status, lockedBy, taskPhone, attempts, touched>> PROVE SparesUntouched
  BY <1>0, <1>2 DEF SparesUntouched
<1>3. ASSUME NEW t \in Tasks, NEW s \in OperatorStatuses, update_status(t, s) PROVE SparesUntouched
  <2>1. \A u \in Tasks \ {t} : /\ status'[u] = status[u] /\ lockedBy'[u] = lockedBy[u]
                               /\ taskPhone'[u] = taskPhone[u] /\ attempts'[u] = attempts[u]
    BY <1>0, <1>3 DEF update_status
  <2> QED BY <1>1, <1>3, <2>1 DEF update_status
<1>4. ASSUME NEW t \in Tasks, NEW p \in Phones, assign_phone(t, p) PROVE SparesUntouched
  <2>1. /\ \A u \in Tasks \ {t} : taskPhone'[u] = taskPhone[u]
        /\ UNCHANGED <<status, lockedBy, attempts>>
    BY <1>0, <1>4 DEF assign_phone
  <2>2. CASE Touch({t})
    BY <1>1, <2>1, <2>2
  <2>3. CASE touched' = touched \cup {t}
    BY <1>0, <2>1, <2>3 DEF SparesUntouched
  <2> QED BY <1>4, <2>2, <2>3 DEF assign_phone
<1>5. ASSUME NEW t \in Tasks, reschedule(t) PROVE SparesUntouched
  <2>1. UNCHANGED <<status, lockedBy, taskPhone, attempts>> /\ Touch({t})
    BY <1>5 DEF reschedule
  <2> QED BY <1>1, <2>1
<1>6. ASSUME NEW c \in Callers, queue_claim_next(c) PROVE SparesUntouched
  <2> DEFINE t == selection[c].task
  <2>1. CASE ~ClaimableByHand(c, t)
    BY <1>2, <1>6, <2>1 DEF queue_claim_next, historyVars
  <2>2. CASE ClaimableByHand(c, t)
    <3>1. /\ status' = [status EXCEPT ![t] = "running"] /\ lockedBy' = [lockedBy EXCEPT ![t] = None]
          /\ taskPhone' = taskPhone /\ OpenAttempt(t) /\ Touch({t})
      BY <1>6, <2>2 DEF queue_claim_next
    <3>2. t \in Tasks
      BY <1>6 DEF queue_claim_next, OperationsInv, RequestTyped
    <3>3. \A u \in Tasks \ {t} : /\ status'[u] = status[u] /\ lockedBy'[u] = lockedBy[u]
                                 /\ attempts'[u] = attempts[u]
      BY <1>0, <3>1 DEF OpenAttempt
    <3> QED BY <1>1, <3>1, <3>2, <3>3
  <2> QED BY <2>1, <2>2
<1>7. CASE requeue
  <2>1. PICK t \in Tasks : operator.tasks = {t}
    BY <1>7 DEF requeue, OperationsInv
  <2>2. (CHOOSE u \in Tasks : u \in operator.tasks) = t
    BY <2>1
  <2>3. \A u \in Tasks \ {t} : /\ status'[u] = status[u] /\ lockedBy'[u] = lockedBy[u]
                               /\ taskPhone'[u] = taskPhone[u] /\ attempts'[u] = attempts[u]
    BY <1>0, <1>7, <2>2 DEF requeue
  <2> QED BY <1>1, <1>7, <2>1, <2>3 DEF requeue
<1>8. CASE remove_tasks
  BY <1>0, <1>1, <1>8 DEF remove_tasks
<1>9. CASE cleanup_queue_state
  <2>1. CASE Touch(Tasks)
    BY <1>0, <1>1, <2>1
  <2>2. CASE touched' = Tasks
    BY <1>0, <2>2 DEF SparesUntouched
  <2> QED BY <1>9, <2>1, <2>2 DEF cleanup_queue_state
<1>10. CASE \/ \E t \in Tasks, force, reset \in BOOLEAN : BeginRequeue(t, force, reset)
            \/ \E S \in SUBSET Tasks \ {{}} : BeginRemove(S)
            \/ \E keepTasks \in BOOLEAN : stop_all(keepTasks)
            \/ \E w \in Workers : kill_process(w)
  <2>1. UNCHANGED <<status, lockedBy, taskPhone, attempts, touched>>
    BY <1>10 DEF BeginRequeue, BeginRemove, stop_all, Begin, kill_process, Killed, vars, taskVars,
                 historyVars
  <2> QED BY <1>2, <2>1
<1>11. ASSUME ListedByHand PROVE SparesUntouched
  <2>1. UNCHANGED <<taskPhone, attempts, touched>>
    BY <1>11 DEF ListedByHand, mark_completed_dry_run_tasks, historyVars
  <2>2. \A t \in Tasks : \/ status'[t] = status[t] /\ lockedBy'[t] = lockedBy[t]
                         \/ status[t] \in CLAIMABLE_TASK_STATUSES /\ status'[t] = "dry_run"
    BY <1>11 DEF ListedByHand, mark_completed_dry_run_tasks, CompletedDryRun
  <2> QED BY <1>0, <2>1, <2>2 DEF SparesUntouched
<1> QED BY <1>3, <1>4, <1>5, <1>6, <1>7, <1>8, <1>9, <1>10, <1>11 DEF Operation, queue_preview, SelectByHand

\* What a request does to workers and recoveries: at most one worker dies.
LEMMA OperatorKeepsProcesses ==
  ASSUME OperationsInv, Operation
  PROVE  /\ recovery' = recovery /\ phoneOf' = phoneOf
         /\ \A v \in Workers : \/ pc'[v] = pc[v] /\ claim'[v] = claim[v] /\ localStatus'[v] = localStatus[v]
                               \/ pc'[v] = "gone" /\ claim'[v].attempt = 0
         /\ \/ UNCHANGED rowVars
            \/ touched' = Tasks
            \/ \A v \in Workers : ~Alive(v)
<1> DEFINE Goal ==
      /\ recovery' = recovery /\ phoneOf' = phoneOf
      /\ \A v \in Workers : \/ pc'[v] = pc[v] /\ claim'[v] = claim[v] /\ localStatus'[v] = localStatus[v]
                            \/ pc'[v] = "gone" /\ claim'[v].attempt = 0
      /\ \/ UNCHANGED rowVars
         \/ touched' = Tasks
         \/ \A v \in Workers : ~Alive(v)
<1> USE DEF workerVars, claimVars, Processes
<1>1. CASE \/ \E t \in Tasks : \/ \E s \in OperatorStatuses : update_status(t, s)
                               \/ \E p \in Phones : assign_phone(t, p)
                               \/ reschedule(t)
                               \/ \E c \in Callers : SelectByHand(c, t)
           \/ requeue \/ remove_tasks \/ queue_preview
           \/ \E c \in Callers : queue_claim_next(c)
  <2>1. UNCHANGED Processes
    BY <1>1 DEF update_status, assign_phone, reschedule, SelectByHand, queue_preview, ListedByHand,
                queue_claim_next, requeue, remove_tasks
  <2> QED BY <2>1
<1>2. CASE cleanup_queue_state
  BY <1>2 DEF cleanup_queue_state
<1>3. CASE \/ \E t \in Tasks, force, reset \in BOOLEAN : BeginRequeue(t, force, reset)
           \/ \E S \in SUBSET Tasks \ {{}} : BeginRemove(S)
           \/ \E keepTasks \in BOOLEAN : stop_all(keepTasks)
  BY <1>3 DEF BeginRequeue, BeginRemove, stop_all, Begin, vars
<1>4. ASSUME NEW w \in Workers, kill_process(w) PROVE Goal
  <2>1. ProcessesTyped
    BY DEF OperationsInv, TypedOver
  <2>2. CASE UNCHANGED vars
    BY <2>2 DEF vars
  <2>3. CASE Killed(w)
    BY <2>1, <2>3 DEF Killed, ProcessEnds, ForgetClaim, NoClaim, ProcessesTyped, rowVars
  <2> QED BY <1>4, <2>2, <2>3 DEF kill_process
<1> QED BY <1>1, <1>2, <1>3, <1>4 DEF Operation

\* Under a request.
LEMMA OperatorKeepsUntouched ==
  ASSUME UntouchedInv, Operation
  PROVE  UntouchedInv'
<1>0. OperationsInv /\ OperationsInv'
  BY OperationsStepTyped DEF UntouchedInv, NextWithOperations
<1>1. SparesUntouched
  BY <1>0, OperatorSparesUntouched
<1>2. /\ recovery' = recovery /\ phoneOf' = phoneOf
      /\ \A v \in Workers : \/ pc'[v] = pc[v] /\ claim'[v] = claim[v] /\ localStatus'[v] = localStatus[v]
                            \/ pc'[v] = "gone" /\ claim'[v].attempt = 0
      /\ \/ UNCHANGED rowVars
         \/ touched' = Tasks
         \/ \A v \in Workers : ~Alive(v)
  BY <1>0, OperatorKeepsProcesses
<1>3. MemoryOK
  BY <1>0, MemoryOfTypes DEF OperationsInv
<1>4. LeasesKept'
  <2>1. CASE touched = Tasks \/ touched' = Tasks
    BY <1>1, <2>1 DEF SparesUntouched, LeasesKept
  <2>2. CASE touched # Tasks /\ touched' # Tasks
    <3>1. LeaseInv /\ OneWorkerPerPhone
      BY <2>2 DEF UntouchedInv, LeasesKept
    <3>2. \A v \in Workers : /\ Alive(v)' => Alive(v)
                             /\ Serving(v)' => Serving(v)
                             /\ Alive(v)' => pc'[v] = pc[v] /\ localStatus'[v] = localStatus[v]
      BY <1>2 DEF Alive, Serving
    <3>3. OneWorkerPerPhone'
      BY <1>2, <3>1, <3>2 DEF OneWorkerPerPhone
    <3>4. LeaseInv'
      <4>1. CASE UNCHANGED rowVars
        <5>1. lease' = lease /\ rowStatus' = rowStatus
          BY <4>1 DEF rowVars
        <5>2. \A w \in Workers : Alive(w)' => lease'[w] # "expired"
          BY <3>1, <3>2, <5>1 DEF LeaseInv
        <5>3. \A w \in Workers : Serving(w)' =>
                HoldsLease(w)' /\ localStatus'[w] \in {"idle", "running"} /\ pc'[w] # "cooldown"
          BY <3>1, <3>2, <5>1 DEF LeaseInv, Serving, HoldsLease, Active
        <5>4. \A r \in Recoverers : recovery'[r].workers \subseteq Workers
          BY <1>2, <1>3 DEF MemoryOK, RecoveryTyped
        <5>5. \A r \in Recoverers : \A w \in recovery'[r].workers : ~Alive(w)'
          BY <1>2, <3>1, <3>2, <5>4 DEF LeaseInv
        <5> QED BY <5>2, <5>3, <5>5 DEF LeaseInv
      <4>2. CASE \A v \in Workers : ~Alive(v)
        BY <1>2, <1>3, <3>2, <4>2 DEF LeaseInv, Serving, MemoryOK, RecoveryTyped
      <4> QED BY <1>2, <2>2, <4>1, <4>2
    <3> QED BY <3>3, <3>4 DEF LeasesKept
  <2> QED BY <2>1, <2>2
<1>5. ClaimsWhileWorking'
  BY <1>2 DEF UntouchedInv, ClaimsWhileWorking, Working, Holding
<1>6. ASSUME NEW w \in Workers, pc'[w] \in Holding, claim'[w].task \notin touched'
      PROVE  /\ pc'[w] = pc[w] /\ claim'[w] = claim[w]
             /\ LET t == claim[w].task IN
                /\ t \in Tasks \ touched /\ t \notin touched'
                /\ \/ status'[t] = status[t] /\ lockedBy'[t] = lockedBy[t]
                   \/ status[t] \in CLAIMABLE_TASK_STATUSES /\ status'[t] = "dry_run"
                /\ taskPhone'[t] = taskPhone[t]
                /\ Len(attempts'[t]) = Len(attempts[t])
                /\ \A i \in DOMAIN attempts[t] : attempts'[t][i] = attempts[t][i]
  <2>1. pc'[w] = pc[w] /\ claim'[w] = claim[w]
    BY <1>2, <1>6 DEF Holding
  <2>2. claim[w].task \in Tasks /\ Held(claim[w].task)
    BY <1>3, <1>6, <2>1 DEF MemoryOK, ClaimTyped, Held
  <2> QED BY <1>1, <1>6, <2>1, <2>2 DEF SparesUntouched
<1>7. UntouchedOnPhone'
  BY <1>2, <1>6 DEF UntouchedInv, UntouchedOnPhone
<1>8. UntouchedSelected'
  BY <1>6 DEF UntouchedInv, UntouchedSelected, Holding
<1>9. UntouchedReads'
  <2> SUFFICES ASSUME NEW r \in Recoverers, recovery'[r].pc = "read", NEW t \in recovery'[r].tasks \ touched'
               PROVE  status'[t] = "running" /\ lockedBy'[t] \in recovery'[r].workers
    BY DEF UntouchedReads
  <2>1. recovery'[r] = recovery[r] /\ t \in Tasks /\ Held(t)
    BY <1>2, <1>3 DEF MemoryOK, RecoveryTyped, Held
  <2>2. t \in recovery[r].tasks \ touched
    BY <1>1, <2>1 DEF SparesUntouched
  <2>3. status[t] = "running" /\ lockedBy[t] \in recovery[r].workers
    BY <2>1, <2>2 DEF UntouchedInv, UntouchedReads
  <2>4. status'[t] = status[t] /\ lockedBy'[t] = lockedBy[t]
    BY <1>1, <2>1, <2>3 DEF SparesUntouched, CLAIMABLE_TASK_STATUSES
  <2> QED BY <2>1, <2>3, <2>4
<1>10. UntouchedClaimIsCurrent'
  <2> SUFFICES ASSUME NEW w \in Workers, claim'[w].attempt # 0, claim'[w].task \notin touched',
                      NEW t, t = claim'[w].task
               PROVE  /\ status'[t] = "running" /\ lockedBy'[t] = w
                      /\ claim'[w].attempt = Len(attempts'[t])
                      /\ attempts'[t][claim'[w].attempt] = "running"
    BY DEF UntouchedClaimIsCurrent
  <2>1. pc'[w] \in Holding
    BY <1>5 DEF ClaimsWhileWorking, Working
  <2>2. claim'[w] = claim[w] /\ t = claim[w].task /\ t \in Tasks \ touched
    BY <1>6, <2>1
  <2>3. /\ \/ status'[t] = status[t] /\ lockedBy'[t] = lockedBy[t]
           \/ status[t] \in CLAIMABLE_TASK_STATUSES /\ status'[t] = "dry_run"
        /\ Len(attempts'[t]) = Len(attempts[t])
        /\ \A i \in DOMAIN attempts[t] : attempts'[t][i] = attempts[t][i]
    <3>1. claim'[w].task \notin touched'
      BY <2>2
    <3> QED BY <1>6, <2>1, <2>2, <3>1
  <2>4. /\ status[t] = "running" /\ lockedBy[t] = w
        /\ claim[w].attempt = Len(attempts[t])
        /\ attempts[t][claim[w].attempt] = "running"
    BY <2>2 DEF UntouchedInv, UntouchedClaimIsCurrent
  <2>5. claim[w].attempt \in DOMAIN attempts[t]
    <3>1. attempts[t] \in Seq(OperationResults) /\ claim[w].attempt \in Nat /\ claim[w].attempt # 0
      BY <1>0, <1>3, <2>2 DEF OperationsInv, TypedOver, MemoryOK, ProcessesTyped
    <3>2. DOMAIN attempts[t] = 1 .. Len(attempts[t])
      BY <3>1, LenProperties
    <3> QED BY <2>4, <3>1, <3>2
  <2> QED BY <2>2, <2>3, <2>4, <2>5 DEF CLAIMABLE_TASK_STATUSES
<1> QED BY <1>0, <1>4, <1>5, <1>7, <1>8, <1>9, <1>10 DEF UntouchedInv


\* What a step of the queue does to one task: nothing, handle it while it waits,
\* claim it, report it or recover it.
LEMMA OneTaskStep ==
  ASSUME MemoryOK, [Next]_vars, NEW t \in Tasks,
         status \in [Tasks -> TaskStatuses], lockedBy \in [Tasks -> Workers \cup {None}],
         attempts \in [Tasks -> Seq(OperationResults)]
  PROVE  \/ status'[t] = status[t] /\ lockedBy'[t] = lockedBy[t] /\ attempts'[t] = attempts[t]
         \/ /\ status[t] \in CLAIMABLE_TASK_STATUSES /\ attempts'[t] = attempts[t]
            /\ status'[t] \in {"dry_run", "pending", "paused"}
         \/ \E w \in Workers : claim_next(w) /\ t = claim[w].task
         \/ \E w \in Workers : Reporting(w) /\ t = claim[w].task
         \/ \E r \in Recoverers : recover_worker(r) /\ t \in TasksToRecover(r)
<1> DEFINE Kept == status'[t] = status[t] /\ lockedBy'[t] = lockedBy[t] /\ attempts'[t] = attempts[t]
           Waited == /\ status[t] \in CLAIMABLE_TASK_STATUSES /\ attempts'[t] = attempts[t]
                     /\ status'[t] \in {"dry_run", "pending", "paused"}
           Goal == \/ Kept \/ Waited
                   \/ \E w \in Workers : claim_next(w) /\ t = claim[w].task
                   \/ \E w \in Workers : Reporting(w) /\ t = claim[w].task
                   \/ \E r \in Recoverers : recover_worker(r) /\ t \in TasksToRecover(r)
<1> USE DEF taskVars, historyVars
<1>1. ASSUME mark_completed_dry_run_tasks PROVE Kept \/ Waited
  BY <1>1 DEF mark_completed_dry_run_tasks, CompletedDryRun
<1>2. ASSUME NEW w \in Workers, BeginHealthCheck(w) \/ NoCandidate(w) PROVE Goal
  BY <1>1, <1>2 DEF BeginHealthCheck, NoCandidate
<1>3. ASSUME NEW w \in Workers, NEW u \in Tasks, SelectCandidate(w, u) PROVE Goal
  BY <1>1, <1>3 DEF SelectCandidate
<1>4. ASSUME NEW w \in Workers, NEW s \in HealthStatuses, EndHealthCheck(w, s) PROVE Goal
  BY <1>4 DEF EndHealthCheck
<1>5. ASSUME NEW w \in Workers, claim_next(w) PROVE Goal
  BY <1>5 DEF claim_next, OpenAttempt
<1>6. ASSUME NEW w \in Workers, Reporting(w) PROVE Goal
  <2>1. \E x, s : Settle(w, x, s)
    BY <1>6, ReportEffect
  <2>2. CASE t # claim[w].task
    BY <2>1, <2>2 DEF Settle
  <2> QED BY <1>6, <2>2
<1>7. ASSUME NEW w \in Workers, WorkerStep(w) PROVE Goal
  BY <1>2, <1>3, <1>4, <1>5, <1>6, <1>7
  DEF WorkerStep, Reporting, Register, ClaimRefused, ClaimHook, StartPipeline, RejectBeforeRun,
      PipelineEnds, ReadRetryCount, CooldownEnds, finish
<1>8. ASSUME NEW w \in Workers, \/ Heartbeat(w) \/ OrphanEnds(w) \/ LeaseExpires(w)
                                 \/ LeaseLapses(w) \/ WorkerException(w) \/ StopWorker(w)
                                 \/ Crash(w) \/ \E p \in Phones : Launch(w, p)
      PROVE  Goal
  BY <1>8
  DEF Heartbeat, OrphanEnds, LeaseExpires, LeaseLapses, Expire, WorkerException, StopWorker,
      Crash, Launch
<1>9. ASSUME NEW r \in Recoverers, recover_worker(r) PROVE Goal
  BY <1>9 DEF recover_worker
<1>10. ASSUME NEW r \in Recoverers, RecoveryStep(r) PROVE Goal
  BY <1>9, <1>10
  DEF RecoveryStep, recover_stale, recover_dead_processes, SelectForRecovery, ReadLockedTasks
<1>11. ASSUME reschedule_overdue_tasks \/ pause_overdue_tasks PROVE Goal
  BY <1>11 DEF reschedule_overdue_tasks, pause_overdue_tasks, OverdueTasks
<1>12. ASSUME NEW p \in Phones, MonitorStep(p) PROVE Goal
  BY <1>12 DEF MonitorStep, BeginUsbCheck, EndUsbCheck
<1>13. ASSUME NEW u \in Tasks, Elapse(u) PROVE Goal
  BY <1>13 DEF Elapse
<1>14. CASE UNCHANGED vars
  BY <1>14 DEF vars
<1> QED
  BY <1>7, <1>8, <1>10, <1>11, <1>12, <1>13, <1>14 DEF Next


\* An untouched task that a worker works on is its own.
LEMMA UntouchedHeld ==
  ASSUME UntouchedInv, NEW w \in Workers, pc[w] \in Working, claim[w].task \notin touched,
         NEW t, t = claim[w].task
  PROVE  /\ t \in Tasks /\ Alive(w) /\ claim[w].attempt # 0
         /\ status[t] = "running" /\ lockedBy[t] = w
         /\ claim[w].attempt = Len(attempts[t])
         /\ attempts[t][Len(attempts[t])] = "running"
<1>1. t \in Tasks /\ Alive(w)
  BY DEF UntouchedInv, OperationsInv, TypedOver, ClaimTyped, Working, Holding, Alive
<1>2. claim[w].attempt # 0
  BY DEF UntouchedInv, ClaimsWhileWorking
<1> QED BY <1>1, <1>2 DEF UntouchedInv, UntouchedClaimIsCurrent

\* Recovery takes an untouched task only from a dead worker.
LEMMA UntouchedRecovered ==
  ASSUME UntouchedInv, NEW r \in Recoverers, recovery[r].pc = "read",
         NEW t \in TasksToRecover(r), t \notin touched
  PROVE  t \in Tasks /\ status[t] = "running" /\ lockedBy[t] \in Workers /\ ~Alive(lockedBy[t])
<1>1. /\ recovery[r].workers \subseteq Workers
      /\ recovery[r].tasks \subseteq Tasks
  BY DEF UntouchedInv, OperationsInv, TypedOver, RecoveryTyped
<1>2. t \in Tasks /\ status[t] = "running" /\ lockedBy[t] \in recovery[r].workers
  BY <1>1 DEF TasksToRecover, RunningTasksLockedBy, UntouchedInv, UntouchedReads
<1>3. LeaseInv
  BY <1>2 DEF UntouchedInv, LeasesKept
<1> QED BY <1>1, <1>2, <1>3 DEF LeaseInv

\* Two workers do not select one untouched task: its phone is served by one.
LEMMA UntouchedSelectedOnce ==
  ASSUME UntouchedInv, NEW v \in Workers, NEW w \in Workers,
         pc[v] \in Holding, pc[w] \in Holding,
         claim[v].task = claim[w].task, claim[w].task \notin touched
  PROVE  v = w
<1>1. claim[w].task \in Tasks
  BY DEF UntouchedInv, OperationsInv, TypedOver, ClaimTyped
<1>2. OneWorkerPerPhone
  BY <1>1 DEF UntouchedInv, LeasesKept
<1>3. phoneOf[v] = phoneOf[w]
  BY DEF UntouchedInv, UntouchedOnPhone
<1>4. Serving(v) /\ Serving(w)
  BY DEF Serving, Alive, Holding
<1> QED BY <1>2, <1>3, <1>4 DEF OneWorkerPerPhone

\* A step of the queue changes an untouched task that somebody works on only
\* by that worker's report.
LEMMA UntouchedHeldStep ==
  ASSUME UntouchedInv, [Next]_vars,
         NEW w \in Workers, pc[w] \in Working, ~Reporting(w), claim[w].task \notin touched,
         NEW t, t = claim[w].task
  PROVE  status'[t] = status[t] /\ lockedBy'[t] = lockedBy[t] /\ attempts'[t] = attempts[t]
<1>0. t \in Tasks /\ Alive(w) /\ status[t] = "running" /\ lockedBy[t] = w
  BY UntouchedHeld
<1>1. ASSUME NEW v \in Workers, claim_next(v), t = claim[v].task PROVE FALSE
  <2>1. pc[v] = "claim"
    BY <1>1 DEF claim_next
  <2> QED BY <1>0, <1>1, <2>1 DEF UntouchedInv, UntouchedSelected
<1>2. ASSUME NEW v \in Workers, Reporting(v), t = claim[v].task PROVE FALSE
  <2>1. pc[v] \in Working
    BY <1>2, ReportEffect
  <2>2. lockedBy[t] = v
    BY <1>2, <2>1, UntouchedHeld
  <2> QED BY <1>0, <1>2, <2>2
<1>3. ASSUME NEW r \in Recoverers, recover_worker(r), t \in TasksToRecover(r) PROVE FALSE
  BY <1>0, <1>3, UntouchedRecovered DEF recover_worker
<1>4. status[t] \notin CLAIMABLE_TASK_STATUSES
  BY <1>0 DEF CLAIMABLE_TASK_STATUSES
<1>5. MemoryOK /\ status \in [Tasks -> TaskStatuses] /\ lockedBy \in [Tasks -> Workers \cup {None}]
      /\ attempts \in [Tasks -> Seq(OperationResults)]
  BY MemoryOfTypes DEF UntouchedInv, OperationsInv, TypedOver
<1> QED BY <1>0, <1>1, <1>2, <1>3, <1>4, <1>5, OneTaskStep

\* How a worker comes to hold a task in a step of the queue.
LEMMA HoldStep ==
  ASSUME OperationsInv, [Next]_vars, NEW w \in Workers, pc'[w] \in Holding
  PROVE  /\ phoneOf'[w] = phoneOf[w]
         /\ \/ \E t \in Tasks : SelectCandidate(w, t) /\ claim'[w] = [task |-> t, attempt |-> 0]
            \/ claim_next(w) /\ claim'[w] = [claim[w] EXCEPT !.attempt = Len(attempts[claim[w].task]) + 1]
            \/ pc[w] \in Holding /\ claim'[w] = claim[w] /\ (pc'[w] = "claim" => pc[w] = "claim")
<1>0. MemoryOK /\ claim \in [Workers -> [task : Tasks \cup {None}, attempt : Nat]]
  BY MemoryOfTypes DEF OperationsInv, TypedOver, ProcessesTyped
<1>1. phoneOf'[w] = phoneOf[w]
  <2>1. Serving(w)'
    BY DEF Serving, Alive, Holding
  <2> QED BY <1>0, <2>1, ServingStep
<1>2. ASSUME NEW t \in Tasks, SelectCandidate(w, t) PROVE claim'[w] = [task |-> t, attempt |-> 0]
  BY <1>0, <1>2 DEF SelectCandidate
<1>3. ASSUME claim_next(w)
      PROVE  claim'[w] = [claim[w] EXCEPT !.attempt = Len(attempts[claim[w].task]) + 1]
  BY <1>0, <1>3 DEF claim_next
<1>4. pc'[w] = "claim" \/ pc'[w] \in Working
  BY DEF Working
<1> QED BY <1>0, <1>1, <1>2, <1>3, <1>4, WaitStep, WorkStep DEF Working, Holding


\* Under a step of the queue.
LEMMA QueueKeepsUntouched ==
  ASSUME LeasesHold, OneRecoverer, UntouchedInv, [Next]_vars, UNCHANGED operatorVars
  PROVE  UntouchedInv'
<1>0. /\ OperationsInv /\ OperationsInv' /\ MemoryOK
      /\ touched' = touched /\ taskPhone' = taskPhone
  <2>1. OperationsInv
    BY DEF UntouchedInv
  <2>2. OperationsInv'
    BY <2>1, OperationsStepTyped DEF NextWithOperations, operationVars
  <2>3. MemoryOK /\ ProcessesTyped
    BY <2>1, MemoryOfTypes DEF OperationsInv, TypedOver
  <2> QED BY <2>1, <2>2, <2>3, TaskEffects DEF operatorVars
<1>t. /\ status \in [Tasks -> TaskStatuses] /\ lockedBy \in [Tasks -> Workers \cup {None}]
      /\ attempts \in [Tasks -> Seq(OperationResults)]
      /\ claim \in [Workers -> [task : Tasks \cup {None}, attempt : Nat]]
      /\ pc \in [Workers -> WorkerPcs]
  BY <1>0 DEF OperationsInv, TypedOver, ProcessesTyped
<1>1. LeasesKept'
  BY <1>0, StepLeases, StepOneWorker DEF UntouchedInv, LeasesKept
<1>2. ClaimsWhileWorking'
  <2>1. ASSUME NEW w \in Workers, claim'[w].attempt # 0 PROVE pc'[w] \in Working
    <3>1. CASE claim_next(w)
      BY <1>t, <3>1 DEF claim_next, Working, Holding
    <3>2. CASE claim'[w] = claim[w] /\ (pc[w] \in Working => pc'[w] \in Working)
      BY <2>1, <3>2 DEF UntouchedInv, ClaimsWhileWorking
    <3> QED BY <1>0, <2>1, <3>1, <3>2, WaitStep
  <2>2. ASSUME NEW w \in Workers, pc'[w] \in Working PROVE claim'[w].attempt # 0
    <3>1. CASE claim_next(w)
      <4>1. claim[w].task \in Tasks
        BY <1>0, <3>1 DEF claim_next, MemoryOK, ClaimTyped, Holding
      <4>2. Len(attempts[claim[w].task]) \in Nat
        BY <1>t, <4>1, LenProperties
      <4>3. claim'[w].attempt = Len(attempts[claim[w].task]) + 1
        BY <1>t, <3>1 DEF claim_next
      <4> QED BY <4>2, <4>3
    <3>2. CASE pc[w] \in Working /\ claim'[w] = claim[w]
      BY <3>2 DEF UntouchedInv, ClaimsWhileWorking
    <3> QED BY <1>0, <2>2, <3>1, <3>2, WorkStep
  <2> QED BY <2>1, <2>2 DEF ClaimsWhileWorking
<1>3. UntouchedOnPhone'
  <2> SUFFICES ASSUME NEW w \in Workers, pc'[w] \in Holding, claim'[w].task \notin touched'
               PROVE  taskPhone'[claim'[w].task] = phoneOf'[w]
    BY DEF UntouchedOnPhone
  <2>1. ASSUME NEW t \in Tasks, SelectCandidate(w, t), claim'[w] = [task |-> t, attempt |-> 0]
        PROVE  taskPhone[claim'[w].task] = phoneOf[w]
    BY <2>1 DEF SelectCandidate, Candidate
  <2>2. ASSUME claim_next(w),
               claim'[w] = [claim[w] EXCEPT !.attempt = Len(attempts[claim[w].task]) + 1]
        PROVE  taskPhone[claim'[w].task] = phoneOf[w]
    BY <1>t, <2>2 DEF claim_next, Claimable
  <2>3. CASE pc[w] \in Holding /\ claim'[w] = claim[w]
    BY <1>0, <2>3, HoldStep DEF UntouchedInv, UntouchedOnPhone
  <2> QED BY <1>0, <2>1, <2>2, <2>3, HoldStep
<1>4. UntouchedSelected'
  <2> SUFFICES ASSUME NEW w \in Workers, pc'[w] = "claim", NEW t, t = claim'[w].task,
                      t \notin touched, status'[t] = "running"
               PROVE  FALSE
    BY <1>0 DEF UntouchedSelected
  <2>1. ASSUME NEW u \in Tasks, SelectCandidate(w, u) PROVE FALSE
    <3>1. t = u
      BY <1>t, <2>1 DEF SelectCandidate
    <3> QED BY <2>1, <3>1 DEF SelectCandidate, Candidate, mark_completed_dry_run_tasks,
                              CLAIMABLE_TASK_STATUSES
  <2>2. CASE pc[w] = "claim" /\ claim'[w] = claim[w]
    <3>1. t \in Tasks /\ status[t] # "running"
      BY <1>0, <2>2 DEF UntouchedInv, UntouchedSelected, MemoryOK, ClaimTyped, Holding
    <3>2. ASSUME NEW v \in Workers, claim_next(v), t = claim[v].task PROVE FALSE
      <4>1. pc[v] = "claim" /\ pc'[v] = "prepare"
        BY <1>t, <3>2 DEF claim_next
      <4>2. v = w
        BY <2>2, <3>2, <4>1, UntouchedSelectedOnce DEF Holding
      <4> QED BY <4>1, <4>2
    <3>3. ASSUME NEW v \in Workers, Reporting(v), t = claim[v].task PROVE FALSE
      <4>1. pc[v] \in Working
        BY <3>3, ReportEffect
      <4> QED BY <3>1, <3>3, <4>1, UntouchedHeld
    <3>4. ASSUME NEW r \in Recoverers, recover_worker(r), t \in TasksToRecover(r) PROVE FALSE
      BY <3>1, <3>4, UntouchedRecovered DEF recover_worker
    <3> QED BY <1>0, <1>t, <3>1, <3>2, <3>3, <3>4, OneTaskStep
  <2> QED BY <1>0, <2>1, <2>2, WaitStep
<1>5. UntouchedReads'
  <2> SUFFICES ASSUME NEW r \in Recoverers, recovery'[r].pc = "read",
                      NEW t \in recovery'[r].tasks, t \notin touched
               PROVE  status'[t] = "running" /\ lockedBy'[t] \in recovery'[r].workers
    BY <1>0 DEF UntouchedReads
  <2>r. recovery \in [Recoverers -> [pc : {"idle", "selected", "read"}, workers : SUBSET Workers,
                                     first : Workers \cup {None}, tasks : SUBSET Tasks]]
    BY <1>0 DEF MemoryOK, RecoveryTyped
  <2>1. ASSUME NEW w \in Workers, ReadLockedTasks(r, w)
        PROVE  status'[t] = "running" /\ lockedBy'[t] \in recovery'[r].workers
    BY <2>r, <2>1 DEF ReadLockedTasks, RunningTasksLockedBy, taskVars
  <2>2. CASE recovery'[r] = recovery[r]
    <3>1. t \in Tasks /\ status[t] = "running" /\ lockedBy[t] \in recovery[r].workers
      BY <2>2, <2>r DEF UntouchedInv, UntouchedReads
    <3>2. LeaseInv /\ ~Alive(lockedBy[t])
      BY <3>1 DEF UntouchedInv, LeasesKept, LeaseInv
    <3>3. ASSUME NEW v \in Workers, claim_next(v), t = claim[v].task PROVE FALSE
      <4>1. pc[v] = "claim"
        BY <3>3 DEF claim_next
      <4> QED BY <3>1, <3>3, <4>1 DEF UntouchedInv, UntouchedSelected
    <3>4. ASSUME NEW v \in Workers, Reporting(v), t = claim[v].task PROVE FALSE
      <4>1. pc[v] \in Working
        BY <3>4, ReportEffect
      <4> QED BY <3>2, <3>4, <4>1, UntouchedHeld
    <3>5. ASSUME NEW q \in Recoverers, recover_worker(q) PROVE FALSE
      <4>1. q = r
        BY DEF OneRecoverer
      <4> QED BY <2>r, <3>5, <4>1 DEF recover_worker, NoRecovery
    <3>6. status[t] \notin CLAIMABLE_TASK_STATUSES
      BY <3>1 DEF CLAIMABLE_TASK_STATUSES
    <3>7. status'[t] = status[t] /\ lockedBy'[t] = lockedBy[t]
      BY <1>0, <1>t, <3>1, <3>3, <3>4, <3>5, <3>6, OneTaskStep
    <3> QED BY <2>2, <3>1, <3>7
  <2> QED BY <1>0, <2>1, <2>2, ReadStep
<1>6. UntouchedClaimIsCurrent'
  <2> SUFFICES ASSUME NEW w \in Workers, claim'[w].attempt # 0, NEW t, t = claim'[w].task,
                      t \notin touched
               PROVE  /\ status'[t] = "running" /\ lockedBy'[t] = w
                      /\ claim'[w].attempt = Len(attempts'[t])
                      /\ attempts'[t][claim'[w].attempt] = "running"
    BY <1>0 DEF UntouchedClaimIsCurrent
  <2>1. CASE claim_next(w)
    <3>1. t = claim[w].task /\ claim'[w].attempt = Len(attempts[t]) + 1
      BY <1>t, <2>1 DEF claim_next
    <3>2. t \in Tasks /\ attempts[t] \in Seq(OperationResults)
      BY <1>0, <1>t, <2>1, <3>1 DEF claim_next, MemoryOK, ClaimTyped, Holding
    <3>3. status'[t] = "running" /\ lockedBy'[t] = w /\ attempts'[t] = Append(attempts[t], "running")
      BY <1>t, <2>1, <3>1, <3>2 DEF claim_next, OpenAttempt
    <3>4. Len(Append(attempts[t], "running")) = Len(attempts[t]) + 1
          /\ Append(attempts[t], "running")[Len(attempts[t]) + 1] = "running"
      BY <3>2, OpenedSeq DEF OperationResults, AttemptResults
    <3> QED BY <3>1, <3>3, <3>4
  <2>2. CASE claim'[w] = claim[w]
    <3>1. pc[w] \in Working
      BY <2>2 DEF UntouchedInv, ClaimsWhileWorking
    <3>2. ~Reporting(w)
      BY <1>t, <2>2, ReportEffect DEF NoClaim
    <3>3. /\ status[t] = "running" /\ lockedBy[t] = w
          /\ claim[w].attempt = Len(attempts[t])
          /\ attempts[t][Len(attempts[t])] = "running"
      BY <2>2, <3>1, UntouchedHeld
    <3>4. status'[t] = status[t] /\ lockedBy'[t] = lockedBy[t] /\ attempts'[t] = attempts[t]
      BY <2>2, <3>1, <3>2, UntouchedHeldStep
    <3> QED BY <2>2, <3>3, <3>4
  <2> QED BY <1>0, <2>1, <2>2, WaitStep
<1> QED BY <1>0, <1>1, <1>2, <1>3, <1>4, <1>5, <1>6 DEF UntouchedInv

\* No request and no step of the queue breaks it, from the start on.
LEMMA UntouchedInvariant ==
  ASSUME LeasesHold, OneRecoverer
  PROVE  /\ InitOperations => UntouchedInv
         /\ UntouchedInv /\ [NextWithOperations]_operationVars => UntouchedInv'
<1>1. ASSUME InitOperations PROVE UntouchedInv
  <2>1. OperationsInv
    BY <1>1, InitOperationsTyped
  <2>2. Init
    BY <1>1 DEF InitOperations
  <2>3. LeaseInv /\ OneWorkerPerPhone
    BY <2>2 DEF Init, LeaseInv, OneWorkerPerPhone, Serving, Alive, NoRecovery
  <2>4. ClaimsWhileWorking /\ UntouchedOnPhone /\ UntouchedSelected /\ UntouchedReads
        /\ UntouchedClaimIsCurrent
    BY <2>2 DEF Init, ClaimsWhileWorking, UntouchedOnPhone, UntouchedSelected, UntouchedReads,
                UntouchedClaimIsCurrent, Working, Holding, NoClaim, NoRecovery
  <2> QED BY <2>1, <2>3, <2>4 DEF UntouchedInv, LeasesKept
<1>2. ASSUME UntouchedInv, [NextWithOperations]_operationVars PROVE UntouchedInv'
  <2>1. Operation \/ ([Next]_vars /\ UNCHANGED operatorVars)
    BY <1>2 DEF NextWithOperations, operationVars
  <2> QED BY <1>2, <2>1, OperatorKeepsUntouched, QueueKeepsUntouched
<1> QED BY <1>1, <1>2

\* A worker whose task no request has touched still owns what it writes, while
\* operators cancel, move, requeue, remove and stop other tasks and kill
\* workers at any moment: a request can overtake a worker only on the task it
\* names, or when the cleanup of stop-all touches everything.
THEOREM UntouchedClaimIsCurrentHolds ==
  ASSUME LeasesHold, OneRecoverer
  PROVE  OperationsSpec => []UntouchedClaimIsCurrent
<1>1. UntouchedInv => UntouchedClaimIsCurrent
  BY DEF UntouchedInv
<1> QED BY <1>1, UntouchedInvariant, PTL DEF OperationsSpec



-----------------------------------------------------------------------------
(* Publications of a task: a publication uses up what a queueing allowed.      *)

\* The attempts of a history that published.
Published(s) == IndicesOf(s, "published")

\* Only finitely many attempts of a history have published.
LEMMA PublishedFinite ==
  ASSUME NEW s \in Seq(OperationResults)
  PROVE  IsFiniteSet(Published(s)) /\ Cardinality(Published(s)) \in Nat
<1>1. Len(s) \in Nat /\ DOMAIN s = 1 .. Len(s)
  BY LenProperties
<1>2. IsFiniteSet(1 .. Len(s))
  BY <1>1, FS_Interval
<1>3. Published(s) \in SUBSET (1 .. Len(s))
  BY <1>1 DEF Published, IndicesOf
<1>4. IsFiniteSet(Published(s))
  BY <1>2, <1>3, FS_Subset
<1> QED BY <1>4, FS_CardinalityType

\* Claims, recoveries, requests to queue again and a stop change no publication.
LEMMA PublicationsKept ==
  ASSUME NEW s \in Seq(OperationResults),
         NEW u \in {s, Append(s, "running"), CloseAttempts(s), CloseRequeued(s), Terminate(s)}
  PROVE  Published(u) = Published(s)
<1>1. Len(s) \in Nat /\ DOMAIN s = 1 .. Len(s)
  BY LenProperties
<1>2. CASE u = Append(s, "running")
  <2>1. "running" \in OperationResults
    BY DEF OperationResults, AttemptResults
  <2>2. /\ u \in Seq(OperationResults) /\ Len(u) = Len(s) + 1
        /\ u[Len(s) + 1] = "running" /\ \A j \in 1 .. Len(s) : u[j] = s[j]
    BY <1>2, <2>1, OpenedSeq
  <2>3. DOMAIN u = 1 .. (Len(s) + 1)
    BY <2>2, LenProperties
  <2> QED BY <1>1, <2>2, <2>3 DEF Published, IndicesOf
<1>3. CASE u \in {CloseAttempts(s), CloseRequeued(s), Terminate(s)}
  <2>1. DOMAIN u = DOMAIN s
        /\ \A i \in DOMAIN s : u[i] = s[i] \/ (s[i] = "running" /\ u[i] # "published")
    BY <1>3 DEF CloseAttempts, CloseRequeued, Terminate
  <2> QED BY <2>1 DEF Published, IndicesOf
<1> QED BY <1>2, <1>3

\* A report publishes at most once, and only if it says so.
LEMMA PublicationAdded ==
  ASSUME NEW s \in Seq(OperationResults), NEW i \in Nat, i \in DOMAIN s,
         s[i] = "running", NEW x \in ReportedResults
  PROVE  /\ Cardinality(Published([s EXCEPT ![i] = x])) <= Cardinality(Published(s)) + 1
         /\ x # "published" => Published([s EXCEPT ![i] = x]) = Published(s)
<1> DEFINE u == [s EXCEPT ![i] = x]
<1>1. DOMAIN u = DOMAIN s /\ \A j \in DOMAIN s : u[j] = IF j = i THEN x ELSE s[j]
  OBVIOUS
<1>2. CASE x # "published"
  <2>1. Published(u) = Published(s)
    BY <1>1, <1>2 DEF Published, IndicesOf
  <2> QED BY <1>2, <2>1, PublishedFinite
<1>3. CASE x = "published"
  <2>1. Published(u) = Published(s) \cup {i} /\ i \notin Published(s)
    BY <1>1, <1>3 DEF Published, IndicesOf
  <2>2. Cardinality(Published(u)) = Cardinality(Published(s)) + 1
    BY <2>1, PublishedFinite, FS_AddElement
  <2> QED BY <1>3, <2>2, PublishedFinite
<1> QED BY <1>2, <1>3

\* A task that waits, runs under a worker or is about to be claimed may be
\* published once more; one that was claimed by hand runs under nobody.
Queued(t) == \/ status[t] \in CLAIMABLE_TASK_STATUSES
             \/ status[t] = "running" /\ lockedBy[t] # None
Claimed(t) == \E w \in Workers : pc[w] = "claim" /\ claim[w].task = t

\* The inductive invariant, together with UntouchedInv.
Budget ==
  \A t \in Tasks \ touched :
    /\ Cardinality(Published(attempts[t])) <= 1 + reopened[t]
    /\ Queued(t) \/ Claimed(t) => Cardinality(Published(attempts[t])) <= reopened[t]

\* A request changes no publication, and what it queues it counts.
LEMMA OperatorQueuesAndCounts ==
  ASSUME "running" \notin OperatorStatuses, OperationsInv, Operation, NEW t \in Tasks
  PROVE  /\ attempts'[t] \in {attempts[t], Append(attempts[t], "running"),
                              CloseRequeued(attempts[t]), Terminate(attempts[t])}
         /\ \/ reopened'[t] = reopened[t] + 1
            \/ reopened'[t] = reopened[t] /\ (Queued(t)' => Queued(t))
<1> DEFINE Goal ==
      /\ attempts'[t] \in {attempts[t], Append(attempts[t], "running"),
                           CloseRequeued(attempts[t]), Terminate(attempts[t])}
      /\ \/ reopened'[t] = reopened[t] + 1
         \/ reopened'[t] = reopened[t] /\ (Queued(t)' => Queued(t))
<1>0. /\ status \in [Tasks -> TaskStatuses] /\ attempts \in [Tasks -> Seq(OperationResults)]
      /\ reopened \in [Tasks -> Nat]
  BY DEF OperationsInv, TypedOver, CountsTyped
<1>1. ASSUME NEW u \in Tasks, NEW s \in OperatorStatuses, update_status(u, s) PROVE Goal
  <2>1. /\ attempts' = attempts /\ status' = [status EXCEPT ![u] = s]
        /\ \A v \in Tasks \ {u} : lockedBy'[v] = lockedBy[v]
        /\ IF s \in CLAIMABLE_TASK_STATUSES THEN Reopen({u}) ELSE UNCHANGED reopened
    BY <1>0, <1>1 DEF update_status
  <2>2. CASE u = t /\ s \in CLAIMABLE_TASK_STATUSES
    <3>1. reopened'[t] = reopened[t] + 1
      BY <2>1, <2>2 DEF Reopen
    <3> QED BY <2>1, <3>1
  <2>3. CASE u = t /\ s \notin CLAIMABLE_TASK_STATUSES
    BY <1>0, <2>1, <2>3 DEF Queued
  <2>4. CASE u # t
    <3>1. reopened'[t] = reopened[t]
      BY <1>0, <2>1, <2>4 DEF Reopen
    <3> QED BY <1>0, <2>1, <2>4, <3>1 DEF Queued
  <2> QED BY <2>2, <2>3, <2>4
<1>2. ASSUME NEW c \in Callers, queue_claim_next(c) PROVE Goal
  <2> DEFINE u == selection[c].task
  <2>1. reopened' = reopened
    BY <1>2 DEF queue_claim_next
  <2>2. CASE ~ClaimableByHand(c, u)
    <3>1. UNCHANGED <<status, lockedBy, attempts>>
      BY <1>2, <2>2 DEF queue_claim_next, historyVars
    <3> QED BY <2>1, <3>1 DEF Queued
  <2>3. CASE ClaimableByHand(c, u)
    <3>1. /\ status' = [status EXCEPT ![u] = "running"] /\ lockedBy' = [lockedBy EXCEPT ![u] = None]
          /\ attempts' = [attempts EXCEPT ![u] = Append(@, "running")]
      BY <1>2, <2>3 DEF queue_claim_next, OpenAttempt
    <3>2. CASE u = t
      <4>1. /\ status'[t] = "running" /\ lockedBy'[t] = None
            /\ attempts'[t] = Append(attempts[t], "running")
        BY <1>0, <3>1, <3>2 DEF OperationsInv, TypedOver
      <4>2. ~Queued(t)'
        BY <4>1 DEF Queued, CLAIMABLE_TASK_STATUSES
      <4> QED BY <2>1, <4>1, <4>2
    <3>3. CASE u # t
      BY <1>0, <2>1, <3>1, <3>3 DEF Queued
    <3> QED BY <3>2, <3>3
  <2> QED BY <2>2, <2>3
<1>3. CASE requeue
  <2>1. PICK u \in Tasks : operator.tasks = {u}
    BY <1>3 DEF requeue, OperationsInv
  <2>2. (CHOOSE v \in Tasks : v \in operator.tasks) = u
    BY <2>1
  <2>3. /\ attempts'[t] \in {attempts[t], CloseRequeued(attempts[t])}
        /\ t # u => status'[t] = status[t] /\ lockedBy'[t] = lockedBy[t]
        /\ Reopen({u})
    BY <1>0, <1>3, <2>1, <2>2 DEF requeue
  <2>4. reopened'[t] = IF t = u THEN reopened[t] + 1 ELSE reopened[t]
    BY <1>0, <2>3 DEF Reopen
  <2> QED BY <2>3, <2>4 DEF Queued
<1>4. CASE remove_tasks
  BY <1>0, <1>4 DEF remove_tasks, Queued, CLAIMABLE_TASK_STATUSES
<1>5. CASE cleanup_queue_state
  <2>1. /\ attempts'[t] = Terminate(attempts[t]) /\ reopened' = reopened
        /\ \/ status'[t] = status[t] /\ lockedBy'[t] = lockedBy[t]
           \/ status'[t] = "removed"
    BY <1>5 DEF cleanup_queue_state
  <2> QED BY <2>1 DEF Queued, CLAIMABLE_TASK_STATUSES
<1>6. CASE \/ \E u \in Tasks : \/ \E p \in Phones : assign_phone(u, p)
                               \/ \E force, reset \in BOOLEAN : BeginRequeue(u, force, reset)
                               \/ reschedule(u)
           \/ \E S \in SUBSET Tasks \ {{}} : BeginRemove(S)
           \/ \E keepTasks \in BOOLEAN : stop_all(keepTasks)
           \/ \E w \in Workers : kill_process(w)
  <2>1. UNCHANGED <<status, lockedBy, attempts, reopened>>
    BY <1>6 DEF assign_phone, BeginRequeue, reschedule, BeginRemove, stop_all, Begin, kill_process, Killed,
                vars, taskVars, historyVars
  <2> QED BY <2>1 DEF Queued
<1>7. ASSUME ListedByHand PROVE Goal
  <2>1. /\ UNCHANGED <<attempts, reopened>>
        /\ \/ status'[t] = status[t] /\ lockedBy'[t] = lockedBy[t]
           \/ status'[t] = "dry_run"
    BY <1>7 DEF ListedByHand, mark_completed_dry_run_tasks, historyVars
  <2> QED BY <2>1 DEF Queued, CLAIMABLE_TASK_STATUSES
<1> QED BY <1>1, <1>2, <1>3, <1>4, <1>5, <1>6, <1>7 DEF Operation, queue_preview, SelectByHand

\* Requests stay within the budget: what they queue they pay for.
LEMMA OperatorKeepsBudget ==
  ASSUME "running" \notin OperatorStatuses, OperationsInv, Budget, Operation
  PROVE  Budget'
<1> SUFFICES ASSUME NEW t \in Tasks, t \notin touched'
             PROVE  /\ Cardinality(Published(attempts'[t])) <= 1 + reopened'[t]
                    /\ Queued(t)' \/ Claimed(t)' =>
                         Cardinality(Published(attempts'[t])) <= reopened'[t]
  BY DEF Budget
<1>1. t \notin touched
  BY OperatorSparesUntouched DEF SparesUntouched
<1>2. attempts[t] \in Seq(OperationResults) /\ reopened[t] \in Nat
  BY DEF OperationsInv, TypedOver, CountsTyped
<1>3. Published(attempts'[t]) = Published(attempts[t]) /\ Cardinality(Published(attempts[t])) \in Nat
  BY <1>2, OperatorQueuesAndCounts, PublicationsKept, PublishedFinite
<1>4. Claimed(t)' => Claimed(t)
  BY OperatorKeepsProcesses DEF Claimed
<1> QED BY <1>1, <1>2, <1>3, <1>4, OperatorQueuesAndCounts DEF Budget

\* A worker is about to claim only what it found waiting.
LEMMA ClaimedStep ==
  ASSUME MemoryOK, [Next]_vars, NEW t \in Tasks, Claimed(t)'
  PROVE  \/ status[t] \in CLAIMABLE_TASK_STATUSES
         \/ \E w \in Workers : pc[w] = "claim" /\ pc'[w] = "claim" /\ claim[w].task = t
<1>1. PICK w \in Workers : pc'[w] = "claim" /\ claim'[w].task = t
  BY DEF Claimed
<1>2. ASSUME NEW u \in Tasks, SelectCandidate(w, u) PROVE status[t] \in CLAIMABLE_TASK_STATUSES
  <2>1. u = t
    BY <1>1, <1>2 DEF SelectCandidate, MemoryOK, ProcessesTyped
  <2> QED BY <1>2, <2>1 DEF SelectCandidate, Candidate
<1> QED BY <1>1, <1>2, WaitStep

\* The queue stays within it: a published task is neither queued nor selected.
LEMMA QueueKeepsBudget ==
  ASSUME UntouchedInv, Budget, [Next]_vars, UNCHANGED operatorVars
  PROVE  Budget'
<1> SUFFICES ASSUME NEW t \in Tasks, t \notin touched
             PROVE  /\ Cardinality(Published(attempts'[t])) <= 1 + reopened[t]
                    /\ Queued(t)' \/ Claimed(t)' =>
                         Cardinality(Published(attempts'[t])) <= reopened[t]
  BY DEF Budget, operatorVars
<1>0. /\ MemoryOK /\ status \in [Tasks -> TaskStatuses] /\ lockedBy \in [Tasks -> Workers \cup {None}]
      /\ attempts \in [Tasks -> Seq(OperationResults)] /\ reopened[t] \in Nat
      /\ claim \in [Workers -> [task : Tasks \cup {None}, attempt : Nat]]
  BY MemoryOfTypes DEF UntouchedInv, OperationsInv, TypedOver, CountsTyped, ProcessesTyped
<1>1. /\ Cardinality(Published(attempts[t])) \in Nat
      /\ Cardinality(Published(attempts[t])) <= 1 + reopened[t]
      /\ Queued(t) \/ Claimed(t) => Cardinality(Published(attempts[t])) <= reopened[t]
  BY <1>0, PublishedFinite DEF Budget
<1>2. Claimed(t)' => Queued(t) \/ Claimed(t)
  BY <1>0, ClaimedStep DEF Claimed, Queued
<1>3. CASE status'[t] = status[t] /\ lockedBy'[t] = lockedBy[t] /\ attempts'[t] = attempts[t]
  BY <1>1, <1>2, <1>3 DEF Queued
<1>4. CASE status[t] \in CLAIMABLE_TASK_STATUSES /\ attempts'[t] = attempts[t]
  BY <1>0, <1>1, <1>4 DEF Queued
<1>5. ASSUME NEW w \in Workers, claim_next(w), t = claim[w].task
      PROVE  Cardinality(Published(attempts'[t])) <= reopened[t]
  <2>1. Claimed(t) /\ attempts'[t] = Append(attempts[t], "running")
    BY <1>0, <1>5 DEF claim_next, OpenAttempt, Claimed
  <2>2. Published(attempts'[t]) = Published(attempts[t])
    BY <1>0, <2>1, PublicationsKept
  <2> QED BY <1>1, <2>1, <2>2
<1>6. ASSUME NEW w \in Workers, Reporting(w), t = claim[w].task
      PROVE  /\ Cardinality(Published(attempts'[t])) <= 1 + reopened[t]
             /\ Queued(t)' \/ Claimed(t)' =>
                  Cardinality(Published(attempts'[t])) <= reopened[t]
  <2>1. pc[w] \in Working
    BY <1>6, ReportEffect
  <2>2. PICK x \in ReportedResults, s \in {"published", "debug_ready", "dry_run", "failed", "pending"} :
          Settle(w, x, s) /\ (x = "published" <=> s = "published")
    BY <1>6, ReportEffect
  <2>3. /\ status[t] = "running" /\ lockedBy[t] = w
        /\ claim[w].attempt = Len(attempts[t]) /\ claim[w].attempt # 0
        /\ attempts[t][claim[w].attempt] = "running"
    BY <1>6, <2>1, UntouchedHeld
  <2>4. claim[w].attempt \in Nat /\ claim[w].attempt \in DOMAIN attempts[t]
    <3>1. claim[w].attempt \in Nat /\ DOMAIN attempts[t] = 1 .. Len(attempts[t])
      BY <1>0, LenProperties
    <3> QED BY <2>3, <3>1
  <2>5. attempts'[t] = [attempts[t] EXCEPT ![claim[w].attempt] = x] /\ status'[t] = s
    BY <1>0, <1>6, <2>2 DEF Settle
  <2>6. Cardinality(Published(attempts[t])) <= reopened[t]
    BY <1>1, <2>3, ConstantsAssumption DEF Queued
  <2>7. /\ Cardinality(Published(attempts'[t])) <= Cardinality(Published(attempts[t])) + 1
        /\ x # "published" => Published(attempts'[t]) = Published(attempts[t])
    BY <1>0, <2>3, <2>4, <2>5, PublicationAdded
  <2>8. attempts'[t] \in Seq(OperationResults)
    <3>1. x \in OperationResults
      BY DEF ReportedResults, OperationResults, AttemptResults
    <3> QED BY <1>0, <2>4, <2>5, <3>1, SettledSeq
  <2>9. Cardinality(Published(attempts'[t])) \in Nat
    BY <2>8, PublishedFinite
  <2>10. ASSUME NEW v \in Workers, pc[v] = "claim", claim[v].task = t PROVE FALSE
    <3>1. v = w
      BY <1>6, <2>1, <2>10, UntouchedSelectedOnce DEF Holding, Working
    <3> QED BY <2>1, <2>10, <3>1 DEF Working
  <2>11. ~Claimed(t)'
    <3>1. status[t] \notin CLAIMABLE_TASK_STATUSES
      BY <2>3 DEF CLAIMABLE_TASK_STATUSES
    <3>2. MemoryOK /\ (Claimed(t)' => \E v \in Workers : pc[v] = "claim" /\ claim[v].task = t)
      BY <1>0, <3>1, ClaimedStep
    <3> QED BY <2>10, <3>2
  <2>12. CASE x # "published"
    BY <1>0, <1>1, <2>6, <2>7, <2>12
  <2>13. CASE x = "published"
    <3>1. ~Queued(t)'
      BY <2>2, <2>5, <2>13 DEF Queued, CLAIMABLE_TASK_STATUSES
    <3> QED BY <1>0, <1>1, <2>6, <2>7, <2>9, <2>11, <3>1
  <2> QED BY <2>12, <2>13
<1>7. ASSUME NEW r \in Recoverers, recover_worker(r), t \in TasksToRecover(r)
      PROVE  Cardinality(Published(attempts'[t])) <= reopened[t]
  <2>1. Queued(t)
    BY <1>7, UntouchedRecovered, ConstantsAssumption DEF recover_worker, Queued
  <2>2. Published(attempts'[t]) = Published(attempts[t])
    BY <1>0, <1>7, PublicationsKept DEF recover_worker
  <2> QED BY <1>1, <2>1, <2>2
<1>8. \A n : n <= reopened[t] /\ n \in Nat => n <= 1 + reopened[t]
  BY <1>0
<1>9. ASSUME Published(attempts'[t]) = Published(attempts[t]) PROVE Cardinality(Published(attempts'[t])) \in Nat
  BY <1>1, <1>9
<1>10. ASSUME Cardinality(Published(attempts'[t])) <= reopened[t],
              \/ \E w \in Workers : claim_next(w) /\ t = claim[w].task
              \/ \E r \in Recoverers : recover_worker(r) /\ t \in TasksToRecover(r)
       PROVE  Cardinality(Published(attempts'[t])) <= 1 + reopened[t]
  <2>1. attempts'[t] \in {Append(attempts[t], "running"), CloseAttempts(attempts[t])}
    BY <1>0, <1>10 DEF claim_next, OpenAttempt, recover_worker
  <2>2. Published(attempts'[t]) = Published(attempts[t])
    BY <1>0, <2>1, PublicationsKept
  <2> QED BY <1>8, <1>9, <1>10, <2>2
<1> QED BY <1>0, <1>3, <1>4, <1>5, <1>6, <1>7, <1>10, OneTaskStep

\* A task is published at most once more often than it was put back in the
\* queue, unless it was changed while somebody held it, whatever else operators
\* do and however often workers fail, die and are recovered; a request that sets
\* the status running is excluded, since it queues a task without counting it.
THEOREM PublishedOncePerQueueingHolds ==
  ASSUME LeasesHold, OneRecoverer, "running" \notin OperatorStatuses
  PROVE  OperationsSpec => []PublishedOncePerQueueing
<1>1. InitOperations => Budget
  <2>1. Published(<< >>) = {}
    BY DEF Published, IndicesOf
  <2>2. Cardinality(Published(<< >>)) = 0
    BY <2>1, FS_EmptySet
  <2> QED BY <2>2 DEF InitOperations, Init, Budget
<1>2. UntouchedInv /\ Budget /\ [NextWithOperations]_operationVars => Budget'
  <2> SUFFICES ASSUME UntouchedInv, Budget, [NextWithOperations]_operationVars PROVE Budget'
    OBVIOUS
  <2>1. Operation \/ ([Next]_vars /\ UNCHANGED operatorVars)
    BY DEF NextWithOperations, operationVars
  <2>2. OperationsInv
    BY DEF UntouchedInv
  <2> QED BY <2>1, <2>2, OperatorKeepsBudget, QueueKeepsBudget
<1>3. Budget => PublishedOncePerQueueing
  BY DEF Budget, PublishedOncePerQueueing, Published, IndicesOf, AttemptsWith
<1> QED BY <1>1, <1>2, <1>3, UntouchedInvariant, PTL DEF OperationsSpec

=============================================================================
