--------------------------- MODULE QueueOperations ---------------------------
(* What an operator does to the queue while it works, through the control    *)
(* centre's API, release_task_list's commands or execution_queue stop-all:   *)
(* tasks are cancelled, queued again, moved to another phone, rescheduled,   *)
(* removed or claimed by hand, and everything is stopped.  requeue and       *)
(* remove_tasks decide by a status they read before their transaction opens; *)
(* a claim by hand selects its task in one session and claims it in another, *)
(* while the control centre, which serves every request in a thread of its   *)
(* own, serves others.                                                       *)
EXTENDS ExecutionQueue

CONSTANTS
  Callers,           \* claims by hand that can overlap
  OperatorStatuses,  \* statuses set by cancel_task and update_task_status
  MaxOperations      \* bound on the operator's requests

ASSUME OperationsAssumption ==
  OperatorStatuses \subseteq TaskStatuses /\ MaxOperations \in Nat

VARIABLES
  operator,    \* the request under way, with what it has read
  selection,   \* what a claim by hand has selected, and the phone it asked for
  operations,  \* requests so far
  touched,     \* tasks changed while a worker or a recovery held them, moved
               \* while they ran, or stopped while a worker was overlooked
  reopened     \* how often a task was put back in the queue

operatorVars == <<operator, selection, operations, touched, reopened>>
operationVars == <<vars, operatorVars>>

Requests == {"none", "requeue", "remove_tasks", "kill"}

NoRequest == [request |-> "none", tasks |-> {}, read |-> "none", force |-> FALSE,
              reset |-> FALSE, workers |-> {}, keepTasks |-> FALSE]

NoSelection == [task |-> None, phone |-> None]

InitOperations ==
  /\ Init
  /\ operator = NoRequest /\ operations = 0
  /\ selection = [c \in Callers |-> NoSelection]
  /\ touched = {} /\ reopened = [t \in Tasks |-> 0]

(* A task is held by a worker that selected or claimed it and by a recovery  *)
(* that has read it.                                                         *)
Held(t) == \/ \E w \in Workers : claim[w].task = t
           \/ \E r \in Recoverers : t \in recovery[r].tasks

\* A claim by hand has selected the task and will still take it.
Selected(t) == \E c \in Callers : selection[c].task = t

Touch(S) == touched' = touched \cup { t \in S : Held(t) }
Reopen(S) == reopened' = [t \in Tasks |-> reopened[t] + IF t \in S THEN 1 ELSE 0]

Idle == operator.request = "none" /\ operations < MaxOperations

(* A request that is one transaction; one that reads first; and its end.     *)
AtOnce == Idle /\ operations' = operations + 1 /\ UNCHANGED <<operator, selection>>
Begin(request) == Idle /\ operations' = operations + 1 /\ operator' = request
              /\ UNCHANGED <<vars, selection, touched, reopened>>
End == operator' = NoRequest /\ UNCHANGED <<operations, selection>>

(* Every write of a row renews its updated_at, so that an older dry run does *)
(* not count any more.                                                       *)
Renew(S) == dryRunLogged' = [t \in Tasks |-> t \notin S /\ dryRunLogged[t]]

Processes == <<rowVars, workerVars, recovery, faults>>

-----------------------------------------------------------------------------
(* Requests on one task. *)

(* The lock is dropped with some of the statuses; attempts and phone stay as *)
(* they are, also under a worker.  record_task_usage counts a publication.   *)
UnlockedStatuses == {"published", "failed", "cancelled", "pending", "ready"}

update_status(t, s) ==
  /\ AtOnce
  /\ status' = [status EXCEPT ![t] = s]
  /\ lockedBy' = [lockedBy EXCEPT ![t] = IF s \in UnlockedStatuses THEN None ELSE @]
  /\ usedCount' = [usedCount EXCEPT ![t] = IF s = "published" THEN @ + 1 ELSE @]
  /\ Renew({t}) /\ Touch({t})
  /\ IF s \in CLAIMABLE_TASK_STATUSES THEN Reopen({t}) ELSE UNCHANGED reopened
  /\ UNCHANGED <<retryCount, window, attempts, taskPhone, phoneVars, Processes>>

\* A faulty variant: a task with a new time is queued again.
RescheduleRequeues(t) ==
  /\ AtOnce
  /\ status' = [status EXCEPT ![t] = IF @ = "running" THEN @ ELSE "pending"]
  /\ window' = [window EXCEPT ![t] = "open"]
  /\ Renew({t}) /\ Touch({t})
  /\ UNCHANGED <<lockedBy, retryCount, attempts, usedCount, taskPhone, phoneVars,
                 Processes, reopened>>

(* Any new time, also one that has passed; the status is kept.               *)
reschedule(t) ==
  /\ AtOnce
  /\ \E s \in {"open", "overdue"} : window' = [window EXCEPT ![t] = s]
  /\ Renew({t}) /\ Touch({t})
  /\ UNCHANGED <<status, lockedBy, retryCount, attempts, usedCount, taskPhone,
                 phoneVars, Processes, reopened>>

\* A faulty variant: the phone a task is given to is taken as its own.
AssignWithClaim(t, p) ==
  /\ AtOnce
  /\ taskPhone' = [taskPhone EXCEPT ![t] = p]
  /\ status' = [status EXCEPT ![t] = IF @ = "running" THEN @ ELSE "ready"]
  /\ Renew({t}) /\ Touch({t})
  /\ UNCHANGED <<lockedBy, retryCount, window, attempts, usedCount, phoneVars,
                 Processes, reopened>>

(* In any status, a running task included; phones keep theirs.               *)
assign_phone(t, p) ==
  /\ AtOnce
  /\ taskPhone' = [taskPhone EXCEPT ![t] = p]
  /\ Renew({t})
  /\ IF status[t] = "running" THEN touched' = touched \cup {t} ELSE Touch({t})
  /\ UNCHANGED <<status, lockedBy, retryCount, window, attempts, usedCount,
                 phoneVars, Processes, reopened>>

-----------------------------------------------------------------------------
(* A claim by hand, beside any other request.  It has no worker: nothing     *)
(* will run the task or recover it.                                          *)

\* A listing, whose repair of dry runs is all that a preview, or a claim that
\* finds nothing, leaves behind.
ListedByHand ==
  /\ operations < MaxOperations /\ operations' = operations + 1
  /\ mark_completed_dry_run_tasks
  /\ UNCHANGED <<taskPhone, phoneVars, Processes, operator, touched, reopened>>

queue_preview == ListedByHand /\ UNCHANGED selection

\* claim_next selects an eligible task, of any phone or of the phone asked for.
SelectByHand(c, t) ==
  /\ selection[c].task = None
  /\ status[t] \in CLAIMABLE_TASK_STATUSES /\ ~CompletedDryRun(t)
  /\ evaluate_task_candidate(t)
  /\ ListedByHand
  /\ \E p \in {None, taskPhone[t]} :
       selection' = [selection EXCEPT ![c] = [task |-> t, phone |-> p]]

\* What its transaction asks, and, as for a worker, it does not ask for the
\* status of the task.
ClaimableByHand(c, t) ==
  /\ selection[c].phone \in {None, taskPhone[t]}
  /\ evaluate_task_candidate(t)
  /\ ~phone_has_running_task(taskPhone[t], t)

queue_claim_next(c) ==
  /\ selection[c].task # None
  /\ selection' = [selection EXCEPT ![c] = NoSelection]
  /\ LET t == selection[c].task IN
       IF ClaimableByHand(c, t)
         THEN /\ status' = [status EXCEPT ![t] = "running"]
              /\ lockedBy' = [lockedBy EXCEPT ![t] = None]
              /\ phoneStatus' = [phoneStatus EXCEPT ![taskPhone[t]] = "running"]
              /\ OpenAttempt(t)
              /\ Renew({t}) /\ Touch({t})
         ELSE UNCHANGED <<status, lockedBy, phoneStatus, historyVars, touched>>
  /\ UNCHANGED <<retryCount, window, usedCount, taskPhone, checking, Processes,
                 operator, operations, reopened>>

-----------------------------------------------------------------------------
(* requeue. *)

BeginRequeue(t, force, reset) ==
  /\ status[t] # "published"
  /\ status[t] = "running" => force
  /\ Begin([NoRequest EXCEPT !.request = "requeue", !.tasks = {t}, !.read = status[t],
                             !.force = force, !.reset = reset])

CloseRequeued(s) == [i \in DOMAIN s |-> IF s[i] = "running" THEN "requeued" ELSE s[i]]

\* A faulty variant: the attempts of the phone are closed, not the task's.
RequeuePhone ==
  /\ operator.request = "requeue"
  /\ LET t == CHOOSE u \in Tasks : u \in operator.tasks
         p == taskPhone[t]
     IN /\ status' = [status EXCEPT ![t] = "pending"]
        /\ lockedBy' = [lockedBy EXCEPT ![t] = None]
        /\ attempts' = [u \in Tasks |-> IF taskPhone[u] = p THEN CloseRequeued(attempts[u]) ELSE attempts[u]]
        /\ phoneStatus' = [phoneStatus EXCEPT ![p] = IF @ = "running" THEN "online_idle" ELSE @]
  /\ Renew(operator.tasks) /\ Touch(operator.tasks) /\ Reopen(operator.tasks)
  /\ End
  /\ UNCHANGED <<retryCount, window, usedCount, taskPhone, checking, Processes>>

(* Attempts are closed and the phone is freed only for a task read as        *)
(* running.                                                                  *)
requeue ==
  /\ operator.request = "requeue"
  /\ LET t == CHOOSE u \in Tasks : u \in operator.tasks
         taken == operator.read = "running" /\ operator.force
     IN /\ status' = [status EXCEPT ![t] = "pending"]
        /\ lockedBy' = [lockedBy EXCEPT ![t] = None]
        /\ retryCount' = [retryCount EXCEPT ![t] = IF operator.reset THEN 0 ELSE @]
        /\ attempts' = [attempts EXCEPT ![t] = IF taken THEN CloseRequeued(@) ELSE @]
        /\ phoneStatus' = [phoneStatus EXCEPT ![taskPhone[t]] =
                             IF taken /\ @ = "running" THEN "online_idle" ELSE @]
  /\ Renew(operator.tasks) /\ Touch(operator.tasks) /\ Reopen(operator.tasks)
  /\ End
  /\ UNCHANGED <<window, usedCount, taskPhone, checking, Processes>>

-----------------------------------------------------------------------------
(* remove_tasks: what was running or removed when it looked is left out.     *)

BeginRemove(S) ==
  Begin([NoRequest EXCEPT !.request = "remove_tasks",
                          !.tasks = { t \in S : status[t] \notin {"running", "removed"} }])

remove_tasks ==
  /\ operator.request = "remove_tasks"
  /\ status' = [t \in Tasks |-> IF t \in operator.tasks THEN "removed" ELSE status[t]]
  /\ lockedBy' = [t \in Tasks |-> IF t \in operator.tasks THEN None ELSE lockedBy[t]]
  /\ Renew(operator.tasks) /\ Touch(operator.tasks) /\ End
  /\ UNCHANGED <<retryCount, window, attempts, usedCount, taskPhone, phoneVars,
                 Processes, reopened>>

-----------------------------------------------------------------------------
(* stop-all: the workers whose rows look active are killed one by one, then  *)
(* the tables are cleaned up.  A worker without a row, in error, or started  *)
(* meanwhile is not on the list, and a kill may be refused.                  *)

active_worker_processes == { w \in Workers : Active(w) /\ Alive(w) }

stop_all(keepTasks) ==
  Begin([NoRequest EXCEPT !.request = "kill", !.workers = active_worker_processes,
                          !.keepTasks = keepTasks])

Killed(w) == ProcessEnds(w) /\ UNCHANGED <<taskVars, taskPhone, phoneVars, rowVars,
                                           phoneOf, pipeline, recovery, faults>>

kill_process(w) ==
  /\ operator.request = "kill" /\ w \in operator.workers
  /\ operator' = [operator EXCEPT !.workers = @ \ {w}]
  /\ IF Alive(w) THEN Killed(w) \/ UNCHANGED vars ELSE UNCHANGED vars
  /\ UNCHANGED <<selection, operations, touched, reopened>>

ActiveTasks == { t \in Tasks : status[t] \in {"pending", "ready", "running", "paused"} }
CleanedRows == {"starting", "idle", "running", "stale", "error"}

\* A faulty variant: the phones of all tasks are set to the status of tasks.
CleanupPhonesAsStopped ==
  [p \in Phones |-> IF phoneStatus[p] = "running" THEN "stopped" ELSE phoneStatus[p]]

FreedPhones ==
  [p \in Phones |-> IF phoneStatus[p] = "running" THEN "online_idle" ELSE phoneStatus[p]]

Terminate(s) == [i \in DOMAIN s |-> IF s[i] = "running" THEN "terminated" ELSE s[i]]

cleanup_queue_state ==
  /\ operator.request = "kill" /\ operator.workers = {}
  /\ LET removed == IF operator.keepTasks THEN {} ELSE ActiveTasks
     IN /\ status' = [t \in Tasks |-> IF t \in removed THEN "removed" ELSE status[t]]
        /\ lockedBy' = [t \in Tasks |-> IF t \in removed THEN None ELSE lockedBy[t]]
        /\ Renew(removed)
  /\ attempts' = [t \in Tasks |-> Terminate(attempts[t])]
  /\ rowStatus' = [w \in Workers |-> IF rowStatus[w] \in CleanedRows THEN "stopped" ELSE rowStatus[w]]
  /\ lease' = [w \in Workers |-> IF rowStatus[w] \in CleanedRows THEN "none" ELSE lease[w]]
  /\ phoneStatus' = FreedPhones
  /\ IF \E w \in Workers : Alive(w) THEN touched' = Tasks ELSE Touch(Tasks)
  /\ End
  /\ UNCHANGED <<retryCount, window, usedCount, taskPhone, checking, workerVars,
                 recovery, faults, reopened>>

-----------------------------------------------------------------------------

Operation ==
  \/ \E t \in Tasks : \/ \E s \in OperatorStatuses : update_status(t, s)
                      \/ \E p \in Phones : assign_phone(t, p)
                      \/ \E force, reset \in BOOLEAN : BeginRequeue(t, force, reset)
                      \/ reschedule(t)
                      \/ \E c \in Callers : SelectByHand(c, t)
  \/ \E S \in SUBSET Tasks \ {{}} : BeginRemove(S)
  \/ \E keepTasks \in BOOLEAN : stop_all(keepTasks)
  \/ requeue \/ remove_tasks \/ cleanup_queue_state \/ queue_preview
  \/ \E c \in Callers : queue_claim_next(c)
  \/ \E w \in Workers : kill_process(w)

NextWithOperations == Operation \/ (Next /\ UNCHANGED operatorVars)

OperationsSpec == InitOperations /\ [][NextWithOperations]_operationVars

-----------------------------------------------------------------------------
(* What survives an operator. *)

(* Type invariant of the tables under every request.                         *)
OperationsTypeOK ==
  /\ status \in [Tasks -> TaskStatuses] /\ lockedBy \in [Tasks -> Workers \cup {None}]
  /\ attempts \in [Tasks -> Seq(AttemptResults \cup {"requeued", "terminated"})]
  /\ PhonesTyped /\ RowsTyped /\ ProcessesTyped /\ RecoveryTyped
  /\ operator.request \in Requests /\ operator.tasks \subseteq Tasks
  /\ operator.workers \subseteq Workers
  /\ selection \in [Callers -> [task : Tasks \cup {None}, phone : Phones \cup {None}]]
  /\ operations \in Nat /\ touched \subseteq Tasks /\ reopened \in [Tasks -> Nat]

(* A request disturbs no other task: the claim of a worker stays current     *)
(* until it is reported unless that very task was changed under it, although *)
(* requeue frees phones, tasks change phones and stop-all closes attempts.   *)
UntouchedClaimIsCurrent ==
  \A w \in Workers : claim[w].attempt # 0 /\ claim[w].task \notin touched =>
    LET t == claim[w].task IN
    /\ status[t] = "running" /\ lockedBy[t] = w
    /\ claim[w].attempt = Len(attempts[t])
    /\ attempts[t][claim[w].attempt] = "running"

(* Two tasks run on one phone only if one of them was moved there or given   *)
(* another status while a worker held it; phones that requeue or stop-all    *)
(* wrongly shows as idle under a running task are not enough, and neither is *)
(* a claim through the API.                                                  *)
OneRunningTaskUnlessTouched ==
  \A t, u \in Tasks \ touched :
    status[t] = "running" /\ status[u] = "running" /\ taskPhone[t] = taskPhone[u] => t = u

(* A task is published at most once more often than an operator put it back  *)
(* in the queue, unless it was changed while it was held ("Published tasks   *)
(* cannot be requeued.": a task that is removed first can).                  *)
PublishedOncePerQueueing ==
  \A t \in Tasks \ touched :
    Cardinality(AttemptsWith(t, "published")) <= 1 + reopened[t]

Withdrawn == {"cancelled", "removed", "paused", "published", "failed"}

(* A task that was taken out of the queue comes back only by a request to    *)
(* queue it again, unless somebody looked at it before: a worker or a        *)
(* recovery that holds it, or a claim by hand that selected it and does not  *)
(* ask again.  No recovery begun later, overdue handling, dry run repair,    *)
(* new time, new phone or later claim revives it.                            *)
WithdrawnTaskStaysWithdrawn ==
  [][\A t \in Tasks :
       status[t] \in Withdrawn /\ ~Held(t) /\ ~Selected(t) /\ reopened'[t] = reopened[t]
         => status'[t] \in Withdrawn]_operationVars
=============================================================================
