--------------------------- MODULE ExecutionQueue ---------------------------
(***************************************************************************)
(* The execution queue (src/execution_queue): phone workers claim release  *)
(* tasks from a SQLite database, drive one phone each through a pipeline   *)
(* subprocess and write the result back, while any number of callers       *)
(* recover the work of workers whose lease ran out or whose process died.  *)
(*                                                                         *)
(* An action is one database transaction or one step of a worker between   *)
(* two of them.  Python's sqlite3 opens a transaction at the first write,  *)
(* so a SELECT that precedes the writes of its own session (recover_stale, *)
(* mark_failure) is an action of its own; only claim_next and register     *)
(* take the write lock first (BEGIN IMMEDIATE).                            *)
(***************************************************************************)
EXTENDS Naturals, Sequences, FiniteSets

CONSTANTS
  Tasks,         \* release_tasks rows
  Phones,        \* phones rows
  Workers,       \* PhoneWorker processes that can exist at the same time
  Recoverers,    \* callers of recover_* that can overlap: supervisor, CLI, API
  None,          \* the empty string in a column that holds an identifier
  MaxRetries,    \* max_retries of every task
  StopOnFailure, \* PhoneWorkerOptions.stop_on_failure
  UsbMonitor,    \* whether the control centre's USB monitor runs
  OverdueAction, \* SupervisorOptions.overdue_action
  Outcomes,      \* how an execution can end in this instance
  MaxFaults      \* bound on each kind of disturbance

AllOutcomes == {"published", "dry_run", "debug_ready", "retryable", "fatal"}

\* Disturbances: a killed worker process, the lease of a live worker running out
\* (a heartbeat thread that died on an exception, a suspended machine), a
\* database error in a worker, a target time that passes, a worker told to
\* stop, a health check that finds the phone not ready.
Faults == {"crash", "lapse", "db_error", "elapse", "stop", "unhealthy"}

ASSUME ConstantsAssumption ==
  /\ None \notin Tasks \cup Phones \cup Workers
  /\ MaxRetries \in Nat
  /\ StopOnFailure \in BOOLEAN
  /\ UsbMonitor \in BOOLEAN
  /\ OverdueAction \in {"reschedule", "pause", "none"}
  /\ Outcomes \subseteq AllOutcomes
  /\ MaxFaults \in [Faults -> Nat]

VARIABLES
  \* release_tasks
  status, lockedBy, retryCount, window, taskPhone,
  attempts,      \* task_attempts and execution_logs of a task, oldest first
  dryRunLogged,  \* the latest ended log is a dry run, not older than the row
  usedCount,     \* how often the task raised its video's used_count
  \* phones.current_status and the phones a USB monitor round is checking
  phoneStatus, checking,
  \* execution_workers
  rowStatus, lease,
  \* memory of the worker processes and their pipeline subprocesses
  pc, localStatus, phoneOf, claim, outcome, readRetry, pipeline,
  \* memory of the recovery calls
  recovery,
  \* disturbances so far, by kind
  faults

historyVars == <<attempts, dryRunLogged>>
taskVars == <<status, lockedBy, retryCount, window, historyVars, usedCount>>
phoneVars == <<phoneStatus, checking>>
rowVars == <<rowStatus, lease>>
claimVars == <<claim, outcome, readRetry>>
workerVars == <<pc, localStatus, phoneOf, claimVars, pipeline>>
vars == <<taskVars, taskPhone, phoneVars, rowVars, workerVars, recovery, faults>>

-----------------------------------------------------------------------------
(* Vocabulary of the tables. *)

CLAIMABLE_TASK_STATUSES == {"pending", "ready"}
BLOCKING_PHONE_STATUSES == {"running", "disabled", "removed"}
READY_PHONE_STATUS == "online_idle"
ACTIVE_WORKER_STATUSES == {"starting", "idle", "running"}
HealthStatuses == {"online_idle", "offline", "error"}

TaskStatuses == CLAIMABLE_TASK_STATUSES \cup
  {"running", "published", "dry_run", "debug_ready", "failed", "cancelled",
   "paused", "removed"}
PhoneStatuses == BLOCKING_PHONE_STATUSES \cup HealthStatuses
AttemptResults ==
  {"running", "published", "dry_run", "debug_ready", "failed", "stale_recovered"}
WorkerPcs ==
  {"off", "launched", "poll", "health", "select", "claim", "prepare", "ready",
   "pipeline", "report", "report_failure", "cooldown", "exit", "gone"}

NoClaim == [task |-> None, attempt |-> 0]
NoRecovery == [pc |-> "idle", workers |-> {}, first |-> None, tasks |-> {}]

-----------------------------------------------------------------------------
(* Queries. *)

\* process_is_running: a launched process that has not ended.
Alive(w) == pc[w] \notin {"off", "gone"}
\* A row that counts as active, and one whose lease has not expired either.
Active(w) == rowStatus[w] \in ACTIVE_WORKER_STATUSES
HoldsLease(w) == Active(w) /\ lease[w] = "live"

\* Scheduled tasks are claimable at once while their target lies ahead
\* ("open") and never after it ("overdue"); a task whose workflow fields are
\* invalid is rejected at creation and is not a member of Tasks.
evaluate_task_candidate(t) ==
  LET phone == phoneStatus[taskPhone[t]] IN
  /\ phone \notin BLOCKING_PHONE_STATUSES
  /\ phone = READY_PHONE_STATUS
  /\ retryCount[t] <= MaxRetries
  /\ window[t] = "open"

phone_has_running_task(p, exclude) ==
  \E t \in Tasks \ {exclude} : taskPhone[t] = p /\ status[t] = "running"

\* A worker id is a fresh uuid.  The slot of an exited worker may stand for a
\* new process once nothing refers to the old id any more.
Unused(w) ==
  /\ pc[w] \in {"off", "gone"}
  /\ ~Active(w)
  /\ ~pipeline[w]
  /\ \A t \in Tasks : lockedBy[t] # w
  /\ \A r \in Recoverers : w \notin recovery[r].workers

Disturb(kind) ==
  /\ faults[kind] < MaxFaults[kind]
  /\ faults' = [faults EXCEPT ![kind] = @ + 1]

-----------------------------------------------------------------------------
(* Faulty variants of definitions below: plausible mistakes that the         *)
(* properties at the end have to notice.  No behaviour of Spec uses them.    *)

\* register counts only workers that run a task as bound to the phone.
PhoneTakenByRunningRow(w) ==
  \E v \in Workers \ {w} :
    rowStatus[v] = "running" /\ lease[v] = "live" /\ phoneOf[v] = phoneOf[w]

\* claim_next relies on the phone's status alone.
ClaimableByPhoneStatus(w, t) ==
  taskPhone[t] = phoneOf[w] /\ evaluate_task_candidate(t)

\* A claim reuses the attempt that an earlier claim of the task left behind.
ReopenAttempt(t) ==
  attempts' = [attempts EXCEPT ![t] = IF @ = << >> THEN <<"running">> ELSE @]

\* A result is written to the latest attempt instead of the claim's.
SettleLatestAttempt(w, result, newStatus) ==
  LET t == claim[w].task IN
  /\ attempts' = [attempts EXCEPT ![t] = [@ EXCEPT ![Len(@)] = result]]
  /\ dryRunLogged' = [dryRunLogged EXCEPT ![t] = result = "dry_run"]
  /\ status' = [status EXCEPT ![t] = newStatus]
  /\ lockedBy' = [lockedBy EXCEPT ![t] = None]

\* A phone is released with a worker's status instead of a phone's.
ReleasePhoneAsIdle(w, s) == phoneStatus' = [phoneStatus EXCEPT ![phoneOf[w]] = "idle"]

\* A phone is not released.
KeepPhone(w, s) == phoneStatus' = phoneStatus

\* The retry limit is off by one against evaluate_task_candidate.
OneRetryTooMany(retries, o) ==
  IF o = "fatal" \/ retries > MaxRetries + 1 THEN "failed" ELSE "pending"

\* Recovery closes every attempt of a task, or none.
CloseEveryAttempt(s) == [i \in DOMAIN s |-> "stale_recovered"]
CloseNoAttempt(s) == s

\* Recovery looks only at tasks whose phone still shows them.
TasksShownByPhone(w) ==
  {t \in Tasks : /\ status[t] = "running" /\ lockedBy[t] = w
                 /\ phoneStatus[taskPhone[t]] = "running"}

\* Recovery takes the workers of all active rows.
ActiveRows == {w \in Workers : Active(w)}

\* The monitor leaves phones in error alone.
MonitoredUnlessError(p) == phoneStatus[p] \in {"online_idle", "offline"}

-----------------------------------------------------------------------------
(* Every task is queued for a phone, every phone is idle, nobody works. *)

Init ==
  /\ status = [t \in Tasks |-> "pending"]
  /\ lockedBy = [t \in Tasks |-> None]
  /\ retryCount = [t \in Tasks |-> 0]
  /\ window = [t \in Tasks |-> "open"]
  /\ taskPhone \in [Tasks -> Phones]
  /\ attempts = [t \in Tasks |-> << >>]
  /\ dryRunLogged = [t \in Tasks |-> FALSE]
  /\ usedCount = [t \in Tasks |-> 0]
  /\ phoneStatus = [p \in Phones |-> "online_idle"]
  /\ checking = {}
  /\ rowStatus = [w \in Workers |-> "none"]
  /\ lease = [w \in Workers |-> "none"]
  /\ pc = [w \in Workers |-> "off"]
  /\ localStatus = [w \in Workers |-> "starting"]
  /\ phoneOf = [w \in Workers |-> None]
  /\ claim = [w \in Workers |-> NoClaim]
  /\ outcome = [w \in Workers |-> None]
  /\ readRetry = [w \in Workers |-> 0]
  /\ pipeline = [w \in Workers |-> FALSE]
  /\ recovery = [r \in Recoverers |-> NoRecovery]
  /\ faults = [k \in Faults |-> 0]

-----------------------------------------------------------------------------
(* Launching and registering a worker. *)

\* WorkerSupervisor.run_once starts a worker process for every idle phone that
\* has no active worker with a live lease.
MissingWorker(p) ==
  /\ phoneStatus[p] = READY_PHONE_STATUS
  /\ \A v \in Workers : HoldsLease(v) => phoneOf[v] # p

Launch(w, p) ==
  /\ Unused(w)
  /\ MissingWorker(p)
  /\ pc' = [pc EXCEPT ![w] = "launched"]
  /\ phoneOf' = [phoneOf EXCEPT ![w] = p]
  /\ localStatus' = [localStatus EXCEPT ![w] = "starting"]
  /\ rowStatus' = [rowStatus EXCEPT ![w] = "none"]
  /\ lease' = [lease EXCEPT ![w] = "none"]
  /\ UNCHANGED <<taskVars, taskPhone, phoneVars, claimVars, pipeline, recovery, faults>>

\* WorkerStateRepository.register refuses a second active worker on a phone;
\* the refused process ends without a row.
PhoneTaken(w) == \E v \in Workers \ {w} : HoldsLease(v) /\ phoneOf[v] = phoneOf[w]

Register(w) ==
  /\ pc[w] = "launched"
  /\ IF PhoneTaken(w)
       THEN /\ pc' = [pc EXCEPT ![w] = "gone"]
            /\ UNCHANGED <<rowVars, localStatus>>
       ELSE /\ pc' = [pc EXCEPT ![w] = "poll"]
            /\ localStatus' = [localStatus EXCEPT ![w] = "idle"]
            /\ rowStatus' = [rowStatus EXCEPT ![w] = "starting"]
            /\ lease' = [lease EXCEPT ![w] = "live"]
  /\ UNCHANGED <<taskVars, taskPhone, phoneVars, phoneOf, claimVars, pipeline, recovery, faults>>

\* The heartbeat thread copies the worker's local status into its row,
\* whatever the row says, until finish has waited for it to stop.
Heartbeat(w) ==
  /\ Alive(w) /\ pc[w] # "launched"
  /\ rowStatus' = [rowStatus EXCEPT ![w] = localStatus[w]]
  /\ lease' = [lease EXCEPT ![w] = "live"]
  /\ UNCHANGED <<taskVars, taskPhone, phoneVars, workerVars, recovery, faults>>

Expire(w) ==
  /\ lease[w] = "live"
  /\ lease' = [lease EXCEPT ![w] = "expired"]
  /\ UNCHANGED <<taskVars, taskPhone, phoneVars, rowStatus, workerVars, recovery>>

\* The lease of a dead process runs out.
LeaseExpires(w) == ~Alive(w) /\ Expire(w) /\ UNCHANGED faults

\* Heartbeats are far more frequent than a lease is long: that of a live worker
\* runs out only when its heartbeat thread died or the machine was suspended.
LeaseLapses(w) == Alive(w) /\ Expire(w) /\ Disturb("lapse")

-----------------------------------------------------------------------------
(* Finding and claiming a task: ExecutionQueueService.run_once. *)

\* A health check takes seconds and ends in an unconditional write of
\* current_status (PhoneRepository.record_health).
RecordStatus(p, s) ==
  /\ IF s = READY_PHONE_STATUS THEN UNCHANGED faults ELSE Disturb("unhealthy")
  /\ phoneStatus' = [phoneStatus EXCEPT ![p] = s]

\* Every listing of candidates first gives tasks whose dry run was overwritten
\* (by a recovery that read them earlier) their status dry_run back.
CompletedDryRun(t) == status[t] \in CLAIMABLE_TASK_STATUSES /\ dryRunLogged[t]

mark_completed_dry_run_tasks ==
  /\ status' = [t \in Tasks |-> IF CompletedDryRun(t) THEN "dry_run" ELSE status[t]]
  /\ lockedBy' = [t \in Tasks |-> IF CompletedDryRun(t) THEN None ELSE lockedBy[t]]
  /\ UNCHANGED <<retryCount, window, historyVars, usedCount>>

\* list_candidates: pending and ready tasks of the phone after that repair.
Candidate(w, t) ==
  /\ status[t] \in CLAIMABLE_TASK_STATUSES
  /\ ~CompletedDryRun(t)
  /\ taskPhone[t] = phoneOf[w]

\* refresh_candidate_phone_statuses checks a phone that has candidates but is
\* neither blocked nor ready.
RefreshNeeded(w) ==
  /\ \E t \in Tasks : Candidate(w, t)
  /\ phoneStatus[phoneOf[w]] \notin BLOCKING_PHONE_STATUSES \cup {READY_PHONE_STATUS}

BeginHealthCheck(w) ==
  /\ pc[w] = "poll"
  /\ RefreshNeeded(w)
  /\ mark_completed_dry_run_tasks
  /\ pc' = [pc EXCEPT ![w] = "health"]
  /\ UNCHANGED <<taskPhone, phoneVars, rowVars, localStatus, phoneOf,
                 claimVars, pipeline, recovery, faults>>

EndHealthCheck(w, s) ==
  /\ pc[w] = "health"
  /\ RecordStatus(phoneOf[w], s)
  /\ pc' = [pc EXCEPT ![w] = "select"]
  /\ UNCHANGED <<taskVars, taskPhone, checking, rowVars, localStatus, phoneOf,
                 claimVars, pipeline, recovery>>

Looking(w) == pc[w] = "select" \/ (pc[w] = "poll" /\ ~RefreshNeeded(w))

\* claim_next reads the candidates and keeps the first eligible one; the order
\* of scheduled_at among open tasks is left open.
SelectCandidate(w, t) ==
  /\ Looking(w)
  /\ Candidate(w, t)
  /\ evaluate_task_candidate(t)
  /\ mark_completed_dry_run_tasks
  /\ pc' = [pc EXCEPT ![w] = "claim"]
  /\ claim' = [claim EXCEPT ![w] = [task |-> t, attempt |-> 0]]
  /\ UNCHANGED <<taskPhone, phoneVars, rowVars, localStatus, phoneOf,
                 outcome, readRetry, pipeline, recovery, faults>>

NoCandidate(w) ==
  /\ Looking(w)
  /\ \A t \in Tasks : Candidate(w, t) => ~evaluate_task_candidate(t)
  /\ mark_completed_dry_run_tasks
  /\ pc' = [pc EXCEPT ![w] = "poll"]
  /\ UNCHANGED <<taskPhone, phoneVars, rowVars, localStatus, phoneOf,
                 claimVars, pipeline, recovery, faults>>

\* The transaction of claim_next checks the phone and the eligibility again,
\* but not that the task is still pending or ready.
Claimable(w, t) ==
  /\ taskPhone[t] = phoneOf[w]
  /\ evaluate_task_candidate(t)
  /\ ~phone_has_running_task(phoneOf[w], t)

\* Every claim opens an attempt of its own, with a number of its own.
OpenAttempt(t) == attempts' = [attempts EXCEPT ![t] = Append(@, "running")]

claim_next(w) ==
  /\ pc[w] = "claim"
  /\ LET t == claim[w].task IN
       /\ Claimable(w, t)
       /\ status' = [status EXCEPT ![t] = "running"]
       /\ lockedBy' = [lockedBy EXCEPT ![t] = w]
       /\ phoneStatus' = [phoneStatus EXCEPT ![phoneOf[w]] = "running"]
       /\ OpenAttempt(t)
       /\ dryRunLogged' = [dryRunLogged EXCEPT ![t] = FALSE]
       /\ claim' = [claim EXCEPT ![w].attempt = Len(attempts[t]) + 1]
  /\ pc' = [pc EXCEPT ![w] = "prepare"]
  /\ UNCHANGED <<retryCount, window, usedCount, taskPhone, checking, rowVars,
                 localStatus, phoneOf, outcome, readRetry, pipeline, recovery, faults>>

ClaimRefused(w) ==
  /\ pc[w] = "claim"
  /\ ~Claimable(w, claim[w].task)
  /\ pc' = [pc EXCEPT ![w] = "poll"]
  /\ claim' = [claim EXCEPT ![w] = NoClaim]
  /\ UNCHANGED <<taskVars, taskPhone, phoneVars, rowVars, localStatus, phoneOf,
                 outcome, readRetry, pipeline, recovery, faults>>

-----------------------------------------------------------------------------
(* Running the pipeline. *)

\* PhoneWorker._claim_hook: the row shows the task before anything runs.
ClaimHook(w) ==
  /\ pc[w] = "prepare"
  /\ pc' = [pc EXCEPT ![w] = "ready"]
  /\ localStatus' = [localStatus EXCEPT ![w] = "running"]
  /\ rowStatus' = [rowStatus EXCEPT ![w] = "running"]
  /\ lease' = [lease EXCEPT ![w] = "live"]
  /\ UNCHANGED <<taskVars, taskPhone, phoneVars, phoneOf, claimVars, pipeline, recovery, faults>>

\* An execution is over: outcome o has to be written back.
Conclude(w, o) ==
  /\ o \in Outcomes
  /\ outcome' = [outcome EXCEPT ![w] = o]
  /\ pc' = [pc EXCEPT ![w] = "report"]

\* prepare_plan raises, the payload is invalid or the phone preflight fails:
\* no pipeline is started.
RejectBeforeRun(w, o) ==
  /\ pc[w] \in {"prepare", "ready"}
  /\ o \in {"retryable", "fatal"}
  /\ Conclude(w, o)
  /\ UNCHANGED <<taskVars, taskPhone, phoneVars, rowVars, localStatus, phoneOf,
                 claim, readRetry, pipeline, recovery, faults>>

StartPipeline(w) ==
  /\ pc[w] = "ready"
  /\ pc' = [pc EXCEPT ![w] = "pipeline"]
  /\ pipeline' = [pipeline EXCEPT ![w] = TRUE]
  /\ UNCHANGED <<taskVars, taskPhone, phoneVars, rowVars, localStatus, phoneOf,
                 claimVars, recovery, faults>>

\* The subprocess ends or is killed by its timeout.
PipelineEnds(w, o) ==
  /\ pc[w] = "pipeline"
  /\ pipeline' = [pipeline EXCEPT ![w] = FALSE]
  /\ Conclude(w, o)
  /\ UNCHANGED <<taskVars, taskPhone, phoneVars, rowVars, localStatus, phoneOf,
                 claim, readRetry, recovery, faults>>

\* Killing a worker does not kill its pipeline, which runs on by itself.
OrphanEnds(w) ==
  /\ pc[w] = "gone" /\ pipeline[w]
  /\ pipeline' = [pipeline EXCEPT ![w] = FALSE]
  /\ UNCHANGED <<taskVars, taskPhone, phoneVars, rowVars, pc, localStatus, phoneOf,
                 claimVars, recovery, faults>>

-----------------------------------------------------------------------------
(* Writing the result back.  Every write names the task, the attempt and the *)
(* phone of the claim; none asks whether the claim is still the current one. *)

\* After a failure scheduled_at is overwritten with the pipeline's target time.
ReportedWindows == IF faults["elapse"] = 0 THEN {"open"} ELSE {"open", "overdue"}

Settle(w, result, newStatus) ==
  LET t == claim[w].task IN
  /\ attempts' = [attempts EXCEPT ![t] = [@ EXCEPT ![claim[w].attempt] = result]]
  /\ dryRunLogged' = [dryRunLogged EXCEPT ![t] = result = "dry_run"]
  /\ status' = [status EXCEPT ![t] = newStatus]
  /\ lockedBy' = [lockedBy EXCEPT ![t] = None]

ReleasePhone(w, s) == phoneStatus' = [phoneStatus EXCEPT ![phoneOf[w]] = s]

ForgetClaim(w) ==
  /\ claim' = [claim EXCEPT ![w] = NoClaim]
  /\ outcome' = [outcome EXCEPT ![w] = None]
  /\ readRetry' = [readRetry EXCEPT ![w] = 0]

\* The process ends and its memory with it.
ProcessEnds(w) ==
  /\ pc' = [pc EXCEPT ![w] = "gone"]
  /\ localStatus' = [localStatus EXCEPT ![w] = "starting"]
  /\ ForgetClaim(w)

\* Between two tasks the worker waits with local status idle.
BackToPolling(w) ==
  /\ pc' = [pc EXCEPT ![w] = "poll"]
  /\ localStatus' = [localStatus EXCEPT ![w] = "idle"]

mark_success(w) ==
  /\ pc[w] = "report" /\ outcome[w] = "published"
  /\ Settle(w, "published", "published")
  /\ usedCount' = [usedCount EXCEPT ![claim[w].task] = @ + 1]
  /\ ReleasePhone(w, "online_idle")
  /\ ForgetClaim(w)
  /\ BackToPolling(w)
  /\ UNCHANGED <<retryCount, window, taskPhone, checking, rowVars, phoneOf,
                 pipeline, recovery, faults>>

mark_debug_ready(w) ==
  /\ pc[w] = "report" /\ outcome[w] = "debug_ready"
  /\ Settle(w, "debug_ready", "debug_ready")
  /\ ReleasePhone(w, READY_PHONE_STATUS)
  /\ ForgetClaim(w)
  /\ BackToPolling(w)
  /\ UNCHANGED <<retryCount, window, usedCount, taskPhone, checking, rowVars,
                 phoneOf, pipeline, recovery, faults>>

\* A dry run of the pipeline goes on polling; a worker in dry_run mode never
\* starts a pipeline and leaves after its first task.  The phone status is
\* restored from the claim's snapshot: online_idle, since it was eligible.
mark_dry_run(w) ==
  /\ \/ /\ pc[w] = "report" /\ outcome[w] = "dry_run"
        /\ BackToPolling(w)
     \/ /\ pc[w] = "ready" /\ "dry_run" \in Outcomes
        /\ pc' = [pc EXCEPT ![w] = "exit"]
        /\ localStatus' = [localStatus EXCEPT ![w] = "idle"]
  /\ Settle(w, "dry_run", "dry_run")
  /\ ReleasePhone(w, READY_PHONE_STATUS)
  /\ ForgetClaim(w)
  /\ UNCHANGED <<retryCount, window, usedCount, taskPhone, checking, rowVars,
                 phoneOf, pipeline, recovery, faults>>

\* mark_failure reads retry_count before its transaction is open ...
ReadRetryCount(w) ==
  /\ pc[w] = "report" /\ outcome[w] \in {"retryable", "fatal"}
  /\ readRetry' = [readRetry EXCEPT ![w] = retryCount[claim[w].task]]
  /\ pc' = [pc EXCEPT ![w] = "report_failure"]
  /\ UNCHANGED <<taskVars, taskPhone, phoneVars, rowVars, localStatus, phoneOf,
                 claim, outcome, pipeline, recovery, faults>>

NextStatusAfterFailure(retries, o) ==
  IF o = "fatal" \/ retries > MaxRetries THEN "failed" ELSE "pending"

\* ... and writes one more than it read.
mark_failure(w) ==
  /\ pc[w] = "report_failure"
  /\ LET t == claim[w].task
         retries == readRetry[w] + 1
     IN /\ Settle(w, "failed", NextStatusAfterFailure(retries, outcome[w]))
        /\ retryCount' = [retryCount EXCEPT ![t] = retries]
        /\ \E s \in ReportedWindows : window' = [window EXCEPT ![t] = s]
  /\ ReleasePhone(w, "error")
  /\ ForgetClaim(w)
  /\ pc' = [pc EXCEPT ![w] = IF StopOnFailure THEN "exit" ELSE "cooldown"]
  /\ localStatus' = [localStatus EXCEPT ![w] = "error"]
  /\ UNCHANGED <<usedCount, taskPhone, checking, rowVars, phoneOf, pipeline,
                 recovery, faults>>

-----------------------------------------------------------------------------
(* The end of a worker. *)

CooldownEnds(w) ==
  /\ pc[w] = "cooldown"
  /\ BackToPolling(w)
  /\ UNCHANGED <<taskVars, taskPhone, phoneVars, rowVars, phoneOf, claimVars,
                 pipeline, recovery, faults>>

\* The database refuses a call of the worker ("database is locked"): run_once
\* raises, nothing is written back and the loop ends with status error.
WorkerException(w) ==
  /\ pc[w] \in {"poll", "health", "select", "claim", "prepare", "ready", "report", "report_failure"}
  /\ Disturb("db_error")
  /\ pc' = [pc EXCEPT ![w] = "exit"]
  /\ localStatus' = [localStatus EXCEPT ![w] = "error"]
  /\ ForgetClaim(w)
  /\ UNCHANGED <<taskVars, taskPhone, phoneVars, rowVars, phoneOf, pipeline, recovery>>

\* A stop request takes effect between two tasks.
StopWorker(w) ==
  /\ pc[w] \in {"poll", "cooldown"}
  /\ Disturb("stop")
  /\ pc' = [pc EXCEPT ![w] = "exit"]
  /\ UNCHANGED <<taskVars, taskPhone, phoneVars, rowVars, localStatus, phoneOf,
                 claimVars, pipeline, recovery>>

finish(w) ==
  /\ pc[w] = "exit"
  /\ ProcessEnds(w)
  /\ rowStatus' = [rowStatus EXCEPT ![w] =
                     IF localStatus[w] = "error" THEN "error" ELSE "stopped"]
  /\ lease' = [lease EXCEPT ![w] = "none"]
  /\ UNCHANGED <<taskVars, taskPhone, phoneVars, phoneOf, pipeline, recovery, faults>>

\* The process is killed.  Its row and its locks stay, and so does a pipeline.
Crash(w) ==
  /\ Alive(w)
  /\ Disturb("crash")
  /\ ProcessEnds(w)
  /\ UNCHANGED <<taskVars, taskPhone, phoneVars, rowVars, phoneOf, pipeline, recovery>>

-----------------------------------------------------------------------------
(* Recovery: WorkerStateRepository.recover_stale and recover_dead_processes. *)

SelectForRecovery(r, S) ==
  /\ recovery[r].pc = "idle"
  /\ S # {}
  /\ recovery' = [recovery EXCEPT ![r] = [NoRecovery EXCEPT !.pc = "selected", !.workers = S]]
  /\ UNCHANGED <<taskVars, taskPhone, phoneVars, rowVars, workerVars, faults>>

ExpiredRows == {w \in Workers : Active(w) /\ lease[w] = "expired"}
DeadRows == {w \in Workers : Active(w) /\ ~Alive(w)}

recover_stale(r) == SelectForRecovery(r, ExpiredRows)

recover_dead_processes(r) == SelectForRecovery(r, DeadRows)

RunningTasksLockedBy(w) ==
  {t \in Tasks : status[t] = "running" /\ lockedBy[t] = w}

\* recover_worker reads the tasks of the first worker outside a transaction.
ReadLockedTasks(r, w) ==
  /\ recovery[r].pc = "selected"
  /\ w \in recovery[r].workers
  /\ recovery' = [recovery EXCEPT ![r].pc = "read", ![r].first = w,
                                  ![r].tasks = RunningTasksLockedBy(w)]
  /\ UNCHANGED <<taskVars, taskPhone, phoneVars, rowVars, workerVars, faults>>

\* The first write opens the transaction; the tasks of the other workers are
\* read inside it.  The UPDATE of a task asks for neither status nor lock.
TasksToRecover(r) ==
  recovery[r].tasks \cup
    UNION {RunningTasksLockedBy(w) : w \in recovery[r].workers \ {recovery[r].first}}

CloseAttempts(s) ==
  [i \in DOMAIN s |-> IF s[i] = "running" THEN "stale_recovered" ELSE s[i]]

recover_worker(r) ==
  /\ recovery[r].pc = "read"
  /\ LET recovered == TasksToRecover(r)
         freed == {taskPhone[t] : t \in recovered}
     IN /\ attempts' = [t \in Tasks |->
             IF t \in recovered THEN CloseAttempts(attempts[t]) ELSE attempts[t]]
        /\ status' = [t \in Tasks |-> IF t \in recovered THEN "pending" ELSE status[t]]
        /\ lockedBy' = [t \in Tasks |-> IF t \in recovered THEN None ELSE lockedBy[t]]
        /\ phoneStatus' = [p \in Phones |->
             IF p \in freed /\ phoneStatus[p] = "running" THEN "online_idle" ELSE phoneStatus[p]]
  /\ rowStatus' = [w \in Workers |->
       IF w \in recovery[r].workers THEN "stale" ELSE rowStatus[w]]
  /\ lease' = [w \in Workers |->
       IF w \in recovery[r].workers THEN "none" ELSE lease[w]]
  /\ recovery' = [recovery EXCEPT ![r] = NoRecovery]
  /\ UNCHANGED <<retryCount, window, dryRunLogged, usedCount, taskPhone, checking,
                 workerVars, faults>>

-----------------------------------------------------------------------------
(* Target times, the supervisor's overdue handling, the USB monitor. *)

Elapse(t) ==
  /\ window[t] = "open"
  /\ Disturb("elapse")
  /\ window' = [window EXCEPT ![t] = "overdue"]
  /\ UNCHANGED <<status, lockedBy, retryCount, historyVars, usedCount, taskPhone,
                 phoneVars, rowVars, workerVars, recovery>>

OverdueTasks ==
  {t \in Tasks : status[t] \in CLAIMABLE_TASK_STATUSES /\ window[t] = "overdue"}

reschedule_overdue_tasks ==
  /\ OverdueAction = "reschedule"
  /\ OverdueTasks # {}
  /\ status' = [t \in Tasks |-> IF t \in OverdueTasks THEN "pending" ELSE status[t]]
  /\ lockedBy' = [t \in Tasks |-> IF t \in OverdueTasks THEN None ELSE lockedBy[t]]
  /\ window' = [t \in Tasks |-> IF t \in OverdueTasks THEN "open" ELSE window[t]]
  /\ dryRunLogged' = [t \in Tasks |-> t \notin OverdueTasks /\ dryRunLogged[t]]
  /\ UNCHANGED <<retryCount, attempts, usedCount, taskPhone, phoneVars, rowVars,
                 workerVars, recovery, faults>>

pause_overdue_tasks ==
  /\ OverdueAction = "pause"
  /\ OverdueTasks # {}
  /\ status' = [t \in Tasks |-> IF t \in OverdueTasks THEN "paused" ELSE status[t]]
  /\ lockedBy' = [t \in Tasks |-> IF t \in OverdueTasks THEN None ELSE lockedBy[t]]
  /\ dryRunLogged' = [t \in Tasks |-> t \notin OverdueTasks /\ dryRunLogged[t]]
  /\ UNCHANGED <<retryCount, window, attempts, usedCount, taskPhone, phoneVars,
                 rowVars, workerVars, recovery, faults>>

\* PhoneService.refresh_registered_usb_devices skips phones that are running
\* when the round reads the list and writes the check's verdict later.
Monitored(p) == phoneStatus[p] \notin BLOCKING_PHONE_STATUSES

BeginUsbCheck(p) ==
  /\ UsbMonitor
  /\ p \notin checking
  /\ Monitored(p)
  /\ checking' = checking \cup {p}
  /\ UNCHANGED <<taskVars, taskPhone, phoneStatus, rowVars, workerVars, recovery, faults>>

EndUsbCheck(p, s) ==
  /\ p \in checking
  /\ RecordStatus(p, s)
  /\ checking' = checking \ {p}
  /\ UNCHANGED <<taskVars, taskPhone, rowVars, workerVars, recovery>>

-----------------------------------------------------------------------------

\* The steps of a worker's own program, without its heartbeat.
WorkerStep(w) ==
  \/ Register(w) \/ BeginHealthCheck(w) \/ NoCandidate(w)
  \/ \E s \in HealthStatuses : EndHealthCheck(w, s)
  \/ \E t \in Tasks : SelectCandidate(w, t)
  \/ claim_next(w) \/ ClaimRefused(w) \/ ClaimHook(w) \/ StartPipeline(w)
  \/ \E o \in Outcomes : RejectBeforeRun(w, o)
  \/ \E o \in Outcomes : PipelineEnds(w, o)
  \/ mark_success(w) \/ mark_debug_ready(w) \/ mark_dry_run(w)
  \/ ReadRetryCount(w) \/ mark_failure(w)
  \/ CooldownEnds(w) \/ finish(w)

RecoveryStep(r) ==
  \/ recover_stale(r) \/ recover_dead_processes(r)
  \/ \E w \in Workers : ReadLockedTasks(r, w)
  \/ recover_worker(r)

MonitorStep(p) ==
  \/ BeginUsbCheck(p)
  \/ \E s \in HealthStatuses : EndUsbCheck(p, s)

Next ==
  \/ \E w \in Workers, p \in Phones : Launch(w, p)
  \/ \E w \in Workers : WorkerStep(w)
  \/ \E w \in Workers : Heartbeat(w)
  \/ \E w \in Workers : OrphanEnds(w)
  \/ \E r \in Recoverers : RecoveryStep(r)
  \/ reschedule_overdue_tasks
  \/ pause_overdue_tasks
  \/ \E p \in Phones : MonitorStep(p)
  \/ \E w \in Workers : LeaseExpires(w) \/ LeaseLapses(w)
  \/ \E w \in Workers : WorkerException(w)
  \/ \E w \in Workers : StopWorker(w)
  \/ \E w \in Workers : Crash(w)
  \/ \E t \in Tasks : Elapse(t)

Spec == Init /\ [][Next]_vars

\* The operating system runs every live process; the supervisor loops forever
\* over recovery, overdue tasks and missing workers; the monitor loops forever
\* over the phones; a pipeline ends within its timeout.  Nothing is assumed of
\* disturbances, and unhealthy verdicts are disturbances.
Fairness ==
  /\ \A w \in Workers : WF_vars(WorkerStep(w)) /\ WF_vars(OrphanEnds(w))
  /\ \A w \in Workers : WF_vars(LeaseExpires(w))
  /\ \A p \in Phones : WF_vars(\E w \in Workers : Launch(w, p))
  /\ \A r \in Recoverers : WF_vars(RecoveryStep(r))
  /\ WF_vars(reschedule_overdue_tasks \/ pause_overdue_tasks)
  /\ \A p \in Phones : WF_vars(MonitorStep(p))

FairSpec == Spec /\ Fairness

-----------------------------------------------------------------------------
(* Properties that hold whatever goes wrong. *)

TasksTyped ==
  /\ status \in [Tasks -> TaskStatuses]
  /\ lockedBy \in [Tasks -> Workers \cup {None}]
  /\ retryCount \in [Tasks -> Nat]
  /\ window \in [Tasks -> {"open", "overdue"}]
  /\ taskPhone \in [Tasks -> Phones]
  /\ attempts \in [Tasks -> Seq(AttemptResults)]
  /\ dryRunLogged \in [Tasks -> BOOLEAN]
  /\ usedCount \in [Tasks -> Nat]

PhonesTyped ==
  /\ phoneStatus \in [Phones -> PhoneStatuses]
  /\ checking \in SUBSET Phones

RowsTyped ==
  /\ rowStatus \in [Workers -> ACTIVE_WORKER_STATUSES \cup {"none", "error", "stale", "stopped"}]
  /\ lease \in [Workers -> {"none", "live", "expired"}]

ProcessesTyped ==
  /\ pc \in [Workers -> WorkerPcs]
  /\ localStatus \in [Workers -> {"starting", "idle", "running", "error"}]
  /\ phoneOf \in [Workers -> Phones \cup {None}]
  /\ claim \in [Workers -> [task : Tasks \cup {None}, attempt : Nat]]
  /\ outcome \in [Workers -> AllOutcomes \cup {None}]
  /\ readRetry \in [Workers -> Nat]
  /\ pipeline \in [Workers -> BOOLEAN]

RecoveryTyped ==
  recovery \in [Recoverers ->
    [pc : {"idle", "selected", "read"}, workers : SUBSET Workers,
     first : Workers \cup {None}, tasks : SUBSET Tasks]]

\* Type invariant of the tables and of the processes' memory.
TypeOK ==
  /\ TasksTyped
  /\ PhonesTyped
  /\ RowsTyped
  /\ ProcessesTyped
  /\ RecoveryTyped
  /\ faults \in [Faults -> Nat]

\* The database never shows two running tasks on one phone, whatever leases
\* are lost, whichever status a phone is wrongly given and however late a
\* result arrives (queue README: "hard protection at the database level").
OneRunningTaskPerPhone ==
  \A t, u \in Tasks :
    status[t] = "running" /\ status[u] = "running" /\ taskPhone[t] = taskPhone[u] => t = u

\* A task shown as running has an owner and a latest attempt that is still
\* open: late results and racing recoveries never strip a running task of the
\* attempt its history shows (claim_next, mark_*, recover_worker).
RunningTaskHasOpenAttempt ==
  \A t \in Tasks : status[t] = "running" =>
    /\ lockedBy[t] # None
    /\ attempts[t] # << >>
    /\ attempts[t][Len(attempts[t])] = "running"

AttemptsWith(t, result) == {i \in DOMAIN attempts[t] : attempts[t][i] = result}

\* The usage counters agree with the history: a video's used_count grows once
\* per published attempt, also when results of several attempts of one task
\* arrive late, and never twice for the same attempt (mark_success).
UsageMatchesHistory ==
  \A t \in Tasks : usedCount[t] = Cardinality(AttemptsWith(t, "published"))

\* A task is never charged more retries than it has failed attempts, although
\* mark_failure writes a count it read before its transaction; so no task is
\* given up before it failed max_retries + 1 times, unless fatally.
RetriesNeverOvercount ==
  \A t \in Tasks : retryCount[t] <= Cardinality(AttemptsWith(t, "failed"))

ReportedResults == {"published", "dry_run", "debug_ready", "failed"}

\* The execution history is append-only and a reported result is final: no
\* recovery and no late result of another attempt rewrites it.
ReportedResultsAreFinal ==
  [][\A t \in Tasks : \A i \in DOMAIN attempts[t] :
       /\ i \in DOMAIN attempts'[t]
       /\ attempts[t][i] \in ReportedResults => attempts'[t][i] = attempts[t][i]]_vars

-----------------------------------------------------------------------------
(* Properties of timely executions: leases of live workers are renewed in    *)
(* time, one caller recovers at a time and workers stop after a failure.     *)

\* A worker that will write a result back still owns what it writes: its task
\* is running under its lock and its attempt is the latest, still open one.
\* Recovery and reclaiming never overtake a live worker.
ClaimIsCurrent ==
  \A w \in Workers : claim[w].attempt # 0 =>
    LET t == claim[w].task IN
    /\ status[t] = "running"
    /\ lockedBy[t] = w
    /\ claim[w].attempt = Len(attempts[t])
    /\ attempts[t][claim[w].attempt] = "running"

\* The status of a task is what its history says: one open attempt, the last,
\* exactly while it runs; published at most once, and then nothing after it;
\* every failure counted, and never more than max_retries + 1 of them.
StatusMatchesHistory ==
  \A t \in Tasks :
    LET last == Len(attempts[t]) IN
    /\ AttemptsWith(t, "running") = IF status[t] = "running" THEN {last} ELSE {}
    /\ AttemptsWith(t, "published") = IF status[t] = "published" THEN {last} ELSE {}
    /\ retryCount[t] = Cardinality(AttemptsWith(t, "failed"))
    /\ retryCount[t] <= MaxRetries + 1

\* A phone is marked running exactly while one of its tasks runs, so that it is
\* neither given to a second task nor left blocked for good.
PhoneRunsIffTaskRuns ==
  \A p \in Phones :
    phoneStatus[p] = "running" <=> \E t \in Tasks : taskPhone[t] = p /\ status[t] = "running"

\* The task of a worker that is gone can be found by recovery: the row of its
\* owner is still active, so recover_stale or recover_dead_processes selects it
\* (queue README, "recover-stale": after an executor's abnormal exit).
RunningTaskIsRecoverable ==
  \A t \in Tasks : status[t] = "running" =>
    Alive(lockedBy[t]) \/ Active(lockedBy[t])

Serving(w) == Alive(w) /\ pc[w] \notin {"launched", "exit"}

\* No two workers serve one phone (queue README: the registration of a second
\* active worker is refused).
OneWorkerPerPhone ==
  \A v, w \in Workers :
    Serving(v) /\ Serving(w) /\ phoneOf[v] = phoneOf[w] => v = w

\* A phone is driven by at most one pipeline at a time (queue README: a single
\* phone executes its tasks serially).
OnePipelinePerPhone ==
  \A v, w \in Workers :
    pipeline[v] /\ pipeline[w] /\ phoneOf[v] = phoneOf[w] => v = w

\* Seen from the tasks alone, the queue is a lock service: see TaskLifecycle.
Lifecycle == INSTANCE TaskLifecycle WITH
  holder <- lockedBy,
  phone <- taskPhone,
  working <- [w \in Workers |-> IF claim[w].attempt = 0 THEN None ELSE claim[w].task]

ImplementsLifecycle == Lifecycle!Spec

-----------------------------------------------------------------------------
(* Liveness. *)

Unsettled == CLAIMABLE_TASK_STATUSES \cup {"running"}

\* Every queued or running task is eventually published, given up or paused,
\* across crashes, phone errors and passed target times.
EveryTaskSettles ==
  \A t \in Tasks : status[t] \in Unsettled ~> status[t] \notin Unsettled

\* A phone left in error by a failure, or running by a crash, comes back.
EveryPhoneRecovers ==
  \A p \in Phones : phoneStatus[p] # READY_PHONE_STATUS ~> phoneStatus[p] = READY_PHONE_STATUS

=============================================================================
