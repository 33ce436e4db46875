# A verification of the automated posting system

The repository posts videos to TikTok from a set of phones.  Files with a sheet
of rows arrive on a shared drive and become release tasks in a SQLite database;
an execution queue gives each of them to a worker of the task's phone, the worker
runs a pipeline subprocess that taps its way through the app over ADB, and the
result is written back; a control centre, a phone monitor and operators change the
same tables meanwhile.  This directory holds TLA+ models of that path, their checks with
TLC and theorems about them checked by TLAPS.

All paths are relative to `src/`.

## 1. The system

| component | state it keeps | operations | correct when |
|---|---|---|---|
| `shared/queue_rules.py`, `account_rules.py` | none | is a task eligible now | retry limit and target time agree with the writers |
| `execution_queue/queue_repository.py` | `release_tasks`, `task_attempts`, `execution_logs`, `phones.current_status`, usage counters | list candidates, claim, mark a result | one running task per phone; history and counters agree; results are final |
| `execution_queue/worker_state.py` | `execution_workers` | register, heartbeat, finish, recover | one worker per phone; a dead worker's task comes back, a live one's does not |
| `execution_queue/phone_worker.py`, `queue_service.py` | memory of a worker process | the loop: refresh, claim, plan, preflight, pipeline, report | a result is reported once, by its owner |
| `execution_queue/pipeline_adapter.py` | run directory, subprocess | prepare a plan, run it with a timeout | one pipeline per phone |
| `execution_queue/supervisor.py` | none (a loop) | recover, reschedule or pause overdue tasks, launch workers | every task settles |
| `execution_queue/worker_manager.py`, `worker_readiness.py`, `idle_wake.py` | threads of a process | admission gate, staggered start, stop, screen wake-up | the gate still holds when workers start |
| `execution_queue/cli.py` | pid file | stop-all, clean-up | nothing runs and nothing is stuck afterwards |
| `release_task_list` | `release_tasks`, video and caption status | create, update status, requeue, reschedule, assign phone, remove | one active task per video; running tasks keep owner and phone |
| `mobile_phone_library` | `phones`, `phone_health_checks` | register, sync devices, health checks, USB refresh | a running phone is not shown idle; the registry follows the devices |
| `video_library_system`, `copywriting_library`, `product_library` | videos, captions, products | scan, bind, status | counters agree with publications |
| `shared_drive_importer` | import batches and items, directories, lock files | scan, import rows, move batches | every batch ends accepted or rejected, once |
| `shared_drive_web` | phone sync times | upload a batch, sync phones | a batch is ready only when it is complete |
| `control_center` | USB monitor thread, worker manager | an API over all of the above | its polling disturbs nobody |
| `workflow_database/scripts`, `upload_system` | state file of a run | the screen steps of a publication | the final tap happens at most once per publication |
| `stitch_`, launchers | pages, start-up scripts | | not a subject of verification |

Components meet in the database and on the phones.  The database is shared by
processes: Python's `sqlite3` opens a transaction at the first write, so a
`SELECT` before the first write of a session is not protected from it, except
in `claim_next` and `register`, which begin with `BEGIN IMMEDIATE`
(`shared/database.py:38`).  Phones are shared because a pipeline is a child
process that survives the worker that started it.

Hard behaviour: claims that race; a lease that runs out while its worker lives;
results that arrive after a recovery; recoveries that overlap, since the control
centre recovers on every poll of the worker page; crashes between claim and
report; database errors; phones marked idle or in error by a monitor while they
run; boundaries of retries and of target times; operators who change tasks
while they run; batches half imported.  `PROJECT.json` lists them line by line
under "hazards".

## 2. Modules

Five groups; the queue is the centre, the others meet it at the tables and at the
phone.

| module | extends | what it is |
|---|---|---|
| `TaskLifecycle` | | the abstract promise of the queue: a lock service with five actions |
| `ExecutionQueue` | | claim, run, report, recovery, supervisor, monitor; implements `TaskLifecycle` |
| `QueueOperations` | `ExecutionQueue` | what operators do to tasks while the queue works: the composition of both |
| `NativeSchedule` | | arithmetic of the publishing time: lead window, wheels, tolerances |
| `PublishPhone` | `NativeSchedule` | the phone, the state file and how a step ends, common to both workflows |
| `ProductSearch` | `PublishPhone` | finding or adding the product in lists that scroll |
| `ShowcaseWorkflow` | `ProductSearch` | the steps of `run_showcase_workflow.py` |
| `MarketingWorkflow` | `PublishPhone` | the steps of `run_marketing_workflow.py` |
| `Publication` | both workflows | an attempt from claim to verdict, and its retries: the composition |
| `SharedDriveImport` | | folders, library rows and tasks under several importers |
| `PhoneLibrary` | | the rows of phones under monitor, sync and operator |
| `WorkerManager` | `PhoneLibrary` | start, gate, stop and join of workers over these rows |

`MC_*` modules hold the instances for TLC, `*Proofs` modules the theorems of the
module they are named after; `AttemptCountingProofs` and `TimelyExecutionProofs`
continue `ExecutionQueueProofs`.  Actions bear the names of the functions they
model; a function that spans several transactions or ADB calls is split
where another process can come between.  "Faulty variants" are mistakes one could make in
the code; each run replaces a definition by one of them to see that its
property notices.  They are part of no behaviour.

How the groups fit: `SharedDriveImport` ends where a pending task exists;
`ExecutionQueue` takes a task from there to a result and sees a pipeline as one
step with an outcome; `Publication` opens up that step for one task
and phone (a claim is `claim_and_prepare`, the report is `judge`);
`QueueOperations` adds requests to every state of the queue; and `WorkerManager`
reduces the queue to "claim a phone, give it back" in order to put all writers
of a phone's row next to each other.

### `ExecutionQueue`

| variable | code |
|---|---|
| `status`, `lockedBy`, `retryCount`, `taskPhone` | columns of `release_tasks` |
| `window` | whether `scheduled_at` lies ahead (`open`) or has passed (`overdue`) |
| `attempts` | results of the task's rows of `task_attempts`, oldest first; `execution_logs` moves with it |
| `dryRunLogged` | the condition of `mark_completed_dry_run_tasks` on `execution_logs` and `updated_at` |
| `usedCount` | increments of `videos.used_count` by the task |
| `phoneStatus` | `phones.current_status` |
| `checking` | phones a USB monitor round has decided to check and not yet written |
| `rowStatus`, `lease` | `execution_workers.status`, `lease_expires_at` (`live`, `expired`, or empty) |
| `pc`, `localStatus`, `claim`, `outcome`, `readRetry` | a worker process: where it is, `PhoneWorker.status`, its `ExecutionClaim`, the result to write, the count `mark_failure` has read |
| `pipeline` | whether a pipeline started by the worker runs |
| `recovery` | a call of `recover_*`: the rows it selected, the tasks it has read |
| `faults` | disturbances so far |

Its actions.  A worker goes through `Register`, then repeats `BeginHealthCheck`,
`EndHealthCheck` (only for a phone that is neither ready nor blocked),
`SelectCandidate` or `NoCandidate`, `claim_next` or `ClaimRefused`, `ClaimHook`,
`StartPipeline` or `RejectBeforeRun`, `PipelineEnds` and one of `mark_success`,
`mark_debug_ready`, `mark_dry_run`, or `ReadRetryCount` followed by
`mark_failure`; after a failure it stops or cools down.  `finish` ends it.
`Heartbeat` is its second thread.  `recover_stale` and `recover_dead_processes`
select rows, `ReadLockedTasks` reads the first one's tasks and `recover_worker`
is the transaction that follows.  The supervisor appears as `Launch`,
`reschedule_overdue_tasks` and `pause_overdue_tasks`, the monitor as
`BeginUsbCheck` and `EndUsbCheck`.

Disturbances, each bounded by `MaxFaults`: `Crash` (process killed),
`LeaseLapses` (lease of a live worker), `WorkerException` (database error),
`Elapse` (target time passes), `StopWorker`, and health checks with a bad verdict.

Abstracted in `ExecutionQueue`, and why it may be:

* Candidates are taken in any order (the code: by `scheduled_at`); no property
  depends on the order.
* `require_phone_ready` is on and `allow_overdue` off, as a supervisor starts
  workers.  Worker modes (publish, dry run, debug) are mixed in one instance through
  `Outcomes`; a real deployment behaves like one of the subsets.
* Tasks are scheduled ones with valid workflow fields.  The health check of the
  preflight writes nothing, so it is part of `RejectBeforeRun`.
* Listing overdue tasks and updating them is one step: the update repeats the
  status condition and a passed time passes only once.
* Steps of a supervisor round may come in any order and be interleaved with
  others; real rounds are some of these behaviours.  A second supervisor is
  included, because nothing is remembered between steps.
* Whether a process lives is decided when the rows are selected.  A process id is
  taken to be that of one worker; threads of a `WorkerManager` share one (section 5).
* The per-phone recoveries select subsets of what the general ones select and the
  model's recovery of all rows is checked with one phone, too.
* `max_runs` and `stop_when_idle` end a worker as a stop does.  The wait after a
  success is part of polling.
* A subprocess timeout ends the pipeline; a grandchild it may leave is not modelled.
* Two writes in the same second are told apart.  (The condition of the dry-run
  repair compares seconds; see the hazards.)
* A heartbeat that is still under way when `finish` gave up waiting is ignored.

### `QueueOperations`

Adds the requests that are one transaction (`update_status`, `assign_phone`,
`reschedule`), those that read before their transaction
(`BeginRequeue`/`requeue`, `BeginRemove`/`remove_tasks`), the claim by hand, and stop-all:
`stop_all` lists the processes of active rows, `kill_process` ends them one by one
or is refused, `cleanup_queue_state` sweeps the tables.  `operator` is what the
request has read.  `touched` and `reopened` are history: which tasks were changed
while somebody held them, and how often a task was put back.  The properties
except the `touched` tasks, since the code changes them on purpose
(or without looking), and claim everything for the others.

A claim by hand is two steps, as in the code: `SelectByHand` lists the candidates
(which repairs dry runs, as `queue_preview` does) and selects one with a claimable status,
`queue_claim_next` is the transaction, which asks for the phone, the retries, the time and
another running task, and not for the status.  Between them workers, recoveries, other
requests and other claims take their steps (`selection`; `Callers` bounds the claims that
overlap: one in the run, any number in the theorems), so a task withdrawn meanwhile is run, although `models.py` lists its status as a terminal one
and only `requeue` is said to put it back: the code does this, and
`WithdrawnTaskStaysWithdrawn` speaks of the tasks nobody has selected.

Requests other than claims by hand come one at a time.  `requeue` without a reset keeps
`retry_count`, also above `max_retries`: such a task waits and is never eligible.

### `NativeSchedule`, `PublishPhone`, `ProductSearch`, the workflows, `Publication`

| variable | code |
|---|---|
| `job` | account type and the options `build_command` passes on (`--allow-publish`, `--dry-run`, stop), the profile's calibration, whether media index and OCR work |
| `todo`, `outcome` | steps left of the script's list; how its process goes or ended |
| `state` | the JSON state file or context: completed steps, schedule target, initial picker time, flags |
| `scan` | locals of `ensure_showcase_product_attached` and of `scan_product_list` |
| `phone` | page shown, position in a list, contents of the lists, the draft (external: TikTok) |
| `gallery` | video files on the phone and what its media index lists |
| `posts` | what was published |
| `now` | the clock, in minutes |
| `attempt`, `verdict`, `postsBefore` | the queue's view; the last is history |

Every step of the two scheduled workflows and of the showcase's immediate one is an
action, with its dry-run branch, its guard and its ways to fail; a list of steps is
a sequence of step ids in the order of the profile.  A tap works, misses, or
leaves the application; a swipe of a list moves it, does nothing, or opens a page;
each wheel may lose its swipe; the picker refuses times before the one it opened
at; a tap at a fixed point of another page than the expected one hits nothing or leaves the
application (`Stray`), and never the publish button; cards may not be there yet when a list
is read, and are then swiped by; a screen is read correctly but lists are read by what is on the screen, and titles only to
their first 25 characters (`Lookalikes`).  One page may be mistaken for another: with
`addTextElsewhere` the confirmation of an addition finds a text like "Add product" beside the dialog and
presses what `AfterConfirm` lists, another card's button or the form's among them.  `run_plan_timeout` may end a
script anywhere, and so may three failures of an ADB command.  A retry starts on
whatever the phone shows and holds, with a new state file.

A marketing step is a process that reads and writes the state file, a showcase
step a function of one process; since nothing else writes the file during
an attempt, both are one action.  `run_wheel_strategy` writes the file itself, and the step
writes it over: the model has the last version.

Facts the model shows and the code accepts: an attempt that fails behind the final
tap is a retryable failure, so the retry publishes again (`OnePostPerAttempt` is per
attempt); a final tap that misses is judged published all the same; the
first item of the picker is not checked when the index lags in the showcase
(`PostShowsTaskVideo` excepts it); where a page is mistaken for the dialog, a press that
misses and a confirmation that hits another card publish that card's product
(`PostCarriesTargetProduct` and `DebugReadyDraftIsComplete` except such runs in what they say of the
product); and a pipeline's dry run never reaches the verdict `dry_run`,
since it fails at a wait for a page that nothing opened.

### `SharedDriveImport`

| variable | code |
|---|---|
| `place`, `locked` | directory of a delivered folder, its `.importing.lock` |
| `batch`, `items` | `shared_import_batches.status`, `shared_import_items` |
| `videos`, `tasks`, `captions` | rows the import creates; a video's path is folder and place |
| `importer` | locals of `process_inbox_batch` and `import_row` |
| `hindered`, `overtaken`, `removals`, `pulled` | history: what the properties except |

`upload_batch` and `submit_task` deliver; `LockFolder` to `finish_batch` are the
importer step by step, one file operation or one side of a transaction's first write each;
`DatabaseError` and `Crash` may come between any two.  A delivery that loses the race of
two uploads of a batch ends inside the folder of the other (`nested`), where no scan
sees it; a batch that is known already is moved with its lock file.  After a crash the
lock, the `processing` folder and the half of the rows that was imported stay
until a person acts; nothing in the code takes them up again, which is why the properties except
`hindered` folders.

### `PhoneLibrary` and `WorkerManager`

| variable | code |
|---|---|
| `status`, `account` | `phones.current_status`, `account_type`; `absent`: no row |
| `cable` | what ADB and the health check find |
| `pass` | locals of each writer: the round it makes, what it has read, the verdict it will write |
| `_worker_manager`, `stopEvent` | of the control centre, of a manager |
| `manager`, `worker` | where the request or thread of a manager is, and its workers |
| `asked` | history: managers that lived or had workers when a stop was asked for |

`PhoneLibrary` has the monitor (`BeginMonitor`, `list_usb_phones`,
`refresh_usb_phone`, `check_health`, `record_health`, the sweep), the portal's
sync (`sync_phones`, `sync_read`, `safe_upsert_from_adb_device`,
`find_removed_template`, `sync_add`, the sweep) and the operator's requests.
`check_health` and `record_health` are apart: the verdict is about
the past when it is written.  `WorkerManager` adds `queue_workers_start` (plan, gate,
start under the lock), `run_forever` (select again, build, list, wait, join),
`queue_workers_stop` and `RunRaises`: an error before or between the workers ends the
manager's thread and leaves the workers it has started.  Nobody joins them, and a later
`queue_workers_stop` tells nobody, since the thread is dead (`service.py:800`); although the API is
said to stop the workers this control centre started (`control_center/README.md:46`), the code
only stops those of a live thread, and `StopReachesEveryManager` and `StopEndsEveryManager` say so much.

What the model shows and the code accepts: `health_check_all`, a registration by the operator and a
failed pairing write a running phone's row; the second selection of phones is not
gated again; the due times of the sync are read outside of its lock, so that two passes may
follow each other at once.

## 3. Checks

| run | instance | shows |
|---|---|---|
| `core_timely` | 2 tasks, 2 phones, 2 workers, 1 recoverer, 1 retry; a crash, a database error, a passed target; overdue tasks are paused | without lapses and overlaps, a claim is current until it is reported (`ClaimIsCurrent`), status and history agree (`StatusMatchesHistory`), a phone is running exactly with its task (`PhoneRunsIffTaskRuns`), there is one worker per phone, and the queue implements `TaskLifecycle` |
| `core_faults` | 2 tasks on 1 phone, 2 workers that go on after failures, 2 recoverers, a lapse, no retry | types, and one running task per phone, whatever is late |
| `core_late` | 1 task, 2 workers, 2 recoverers, a lapse, dry runs, 1 retry | a late result or a slow recovery never leaves a running task without its open attempt, never changes a reported result, never miscounts usage, never overcharges retries |
| `core_live` | 1 task, 2 workers, monitor, rescheduling; a crash, a stop, a passed target, an unhealthy verdict | a running task can be found by recovery; every task settles; every phone comes back |
| `stuck_task` | 1 worker, one database error | **violated**: the task stays running, beyond any recovery |
| `orphan_pipeline` | a crash in a pipeline | **violated**: two pipelines drive one phone |
| `second_worker` | a worker that goes on after a failure | **violated**: two workers serve one phone |
| `publication` | 14 jobs of both account types: scheduled past midnight, an hour ahead, in the past, a day later, immediate; dry, stopped, without permission, not calibrated, without OCR, with a lagging index, with a text of the dialog on other pages; 3 contents of the showcase and 2 of the shop, 2 cards per screen, 2 swipes; 2 attempts, a pause of 25 minutes at any point | what is published is the task's video, product, caption and time, with permission and once per attempt; a draft left to the operator is complete; every attempt is judged |
| `stop` | a marketing job with permission and stop | **violated**: it publishes |
| `operations` | 2 tasks, 2 phones, a worker, a recoverer, a crash, 2 requests of every kind, one of them a claim by hand beside the other | requests disturb only the tasks they are about; withdrawn tasks stay withdrawn; one publication per queueing |
| `intake` | 3 deliveries of 2 batches with one file in common, a corrected second delivery, invalid and late rows; 2 importers, a crash or error, a removal | one release per file; a batch reports what it did; videos are where the library says; rows own their tasks; no folder is left behind |
| `phones` | one telephone under a USB and a Wi-Fi serial, monitor, sync, operator, 2 managers, 3 outside events | the monitor and the sync never take from a running, disabled or removed phone what they did not see free; accounts are the operator's; a stop reaches every manager that lives, and only an error leaves workers without one; the registry and the managers come to rest |

**Bounds.**  In the queue, one or two tasks, phones, workers and recoverers are what
the properties relate: two claims, an owner and its successor, two overlapping
recoveries.  Worker slots are reused once nothing refers to the old worker id, so
a run has more workers over time than slots.  In `operations` two requests are what a
conflict needs: one that changes a task under its holder and one that puts
it back, or a claim by hand and a request between its two steps.  `publication` keeps the real numbers of the schedule (window 40,
extension 30, tolerances 15 and 30 minutes); its claim is at 23:50, so that
targets and pauses cross midnight and the window; the pause is long enough to pass the
window once and short enough to keep some targets outside.  Lists of three
products on screens of two make the search scroll, stop at the end, run out of swipes
and meet a lookalike; profiles allow eight swipes, which adds screens
but no case.  `intake` has the three ways in which a file can come twice: within
a batch delivered again, in another batch, and by two importers at once.
In `phones` each pair of writers meets in one row; a third event lets an operator or cable
change come between.

Deadlock is not checked, because the systems may stop: a paused task waits for an
operator, a phone in error without a monitor stays so, all folders are settled,
requests and events have come to their bounds.  `publication` and `stop` check it; a
settled task is an explicit step there (`Settle`).

**Fairness.**  `FairSpec` of the queue: weak fairness of each worker's own steps and of the end
of an orphaned pipeline: the operating system schedules processes and a pipeline
has a timeout.  Of the expiry of a dead worker's lease: time passes.  Of
launching per phone, recovery and overdue handling: the supervisor's loop does all
of them in every round, for every phone.  Of the monitor per phone: its loop visits
all of them.  Nothing is assumed of disturbances or of health verdicts beyond
their bound; that a check finds a connected phone ready is an assumption on the
environment, made by bounding bad verdicts.  The liveness run has no database
error, for with one the task is stuck (`stuck_task`), and workers that stop after a
failure, the default.

`Publication`: weak fairness of the script's steps and of the judgement, because a process that
runs is scheduled and the service waits for it.  None of the timeout:
`AttemptIsJudged` shows that searches and loops end by their own limits.
`WorkerManager`: weak fairness of the monitor's loop, of each manager's thread and of
the end of a run (it has a timeout).  None of requests, syncs, cables, claims and errors; they
are bounded, so `RegistryConverges` says what happens once they are quiet.
`QueueOperations` and `SharedDriveImport` state no fairness: in the one an operator may take
everything out of the queue, in the other a crash leaves work that nobody takes up.
`NoFolderIsLeftBehind` says without fairness that undisturbed work is never dropped.

**Disagreements.**  `stuck_task`, `orphan_pipeline` and `second_worker` contradict
sentences of `execution_queue/README.md`; `stop` contradicts the help text
of `--stop-before-final-publish`.  They are quoted in `PROJECT.json` under "findings".
Each of the violated properties of the queue holds in a passing run under narrower
assumptions, except `OnePipelinePerPhone`, which no crash leaves standing;
`PostedOnlyWithPermission` is what is left of `stop`.

## 4. Proofs

Every safety invariant and action property that a passing run checks is a theorem.
It holds for every value of the constants under the named assumptions of the
modules, which TLC evaluates in the runs, and under the hypotheses written in the
theorem.  `PROJECT.json` lists the results; here is how they are argued.

### The queue under any disturbance

`ExecutionQueueProofs` and `AttemptCountingProofs`, from `ConstantsAssumption` alone:
leases may lapse, results come late and recoveries overlap at will.

* `TypeCorrect`.  Inductive with one addition, `ClaimTyped`: a worker between selection
  and report knows a task.
* `OneRunningTaskPerPhoneHolds`.  `LEMMA Effects` sorts every step into those that
  make no task run, `claim_next`, a report and a recovery; only the second makes
  a task run, and its guard looks at the other tasks of the phone.
* `RunningTaskHasOpenAttemptHolds`.  A claim opens a last attempt; a report and a
  recovery that touch the attempts of a task also take it out of running.
* `ReportedResultsAreFinalHolds`, an action property.  It needs `ClaimInv`: a claim's
  attempt has no reported result yet, and no two workers hold the same attempt
  of a task.  A claim takes the number after the last attempt, a
  report forgets the claim in the step that writes it, and recovery closes open
  attempts only.  So a late report can only fill its own attempt, which is open or
  `stale_recovered`.
* `UsageMatchesHistoryHolds`.  The set of a task's published attempts grows by the
  attempt of the reporting worker and by nothing else (`SettledCounts`, `KeptCounts`), which
  by `ClaimInv` was not in it.
* `RetriesNeverOvercountHolds`.  `mark_failure` writes a count that it read before its
  transaction; `RetryInv` says that what was read is at most the number of failures now.

### Timely executions

`TimelyExecutionProofs`: what holds only as long as nothing overtakes a worker.  Each
theorem names what it needs:

| hypothesis | says | where the code gives it, and where not |
|---|---|---|
| `LeasesHold` | no lease of a live worker runs out, and a worker stops after a failure | the heartbeat thread renews a lease of at least three heartbeats (`phone_worker.py:163`), but not in a process that is blocked or suspended: then only the theorems of the last section hold; `stop_on_failure` is the default, without it `second_worker` is violated |
| `NoDbErrors` | no call of a worker fails in the database | not given; with an error `stuck_task` is violated |
| `OneRecoverer` | one caller of `recover_*` at a time | one supervisor, and no poll of the control centre's worker page meanwhile; with overlapping recoveries only the theorems of the last section hold |
| `~UsbMonitor` | no USB check writes phones | without the control centre; with it, `PhoneLibrary` says what remains true |

* `OneWorkerPerPhoneHolds` (`LeasesHold`).  `LeaseInv`: who serves a phone has an active row with a
  live lease, so the next `register` is refused; recovery selects rows of dead workers.
* `RunningTaskIsRecoverableHolds` (`LeasesHold`, `NoDbErrors`; any number of recoverers).
  `TasksHeld`: a running task's owner works on it, or is dead under an active row.
  `ReadsComplete`: since a dead worker claims nothing, what a recovery has read of it stays
  complete, so closing the row leaves none of its tasks behind.
* `ClaimIsCurrentHolds`, `StatusMatchesHistoryHolds`, `ImplementsLifecycleHolds`
  (`Timely` = `LeasesHold` and `OneRecoverer`; the USB monitor may run, the database may fail).  `ClaimIsCurrent`
  is not inductive.  `TimelyInv` adds that a selected task still waits or was paused
  with its time passed (`SelectedWaits`), so that a claim takes it from nobody; that what
  a recovery has read is still so when it writes (`ReadsCurrent`), which a second
  recoverer would break; that a logged dry run is over (`DryRunsDone`), so that the repair of
  dry runs changes nothing; that only running tasks have owners; and `LeaseInv`,
  `ClaimInv` and one worker per phone.
  `HistoryInv` adds that the count `mark_failure` has read is current.
* `PhoneRunsIffTaskRunsHolds` (`Timely`, `~UsbMonitor`).  `PhonesInv`: a worker checks its
  phone only while nothing runs there.
* In the refinement `working` is the task a worker has an attempt of.  A claim is `Claim`,
  a report `Report`, a crash or exception of a working process `Vanish`, a recovery that finds tasks
  `Recover`, handling of overdue tasks `Withdraw`; every other step stutters.

### Operators

`QueueOperationsProofs`.  Requests give attempts results that no worker reports, so
the lemmas on types hold over any set of results (`TypedOver`).

* `OperationsTypeCorrect`, without hypotheses, from `OperationsInv`.
* `OnlyRequestsReviveTasks`: withdrawn tasks that nobody holds and no claim by hand has
  selected stay so, for any mix of requests and any number of overlapping claims.  Every step
  is shown to be one of those that change only tasks that were claimable, running, held or
  selected, or that count in `reopened`.  It assumes that `update_status` is asked for
  withdrawn or claimable statuses only: the API accepts `running` as well, which would
  revive a task without queueing it.
* `OneRunningTaskUnlessTouchedHolds`, for any lapses and recoveries, if no request
  sets `running`: whatever starts a task, a claim by hand with an old selection included, looks
  at the phone in its transaction (`StartsOnFreePhone`), and a running
  task that is given another phone counts as touched.
* `UntouchedClaimIsCurrentHolds` (`LeasesHold`, `OneRecoverer`), for any requested status, `running`
  included.  `UntouchedInv` is the timely invariant about untouched tasks; a request spares
  every task it does not touch (`SparesUntouched`), and stop-all touches what its victims hold.
* `PublishedOncePerQueueingHolds` (the same, and no request sets `running`).  `Budget`: a task
  that waits, runs or is claimed has at most as many publications as it was put back, any other
  at most one more.  So a queueing pays for one publication, and only
  a counted one refills it.

### Publications

`PublicationProofs` and `NativeScheduleProofs`, for every content and length of
lists and galleries and any number of attempts.  Besides types of the constants they assume
two facts on the lists of steps, `PublishStepsAssumption` and
`StepOrderAssumption`, which TLC evaluates on those of the code, and that a
marketing task is scheduled, which `shared/account_rules.py:59` enforces.

* `PublishedOnlyWithPermission`, with the invariant `PermissionInv`: while a script
  runs, the gate it passed still holds, and (`DryPhone`) a dry marketing run has only ever shown
  the launcher, the home page or a foreign one.  The latter is needed because
  the marketing script's final step taps by what the page shows; a dry run is
  safe since nothing it does opens a page with a publish button.
* `PublishedOncePerAttempt`, with `OnceInv`: the steps left hold at most one publish tap
  and none once something was published; scripts only ever go forward in their lists.
* `PublicationTypeCorrect`, with `SearchInv` on what a search under way relies on.
* `PostCarriesTargetProductHolds` and `DebugReadyDraftIsCompleteHolds` speak of the product in runs
  that meet no text of the dialog on another page; every other theorem holds with such pages, too.
* What a post shows.  The other theorems share one argument.  A step that has *seen*
  something is a milestone: the pushed video in the index, the publish page, the pasted
  caption, the attached product, the verified schedule.  `Undoing` names, for each, the
  steps that could undo it, `InOrder` says that they come before it in the list and that
  the final tap comes after it, and `OrderInv` that this is so of the steps left.  Each invariant
  says "the milestone lies ahead, or it is behind and what it saw still holds":
  `ScheduleInv`, `CaptionInv`, `VideoInv` with `PushedInv` and `NextInv`, `ProductInv`.  That no other step undoes it
  is one lemma per step on its effects (`ScriptEffects`), which all of the invariants use.
* `VerifiedDraftHasTargetTimeHolds` is the part of `ScheduleInv` that speaks of drafts nobody has
  posted; the run checks what follows from it for posts and for drafts left to an operator.
* `PostNearRequestedTimeHolds` adds the arithmetic of `NativeScheduleProofs`, which
  is for all integers: `TargetNearRequest` and `AcceptedTimeNearRequest` (two extensions and a
  tolerance bound what a check may accept).  `WheelsReachTarget`: turning date, hour and minute
  separately loses no carry.
* `DebugReadyDraftIsCompleteHolds` reads the same invariants of the draft that a stopped
  run leaves; `StopInv` says that it stopped at the final tap.

### Imports

`SharedDriveImportProofs`, for any set of importers.  The invariants build on each other:

* `ImportInv` (`FoldersAreAttended`): the folder of an importer is where its stage
  looks for it, and no two importers have the same folder.  The lock gives the second and is
  needed for the first: only its importer moves a folder out of `processing`.
* `TypeInv` (`SharedDriveTypeCorrect`): an importer between rows is within its sheet.
* `FilesInv`: what an importer remembers of the tables is still there, and a name that
  no race has hit has one live video.
* `CountInv` (`OneReleasePerFileHolds`) counts the tasks of a name together with the importers that
  hold its video and have yet to create the task.
* `OwnersInv` (`RowsOwnTheirTasksHolds`): a video has one holder or one task, a task one item.
* `AloneInv`, `AcceptInv`, `BatchesInv` (`BatchReportIsTrueHolds`): an undisturbed batch has one importer; the
  rows behind it are settled and those ahead untouched, and its flag tells whether one was accepted.
* `DiskInv` (`TaskVideoIsOnDiskHolds`): a path into `accepted` is true for good, and the others wait
  for their importer to refresh them.

### Phones and managers

`WorkerManagerProofs`:

* `WatchersLeaveProtectedPhones` and `OnlyTheOperatorChangesAccounts`, action properties
  over every step of the library and of the managers, with `LibraryInv`: rows are typed,
  and each pass remembers the free status of every phone it may still write.
* `StopReachesEveryManagerHolds`, with `ManagerInv`: the manager of record is the only one with a
  live thread, because `queue_workers_start` tests and starts under one lock; workers
  outlive the thread that joins them only if an error ended it (`MayHaveWorkers`).  This is the safety half of `StopEndsEveryManager`.
* `ManagerTypeCorrect`, from both and `PhoneInv`.

### Only model-checked

* Liveness: `EveryTaskSettles`, `EveryPhoneRecovers`, `AttemptIsJudged`, `RegistryConverges`
  and `StopEndsEveryManager`.  Their proofs need `ENABLED`, which TLAPS does not handle.
* `PublishStepsAssumption` and `StepOrderAssumption` are evaluated by TLC, not proved: they are facts
  about the constant lists of the code.

## 5. Not modelled

* Recognition: OCR, XML of screens, and the AI of `upload_system/upload_system/ai.py`
  are conversions from pictures; the models say what they may find.  TikTok
  itself is external, as is ADB.
* `upload_system`'s own runner, `run_pipeline.py` and the steps of its other
  workflow: the queue never starts them.
* Marketing calibration: an interactive tool that writes a profile; only the
  resulting flag matters to a publication.
* Idle wake-up: it sends key events to a phone that does nothing, and writes no table.
* QR codes, Windows device names, product lookups, pages, downloads and
  templates of the portal, HTTP routing, argument parsing, launchers and `stitch_`:
  they convert, or serve text, and keep no state the properties speak of.
* Schema creation and migration run before anything else.
* The threads of a `WorkerManager` share one process id, which process-based recovery
  compares: `ExecutionQueue` takes an id to be that of one worker, so this is a hazard no
  property covers.
* The status sheet the importer exports, names and health history of phones, and
  ADB tool status are reports that nothing reads back.

## 6. Plan

Models: process ids shared by the threads of a manager, in `ExecutionQueue`, for the
hazard without a property; several operators at once in `QueueOperations`.

Proofs: the theorems of `ExecutionQueue` under the USB monitor where they are now limited
to its absence (what remains of `PhoneRunsIffTaskRuns` beside a check), and what
remains of the timely theorems when a second recoverer overlaps with the first.
