----------------------------- MODULE WorkerManager -----------------------------
(* The worker manager (src/execution_queue/worker_manager.py) and the requests *)
(* of the control centre that start and stop it, over the phone library.  The *)
(* requests are served by threads of their own; a manager runs in a thread,   *)
(* starts a worker thread for each phone it selects, and joins them.  What a  *)
(* worker does is ExecutionQueue; here it claims a task of its phone, runs it *)
(* and gives the phone back.                                                  *)
EXTENDS PhoneLibrary

CONSTANTS
  MaxManagers,       \* bound on start requests; each builds a WorkerManager
  max_workers, expected_workers

ASSUME ManagerAssumption ==
  /\ max_workers \in Nat \ {0} /\ expected_workers \in Nat \ {0}
  /\ MaxManagers \in Nat /\ Nobody \notin 1..MaxManagers

Managers == 1..MaxManagers

VARIABLES
  _worker_manager,   \* of the control centre: the manager started last
  manager,           \* each manager: where its request or its thread is
  stopEvent,         \* WorkerManager.stop_event
  worker,            \* each manager's worker of each phone
  asked              \* history: managers with a thread or with workers at work
                     \* when the operator asked to stop

managerVars == <<_worker_manager, manager, stopEvent, worker, asked>>
vars == <<libraryVars, managerVars>>

\* "asked" is a request; "selected" to "joining" are a live thread.
RequestStates == {"new", "planned", "blocked", "refused"}
LiveStates == {"thread", "starting", "building", "waiting", "joining"}
WorkerStates == {"none", "idle", "running", "stopping", "ended"}

NewManager == [at |-> "new", planned |-> {}, phone |-> Nobody]

Init ==
  /\ InitLibrary
  /\ _worker_manager = Nobody
  /\ manager = [m \in Managers |-> NewManager]
  /\ stopEvent = [m \in Managers |-> FALSE]
  /\ worker = [m \in Managers |-> [p \in Phones |-> "none"]]
  /\ asked = {}

IsAt(m, state) == manager[m].at = state
Alive(m) == manager[m].at \in LiveStates
Step(m, memory) == manager' = [manager EXCEPT ![m] = memory]
Move(m, state) == Step(m, [manager[m] EXCEPT !.at = state])

\* Phones on which a task runs: a worker has claimed it.
Running(p) == \E m \in Managers : worker[m][p] \in {"running", "stopping"}
Working(m) == { p \in Phones : worker[m][p] \in {"idle", "running", "stopping"} }

-----------------------------------------------------------------------------
(* queue_workers_start. *)

(* The ready phones, at most max_workers of them, in the order of updated_at. *)
select_phones(S) ==
  LET ready == { p \in Phones : status[p] = "online_idle" } IN
  IF Cardinality(ready) <= max_workers THEN S = ready
  ELSE S \subseteq ready /\ Cardinality(S) = max_workers

Plan(m, S) ==
  /\ IsAt(m, "new") /\ \A n \in 1..(m - 1) : ~IsAt(n, "new")
  /\ select_phones(S) /\ Event
  /\ Step(m, [manager[m] EXCEPT !.at = "planned", !.planned = S])
  /\ UNCHANGED <<rowVars, cable, pass, _worker_manager, stopEvent, worker, asked>>

(* The gate: as many phones as expected, each connected, healthy, without a  *)
(* running task or an active worker.                                         *)
readiness(S) ==
  /\ Cardinality(S) = expected_workers
  /\ \A p \in S : cable[p] = "ready" /\ \A n \in Managers : p \notin Working(n)

(* The gate reads; what it has found may have changed when the thread starts. *)
build_worker_readiness_report(m, gated) ==
  /\ IsAt(m, "planned")
  /\ Move(m, IF (gated => readiness(manager[m].planned)) /\ manager[m].planned # {}
             THEN "ready" ELSE "blocked")
  /\ UNCHANGED <<libraryVars, _worker_manager, stopEvent, worker, asked>>

\* A faulty variant: whoever passed the gate starts its thread.
StartAnyway(m) ==
  /\ IsAt(m, "ready") /\ Move(m, "thread") /\ _worker_manager' = m
  /\ UNCHANGED <<libraryVars, stopEvent, worker, asked>>

(* Under _worker_lock: one thread at a time, and it is the manager of record. *)
StartThread(m) ==
  /\ IsAt(m, "ready")
  /\ IF _worker_manager # Nobody /\ Alive(_worker_manager)
     THEN Move(m, "refused") /\ UNCHANGED _worker_manager
     ELSE Move(m, "thread") /\ _worker_manager' = m
  /\ UNCHANGED <<libraryVars, stopEvent, worker, asked>>

-----------------------------------------------------------------------------
(* run_forever, in the thread. *)

(* The phones are selected once more, and not gated once more.               *)
SelectAgain(m, S) ==
  /\ IsAt(m, "thread") /\ select_phones(S)
  /\ Step(m, [manager[m] EXCEPT !.at = IF S = {} THEN "ended" ELSE "starting", !.planned = S])
  /\ UNCHANGED <<libraryVars, _worker_manager, stopEvent, worker, asked>>

(* The loop looks at the stop event, builds a worker, then lists it.  A      *)
(* worker of another manager that still serves the phone has it refused when *)
(* it registers, and its thread ends.                                        *)
BuildWorker(m, p) ==
  /\ IsAt(m, "starting") /\ ~stopEvent[m] /\ p \in manager[m].planned
  /\ Step(m, [manager[m] EXCEPT !.at = "building", !.phone = p, !.planned = @ \ {p}])
  /\ UNCHANGED <<libraryVars, _worker_manager, stopEvent, worker, asked>>

ListWorker(m) ==
  /\ IsAt(m, "building")
  /\ Step(m, [manager[m] EXCEPT !.at = "starting", !.phone = Nobody])
  /\ worker' = [worker EXCEPT ![m][manager[m].phone] =
                  IF \E n \in Managers \ {m} : manager[m].phone \in Working(n) THEN "ended" ELSE "idle"]
  /\ UNCHANGED <<libraryVars, _worker_manager, stopEvent, asked>>

(* recover_stale, select_phones or a PhoneWorker's constructor raises on the *)
(* database, or a thread does not start.  _run_queue_workers keeps the error *)
(* as the outcome and the thread ends: the workers started so far are        *)
(* neither told nor joined, and run on.                                      *)
RunRaises(m) ==
  /\ IsAt(m, "thread") \/ IsAt(m, "building")
  /\ Step(m, [manager[m] EXCEPT !.at = "failed", !.planned = {}, !.phone = Nobody])
  /\ UNCHANGED <<libraryVars, _worker_manager, stopEvent, worker, asked>>

AllStarted(m) ==
  /\ IsAt(m, "starting") /\ (stopEvent[m] \/ manager[m].planned = {})
  /\ Step(m, [manager[m] EXCEPT !.at = "waiting", !.planned = {}])
  /\ UNCHANGED <<libraryVars, _worker_manager, stopEvent, worker, asked>>

(* PhoneWorker.stop: an idle worker leaves its loop; another finishes its run. *)
Told(m) == [p \in Phones |-> CASE worker[m][p] = "idle" -> "ended"
                               [] worker[m][p] = "running" -> "stopping"
                               [] OTHER -> worker[m][p]]

\* A faulty variant: the manager joins its workers without telling them.
JoinOnly(m) ==
  /\ IsAt(m, "waiting") /\ (stopEvent[m] \/ Working(m) = {})
  /\ Move(m, "joining")
  /\ UNCHANGED <<libraryVars, _worker_manager, stopEvent, worker, asked>>

(* A stop ends the wait; the workers are told once more, then joined.        *)
EndWait(m) ==
  /\ IsAt(m, "waiting") /\ (stopEvent[m] \/ Working(m) = {})
  /\ Move(m, "joining")
  /\ worker' = [worker EXCEPT ![m] = Told(m)]
  /\ UNCHANGED <<libraryVars, _worker_manager, stopEvent, asked>>

Join(m) ==
  /\ IsAt(m, "joining") /\ Working(m) = {}
  /\ Move(m, "ended")
  /\ UNCHANGED <<libraryVars, _worker_manager, stopEvent, worker, asked>>

(* queue_workers_stop, under _worker_lock: the manager of record is told, and *)
(* it tells the workers it has listed.  If its thread has ended, nobody is.  *)
AtWork(m) == Alive(m) \/ Working(m) # {}

queue_workers_stop ==
  /\ \E m \in Managers : AtWork(m) /\ m \notin asked
  /\ asked' = asked \cup { m \in Managers : AtWork(m) }
  /\ IF Alive(_worker_manager)
     THEN /\ stopEvent' = [stopEvent EXCEPT ![_worker_manager] = TRUE]
          /\ worker' = [worker EXCEPT ![_worker_manager] = Told(_worker_manager)]
     ELSE UNCHANGED <<stopEvent, worker>>
  /\ UNCHANGED <<libraryVars, _worker_manager, manager>>

-----------------------------------------------------------------------------
(* Workers (ExecutionQueue has the steps of a run). *)

Claim(m, p) ==
  /\ worker[m][p] = "idle" /\ status[p] = "online_idle" /\ ~Running(p) /\ Event
  /\ SetRow(p, "running") /\ worker' = [worker EXCEPT ![m][p] = "running"]
  /\ UNCHANGED <<account, cable, pass, _worker_manager, manager, stopEvent, asked>>

(* The phone is given back, as error after a failure, which ends the worker  *)
(* (stop_on_failure is the default); one that was told to stop ends as well. *)
Release(m, p, s) ==
  /\ worker[m][p] \in {"running", "stopping"}
  /\ SetRow(p, s)
  /\ worker' = [worker EXCEPT ![m][p] = IF @ = "stopping" \/ s = "error" THEN "ended" ELSE "idle"]
  /\ UNCHANGED <<account, cable, pass, events, _worker_manager, manager, stopEvent, asked>>

-----------------------------------------------------------------------------
MonitorStep ==
  \/ BeginMonitor \/ list_usb_phones
  \/ \E p \in Phones : refresh_usb_phone(p)
  \/ check_health("monitor") \/ record_health("monitor") \/ EndPass("monitor")

SyncStep ==
  \/ \E kind \in {"light", "full"} : sync_phones(kind)
  \/ \E p \in Phones : sync_read(p)
  \/ safe_upsert_from_adb_device \/ find_removed_template \/ sync_add
  \/ EndPass("sync") \/ EndSweep("sync")

OperatorStep ==
  \/ \E p \in Phones :
       \/ \E a \in ACCOUNT_TYPES : AddPhone(p, a) \/ update_phone(p, a)
                                  \/ connect_wireless(p, "pair", a)
       \/ \E s \in {"disabled", "online_idle"} : update_status(p, s)
       \/ health_check(p) \/ BeginRemove(p) \/ mark_existing_wireless_failure(p)
       \/ connect_wireless(p, "connect", "marketing")
       \/ register_next(p) \/ health_next(p)
  \/ health_check_all \/ refresh_devices \/ remove_phone
  \/ upsert_read \/ upsert_from_adb_device
  \/ check_health("operator") \/ record_health("operator")
  \/ EndPass("operator") \/ EndSweep("operator")

LibraryStep ==
  /\ \/ SyncStep \/ OperatorStep
     \/ \E w \in Writers : CheckRaises(w) \/ PassRaises(w)
     \/ \E p \in Phones, c \in Cables : Replug(p, c)
  /\ UNCHANGED managerVars

ManagerStep(m) ==
  \/ \E S \in SUBSET Phones : SelectAgain(m, S)
  \/ \E p \in Phones : BuildWorker(m, p)
  \/ ListWorker(m) \/ AllStarted(m) \/ EndWait(m) \/ Join(m)

StartStep(m) ==
  \/ \E S \in SUBSET Phones : Plan(m, S)
  \/ \E gated \in BOOLEAN : build_worker_readiness_report(m, gated)
  \/ StartThread(m)

RunEnds(m) == \E p \in Phones, s \in {"online_idle", "error"} : Release(m, p, s)

Next ==
  \/ MonitorStep /\ UNCHANGED managerVars
  \/ LibraryStep
  \/ \E m \in Managers :
       \/ StartStep(m) \/ ManagerStep(m) \/ RunRaises(m) \/ RunEnds(m)
       \/ \E p \in Phones : Claim(m, p)
  \/ queue_workers_stop

(* The monitor's loop and a manager's thread go on by themselves, and a run  *)
(* ends at the latest with its timeout.                                      *)
Spec ==
  /\ Init /\ [][Next]_vars
  /\ WF_vars(MonitorStep /\ UNCHANGED managerVars)
  /\ \A m \in Managers : WF_vars(ManagerStep(m)) /\ WF_vars(RunEnds(m))

-----------------------------------------------------------------------------
TypeOK ==
  /\ status \in [Phones -> PHONE_STATUSES \cup {"absent"}]
  /\ account \in [Phones -> ACCOUNT_TYPES]
  /\ cable \in [Phones -> Cables]
  /\ pass \in [Writers ->
       [kind : Kinds, at : Steps, devices : [Phones -> Cables], todo : SUBSET Phones,
        phone : Phones \cup {Nobody},
        seen : [Phones -> PHONE_STATUSES \cup {"absent", "unread"}],
        verdict : {"none", "online_idle", "offline", "error"}, account : ACCOUNT_TYPES]]
  /\ \A w \in Writers : At(w, "record") => Here(w) # Nobody /\ pass[w].verdict # "none"
  /\ events \in 0..MaxEvents
  /\ _worker_manager \in Managers \cup {Nobody}
  /\ manager \in [Managers -> [at : RequestStates \cup LiveStates \cup {"ready", "ended", "failed"},
                               planned : SUBSET Phones, phone : Phones \cup {Nobody}]]
  /\ stopEvent \in [Managers -> BOOLEAN] /\ asked \subseteq Managers
  /\ worker \in [Managers -> [Phones -> WorkerStates]]

(* What nobody but a task, or the operator, may end: a phone that runs, one  *)
(* that was taken out of use, one that was removed.                          *)
Protected == {"running", "disabled", "removed"}

\* The monitor, the sync and their sweep leave a phone that runs, is disabled
\* or is removed as it is, unless it was free when they read its row: a verdict
\* about the past is the only way in which they can take a running phone for
\* idle or bring a removed one back.
ProtectedPhonesAreLeftAlone ==
  [][\A w \in Watchers, p \in Phones :
       pass'[w] # pass[w] /\ status[p] \in Protected /\ status'[p] # status[p]
       => pass[w].seen[p] \in (PHONE_STATUSES \cup {"absent"}) \ Protected]_vars

\* A request that is one transaction leaves its writer as it is.
OperatorActs == pass'["operator"] # pass["operator"] \/ (events' # events /\ pass' = pass)

\* A registered phone keeps its account type through every sync, sweep, check
\* and run: it changes by a request of the operator, or by a sync that found no
\* row of the phone and adds one which has come in the meantime.
AccountIsTheOperators ==
  [][\A p \in Phones :
       Exists(p) /\ account'[p] # account[p]
       => OperatorActs \/ pass["sync"].seen[p] = "absent"]_vars

\* A stop request reaches every manager whose thread lives: the one of record is
\* the only one with a thread, however requests to start overlap, and one that
\* was asked to stop has its stop event set.  No worker is at work without the
\* thread that will tell it to stop and join it, unless an error ended that
\* thread while it started workers.
StopReachesEveryManager ==
  \A m \in Managers :
    /\ Alive(m) => m = _worker_manager /\ (m \in asked => stopEvent[m])
    /\ Working(m) # {} => Alive(m) \/ IsAt(m, "failed")

\* When the cables, the operator and the syncs are quiet, the monitor brings
\* every registered USB phone that is in use and runs no task to the status its
\* health deserves, whatever late verdicts were written before.
RegistryConverges ==
  <>[](\A p \in Phones \ Wireless :
         status[p] \in Protected \cup {"absent", health_to_status(cable[p])})

\* A stop ends every manager thread that was alive when it was asked for: the one
\* of record is the only one, and a worker listed too late is told by its manager.
StopEndsEveryManager ==
  (\E m \in asked : Alive(m)) ~> (\A m \in asked : ~Alive(m))
===============================================================================
