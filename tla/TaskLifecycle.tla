---------------------------- MODULE TaskLifecycle ----------------------------
(***************************************************************************)
(* What the execution queue promises about release tasks, whatever happens *)
(* underneath: a task is worked on by one holder at a time, its outcome is *)
(* recorded by that holder only, it is taken away only from a holder that  *)
(* no longer works on it, and an outcome is final.                         *)
(***************************************************************************)
CONSTANTS Tasks, Phones, Workers, None

VARIABLES
  status,   \* status of every task
  holder,   \* the worker a task is given to
  phone,    \* the phone a task has to be executed on
  working   \* the task a worker believes it holds

vars == <<status, holder, phone, working>>

Waiting == {"pending", "ready"}
FinalStatuses == {"published", "dry_run", "debug_ready", "failed"}

Init ==
  /\ status \in [Tasks -> Waiting]
  /\ holder = [t \in Tasks |-> None]
  /\ phone \in [Tasks -> Phones]
  /\ working = [w \in Workers |-> None]

\* A waiting task is given to a worker if its phone has no other task in work.
Claim(w, t) ==
  /\ status[t] \in Waiting
  /\ \A u \in Tasks : phone[u] = phone[t] => status[u] # "running"
  /\ working[w] = None
  /\ status' = [status EXCEPT ![t] = "running"]
  /\ holder' = [holder EXCEPT ![t] = w]
  /\ working' = [working EXCEPT ![w] = t]
  /\ UNCHANGED phone

\* The holder, and nobody else, ends the work: with an outcome or a retry.
Report(w, s) ==
  LET t == working[w] IN
  /\ t # None
  /\ holder[t] = w
  /\ status[t] = "running"
  /\ s \in FinalStatuses \cup {"pending"}
  /\ status' = [status EXCEPT ![t] = s]
  /\ holder' = [holder EXCEPT ![t] = None]
  /\ working' = [working EXCEPT ![w] = None]
  /\ UNCHANGED phone

\* A worker dies or gives up without telling anybody.
Vanish(w) ==
  /\ working[w] # None
  /\ working' = [working EXCEPT ![w] = None]
  /\ UNCHANGED <<status, holder, phone>>

Abandoned == {t \in Tasks : status[t] = "running" /\ working[holder[t]] # t}

\* Abandoned tasks go back to the queue.
Recover(S) ==
  /\ S # {}
  /\ status' = [t \in Tasks |-> IF t \in S THEN "pending" ELSE status[t]]
  /\ holder' = [t \in Tasks |-> IF t \in S THEN None ELSE holder[t]]
  /\ UNCHANGED <<phone, working>>

\* Waiting tasks are withdrawn from the queue or put back as pending.
Withdraw(S, s) ==
  /\ s \in {"paused", "pending"}
  /\ status' = [t \in Tasks |-> IF t \in S THEN s ELSE status[t]]
  /\ UNCHANGED <<holder, phone, working>>

Next ==
  \/ \E w \in Workers, t \in Tasks : Claim(w, t)
  \/ \E w \in Workers, s \in FinalStatuses \cup {"pending"} : Report(w, s)
  \/ \E w \in Workers : Vanish(w)
  \/ \E S \in SUBSET Abandoned : Recover(S)
  \/ \E S \in SUBSET {t \in Tasks : status[t] \in Waiting} :
       \E s \in {"paused", "pending"} : Withdraw(S, s)

Spec == Init /\ [][Next]_vars

=============================================================================
