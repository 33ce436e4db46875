------------------------- MODULE WorkerManagerProofs -------------------------
(* Theorems about WorkerManager and the phone library it runs over, for any  *)
(* phones, cables, managers and number of events.                            *)
EXTENDS WorkerManager, FiniteSetTheorems, TLAPS

-----------------------------------------------------------------------------
(* The rows and the memories of the writers have their types. *)

RowStatuses == PHONE_STATUSES \cup {"absent"}
Verdicts == {"online_idle", "offline", "error"}

PassRecord ==
  [kind : Kinds, at : Steps, devices : [Phones -> Cables], todo : SUBSET Phones,
   phone : Phones \cup {Nobody}, seen : [Phones -> RowStatuses \cup {"unread"}],
   verdict : Verdicts \cup {"none"}, account : ACCOUNT_TYPES]

HasVerdict(m) == m.at = "record" => m.verdict \in Verdicts

LibraryTyped ==
  /\ status \in [Phones -> RowStatuses] /\ account \in [Phones -> ACCOUNT_TYPES]
  /\ cable \in [Phones -> Cables] /\ events \in Nat
  /\ pass \in [Writers -> PassRecord] /\ \A w \in Writers : HasVerdict(pass[w])

\* The verdict about a phone is a status of a phone.
LEMMA VerdictTyped ==
  ASSUME NEW c
  PROVE  health_to_status(c) \in Verdicts /\ status_from_adb_state(c) \in Verdicts
BY DEF health_to_status, status_from_adb_state, Verdicts

\* ... which every verdict is.
LEMMA VerdictIsStatus == Verdicts \subseteq RowStatuses
BY DEF Verdicts, RowStatuses, PHONE_STATUSES

\* What a writer may have in its memory next.
LEMMA BecomesTyped ==
  ASSUME LibraryTyped, NEW w \in Writers, NEW m \in PassRecord, HasVerdict(m), Become(w, m)
  PROVE  /\ pass' \in [Writers -> PassRecord] /\ \A v \in Writers : HasVerdict(pass'[v])
         /\ pass'[w] = m /\ \A v \in Writers \ {w} : pass'[v] = pass[v]
BY DEF LibraryTyped, Become

\* A writer without a request has a memory, too.
LEMMA NoPassTyped == NoPass \in PassRecord /\ HasVerdict(NoPass)
BY DEF NoPass, PassRecord, HasVerdict, Kinds, Steps, Cables, RowStatuses, Verdicts, ACCOUNT_TYPES

\* The end of a request, and the next phone of a pass.
LEMMA FinishTyped ==
  ASSUME LibraryTyped, NEW w \in Writers, Finish(w)
  PROVE  /\ pass' \in [Writers -> PassRecord] /\ \A v \in Writers : HasVerdict(pass'[v])
         /\ pass'[w] = NoPass /\ \A v \in Writers \ {w} : pass'[v] = pass[v]
BY BecomesTyped, NoPassTyped DEF Finish

\* What it remembers of the phone is dropped, of the others kept.
LEMMA NextPhoneTyped ==
  ASSUME LibraryTyped, NEW w \in Writers, NextPhone(w)
  PROVE  /\ pass' \in [Writers -> PassRecord] /\ \A v \in Writers : HasVerdict(pass'[v])
         /\ \A v \in Writers \ {w} : pass'[v] = pass[v]
         /\ \/ pass'[w] = NoPass
            \/ /\ pass'[w].at = "loop" /\ pass'[w].kind = pass[w].kind
               /\ pass'[w].todo = pass[w].todo \ {Here(w)}
               /\ \A p \in Phones \ {Here(w)} : pass'[w].seen[p] = pass[w].seen[p]
<1> DEFINE m == [pass[w] EXCEPT !.at = "loop", !.todo = @ \ {Here(w)}, !.phone = Nobody,
                   !.seen[Here(w)] = "unread", !.verdict = "none", !.account = "marketing"]
<1>1. CASE Finish(w)
  BY <1>1, FinishTyped
<1>2. CASE Become(w, m)
  <2>1. pass[w] \in PassRecord
    BY DEF LibraryTyped
  <2>2. m \in PassRecord /\ HasVerdict(m)
    BY <2>1 DEF PassRecord, HasVerdict, Steps, ACCOUNT_TYPES, Verdicts
  <2>3. /\ m.at = "loop" /\ m.kind = pass[w].kind /\ m.todo = pass[w].todo \ {Here(w)}
        /\ \A p \in Phones \ {Here(w)} : m.seen[p] = pass[w].seen[p]
    BY <2>1 DEF PassRecord
  <2> HIDE DEF m
  <2> QED BY <1>2, <2>2, <2>3, BecomesTyped
<1> QED BY <1>1, <1>2 DEF NextPhone

-----------------------------------------------------------------------------
(* What the monitor and the sync have read of the phones they write.         *)

Free == RowStatuses \ Protected

MonitorSaw ==
  LET m == pass["monitor"] IN
  /\ m.kind \in {"none", "refresh_usb"}
  /\ m.at \in {"list", "loop", "check", "record"}
  /\ m.at # "list" => \A p \in m.todo : m.seen[p] \in Free
  /\ m.at \in {"check", "record"} => m.phone \in m.todo

SyncSaw ==
  LET m == pass["sync"] IN
  /\ m.kind \in {"none", "light", "full"}
  /\ m.at \in {"loop", "write", "template", "add"}
  /\ m.at # "loop" => m.phone \in Phones
  /\ m.at = "write" => m.seen[m.phone] \in PHONE_STATUSES
  /\ m.at \in {"template", "add"} => m.seen[m.phone] = "absent"

LibraryInv == LibraryTyped /\ MonitorSaw /\ SyncSaw

\* It has nothing left to do.
LEMMA NoPassSaw ==
  /\ NoPass.kind = "none" /\ NoPass.at = "loop" /\ NoPass.todo = {}
BY DEF NoPass

\* A step of the monitor writes only phones that were free when it listed them.
LEMMA MonitorKeeps ==
  ASSUME LibraryInv, MonitorStep
  PROVE  /\ LibraryInv' /\ account' = account
         /\ \A w \in Writers \ {"monitor"} : pass'[w] = pass[w]
         /\ \A p \in Phones : status'[p] # status[p] => pass["monitor"].seen[p] \in Free
<1> DEFINE w == "monitor"
           old == pass[w]
<1>1. w \in Writers /\ "sync" \in Writers /\ "sync" # w
  BY DEF Writers, Watchers
<1>2. LibraryTyped /\ MonitorSaw /\ SyncSaw /\ old \in PassRecord /\ HasVerdict(old)
  BY <1>1 DEF LibraryInv, LibraryTyped
<1> USE <1>1
\* A step that only remembers.
<1>3. ASSUME NEW m \in PassRecord, HasVerdict(m), Become(w, m), UNCHANGED <<rowVars, cable, events>>,
             m.kind \in {"none", "refresh_usb"}, m.at \in {"list", "loop", "check", "record"},
             m.at # "list" => \A p \in m.todo : m.seen[p] \in Free,
             m.at \in {"check", "record"} => m.phone \in m.todo
      PROVE  /\ LibraryInv' /\ UNCHANGED rowVars
             /\ \A v \in Writers \ {w} : pass'[v] = pass[v]
  <2>1. /\ pass' \in [Writers -> PassRecord] /\ \A v \in Writers : HasVerdict(pass'[v])
        /\ pass'[w] = m /\ \A v \in Writers \ {w} : pass'[v] = pass[v]
    BY <1>2, <1>3, BecomesTyped
  <2>2. LibraryTyped'
    BY <1>2, <1>3, <2>1 DEF LibraryTyped, rowVars
  <2>3. MonitorSaw' /\ SyncSaw'
    BY <1>2, <1>3, <2>1 DEF MonitorSaw, SyncSaw
  <2> QED BY <1>3, <2>1, <2>2, <2>3 DEF LibraryInv
<1>4. CASE BeginMonitor
  <2> DEFINE m == [NoPass EXCEPT !.kind = "refresh_usb", !.at = "list",
                     !.devices = [p \in Phones |-> IF p \in Wireless THEN "missing" ELSE cable[p]]]
  <2>1. m \in PassRecord /\ HasVerdict(m) /\ m.kind = "refresh_usb" /\ m.at = "list"
    <3>1. [p \in Phones |-> IF p \in Wireless THEN "missing" ELSE cable[p]] \in [Phones -> Cables]
      BY <1>2 DEF LibraryTyped, Cables
    <3>2. NoPass \in PassRecord /\ "refresh_usb" \in Kinds /\ "list" \in Steps
      BY NoPassTyped DEF Kinds, Steps
    <3> QED BY <3>1, <3>2 DEF PassRecord, HasVerdict
  <2> HIDE DEF m
  <2>2. Become(w, m) /\ UNCHANGED <<rowVars, cable, events>>
    BY <1>4 DEF BeginMonitor, m
  <2> QED BY <1>3, <2>1, <2>2 DEF rowVars
<1>5. CASE list_usb_phones
  <2> DEFINE listed == { p \in Phones \ Wireless : Monitored(p) }
             m == [old EXCEPT !.at = "loop", !.todo = listed,
                     !.seen = [p \in Phones |-> IF p \in listed THEN status[p] ELSE "unread"]]
  <2>1. \A p \in listed : status[p] \in Free
    BY <1>2 DEF Monitored, Free, Protected, RowStatuses
  <2>2. m \in PassRecord /\ HasVerdict(m)
    BY <1>2 DEF PassRecord, HasVerdict, Steps, LibraryTyped
  <2>3. /\ m.at = "loop" /\ m.kind = old.kind /\ m.todo = listed
        /\ \A p \in listed : m.seen[p] = status[p]
    BY <1>2 DEF PassRecord
  <2> HIDE DEF m
  <2>4. Become(w, m) /\ UNCHANGED <<rowVars, cable, events>>
    BY <1>5 DEF list_usb_phones, m
  <2> QED BY <1>2, <1>3, <2>1, <2>2, <2>3, <2>4 DEF rowVars, MonitorSaw
<1>6. ASSUME NEW p \in Phones, refresh_usb_phone(p)
      PROVE  LibraryInv' /\ UNCHANGED rowVars /\ \A v \in Writers \ {w} : pass'[v] = pass[v]
  <2> DEFINE here == [old EXCEPT !.phone = p]
             check == [here EXCEPT !.at = "check"]
             gone == [here EXCEPT !.at = "record", !.verdict = "offline"]
  <2>1. ASSUME NEW m \in {check, gone}
        PROVE  /\ m \in PassRecord /\ HasVerdict(m) /\ m.kind = old.kind /\ m.at \in {"check", "record"}
               /\ m.phone = p /\ m.todo = old.todo /\ m.seen = old.seen
    <3>1. "check" \in Steps /\ "record" \in Steps /\ "offline" \in Verdicts
      BY DEF Steps, Verdicts
    <3>2. CASE m = check
      BY <1>2, <3>1, <3>2 DEF PassRecord, HasVerdict
    <3>3. CASE m = gone
      BY <1>2, <3>1, <3>3 DEF PassRecord, HasVerdict
    <3> QED BY <2>1, <3>2, <3>3
  <2>2. PICK m \in {check, gone} : Become(w, m)
    BY <1>6 DEF refresh_usb_phone
  <2>3. old.at = "loop" /\ p \in old.todo /\ UNCHANGED <<rowVars, cable, events>>
    BY <1>6 DEF refresh_usb_phone, At
  <2> HIDE DEF check, gone
  <2> QED BY <1>2, <1>3, <2>1, <2>2, <2>3 DEF MonitorSaw
<1>7. CASE check_health(w)
  <2> DEFINE m == [old EXCEPT !.at = "record", !.verdict = health_to_status(cable[Here(w)])]
  <2>1. /\ m \in PassRecord /\ HasVerdict(m) /\ m.kind = old.kind /\ m.at = "record"
        /\ m.phone = old.phone /\ m.todo = old.todo /\ m.seen = old.seen
    BY <1>2, VerdictTyped DEF PassRecord, HasVerdict, Steps
  <2> HIDE DEF m
  <2>2. Become(w, m) /\ old.at = "check" /\ UNCHANGED <<rowVars, cable, events>>
    BY <1>7 DEF check_health, At, m
  <2> QED BY <1>2, <1>3, <2>1, <2>2 DEF MonitorSaw, rowVars
<1>8. CASE record_health(w)
  <2>1. /\ old.at = "record" /\ SetRow(Here(w), old.verdict) /\ NextPhone(w)
        /\ UNCHANGED <<account, cable, events>>
    BY <1>8 DEF record_health, At
  <2>2. old.phone \in old.todo /\ old.seen[old.phone] \in Free /\ old.phone \in Phones
        /\ old.verdict \in RowStatuses
    BY <1>2, <2>1, VerdictIsStatus DEF MonitorSaw, HasVerdict, PassRecord
  <2>3. status' \in [Phones -> RowStatuses]
        /\ \A p \in Phones : status'[p] # status[p] => p = old.phone
    BY <1>2, <2>1, <2>2 DEF SetRow, Here, LibraryTyped
  <2>4. LibraryTyped' /\ \A v \in Writers \ {w} : pass'[v] = pass[v]
    BY <1>2, <2>1, <2>3, NextPhoneTyped DEF LibraryTyped
  <2>5. MonitorSaw'
    <3>1. CASE pass'[w] = NoPass
      BY <3>1, NoPassSaw DEF MonitorSaw
    <3>2. CASE /\ pass'[w].at = "loop" /\ pass'[w].kind = old.kind
               /\ pass'[w].todo = old.todo \ {Here(w)}
               /\ \A p \in Phones \ {Here(w)} : pass'[w].seen[p] = old.seen[p]
      BY <1>2, <2>1, <3>2 DEF MonitorSaw, PassRecord
    <3> QED BY <1>2, <2>1, <3>1, <3>2, NextPhoneTyped
  <2> QED BY <1>2, <2>1, <2>2, <2>3, <2>4, <2>5 DEF LibraryInv, SyncSaw
<1>9. CASE EndPass(w)
  <2>1. Become(w, NoPass) /\ UNCHANGED <<rowVars, cable, events>>
    BY <1>9 DEF EndPass, Finish
  <2> QED BY <1>3, <2>1, NoPassTyped, NoPassSaw DEF rowVars
<1> QED BY <1>4, <1>5, <1>6, <1>7, <1>8, <1>9 DEF MonitorStep, rowVars

\* A step of the sync writes a phone it has read only if that was free, and
\* gives an account only to a phone it has found no row of.
LEMMA SyncKeeps ==
  ASSUME LibraryInv, SyncStep
  PROVE  /\ LibraryInv'
         /\ \A w \in Writers \ {"sync"} : pass'[w] = pass[w]
         /\ \A p \in Phones : status[p] \in Protected /\ status'[p] # status[p] =>
              pass["sync"].seen[p] \in Free
         /\ \A p \in Phones : account'[p] # account[p] => pass["sync"].seen[p] = "absent"
<1> DEFINE w == "sync"
           old == pass[w]
           Kept == /\ LibraryInv' /\ UNCHANGED rowVars
                   /\ \A v \in Writers \ {w} : pass'[v] = pass[v]
<1>1. w \in Writers /\ "monitor" \in Writers /\ "monitor" # w
  BY DEF Writers, Watchers
<1>2. LibraryTyped /\ MonitorSaw /\ SyncSaw /\ old \in PassRecord /\ HasVerdict(old)
  BY <1>1 DEF LibraryInv, LibraryTyped
<1> USE <1>1
\* A step that only remembers.
<1>3. ASSUME NEW m \in PassRecord, HasVerdict(m), Become(w, m), UNCHANGED <<rowVars, cable>>,
             Event \/ UNCHANGED events,
             m.kind \in {"none", "light", "full"}, m.at \in {"loop", "write", "template", "add"},
             m.at # "loop" => m.phone \in Phones,
             m.at = "write" => m.seen[m.phone] \in PHONE_STATUSES,
             m.at \in {"template", "add"} => m.seen[m.phone] = "absent"
      PROVE  Kept
  <2>1. /\ pass' \in [Writers -> PassRecord] /\ \A v \in Writers : HasVerdict(pass'[v])
        /\ pass'[w] = m /\ \A v \in Writers \ {w} : pass'[v] = pass[v]
    BY <1>2, <1>3, BecomesTyped
  <2>2. LibraryTyped'
    BY <1>2, <1>3, <2>1 DEF LibraryTyped, rowVars, Event
  <2>3. MonitorSaw' /\ SyncSaw'
    BY <1>2, <1>3, <2>1 DEF MonitorSaw, SyncSaw
  <2> QED BY <1>3, <2>1, <2>2, <2>3 DEF LibraryInv
\* A step that writes and goes on to the next phone, or ends the pass.
<1>4. ASSUME status' \in [Phones -> RowStatuses], account' \in [Phones -> ACCOUNT_TYPES],
             UNCHANGED <<cable, events>>, NextPhone(w) \/ Finish(w)
      PROVE  LibraryInv' /\ \A v \in Writers \ {w} : pass'[v] = pass[v]
  <2>1. /\ pass' \in [Writers -> PassRecord] /\ \A v \in Writers : HasVerdict(pass'[v])
        /\ \A v \in Writers \ {w} : pass'[v] = pass[v]
        /\ \/ pass'[w] = NoPass
           \/ pass'[w].at = "loop" /\ pass'[w].kind = old.kind
    BY <1>2, <1>4, NextPhoneTyped, FinishTyped
  <2>2. LibraryTyped'
    BY <1>2, <1>4, <2>1 DEF LibraryTyped
  <2>3. MonitorSaw' /\ SyncSaw'
    BY <1>2, <2>1, NoPassSaw DEF MonitorSaw, SyncSaw
  <2> QED BY <2>1, <2>2, <2>3 DEF LibraryInv
<1>5. ASSUME NEW kind \in {"light", "full"}, sync_phones(kind) PROVE Kept
  <2> DEFINE m == [NoPass EXCEPT !.kind = kind, !.devices = cable, !.todo = Connected(cable)]
  <2>1. m \in PassRecord /\ HasVerdict(m) /\ m.kind = kind /\ m.at = "loop"
    BY <1>2, NoPassTyped, NoPassSaw
       DEF PassRecord, HasVerdict, Kinds, LibraryTyped, Connected
  <2> HIDE DEF m
  <2>2. Become(w, m) /\ UNCHANGED <<rowVars, cable>> /\ Event
    BY <1>5 DEF sync_phones, m
  <2> QED BY <1>3, <2>1, <2>2
<1>6. ASSUME NEW p \in Phones, sync_read(p) PROVE Kept
  <2> DEFINE skip == [old EXCEPT !.todo = @ \ {p}]
             here == [old EXCEPT !.phone = p, !.seen[p] = status[p]]
             read == [here EXCEPT !.at = IF Exists(p) THEN "write" ELSE "template"]
  <2>1. old.at = "loop" /\ UNCHANGED <<rowVars, cable, events>> /\ (Become(w, skip) \/ Become(w, read))
    BY <1>6 DEF sync_read, At
  <2>2. skip \in PassRecord /\ HasVerdict(skip) /\ skip.kind = old.kind /\ skip.at = "loop"
    BY <1>2, <2>1 DEF PassRecord, HasVerdict
  <2>3. status[p] \in RowStatuses /\ (Exists(p) <=> status[p] # "absent")
    BY <1>2 DEF LibraryTyped, Exists
  <2>4. /\ read \in PassRecord /\ HasVerdict(read) /\ read.kind = old.kind /\ read.phone = p
        /\ read.at = (IF Exists(p) THEN "write" ELSE "template") /\ read.seen[p] = status[p]
    BY <1>2, <2>3 DEF PassRecord, HasVerdict, Steps
  <2> HIDE DEF skip, read
  <2>5. CASE Become(w, skip)
    BY <1>2, <1>3, <2>1, <2>2, <2>5 DEF SyncSaw
  <2>6. CASE Become(w, read)
    BY <1>2, <1>3, <2>1, <2>3, <2>4, <2>6 DEF SyncSaw, RowStatuses
  <2> QED BY <2>1, <2>5, <2>6
<1>7. CASE safe_upsert_from_adb_device
  <2>1. /\ old.at = "write" /\ NextPhone(w) /\ UNCHANGED <<account, cable, events>>
        /\ IF old.seen[old.phone] \in {"running", "disabled", "removed"} THEN UNCHANGED status
           ELSE SetRow(old.phone, status_from_adb_state(DeviceHere(w)))
    BY <1>7 DEF safe_upsert_from_adb_device, At, Seen, Here
  <2>2. old.seen[old.phone] \in PHONE_STATUSES
    BY <1>2, <2>1 DEF SyncSaw
  <2>3. status_from_adb_state(DeviceHere(w)) \in RowStatuses
    BY VerdictTyped, VerdictIsStatus
  <2>4. /\ status' \in [Phones -> RowStatuses]
        /\ \A p \in Phones : status'[p] # status[p] => p = old.phone /\ old.seen[p] \notin Protected
    BY <1>2, <2>1, <2>3 DEF SetRow, LibraryTyped, Protected
  <2>5. LibraryInv' /\ \A v \in Writers \ {w} : pass'[v] = pass[v]
    BY <1>2, <1>4, <2>1, <2>4 DEF LibraryTyped
  <2> QED BY <2>1, <2>2, <2>4, <2>5 DEF Free, RowStatuses
<1>8. CASE find_removed_template
  <2> DEFINE from == Templates(Here(w))
             a == IF Cardinality(from) = 1 THEN account[CHOOSE q \in from : TRUE] ELSE "marketing"
             m == [old EXCEPT !.at = "add", !.account = a]
  <2>1. a \in ACCOUNT_TYPES
    <3>1. Cardinality({}) # 1
      BY FS_EmptySet
    <3>2. from \subseteq Phones
      BY DEF Templates
    <3>3. Cardinality(from) = 1 => (CHOOSE q \in from : TRUE) \in Phones
      BY <3>1, <3>2
    <3> QED BY <1>2, <3>3 DEF LibraryTyped, ACCOUNT_TYPES
  <2> HIDE DEF a
  <2>2. /\ m \in PassRecord /\ HasVerdict(m) /\ m.kind = old.kind /\ m.at = "add"
        /\ m.phone = old.phone /\ m.seen = old.seen
    BY <1>2, <2>1 DEF PassRecord, HasVerdict, Steps
  <2>3. old.at = "template" /\ Become(w, m) /\ UNCHANGED <<rowVars, cable, events>>
    BY <1>8 DEF find_removed_template, At, a
  <2> HIDE DEF m
  <2>4. Kept
    BY <1>2, <1>3, <2>2, <2>3 DEF SyncSaw
  <2> QED BY <2>4 DEF rowVars
<1>9. CASE sync_add
  <2>1. /\ old.at = "add" /\ NextPhone(w) /\ UNCHANGED <<cable, events>>
        /\ SetRow(old.phone, status_from_adb_state(DeviceHere(w)))
        /\ SetAccount(old.phone, old.account)
    BY <1>9 DEF sync_add, At, Here, add_phone
  <2>2. old.seen[old.phone] = "absent" /\ old.account \in ACCOUNT_TYPES
    BY <1>2, <2>1 DEF SyncSaw, PassRecord
  <2>3. status_from_adb_state(DeviceHere(w)) \in RowStatuses
    BY VerdictTyped, VerdictIsStatus
  <2>4. /\ status' \in [Phones -> RowStatuses] /\ account' \in [Phones -> ACCOUNT_TYPES]
        /\ \A p \in Phones : status'[p] # status[p] \/ account'[p] # account[p] => p = old.phone
    BY <1>2, <2>1, <2>2, <2>3 DEF SetRow, SetAccount, LibraryTyped
  <2>5. LibraryInv' /\ \A v \in Writers \ {w} : pass'[v] = pass[v]
    BY <1>4, <2>1, <2>4
  <2> QED BY <2>2, <2>4, <2>5 DEF Free, RowStatuses, Protected
<1>10. CASE EndPass(w)
  <2>1. Finish(w) /\ UNCHANGED <<rowVars, cable, events>>
    BY <1>10 DEF EndPass
  <2>2. LibraryInv' /\ \A v \in Writers \ {w} : pass'[v] = pass[v]
    BY <1>2, <1>4, <2>1 DEF LibraryTyped, rowVars
  <2> QED BY <2>1, <2>2 DEF rowVars
<1>11. CASE EndSweep(w)
  <2>1. /\ mark_missing_usb_devices_offline(old.devices) /\ Finish(w)
        /\ UNCHANGED <<account, cable, events>>
    BY <1>11 DEF EndSweep
  <2>2. /\ status' \in [Phones -> RowStatuses]
        /\ \A p \in Phones : status'[p] # status[p] => status[p] \notin Protected
    BY <1>2, <2>1
       DEF mark_missing_usb_devices_offline, LibraryTyped, RowStatuses, PHONE_STATUSES, Protected
  <2>3. LibraryInv' /\ \A v \in Writers \ {w} : pass'[v] = pass[v]
    BY <1>2, <1>4, <2>1, <2>2 DEF LibraryTyped
  <2> QED BY <2>1, <2>2, <2>3
<1> QED BY <1>5, <1>6, <1>7, <1>8, <1>9, <1>10, <1>11 DEF SyncStep, rowVars

\* A request of the operator leaves what the watchers have read alone, and
\* shows when it changes an account.
LEMMA OperatorKeeps ==
  ASSUME LibraryInv, OperatorStep
  PROVE  /\ LibraryInv' /\ \A w \in Watchers : pass'[w] = pass[w]
         /\ account' # account => OperatorActs
<1> DEFINE w == "operator"
           old == pass[w]
           Kept == /\ LibraryInv' /\ \A v \in Watchers : pass'[v] = pass[v]
                   /\ account' # account => OperatorActs
           Typed == /\ status' \in [Phones -> RowStatuses] /\ account' \in [Phones -> ACCOUNT_TYPES]
                    /\ UNCHANGED cable /\ (Event \/ UNCHANGED events)
<1>1. w \in Writers /\ \A v \in Watchers : v \in Writers \ {w} /\ v \in {"monitor", "sync"}
  BY DEF Writers, Watchers
<1>2. /\ LibraryTyped /\ MonitorSaw /\ SyncSaw /\ old \in PassRecord /\ HasVerdict(old)
      /\ \A p \in Phones : status[p] \in RowStatuses
  BY <1>1 DEF LibraryInv, LibraryTyped
<1> USE <1>1
\* What a request remembers is typed, and its account is changed in a step
\* that ends it, goes on with it, or begins it.
<1>3. ASSUME Typed, pass' \in [Writers -> PassRecord], \A v \in Writers : HasVerdict(pass'[v]),
             \A v \in Writers \ {w} : pass'[v] = pass[v],
             account' # account => pass'[w] # old \/ Event
      PROVE  Kept
  <2>1. LibraryTyped'
    BY <1>2, <1>3 DEF LibraryTyped, Event
  <2>2. MonitorSaw' /\ SyncSaw'
    <3>1. pass'["monitor"] = pass["monitor"] /\ pass'["sync"] = pass["sync"]
      BY <1>3 DEF Watchers, Writers
    <3> QED BY <1>2, <3>1 DEF MonitorSaw, SyncSaw
  <2>3. pass'[w] = old => pass' = pass
    BY <1>2, <1>3 DEF LibraryTyped
  <2>4. Event => events' # events
    BY <1>2 DEF Event, LibraryTyped
  <2>5. account' # account => OperatorActs
    BY <1>3, <2>3, <2>4 DEF OperatorActs
  <2> QED BY <1>3, <2>1, <2>2, <2>5 DEF LibraryInv
<1>4. ASSUME NEW m \in PassRecord, HasVerdict(m), Become(w, m), Typed,
             account' # account => m # old \/ Event
      PROVE  Kept
  BY <1>2, <1>3, <1>4, BecomesTyped
<1>5. ASSUME Typed, NextPhone(w) \/ Finish(w), account' # account => old.at # "loop"
      PROVE  Kept
  <2>1. /\ pass' \in [Writers -> PassRecord] /\ \A v \in Writers : HasVerdict(pass'[v])
        /\ \A v \in Writers \ {w} : pass'[v] = pass[v]
        /\ pass'[w] = NoPass \/ pass'[w].at = "loop"
    BY <1>2, <1>5, NextPhoneTyped, FinishTyped
  <2> QED BY <1>3, <1>5, <2>1, NoPassSaw
<1>6. \A p \in Phones, step \in Steps \ {"record"}, kind \in Kinds :
        About(p, kind, step) \in PassRecord /\ HasVerdict(About(p, kind, step))
  BY NoPassTyped DEF About, PassRecord, HasVerdict
<1>7. UNCHANGED rowVars => status' \in [Phones -> RowStatuses] /\ account' \in [Phones -> ACCOUNT_TYPES]
  BY <1>2 DEF rowVars, LibraryTyped
<1>8. \A p, s : s \in RowStatuses /\ SetRow(p, s) => status' \in [Phones -> RowStatuses]
  BY <1>2 DEF SetRow, LibraryTyped
<1>9. \A p, a : a \in ACCOUNT_TYPES /\ SetAccount(p, a) => account' \in [Phones -> ACCOUNT_TYPES]
  BY <1>2 DEF SetAccount, LibraryTyped
<1>10. status \in [Phones -> RowStatuses] /\ account \in [Phones -> ACCOUNT_TYPES]
       /\ cable \in [Phones -> Cables]
  BY <1>2 DEF LibraryTyped
<1>11. ASSUME NEW p \in Phones, NEW a \in ACCOUNT_TYPES, AddPhone(p, a) PROVE Kept
  <2>1. "offline" \in RowStatuses /\ "add" \in Kinds /\ "check" \in Steps \ {"record"}
    BY DEF RowStatuses, PHONE_STATUSES, Kinds, Steps
  <2>2. Become(w, About(p, "add", "check")) /\ Typed /\ Event
    BY <1>8, <1>9, <1>11, <2>1 DEF AddPhone, add_phone, Request
  <2> QED BY <1>4, <1>6, <2>1, <2>2
<1>12. ASSUME NEW p \in Phones, NEW a \in ACCOUNT_TYPES, update_phone(p, a) PROVE Kept
  BY <1>4, <1>9, <1>10, <1>12, NoPassTyped DEF update_phone, Request
<1>13. ASSUME NEW p \in Phones, NEW a \in ACCOUNT_TYPES, NEW kind \in {"pair", "connect"},
              connect_wireless(p, kind, a)
       PROVE  Kept
  <2> DEFINE m == [About(p, kind, "read") EXCEPT !.devices = cable, !.account = a]
  <2>1. "read" \in Steps \ {"record"} /\ kind \in Kinds
    BY DEF Steps, Kinds
  <2>2. m \in PassRecord /\ HasVerdict(m)
    BY <1>6, <1>10, <2>1 DEF PassRecord, HasVerdict, About, NoPass
  <2>3. Become(w, m) /\ Typed /\ Event
    BY <1>7, <1>13 DEF connect_wireless, Request
  <2> QED BY <1>4, <2>2, <2>3
<1>14. ASSUME NEW p \in Phones, NEW s \in {"disabled", "online_idle"}, update_status(p, s) PROVE Kept
  <2>1. s \in RowStatuses
    BY DEF RowStatuses, PHONE_STATUSES
  <2> QED BY <1>4, <1>8, <1>10, <1>14, <2>1, NoPassTyped DEF update_status, Request
<1>15. ASSUME NEW p \in Phones, health_check(p) \/ BeginRemove(p) PROVE Kept
  <2>1. {"health", "remove"} \subseteq Kinds /\ {"check", "write"} \subseteq Steps \ {"record"}
    BY DEF Kinds, Steps
  <2>2. Typed /\ Event /\ (Become(w, About(p, "health", "check")) \/ Become(w, About(p, "remove", "write")))
    BY <1>7, <1>15 DEF health_check, BeginRemove, Request
  <2> QED BY <1>4, <1>6, <2>1, <2>2
<1>16. ASSUME NEW p \in Phones, mark_existing_wireless_failure(p) PROVE Kept
  <2>1. "error" \in RowStatuses
    BY DEF RowStatuses, PHONE_STATUSES
  <2> QED BY <1>4, <1>8, <1>10, <1>16, <2>1, NoPassTyped DEF mark_existing_wireless_failure, Request
<1>17. ASSUME NEW p \in Phones, register_next(p) \/ health_next(p) PROVE Kept
  <2> DEFINE m(step) == [old EXCEPT !.phone = p, !.at = step]
  <2>1. \A step \in {"read", "check"} : m(step) \in PassRecord /\ HasVerdict(m(step))
    BY <1>2 DEF PassRecord, HasVerdict, Steps
  <2>2. UNCHANGED <<rowVars, cable, events>> /\ \E step \in {"read", "check"} : Become(w, m(step))
    BY <1>17 DEF register_next, health_next
  <2> HIDE DEF m
  <2> QED BY <1>4, <1>7, <2>1, <2>2 DEF rowVars
<1>18. CASE health_check_all \/ refresh_devices
  <2> DEFINE all == [NoPass EXCEPT !.kind = "health_all",
                !.todo = { p \in Phones : status[p] \notin {"absent", "disabled", "removed"} }]
             found == [NoPass EXCEPT !.kind = "register", !.devices = cable, !.todo = Connected(cable)]
  <2>1. all \in PassRecord /\ HasVerdict(all) /\ found \in PassRecord /\ HasVerdict(found)
    <3>1. {"health_all", "register"} \subseteq Kinds /\ Connected(cable) \subseteq Phones
      BY DEF Kinds, Connected
    <3> QED BY <1>10, <3>1, NoPassTyped DEF PassRecord, HasVerdict
  <2>2. Typed /\ Event /\ \E m \in {all, found} : Become(w, m)
    BY <1>7, <1>18 DEF health_check_all, refresh_devices, Request
  <2> HIDE DEF all, found
  <2> QED BY <1>4, <2>1, <2>2
<1>19. CASE remove_phone
  <2>1. "removed" \in RowStatuses
    BY DEF RowStatuses, PHONE_STATUSES
  <2> QED BY <1>5, <1>8, <1>10, <1>19, <2>1 DEF remove_phone
<1>20. CASE upsert_read
  <2> DEFINE m(step) == [old EXCEPT !.at = step]
  <2>1. \A step \in {"write", "add"} : m(step) \in PassRecord /\ HasVerdict(m(step))
    BY <1>2 DEF PassRecord, HasVerdict, Steps
  <2>2. UNCHANGED <<rowVars, cable, events>> /\ \E step \in {"write", "add"} : Become(w, m(step))
    BY <1>20 DEF upsert_read
  <2> HIDE DEF m
  <2> QED BY <1>4, <1>7, <2>1, <2>2 DEF rowVars
<1>21. CASE upsert_from_adb_device
  <2> DEFINE m == [old EXCEPT !.at = "check"]
  <2>1. old.at \in {"write", "add"} /\ UNCHANGED <<cable, events>>
    BY <1>21 DEF upsert_from_adb_device, At
  <2>2. status' \in [Phones -> RowStatuses]
    BY <1>8, <1>21, VerdictTyped, VerdictIsStatus DEF upsert_from_adb_device
  <2>3. account' \in [Phones -> ACCOUNT_TYPES]
    <3>1. old.account \in ACCOUNT_TYPES
      BY <1>2 DEF PassRecord
    <3> QED BY <1>9, <1>10, <1>21, <3>1 DEF upsert_from_adb_device
  <2>4. m \in PassRecord /\ HasVerdict(m) /\ m.at = "check"
    BY <1>2 DEF PassRecord, HasVerdict, Steps
  <2>5. CASE Go(w, "check")
    <3> HIDE DEF m
    <3>1. Become(w, m)
      BY <2>5 DEF Go, m
    <3> QED BY <1>4, <2>1, <2>2, <2>3, <2>4, <3>1
  <2>6. CASE NextPhone(w)
    BY <1>5, <2>1, <2>2, <2>3, <2>6
  <2> QED BY <1>21, <2>5, <2>6 DEF upsert_from_adb_device
<1>22. CASE check_health(w)
  <2> DEFINE m == [old EXCEPT !.at = "record", !.verdict = health_to_status(cable[Here(w)])]
  <2>1. m \in PassRecord /\ HasVerdict(m)
    BY <1>2, VerdictTyped DEF PassRecord, HasVerdict, Steps
  <2> HIDE DEF m
  <2>2. Become(w, m) /\ UNCHANGED <<rowVars, cable, events>>
    BY <1>22 DEF check_health, m
  <2> QED BY <1>4, <1>7, <2>1, <2>2 DEF rowVars
<1>23. CASE record_health(w)
  <2>1. old.verdict \in RowStatuses
    BY <1>2, <1>23, VerdictIsStatus DEF record_health, At, HasVerdict
  <2> QED BY <1>5, <1>8, <1>10, <1>23, <2>1 DEF record_health
<1>24. CASE EndPass(w)
  BY <1>5, <1>7, <1>24 DEF EndPass, rowVars
<1>25. CASE EndSweep(w)
  <2>1. status' \in [Phones -> RowStatuses]
    BY <1>10, <1>25 DEF EndSweep, mark_missing_usb_devices_offline, RowStatuses, PHONE_STATUSES
  <2> QED BY <1>5, <1>10, <1>25, <2>1 DEF EndSweep
<1> QED BY <1>11, <1>12, <1>13, <1>14, <1>15, <1>16, <1>17, <1>18, <1>19, <1>20, <1>21, <1>22,
           <1>23, <1>24, <1>25 DEF OperatorStep, ACCOUNT_TYPES

\* An error of ADB or the database ends a step without a write.
LEMMA RaisesKeeps ==
  ASSUME LibraryInv, NEW w \in Writers, CheckRaises(w) \/ PassRaises(w)
  PROVE  LibraryInv' /\ UNCHANGED rowVars
<1> DEFINE old == pass[w]
           failed == [old EXCEPT !.at = "record", !.verdict = "offline"]
<1>1. LibraryTyped /\ MonitorSaw /\ SyncSaw /\ old \in PassRecord /\ HasVerdict(old)
  BY DEF LibraryInv, LibraryTyped
<1>2. UNCHANGED <<rowVars, cable>> /\ Event
  BY DEF CheckRaises, PassRaises
<1>3. ASSUME pass' \in [Writers -> PassRecord], \A v \in Writers : HasVerdict(pass'[v])
      PROVE  LibraryTyped' /\ UNCHANGED rowVars
  BY <1>1, <1>2, <1>3 DEF LibraryTyped, Event, rowVars
<1>4. {"monitor", "sync"} \subseteq Writers
  BY DEF Writers, Watchers
<1>5. CASE NextPhone(w) \/ Finish(w)
  <2>1. /\ pass' \in [Writers -> PassRecord] /\ \A v \in Writers : HasVerdict(pass'[v])
        /\ \A v \in Writers \ {w} : pass'[v] = pass[v]
        /\ \/ pass'[w] = NoPass
           \/ /\ pass'[w].at = "loop" /\ pass'[w].kind = old.kind
              /\ pass'[w].todo = old.todo \ {Here(w)}
              /\ \A p \in Phones \ {Here(w)} : pass'[w].seen[p] = old.seen[p]
              /\ old.at = "check"
    <3>1. CASE Finish(w)
      BY <1>1, <3>1, FinishTyped
    <3>2. CASE NextPhone(w) /\ old.at = "check"
      BY <1>1, <3>2, NextPhoneTyped
    <3>3. PassRaises(w) => Finish(w)
      BY DEF PassRaises
    <3>4. CheckRaises(w) => old.at = "check"
      BY DEF CheckRaises, At
    <3> QED BY <1>5, <3>1, <3>2, <3>3, <3>4
  <2>2. MonitorSaw'
    BY <1>1, <1>4, <2>1, NoPassSaw DEF MonitorSaw, PassRecord
  <2>3. SyncSaw'
    BY <1>1, <1>4, <2>1, NoPassSaw DEF SyncSaw
  <2> QED BY <1>3, <2>1, <2>2, <2>3 DEF LibraryInv
<1>6. CASE Become(w, failed) /\ old.at = "check"
  <2>1. /\ failed \in PassRecord /\ HasVerdict(failed) /\ failed.at = "record"
        /\ failed.kind = old.kind /\ failed.phone = old.phone /\ failed.todo = old.todo
        /\ failed.seen = old.seen
    BY <1>1 DEF PassRecord, HasVerdict, Steps, Verdicts
  <2> HIDE DEF failed
  <2>2. /\ pass' \in [Writers -> PassRecord] /\ \A v \in Writers : HasVerdict(pass'[v])
        /\ pass'[w] = failed /\ \A v \in Writers \ {w} : pass'[v] = pass[v]
    BY <1>1, <1>6, <2>1, BecomesTyped
  <2>3. w # "sync"
    BY <1>1, <1>6 DEF SyncSaw
  <2>4. MonitorSaw' /\ SyncSaw'
    BY <1>1, <1>4, <1>6, <2>1, <2>2, <2>3 DEF MonitorSaw, SyncSaw
  <2> QED BY <1>3, <2>2, <2>4 DEF LibraryInv
<1> QED BY <1>5, <1>6 DEF CheckRaises, PassRaises, At

\* Nor do the cables, the managers and the workers touch what a writer
\* remembers or an account.
LEMMA OthersKeep ==
  ASSUME LibraryInv,
         \/ \E p \in Phones, c \in Cables : Replug(p, c)
         \/ \E m \in Managers :
              StartStep(m) \/ ManagerStep(m) \/ RunRaises(m) \/ RunEnds(m) \/ \E p \in Phones : Claim(m, p)
         \/ queue_workers_stop \/ UNCHANGED vars
  PROVE  LibraryInv' /\ UNCHANGED <<pass, account>>
<1>1. LibraryTyped /\ MonitorSaw /\ SyncSaw
  BY DEF LibraryInv
<1>2. ASSUME status' \in [Phones -> RowStatuses], cable' \in [Phones -> Cables],
             Event \/ UNCHANGED events, UNCHANGED <<pass, account>>
      PROVE  LibraryInv' /\ UNCHANGED <<pass, account>>
  <2>1. LibraryTyped'
    BY <1>1, <1>2 DEF LibraryTyped, Event
  <2> QED BY <1>1, <1>2, <2>1 DEF LibraryInv, MonitorSaw, SyncSaw
<1>3. status \in [Phones -> RowStatuses] /\ cable \in [Phones -> Cables]
  BY <1>1 DEF LibraryTyped
<1>4. \A p, s : s \in RowStatuses /\ SetRow(p, s) => status' \in [Phones -> RowStatuses]
  BY <1>3 DEF SetRow
<1>5. {"running", "online_idle", "error"} \subseteq RowStatuses
  BY DEF RowStatuses, PHONE_STATUSES
<1>6. CASE \E p \in Phones, c \in Cables : Replug(p, c)
  BY <1>2, <1>3, <1>6 DEF Replug, rowVars
<1>7. ASSUME NEW m \in Managers, StartStep(m) \/ ManagerStep(m) \/ RunRaises(m)
      PROVE  LibraryInv' /\ UNCHANGED <<pass, account>>
  <2>1. UNCHANGED <<status, account, cable, pass>> /\ (Event \/ UNCHANGED events)
    BY <1>7 DEF StartStep, ManagerStep, Plan, build_worker_readiness_report, StartThread, SelectAgain,
                BuildWorker, ListWorker, AllStarted, EndWait, Join, RunRaises, libraryVars, rowVars
  <2> QED BY <1>2, <1>3, <2>1
<1>8. ASSUME NEW m \in Managers, RunEnds(m) PROVE LibraryInv' /\ UNCHANGED <<pass, account>>
  <2>1. PICK p \in Phones, s \in {"online_idle", "error"} : Release(m, p, s)
    BY <1>8 DEF RunEnds
  <2>2. SetRow(p, s) /\ UNCHANGED <<account, cable, pass, events>>
    BY <2>1 DEF Release
  <2> QED BY <1>2, <1>3, <1>4, <1>5, <2>2
<1>9. ASSUME NEW m \in Managers, NEW p \in Phones, Claim(m, p)
      PROVE  LibraryInv' /\ UNCHANGED <<pass, account>>
  <2>1. SetRow(p, "running") /\ Event /\ UNCHANGED <<account, cable, pass>>
    BY <1>9 DEF Claim
  <2> QED BY <1>2, <1>3, <1>4, <1>5, <2>1
<1>10. CASE queue_workers_stop \/ UNCHANGED vars
  <2>1. UNCHANGED <<status, account, cable, pass, events>>
    BY <1>10 DEF queue_workers_stop, vars, libraryVars, rowVars
  <2> QED BY <1>2, <1>3, <2>1
<1> QED BY <1>6, <1>7, <1>8, <1>9, <1>10

-----------------------------------------------------------------------------
(* The theorems. *)

\* At the start nobody has read anything.
LEMMA LibraryInit == Init => LibraryInv
<1> SUFFICES ASSUME Init PROVE LibraryInv
  OBVIOUS
<1>1. LibraryTyped
  BY NoPassTyped, LibraryAssumption
     DEF Init, InitLibrary, LibraryTyped, RowStatuses, ACCOUNT_TYPES
<1>2. \A w \in Writers : pass[w] = NoPass
  BY DEF Init, InitLibrary
<1> QED BY <1>1, <1>2, NoPassSaw DEF LibraryInv, MonitorSaw, SyncSaw, Writers, Watchers

\* The writers of the library, one by one.
LEMMA LibrarySteps ==
  ASSUME [Next]_vars
  PROVE  \/ MonitorStep \/ SyncStep \/ OperatorStep
         \/ \E w \in Writers : CheckRaises(w) \/ PassRaises(w)
         \/ \E p \in Phones, c \in Cables : Replug(p, c)
         \/ \E m \in Managers :
              StartStep(m) \/ ManagerStep(m) \/ RunRaises(m) \/ RunEnds(m) \/ \E p \in Phones : Claim(m, p)
         \/ queue_workers_stop \/ UNCHANGED vars
BY DEF Next, LibraryStep

\* None of them breaks the invariant.
LEMMA LibraryStays == LibraryInv /\ [Next]_vars => LibraryInv'
BY LibrarySteps, MonitorKeeps, SyncKeeps, OperatorKeeps, RaisesKeeps, OthersKeep

\* The monitor, the sync and their sweep leave a phone that runs, is disabled or
\* is removed as it is, unless it was free, or had no row, when they read it.
THEOREM WatchersLeaveProtectedPhones == Spec => ProtectedPhonesAreLeftAlone
<1> DEFINE Act == \A w \in Watchers, p \in Phones :
             pass'[w] # pass[w] /\ status[p] \in Protected /\ status'[p] # status[p]
             => pass[w].seen[p] \in (PHONE_STATUSES \cup {"absent"}) \ Protected
<1>1. LibraryInv /\ [Next]_vars => [Act]_vars
  <2> SUFFICES ASSUME LibraryInv, [Next]_vars, NEW w \in Watchers, NEW p \in Phones,
                      pass'[w] # pass[w], status[p] \in Protected, status'[p] # status[p]
               PROVE  pass[w].seen[p] \in Free
    BY DEF Free, RowStatuses
  <2>1. w \in Writers /\ w # "operator" /\ w \in {"monitor", "sync"}
    BY DEF Writers, Watchers
  <2>2. CASE MonitorStep
    BY <2>1, <2>2, MonitorKeeps
  <2>3. CASE SyncStep
    BY <2>1, <2>3, SyncKeeps
  <2>4. CASE OperatorStep
    BY <2>4, OperatorKeeps
  <2>5. CASE \E v \in Writers : CheckRaises(v) \/ PassRaises(v)
    BY <2>5, RaisesKeeps DEF rowVars
  <2>6. ~(MonitorStep \/ SyncStep \/ OperatorStep \/ \E v \in Writers : CheckRaises(v) \/ PassRaises(v))
        => FALSE
    BY LibrarySteps, OthersKeep
  <2> QED BY <2>2, <2>3, <2>4, <2>5, <2>6
<1>2. QED BY <1>1, LibraryInit, LibraryStays, PTL DEF Spec, ProtectedPhonesAreLeftAlone

\* The account type of a registered phone is changed by the operator alone, or
\* by a sync that found no row of the phone.
THEOREM OnlyTheOperatorChangesAccounts == Spec => AccountIsTheOperators
<1> DEFINE Act == \A p \in Phones :
             Exists(p) /\ account'[p] # account[p]
             => OperatorActs \/ pass["sync"].seen[p] = "absent"
<1>1. LibraryInv /\ [Next]_vars => [Act]_vars
  <2> SUFFICES ASSUME LibraryInv, [Next]_vars, NEW p \in Phones, account'[p] # account[p], ~OperatorActs
               PROVE  pass["sync"].seen[p] = "absent"
    OBVIOUS
  <2>1. CASE SyncStep
    BY <2>1, SyncKeeps
  <2>2. ~MonitorStep /\ ~OperatorStep
    BY MonitorKeeps, OperatorKeeps
  <2>3. ~(\E v \in Writers : CheckRaises(v) \/ PassRaises(v))
    BY RaisesKeeps DEF rowVars
  <2> QED BY <2>1, <2>2, <2>3, LibrarySteps, OthersKeep
<1>2. QED BY <1>1, LibraryInit, LibraryStays, PTL DEF Spec, AccountIsTheOperators

-----------------------------------------------------------------------------
(* The managers, their threads and their workers. *)

ManagerStates == RequestStates \cup LiveStates \cup {"ready", "ended", "failed"}
ManagerRecord == [at : ManagerStates, planned : SUBSET Phones, phone : Phones \cup {Nobody}]

ManagersTyped ==
  /\ _worker_manager \in Managers \cup {Nobody}
  /\ manager \in [Managers -> ManagerRecord]
  /\ stopEvent \in [Managers -> BOOLEAN] /\ asked \subseteq Managers
  /\ worker \in [Managers -> [Phones -> WorkerStates]]

\* The manager of record is the only one with a thread, one that was asked to
\* stop has been told, and workers have a manager that will join them, or one
\* whose thread an error has ended.
OfRecord(m) == Alive(m) => m = _worker_manager /\ (m \in asked => stopEvent[m])
MayHaveWorkers == (LiveStates \ {"thread"}) \cup {"failed"}
HasWorkers(m) == Working(m) # {} => manager[m].at \in MayHaveWorkers
Threads == LiveStates \cup {"ended", "failed"}
WasAlive(m) == m \in asked => manager[m].at \in Threads

ManagerInv ==
  ManagersTyped /\ \A m \in Managers : OfRecord(m) /\ HasWorkers(m) /\ WasAlive(m)

\* At the start there is none.
LEMMA ManagerInit == Init => ManagerInv
BY DEF Init, ManagerInv, ManagersTyped, ManagerRecord, ManagerStates, NewManager, RequestStates,
       LiveStates, WorkerStates, OfRecord, HasWorkers, WasAlive, Alive, Working

\* A manager moves on, and its workers with it: none is left behind, and only
\* a thread that was alive goes on living.
LEMMA ManagerMoves ==
  ASSUME ManagerInv, NEW m \in Managers, NEW x \in ManagerRecord, Step(m, x),
         UNCHANGED <<_worker_manager, stopEvent, worker, asked>>,
         x.at \in LiveStates => Alive(m),
         x.at \notin MayHaveWorkers => Working(m) = {},
         manager[m].at \in Threads => x.at \in Threads
  PROVE  ManagerInv'
<1>1. /\ manager' \in [Managers -> ManagerRecord] /\ manager'[m] = x
      /\ \A n \in Managers \ {m} : manager'[n] = manager[n]
  BY DEF ManagerInv, ManagersTyped, Step
<1>2. ManagersTyped'
  BY <1>1 DEF ManagerInv, ManagersTyped
<1>3. ASSUME NEW n \in Managers PROVE OfRecord(n)' /\ HasWorkers(n)' /\ WasAlive(n)'
  BY <1>1 DEF ManagerInv, OfRecord, HasWorkers, WasAlive, Alive, Working
<1> QED BY <1>2, <1>3 DEF ManagerInv

\* Some of a manager's workers change, and none begins without a manager.
LEMMA WorkersChange ==
  ASSUME ManagerInv, NEW m \in Managers, NEW ws \in [Phones -> WorkerStates],
         worker' = [worker EXCEPT ![m] = ws], UNCHANGED <<_worker_manager, manager, stopEvent, asked>>,
         (\E p \in Phones : ws[p] \in {"idle", "running", "stopping"}) => Working(m) # {}
  PROVE  ManagerInv'
<1>1. /\ worker' \in [Managers -> [Phones -> WorkerStates]] /\ worker'[m] = ws
      /\ \A n \in Managers \ {m} : worker'[n] = worker[n]
  BY DEF ManagerInv, ManagersTyped
<1>2. ManagersTyped'
  BY <1>1 DEF ManagerInv, ManagersTyped
<1>3. ASSUME NEW n \in Managers PROVE OfRecord(n)' /\ HasWorkers(n)' /\ WasAlive(n)'
  BY <1>1 DEF ManagerInv, OfRecord, HasWorkers, WasAlive, Alive, Working
<1> QED BY <1>2, <1>3 DEF ManagerInv

\* Workers that are told to stop begin nothing.
LEMMA ToldTyped ==
  ASSUME ManagersTyped, NEW m \in Managers
  PROVE  /\ Told(m) \in [Phones -> WorkerStates]
         /\ \A p \in Phones : Told(m)[p] \in {"idle", "running", "stopping"} => p \in Working(m)
<1>1. \A p \in Phones : worker[m][p] \in WorkerStates
  BY DEF ManagersTyped
<1>2. ASSUME NEW p \in Phones
      PROVE  /\ Told(m)[p] \in WorkerStates
             /\ Told(m)[p] \in {"idle", "running", "stopping"} => worker[m][p] \in {"idle", "running", "stopping"}
  BY <1>1 DEF Told, WorkerStates
<1>3. Told(m) = [p \in Phones |-> Told(m)[p]]
  BY DEF Told
<1> QED BY <1>2, <1>3 DEF Working

\* The steps of a request to start and of its thread.
LEMMA StartKeeps ==
  ASSUME ManagerInv, NEW m \in Managers, StartStep(m)
  PROVE  ManagerInv'
<1>1. manager[m] \in ManagerRecord /\ Nobody \notin Managers
  BY ManagerAssumption DEF ManagerInv, ManagersTyped, Managers
<1>2. manager[m].at \in RequestStates \cup {"ready"} => Working(m) = {}
  BY DEF ManagerInv, HasWorkers, LiveStates, MayHaveWorkers, RequestStates
<1>3. ASSUME NEW S \in SUBSET Phones, Plan(m, S) PROVE ManagerInv'
  <2> DEFINE x == [manager[m] EXCEPT !.at = "planned", !.planned = S]
  <2>1. x \in ManagerRecord /\ x.at = "planned"
    BY <1>1 DEF ManagerRecord, ManagerStates, RequestStates
  <2> HIDE DEF x
  <2>2. Step(m, x) /\ ~Alive(m) /\ manager[m].at \notin Threads /\ Working(m) = {}
        /\ UNCHANGED <<_worker_manager, stopEvent, worker, asked>>
    BY <1>2, <1>3 DEF Plan, IsAt, Alive, LiveStates, MayHaveWorkers, RequestStates, Threads, x
  <2> QED BY <1>2, <2>1, <2>2, ManagerMoves DEF LiveStates, MayHaveWorkers
<1>4. ASSUME NEW gated \in BOOLEAN, build_worker_readiness_report(m, gated) PROVE ManagerInv'
  <2> DEFINE x(s) == [manager[m] EXCEPT !.at = s]
  <2>1. \A s \in {"ready", "blocked"} : x(s) \in ManagerRecord /\ x(s).at = s
    BY <1>1 DEF ManagerRecord, ManagerStates, RequestStates
  <2> HIDE DEF x
  <2>2. /\ \E s \in {"ready", "blocked"} : Step(m, x(s))
        /\ ~Alive(m) /\ manager[m].at \notin Threads /\ Working(m) = {}
        /\ UNCHANGED <<_worker_manager, stopEvent, worker, asked>>
    BY <1>2, <1>4 DEF build_worker_readiness_report, RequestStates, IsAt, Alive, LiveStates, MayHaveWorkers, Threads, Move, x
  <2> QED BY <1>2, <2>1, <2>2, ManagerMoves DEF LiveStates, MayHaveWorkers
<1>5. CASE StartThread(m)
  <2> DEFINE x(s) == [manager[m] EXCEPT !.at = s]
  <2>1. \A s \in {"refused", "thread"} : x(s) \in ManagerRecord /\ x(s).at = s
    BY <1>1 DEF ManagerRecord, ManagerStates, RequestStates, LiveStates, MayHaveWorkers
  <2> HIDE DEF x
  <2>2. ~Alive(m) /\ Working(m) = {} /\ manager[m].at \notin Threads /\ UNCHANGED <<stopEvent, worker, asked>>
    BY <1>2, <1>5 DEF StartThread, RequestStates, IsAt, Alive, LiveStates, MayHaveWorkers, Threads
  <2>3. CASE Step(m, x("refused")) /\ UNCHANGED _worker_manager
    BY <2>1, <2>2, <2>3, ManagerMoves DEF LiveStates, MayHaveWorkers
  <2>4. CASE /\ ~(_worker_manager # Nobody /\ Alive(_worker_manager))
             /\ Step(m, x("thread")) /\ _worker_manager' = m
    <3>1. \A n \in Managers : ~Alive(n)
      BY <1>1, <2>4 DEF ManagerInv, OfRecord
    <3>2. /\ manager' \in [Managers -> ManagerRecord] /\ manager'[m].at = "thread"
          /\ \A n \in Managers \ {m} : manager'[n] = manager[n]
      BY <2>1, <2>4 DEF ManagerInv, ManagersTyped, Step
    <3>3. m \notin asked
      BY <2>2 DEF ManagerInv, WasAlive
    <3>4. ManagersTyped'
      BY <2>2, <2>4, <3>2 DEF ManagerInv, ManagersTyped
    <3>5. \A n \in Managers : OfRecord(n)' /\ HasWorkers(n)' /\ WasAlive(n)'
      BY <2>2, <2>4, <3>1, <3>2, <3>3 DEF ManagerInv, OfRecord, HasWorkers, WasAlive, Alive, Working, LiveStates, MayHaveWorkers, Threads
    <3> QED BY <3>4, <3>5 DEF ManagerInv
  <2> QED BY <1>5, <2>3, <2>4 DEF StartThread, Move, x
<1> QED BY <1>3, <1>4, <1>5 DEF StartStep

\* A step of a manager's thread keeps the manager consistent with its workers.
LEMMA ThreadKeeps ==
  ASSUME ManagerInv, NEW m \in Managers, ManagerStep(m)
  PROVE  ManagerInv'
<1>1. manager[m] \in ManagerRecord
  BY DEF ManagerInv, ManagersTyped
<1>2. ASSUME NEW x \in ManagerRecord, Step(m, x), Alive(m), x.at \in Threads,
             x.at \notin MayHaveWorkers => Working(m) = {},
             UNCHANGED <<_worker_manager, stopEvent, worker, asked>>
      PROVE  ManagerInv'
  BY <1>2, ManagerMoves
<1>3. ASSUME NEW S \in SUBSET Phones, SelectAgain(m, S) PROVE ManagerInv'
  <2> DEFINE s == IF S = {} THEN "ended" ELSE "starting"
             x == [manager[m] EXCEPT !.at = s, !.planned = S]
  <2>1. x \in ManagerRecord /\ x.at \in Threads
    BY <1>1 DEF ManagerRecord, ManagerStates, LiveStates, MayHaveWorkers, Threads
  <2> HIDE DEF x
  <2>2. Step(m, x) /\ Alive(m) /\ Working(m) = {} /\ UNCHANGED <<_worker_manager, stopEvent, worker, asked>>
    BY <1>3 DEF SelectAgain, IsAt, Alive, LiveStates, MayHaveWorkers, ManagerInv, HasWorkers, x
  <2> QED BY <1>2, <2>1, <2>2
<1>4. ASSUME NEW p \in Phones, BuildWorker(m, p) PROVE ManagerInv'
  <2> DEFINE x == [manager[m] EXCEPT !.at = "building", !.phone = p, !.planned = @ \ {p}]
  <2>1. x \in ManagerRecord /\ x.at \in MayHaveWorkers \cap LiveStates
    BY <1>1 DEF ManagerRecord, ManagerStates, LiveStates, MayHaveWorkers
  <2> HIDE DEF x
  <2>2. Step(m, x) /\ Alive(m) /\ UNCHANGED <<_worker_manager, stopEvent, worker, asked>>
    BY <1>4 DEF BuildWorker, IsAt, Alive, LiveStates, MayHaveWorkers, x
  <2> QED BY <1>2, <2>1, <2>2 DEF Threads, LiveStates, MayHaveWorkers
<1>5. CASE AllStarted(m) \/ Join(m)
  <2> DEFINE x(s) == [manager[m] EXCEPT !.at = s]
             y == [manager[m] EXCEPT !.at = "waiting", !.planned = {}]
  <2>1. /\ x("ended") \in ManagerRecord /\ x("ended").at \in Threads
        /\ y \in ManagerRecord /\ y.at \in MayHaveWorkers \cap LiveStates
    BY <1>1 DEF ManagerRecord, ManagerStates, LiveStates, MayHaveWorkers, Threads
  <2> HIDE DEF x, y
  <2>2. /\ Step(m, y) \/ (Step(m, x("ended")) /\ Working(m) = {})
        /\ Alive(m) /\ UNCHANGED <<_worker_manager, stopEvent, worker, asked>>
    BY <1>5 DEF AllStarted, Join, IsAt, Alive, LiveStates, MayHaveWorkers, Move, x, y
  <2> QED BY <1>2, <2>1, <2>2 DEF Threads, LiveStates, MayHaveWorkers
\* These two move the manager and change its workers.
<1>6. ASSUME NEW x \in ManagerRecord, Step(m, x), Alive(m), x.at \in MayHaveWorkers \cap LiveStates,
             NEW ws \in [Phones -> WorkerStates], worker' = [worker EXCEPT ![m] = ws],
             UNCHANGED <<_worker_manager, stopEvent, asked>>
      PROVE  ManagerInv'
  <2>1. /\ manager' \in [Managers -> ManagerRecord] /\ manager'[m] = x
        /\ \A n \in Managers \ {m} : manager'[n] = manager[n] /\ worker'[n] = worker[n]
        /\ worker' \in [Managers -> [Phones -> WorkerStates]]
    BY <1>6 DEF ManagerInv, ManagersTyped, Step
  <2>2. ManagersTyped'
    BY <1>6, <2>1 DEF ManagerInv, ManagersTyped
  <2>3. \A n \in Managers : OfRecord(n)' /\ HasWorkers(n)' /\ WasAlive(n)'
    BY <1>6, <2>1 DEF ManagerInv, OfRecord, HasWorkers, WasAlive, Alive, Working, Threads, LiveStates, MayHaveWorkers
  <2> QED BY <2>2, <2>3 DEF ManagerInv
<1>7. CASE ListWorker(m)
  <2> DEFINE x == [manager[m] EXCEPT !.at = "starting", !.phone = Nobody]
             ws(s) == [worker[m] EXCEPT ![manager[m].phone] = s]
  <2>1. x \in ManagerRecord /\ x.at \in MayHaveWorkers \cap LiveStates
    BY <1>1 DEF ManagerRecord, ManagerStates, LiveStates, MayHaveWorkers
  <2>2. \A s \in {"ended", "idle"} : ws(s) \in [Phones -> WorkerStates]
    BY DEF ManagerInv, ManagersTyped, WorkerStates
  <2>3. \E s \in {"ended", "idle"} : worker' = [worker EXCEPT ![m] = ws(s)]
    BY <1>7 DEF ListWorker
  <2> HIDE DEF x, ws
  <2>4. Step(m, x) /\ Alive(m) /\ UNCHANGED <<_worker_manager, stopEvent, asked>>
    BY <1>7 DEF ListWorker, IsAt, Alive, LiveStates, MayHaveWorkers, x
  <2> QED BY <1>6, <2>1, <2>2, <2>3, <2>4
<1>8. CASE EndWait(m)
  <2> DEFINE x == [manager[m] EXCEPT !.at = "joining"]
  <2>1. x \in ManagerRecord /\ x.at \in MayHaveWorkers \cap LiveStates
    BY <1>1 DEF ManagerRecord, ManagerStates, LiveStates, MayHaveWorkers
  <2> HIDE DEF x
  <2>2. /\ Step(m, x) /\ Alive(m) /\ UNCHANGED <<_worker_manager, stopEvent, asked>>
        /\ worker' = [worker EXCEPT ![m] = Told(m)]
    BY <1>8 DEF EndWait, Move, IsAt, Alive, LiveStates, MayHaveWorkers, x
  <2> QED BY <1>6, <2>1, <2>2, ToldTyped DEF ManagerInv
<1> QED BY <1>3, <1>4, <1>5, <1>7, <1>8 DEF ManagerStep

\* An error ends the thread alone: its workers are where they were.
LEMMA RaisedKeeps ==
  ASSUME ManagerInv, NEW m \in Managers, RunRaises(m)
  PROVE  ManagerInv'
<1> DEFINE x == [manager[m] EXCEPT !.at = "failed", !.planned = {}, !.phone = Nobody]
<1>1. x \in ManagerRecord /\ x.at = "failed"
  BY DEF ManagerInv, ManagersTyped, ManagerRecord, ManagerStates
<1> HIDE DEF x
<1>2. Step(m, x) /\ UNCHANGED <<_worker_manager, stopEvent, worker, asked>>
  BY DEF RunRaises, x
<1> QED BY <1>1, <1>2, ManagerMoves DEF LiveStates, MayHaveWorkers, Threads

\* A stop tells the manager of record, and with it every one that is alive; if
\* an error has ended its thread there is none to tell.
LEMMA StopKeeps ==
  ASSUME ManagerInv, queue_workers_stop
  PROVE  ManagerInv'
<1>1. \A n \in Managers : AtWork(n) => manager[n].at \in Threads
  BY DEF ManagerInv, HasWorkers, AtWork, Alive, LiveStates, MayHaveWorkers, Threads
<1>2. UNCHANGED <<_worker_manager, manager>> /\ asked' = asked \cup { n \in Managers : AtWork(n) }
  BY DEF queue_workers_stop
<1>3. CASE \E n \in Managers : Alive(n)
  <2>1. PICK m \in Managers : Alive(m) /\ _worker_manager = m
    BY <1>3 DEF ManagerInv, OfRecord
  <2>2. stopEvent' = [stopEvent EXCEPT ![m] = TRUE] /\ worker' = [worker EXCEPT ![m] = Told(m)]
    BY <2>1 DEF queue_workers_stop
  <2>3. /\ worker' \in [Managers -> [Phones -> WorkerStates]]
        /\ \A n \in Managers \ {m} : worker'[n] = worker[n] /\ stopEvent'[n] = stopEvent[n]
        /\ stopEvent' \in [Managers -> BOOLEAN] /\ stopEvent'[m] /\ worker'[m] = Told(m)
    BY <2>2, ToldTyped DEF ManagerInv, ManagersTyped
  <2>4. Working(m)' # {} => Working(m) # {}
    BY <2>3, ToldTyped DEF Working, ManagerInv
  <2>5. ManagersTyped'
    BY <1>2, <2>3 DEF ManagerInv, ManagersTyped
  <2>6. ASSUME NEW n \in Managers PROVE HasWorkers(n)'
    <3>1. CASE n = m
      BY <1>2, <2>4, <3>1 DEF ManagerInv, HasWorkers
    <3>2. CASE n # m
      BY <1>2, <2>3, <3>2 DEF ManagerInv, HasWorkers, Working
    <3> QED BY <3>1, <3>2
  <2>7. \A n \in Managers : OfRecord(n)' /\ WasAlive(n)'
    BY <1>1, <1>2, <2>1, <2>3 DEF ManagerInv, OfRecord, WasAlive, Alive
  <2> QED BY <2>5, <2>6, <2>7 DEF ManagerInv
\* Without a live thread the stop event of the last manager, at most, is set.
<1>4. CASE \A n \in Managers : ~Alive(n)
  <2>1. CASE UNCHANGED <<stopEvent, worker>>
    <3>1. ManagersTyped'
      BY <1>2, <2>1 DEF ManagerInv, ManagersTyped
    <3>2. \A n \in Managers : OfRecord(n)' /\ HasWorkers(n)' /\ WasAlive(n)'
      BY <1>1, <1>2, <1>4, <2>1 DEF ManagerInv, OfRecord, HasWorkers, WasAlive, Alive, Working
    <3> QED BY <3>1, <3>2 DEF ManagerInv
  <2>2. CASE Alive(_worker_manager) /\ _worker_manager \notin Managers
    <3>1. \A f, e : DOMAIN f = Managers /\ f = [n \in Managers |-> f[n]]
                   => [f EXCEPT ![_worker_manager] = e] = f
      BY <2>2
    <3>2. /\ DOMAIN stopEvent = Managers /\ stopEvent = [n \in Managers |-> stopEvent[n]]
          /\ DOMAIN worker = Managers /\ worker = [n \in Managers |-> worker[n]]
      BY DEF ManagerInv, ManagersTyped
    <3>3. UNCHANGED <<stopEvent, worker>>
      BY <2>2, <3>1, <3>2 DEF queue_workers_stop
    <3> QED BY <2>1, <3>3
  <2> QED BY <1>4, <2>1, <2>2 DEF queue_workers_stop
<1> QED BY <1>3, <1>4

\* A worker goes on with a task only if it was at work.
LEMMA RunKeeps ==
  ASSUME ManagerInv, NEW m \in Managers, RunEnds(m) \/ \E p \in Phones : Claim(m, p)
  PROVE  ManagerInv'
<1>1. PICK p \in Phones, s \in WorkerStates :
        /\ p \in Working(m) /\ worker' = [worker EXCEPT ![m][p] = s]
        /\ UNCHANGED <<_worker_manager, manager, stopEvent, asked>>
  <2>1. ASSUME NEW p \in Phones, Claim(m, p)
        PROVE  /\ p \in Working(m) /\ worker' = [worker EXCEPT ![m][p] = "running"]
               /\ UNCHANGED <<_worker_manager, manager, stopEvent, asked>>
    BY <2>1 DEF Claim, Working
  <2>2. ASSUME NEW p \in Phones, NEW s, Release(m, p, s)
        PROVE  /\ p \in Working(m)
               /\ \E x \in {"ended", "idle"} : worker' = [worker EXCEPT ![m][p] = x]
               /\ UNCHANGED <<_worker_manager, manager, stopEvent, asked>>
    BY <2>2 DEF Release, Working
  <2> QED BY <2>1, <2>2 DEF RunEnds, WorkerStates
<1> DEFINE ws == [worker[m] EXCEPT ![p] = s]
<1>2. ws \in [Phones -> WorkerStates] /\ worker' = [worker EXCEPT ![m] = ws]
  BY <1>1 DEF ManagerInv, ManagersTyped
<1> HIDE DEF ws
<1> QED BY <1>1, <1>2, WorkersChange

\* None of the other steps concerns them.
LEMMA ManagerStays == ManagerInv /\ [Next]_vars => ManagerInv'
<1> SUFFICES ASSUME ManagerInv, [Next]_vars PROVE ManagerInv'
  OBVIOUS
<1>1. ASSUME UNCHANGED managerVars PROVE ManagerInv'
  BY <1>1 DEF managerVars, ManagerInv, ManagersTyped, OfRecord, HasWorkers, WasAlive, Alive, Working
<1>2. CASE \/ MonitorStep /\ UNCHANGED managerVars
           \/ LibraryStep \/ UNCHANGED vars
  BY <1>1, <1>2 DEF LibraryStep, vars
<1> QED BY <1>2, StartKeeps, ThreadKeeps, RaisedKeeps, StopKeeps, RunKeeps DEF Next

-----------------------------------------------------------------------------
(* Whoever is about to record a verdict has a phone it is about. *)

HasPhone(m) == m.kind # "none" /\ m.at # "loop" /\ m.at # "list" => m.phone \in Phones

\* What outside events there have been is within bounds.
CountInv == events \in 0..MaxEvents

PhoneInv == HasPhone(pass["operator"]) /\ CountInv

\* Every request of the operator but one that goes through the phones names its
\* phone, and each of these names it before it writes.
LEMMA PhoneStays == LibraryInv /\ PhoneInv /\ [Next]_vars => PhoneInv'
<1> SUFFICES ASSUME LibraryInv, PhoneInv, [Next]_vars PROVE PhoneInv'
  OBVIOUS
<1> DEFINE w == "operator"
           old == pass[w]
<1>1. w \in Writers /\ \A v \in Watchers : v # w
  BY DEF Writers, Watchers
<1>2. /\ LibraryTyped /\ old \in PassRecord
  BY <1>1 DEF LibraryInv, LibraryTyped
<1>3. Event \/ UNCHANGED events => CountInv'
  BY LibraryAssumption DEF PhoneInv, CountInv, Event
<1>4. HasPhone(NoPass)
  BY DEF HasPhone, NoPass
<1>5. ASSUME NEW m, pass' = [pass EXCEPT ![w] = m], HasPhone(m) PROVE HasPhone(pass[w])'
  BY <1>1, <1>2, <1>5 DEF LibraryTyped, HasPhone
<1>6. ASSUME NextPhone(w) \/ Finish(w) PROVE HasPhone(pass[w])'
  BY <1>1, <1>2, <1>4, <1>6, FinishTyped, NextPhoneTyped DEF HasPhone
<1>7. \A p \in Phones : \A kind, step : HasPhone(About(p, kind, step))
  BY DEF HasPhone, About, NoPass
<1> USE DEF PhoneInv
<1>8. CASE MonitorStep \/ SyncStep \/ OperatorStep
  <2>1. Event \/ UNCHANGED events
    BY <1>8 DEF MonitorStep, SyncStep, OperatorStep, BeginMonitor, list_usb_phones, refresh_usb_phone,
         check_health, record_health, EndPass, sync_phones, sync_read, safe_upsert_from_adb_device,
         find_removed_template, sync_add, EndSweep, AddPhone, update_phone, connect_wireless, update_status,
         health_check, BeginRemove, mark_existing_wireless_failure, register_next, health_next,
         health_check_all, refresh_devices, remove_phone, upsert_read, upsert_from_adb_device, Request
  <2>2. CASE MonitorStep \/ SyncStep
    <3>1. pass'[w] = pass[w]
      BY <1>1, <2>2, MonitorKeeps, SyncKeeps DEF Watchers
    <3> QED BY <1>3, <2>1, <3>1
  <2>3. ASSUME NEW p \in Phones,
               \/ \E a \in ACCOUNT_TYPES : AddPhone(p, a) \/ update_phone(p, a) \/ connect_wireless(p, "pair", a)
               \/ connect_wireless(p, "connect", "marketing")
               \/ \E s \in {"disabled", "online_idle"} : update_status(p, s)
               \/ health_check(p) \/ BeginRemove(p) \/ mark_existing_wireless_failure(p)
        PROVE  HasPhone(pass[w])'
    <3> DEFINE m(kind, a) == [About(p, kind, "read") EXCEPT !.devices = cable, !.account = a]
    <3>1. \A kind, a : HasPhone(m(kind, a))
      BY DEF HasPhone, About, NoPass
    <3> HIDE DEF m
    <3>2. \/ \E kind, a : pass' = [pass EXCEPT ![w] = m(kind, a)]
          \/ \E kind, step : pass' = [pass EXCEPT ![w] = About(p, kind, step)]
          \/ pass' = [pass EXCEPT ![w] = NoPass]
      BY <2>3 DEF AddPhone, update_phone, connect_wireless, update_status, health_check, BeginRemove,
                  mark_existing_wireless_failure, Request, Become, m
    <3> QED BY <1>4, <1>5, <1>7, <3>1, <3>2
  <2>4. ASSUME NEW p \in Phones, register_next(p) \/ health_next(p) PROVE HasPhone(pass[w])'
    <3> DEFINE m(step) == [old EXCEPT !.phone = p, !.at = step]
    <3>1. \A step : HasPhone(m(step))
      BY <1>2 DEF HasPhone, PassRecord
    <3> HIDE DEF m
    <3>2. \E step : pass' = [pass EXCEPT ![w] = m(step)]
      BY <2>4 DEF register_next, health_next, Become, m
    <3> QED BY <1>5, <3>1, <3>2
  <2>5. ASSUME health_check_all \/ refresh_devices PROVE HasPhone(pass[w])'
    <3> DEFINE m(kind, c, t) == [NoPass EXCEPT !.kind = kind, !.devices = c, !.todo = t]
               all(t) == [NoPass EXCEPT !.kind = "health_all", !.todo = t]
    <3>1. \A kind, c, t : HasPhone(m(kind, c, t)) /\ HasPhone(all(t))
      BY DEF HasPhone, NoPass
    <3> HIDE DEF m, all
    <3>2. \/ \E kind, c, t : pass' = [pass EXCEPT ![w] = m(kind, c, t)]
          \/ \E t : pass' = [pass EXCEPT ![w] = all(t)]
      BY <2>5 DEF health_check_all, refresh_devices, Request, Become, m, all
    <3> QED BY <1>5, <3>1, <3>2
  <2>6. ASSUME upsert_read \/ check_health(w) \/ (upsert_from_adb_device /\ Go(w, "check"))
        PROVE  HasPhone(pass[w])'
    <3> DEFINE m(step) == [old EXCEPT !.at = step]
               r == [old EXCEPT !.at = "record", !.verdict = health_to_status(cable[Here(w)])]
    <3>1. old.phone \in Phones
      BY <2>6 DEF upsert_read, check_health, upsert_from_adb_device, At, Kind, HasPhone
    <3>2. (\A step : HasPhone(m(step))) /\ HasPhone(r)
      BY <1>2, <3>1 DEF HasPhone, PassRecord
    <3> HIDE DEF m, r
    <3>3. (\E step : pass' = [pass EXCEPT ![w] = m(step)]) \/ pass' = [pass EXCEPT ![w] = r]
      BY <2>6 DEF upsert_read, check_health, Go, Become, m, r
    <3> QED BY <1>5, <3>2, <3>3
  <2>7. ASSUME \/ remove_phone \/ record_health(w) \/ EndPass(w) \/ EndSweep(w)
               \/ upsert_from_adb_device /\ NextPhone(w)
        PROVE  HasPhone(pass[w])'
    BY <1>6, <2>7 DEF remove_phone, record_health, EndPass, EndSweep
  <2>8. upsert_from_adb_device => Go(w, "check") \/ NextPhone(w)
    BY DEF upsert_from_adb_device
  <2>9. CASE OperatorStep
    BY <1>3, <2>1, <2>3, <2>4, <2>5, <2>6, <2>7, <2>8, <2>9 DEF OperatorStep
  <2> QED BY <1>8, <2>2, <2>9
<1>9. ASSUME NEW v \in Writers, CheckRaises(v) \/ PassRaises(v) PROVE PhoneInv'
  <2>1. Event
    BY <1>9 DEF CheckRaises, PassRaises
  <2>2. CASE v = w
    <3> DEFINE m == [old EXCEPT !.at = "record", !.verdict = "offline"]
    <3>1. CheckRaises(w) => HasPhone(m)
      BY <1>2 DEF HasPhone, PassRecord, CheckRaises, At
    <3> HIDE DEF m
    <3>2. (CheckRaises(w) /\ pass' = [pass EXCEPT ![w] = m]) \/ NextPhone(w) \/ Finish(w)
      BY <1>9, <2>2 DEF CheckRaises, PassRaises, Become, m
    <3> QED BY <1>3, <1>5, <1>6, <2>1, <3>1, <3>2
  <2>3. CASE v # w
    <3>1. pass'[w] = pass[w]
      BY <1>1, <1>2, <1>9, <2>3 DEF CheckRaises, PassRaises, NextPhone, Finish, Become, LibraryTyped
    <3> QED BY <1>3, <2>1, <3>1
  <2> QED BY <2>2, <2>3
<1>10. ASSUME \/ \E p \in Phones, c \in Cables : Replug(p, c)
              \/ \E m \in Managers :
                   StartStep(m) \/ ManagerStep(m) \/ RunRaises(m) \/ RunEnds(m) \/ \E p \in Phones : Claim(m, p)
              \/ queue_workers_stop \/ UNCHANGED vars
       PROVE  PhoneInv'
  <2>1. UNCHANGED pass
    BY <1>10, OthersKeep
  <2>2. Event \/ UNCHANGED events
    BY <1>10 DEF Replug, StartStep, ManagerStep, Plan, build_worker_readiness_report, StartThread, SelectAgain,
         BuildWorker, ListWorker, AllStarted, EndWait, Join, RunRaises, RunEnds, Release, Claim, queue_workers_stop,
         vars, libraryVars
  <2> QED BY <1>3, <2>1, <2>2
<1> QED BY <1>8, <1>9, <1>10, LibrarySteps

-----------------------------------------------------------------------------
\* Every reachable state is well typed, and whoever is about to record a health
\* verdict has a verdict and a phone to record it for.
THEOREM ManagerTypeCorrect == Spec => []TypeOK
<1>1. Init => PhoneInv
  BY LibraryAssumption DEF Init, InitLibrary, PhoneInv, HasPhone, NoPass, CountInv, Writers
<1>2. LibraryInv /\ PhoneInv /\ ManagerInv => TypeOK
  <2> SUFFICES ASSUME LibraryInv, PhoneInv, ManagerInv PROVE TypeOK
    OBVIOUS
  <2>1. \A w \in Writers : At(w, "record") => Here(w) # Nobody /\ pass[w].verdict # "none"
    <3>1. ASSUME NEW w \in Writers, At(w, "record") PROVE Here(w) \in Phones /\ pass[w].verdict # "none"
      <4>1. pass[w].verdict \in Verdicts
        BY <3>1 DEF LibraryInv, LibraryTyped, HasVerdict, At
      <4>2. CASE w = "monitor"
        BY <3>1, <4>1, <4>2 DEF LibraryInv, LibraryTyped, MonitorSaw, PassRecord, At, Here, Verdicts
      <4>3. CASE w = "sync"
        BY <3>1, <4>3 DEF LibraryInv, SyncSaw, At
      <4>4. CASE w = "operator"
        BY <3>1, <4>1, <4>4 DEF PhoneInv, HasPhone, At, Kind, Here, Verdicts
      <4> QED BY <4>2, <4>3, <4>4 DEF Writers, Watchers
    <3> QED BY <3>1, LibraryAssumption
  <2>2. /\ status \in [Phones -> PHONE_STATUSES \cup {"absent"}] /\ account \in [Phones -> ACCOUNT_TYPES]
        /\ cable \in [Phones -> Cables] /\ events \in 0..MaxEvents
    BY DEF LibraryInv, LibraryTyped, RowStatuses, PhoneInv, CountInv
  <2>3. RowStatuses \cup {"unread"} = PHONE_STATUSES \cup {"absent", "unread"}
        /\ Verdicts \cup {"none"} = {"none", "online_idle", "offline", "error"}
    BY DEF RowStatuses, Verdicts
  <2>4. pass \in [Writers -> PassRecord]
    BY DEF LibraryInv, LibraryTyped
  <2>5. RequestStates \cup LiveStates \cup {"ready", "ended", "failed"} = ManagerStates
    BY DEF ManagerStates
  <2> QED BY <2>1, <2>2, <2>3, <2>4, <2>5 DEF TypeOK, PassRecord, ManagerInv, ManagersTyped, ManagerRecord
<1> QED BY <1>1, <1>2, LibraryInit, LibraryStays, PhoneStays, ManagerInit, ManagerStays, PTL DEF Spec

\* A stop request reaches every manager that was alive when it was made: the one
\* of record is the only one with a thread, one that was asked to stop has its
\* stop event set, and no worker is at work without the thread that joins it,
\* unless an error has ended that thread.
THEOREM StopReachesEveryManagerHolds == Spec => []StopReachesEveryManager
<1>1. ManagerInv => StopReachesEveryManager
  BY DEF ManagerInv, OfRecord, HasWorkers, Alive, IsAt, LiveStates, MayHaveWorkers, StopReachesEveryManager
<1> QED BY <1>1, ManagerInit, ManagerStays, PTL DEF Spec

=============================================================================
