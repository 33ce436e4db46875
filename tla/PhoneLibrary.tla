------------------------------ MODULE PhoneLibrary ------------------------------
(* The phone library (src/mobile_phone_library) and who writes its rows: the *)
(* USB monitor of the control centre, the phone sync of the shared drive     *)
(* portal, and the operator.  Each goes through the phones one at a time: it *)
(* reads a row, asks ADB, and writes the row in a later transaction, without *)
(* looking again at what it has read.                                        *)
EXTENDS Naturals, FiniteSets

CONSTANTS
  Phones,        \* serials
  Wireless,      \* those with a ":" (connection_mode wireless)
  NameOf,        \* the device name Windows or ADB gives a phone
  Nobody,
  InitialStatus, \* current_status at the start, "absent" without a row
  InitialCable,  \* what ADB finds at the start
  MaxEvents      \* bound on what comes from outside: requests, passes of the
                 \* portal's sync, changes at the cables, errors of ADB and the
                 \* database, claims

PHONE_STATUSES == {"offline", "online_idle", "running", "error", "disabled", "removed"}

\* "ill": connected, and screenshot, app or media directory fail the check.
Cables == {"ready", "ill", "unauthorized", "missing"}

ASSUME LibraryAssumption ==
  /\ Wireless \subseteq Phones /\ Nobody \notin Phones /\ DOMAIN NameOf = Phones
  /\ InitialStatus \in [Phones -> PHONE_STATUSES \cup {"absent"}]
  /\ InitialCable \in [Phones -> Cables] /\ MaxEvents \in Nat

VARIABLES
  status, account,  \* phones rows: current_status, account_type
  cable,            \* what ADB finds at each phone
  pass,             \* memory of each writer
  events            \* what has come from outside so far

rowVars == <<status, account>>
libraryVars == <<rowVars, cable, pass, events>>

ACCOUNT_TYPES == {"marketing", "showcase"}
Watchers == {"monitor", "sync"}
Writers == Watchers \cup {"operator"}

Kinds == {"none", "refresh_usb", "light", "full", "register", "health_all", "health",
          "add", "pair", "connect", "remove"}
Steps == {"list", "loop", "read", "write", "template", "add", "check", "record"}

NoPass == [kind |-> "none", at |-> "loop", devices |-> [p \in Phones |-> "missing"],
           todo |-> {}, phone |-> Nobody, seen |-> [p \in Phones |-> "unread"],
           verdict |-> "none", account |-> "marketing"]

InitLibrary ==
  /\ status = InitialStatus
  /\ account = [p \in Phones |-> "marketing"]
  /\ cable = InitialCable
  /\ pass = [w \in Writers |-> NoPass]
  /\ events = 0

Event == events < MaxEvents /\ events' = events + 1

-----------------------------------------------------------------------------
(* Statuses. *)

\* A faulty variant: what ADB says is the status.
StateAsStatus(c) == IF c = "ready" THEN "online_idle" ELSE c

status_from_adb_state(c) == IF c \in {"ready", "ill"} THEN "online_idle" ELSE "offline"

health_to_status(c) ==
  CASE c = "ready" -> "online_idle" [] c = "ill" -> "error" [] OTHER -> "offline"

Exists(p) == status[p] # "absent"
Connected(devices) == { p \in Phones : devices[p] # "missing" }

SetRow(p, s) == status' = [status EXCEPT ![p] = s]
SetAccount(p, a) == account' = [account EXCEPT ![p] = a]

(* A row is created or overwritten.  Rows are never deleted, so the SELECT   *)
(* of add_phone needs no step: two INSERTs of a serial fail on its UNIQUE.   *)
add_phone(p, s, a) == SetRow(p, s) /\ SetAccount(p, a)

mark_missing_usb_devices_offline(devices) ==
  status' = [p \in Phones |->
    IF p \notin Wireless \cup Connected(devices)
       /\ status[p] \notin {"absent", "removed", "running", "disabled"}
    THEN "offline" ELSE status[p]]

-----------------------------------------------------------------------------
(* Steps of a pass. *)

Kind(w) == pass[w].kind
At(w, step) == Kind(w) # "none" /\ pass[w].at = step
Here(w) == pass[w].phone
Seen(w) == pass[w].seen[Here(w)]
DeviceHere(w) == pass[w].devices[Here(w)]

Become(w, memory) == pass' = [pass EXCEPT ![w] = memory]
Finish(w) == Become(w, NoPass)
Go(w, step) == Become(w, [pass[w] EXCEPT !.at = step])

(* The next phone of a pass, or the end of a request about one phone.        *)
NextPhone(w) ==
  IF Kind(w) \in {"refresh_usb", "light", "full", "register", "health_all"}
  THEN Become(w, [pass[w] EXCEPT !.at = "loop", !.todo = @ \ {Here(w)}, !.phone = Nobody,
                    !.seen[Here(w)] = "unread", !.verdict = "none", !.account = "marketing"])
  ELSE Finish(w)

(* A phone's health is asked for in one step and recorded in another; a      *)
(* check that raises counts as offline for the callers that catch it.        *)
check_health(w) ==
  /\ At(w, "check")
  /\ Become(w, [pass[w] EXCEPT !.at = "record", !.verdict = health_to_status(cable[Here(w)])])
  /\ UNCHANGED <<rowVars, cable, events>>

CheckRaises(w) ==
  /\ At(w, "check") /\ Event
  /\ IF Kind(w) \in {"refresh_usb", "health_all"}
     THEN Become(w, [pass[w] EXCEPT !.at = "record", !.verdict = "offline"])
     ELSE NextPhone(w)
  /\ UNCHANGED <<rowVars, cable>>

record_health(w) ==
  /\ At(w, "record")
  /\ SetRow(Here(w), pass[w].verdict)
  /\ NextPhone(w)
  /\ UNCHANGED <<account, cable, events>>

(* ADB or the database raises: the pass ends where it is.                    *)
PassRaises(w) ==
  /\ Kind(w) # "none" /\ ~At(w, "check") /\ Event
  /\ Finish(w)
  /\ UNCHANGED <<rowVars, cable>>

-----------------------------------------------------------------------------
(* refresh_registered_usb_devices: the monitor's loop and a button.          *)

BeginMonitor ==
  /\ Kind("monitor") = "none"
  /\ Become("monitor", [NoPass EXCEPT !.kind = "refresh_usb", !.at = "list",
       !.devices = [p \in Phones |-> IF p \in Wireless THEN "missing" ELSE cable[p]]])
  /\ UNCHANGED <<rowVars, cable, events>>

\* A faulty variant: a phone whose check failed waits for the operator.
MonitoredUnlessError(p) == status[p] \in {"online_idle", "offline"}

\* A faulty variant: the status of a phone that runs a task is refreshed too.
MonitoredAlsoRunning(p) == status[p] \in PHONE_STATUSES \ {"disabled", "removed"}

(* The rows it refreshes, chosen by the status in the list it read.          *)
Monitored(p) == status[p] \in PHONE_STATUSES \ {"running", "disabled", "removed"}

list_usb_phones ==
  /\ At("monitor", "list")
  /\ LET listed == { p \in Phones \ Wireless : Monitored(p) } IN
     Become("monitor", [pass["monitor"] EXCEPT !.at = "loop", !.todo = listed,
       !.seen = [p \in Phones |-> IF p \in listed THEN status[p] ELSE "unread"]])
  /\ UNCHANGED <<rowVars, cable, events>>

refresh_usb_phone(p) ==
  /\ At("monitor", "loop") /\ p \in pass["monitor"].todo
  /\ LET device == pass["monitor"].devices[p]
         here == [pass["monitor"] EXCEPT !.phone = p] IN
     Become("monitor", IF status_from_adb_state(device) = "online_idle"
                       THEN [here EXCEPT !.at = "check"]
                       ELSE [here EXCEPT !.at = "record", !.verdict = "offline"])
  /\ UNCHANGED <<rowVars, cable, events>>

EndPass(w) ==
  /\ At(w, "loop") /\ Kind(w) \in {"refresh_usb", "health_all", "light"} /\ pass[w].todo = {}
  /\ Finish(w) /\ UNCHANGED <<rowVars, cable, events>>

(* full safe sync and devices --register end with the missing phones.        *)
EndSweep(w) ==
  /\ At(w, "loop") /\ Kind(w) \in {"full", "register"} /\ pass[w].todo = {}
  /\ mark_missing_usb_devices_offline(pass[w].devices)
  /\ Finish(w) /\ UNCHANGED <<account, cable, events>>

-----------------------------------------------------------------------------
(* safe_sync_devices under the portal's lock: light, or full with new phones. *)

sync_phones(kind) ==
  /\ Kind("sync") = "none" /\ Event
  /\ Become("sync", [NoPass EXCEPT !.kind = kind, !.devices = cable, !.todo = Connected(cable)])
  /\ UNCHANGED <<rowVars, cable>>

(* A light sync leaves phones without a row alone; what is decided about the *)
(* others is decided by the status read here.                                *)
sync_read(p) ==
  /\ At("sync", "loop") /\ p \in pass["sync"].todo
  /\ LET here == [pass["sync"] EXCEPT !.phone = p, !.seen[p] = status[p]] IN
     Become("sync", IF ~Exists(p) /\ Kind("sync") = "light"
                    THEN [pass["sync"] EXCEPT !.todo = @ \ {p}]
                    ELSE [here EXCEPT !.at = IF Exists(p) THEN "write" ELSE "template"])
  /\ UNCHANGED <<rowVars, cable, events>>

\* A faulty variant: the account a new phone would get is written as well.
UpsertWithAccount ==
  /\ At("sync", "write") /\ Seen("sync") \notin {"running", "disabled", "removed"}
  /\ add_phone(Here("sync"), status_from_adb_state(DeviceHere("sync")), pass["sync"].account)
  /\ NextPhone("sync")
  /\ UNCHANGED <<cable, events>>

safe_upsert_from_adb_device ==
  /\ At("sync", "write")
  /\ IF Seen("sync") \in {"running", "disabled", "removed"}
     THEN UNCHANGED status
     ELSE SetRow(Here("sync"), status_from_adb_state(DeviceHere("sync")))
  /\ NextPhone("sync")
  /\ UNCHANGED <<account, cable, events>>

(* A new phone takes the account of the one removed phone of its name.       *)
Templates(p) == { q \in Phones : status[q] = "removed" /\ NameOf[q] = NameOf[p] }

find_removed_template ==
  /\ At("sync", "template")
  /\ LET from == Templates(Here("sync")) IN
     Become("sync", [pass["sync"] EXCEPT !.at = "add",
       !.account = IF Cardinality(from) = 1 THEN account[CHOOSE q \in from : TRUE]
                                            ELSE "marketing"])
  /\ UNCHANGED <<rowVars, cable, events>>

sync_add ==
  /\ At("sync", "add")
  /\ add_phone(Here("sync"), status_from_adb_state(DeviceHere("sync")), pass["sync"].account)
  /\ NextPhone("sync")
  /\ UNCHANGED <<cable, events>>

-----------------------------------------------------------------------------
(* Requests of the operator. *)

Request(memory) ==
  /\ Kind("operator") = "none" /\ Event
  /\ Become("operator", memory)
  /\ UNCHANGED cable

About(p, kind, step) == [NoPass EXCEPT !.kind = kind, !.at = step, !.phone = p]

(* PhoneLibraryService.add_phone registers, then checks the phone.           *)
AddPhone(p, a) == add_phone(p, "offline", a) /\ Request(About(p, "add", "check"))

update_status(p, s) == Exists(p) /\ SetRow(p, s) /\ Request(NoPass) /\ UNCHANGED account

update_phone(p, a) == Exists(p) /\ SetAccount(p, a) /\ Request(NoPass) /\ UNCHANGED status

health_check(p) ==
  Exists(p) /\ Request(About(p, "health", "check")) /\ UNCHANGED rowVars

health_check_all ==
  /\ Request([NoPass EXCEPT !.kind = "health_all",
       !.todo = { p \in Phones : status[p] \notin {"absent", "disabled", "removed"} }])
  /\ UNCHANGED rowVars

(* remove_phone reads the status before its transaction opens.               *)
BeginRemove(p) ==
  /\ Exists(p) /\ status[p] # "running"
  /\ Request(About(p, "remove", "write"))
  /\ UNCHANGED rowVars

remove_phone ==
  /\ At("operator", "write") /\ Kind("operator") = "remove"
  /\ SetRow(Here("operator"), "removed")
  /\ Finish("operator")
  /\ UNCHANGED <<account, cable, events>>

(* devices --register; pairing and connecting over Wi-Fi.  A pairing names   *)
(* an account, connecting does not; any exception on the way marks the row   *)
(* of the phone, if there is one, as failed.                                 *)
refresh_devices ==
  /\ Request([NoPass EXCEPT !.kind = "register", !.devices = cable, !.todo = Connected(cable)])
  /\ UNCHANGED rowVars

mark_existing_wireless_failure(p) ==
  /\ p \in Wireless /\ Exists(p)
  /\ SetRow(p, "error") /\ Request(NoPass) /\ UNCHANGED account

connect_wireless(p, kind, a) ==
  /\ p \in Wireless /\ status_from_adb_state(cable[p]) = "online_idle"
  /\ Request([About(p, kind, "read") EXCEPT !.devices = cable, !.account = a])
  /\ UNCHANGED rowVars

register_next(p) ==
  /\ At("operator", "loop") /\ Kind("operator") = "register" /\ p \in pass["operator"].todo
  /\ Become("operator", [pass["operator"] EXCEPT !.phone = p, !.at = "read"])
  /\ UNCHANGED <<rowVars, cable, events>>

(* upsert_from_adb_device: any row of the serial is overwritten, whatever    *)
(* its status; the account is replaced if one was given.                     *)
upsert_read ==
  /\ At("operator", "read")
  /\ Become("operator", [pass["operator"] EXCEPT
       !.at = IF Exists(Here("operator")) THEN "write" ELSE "add"])
  /\ UNCHANGED <<rowVars, cable, events>>

upsert_from_adb_device ==
  /\ Kind("operator") \in {"register", "pair", "connect"}
  /\ At("operator", "write") \/ At("operator", "add")
  /\ SetRow(Here("operator"), status_from_adb_state(DeviceHere("operator")))
  /\ IF At("operator", "add") \/ Kind("operator") = "pair"
     THEN SetAccount(Here("operator"), pass["operator"].account) ELSE UNCHANGED account
  /\ IF Kind("operator") = "register" /\ status_from_adb_state(DeviceHere("operator")) = "online_idle"
     THEN Go("operator", "check") ELSE NextPhone("operator")
  /\ UNCHANGED <<cable, events>>

health_next(p) ==
  /\ At("operator", "loop") /\ Kind("operator") = "health_all" /\ p \in pass["operator"].todo
  /\ Become("operator", [pass["operator"] EXCEPT !.phone = p, !.at = "check"])
  /\ UNCHANGED <<rowVars, cable, events>>

-----------------------------------------------------------------------------
(* External: a cable is plugged or pulled, a phone authorised or its app lost. *)
Replug(p, c) ==
  /\ c # cable[p] /\ Event
  /\ cable' = [cable EXCEPT ![p] = c]
  /\ UNCHANGED <<rowVars, pass>>
===============================================================================
