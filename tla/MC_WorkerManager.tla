--------------------------- MODULE MC_WorkerManager ---------------------------
(* Instances of WorkerManager for TLC: one telephone known by its USB serial, *)
(* and by the serial it would get over Wi-Fi, which has no row yet.           *)
EXTENDS WorkerManager, TLC

CONSTANTS usb, wifi, redmi

MCNameOf == usb :> redmi @@ wifi :> redmi
MCInitialStatus == usb :> "online_idle" @@ wifi :> "absent"
MCInitialCable == usb :> "ready" @@ wifi :> "missing"
===============================================================================
