------------------------- MODULE MC_SharedDriveImport -------------------------
(* Instance of SharedDriveImport for TLC: a batch, its corrected second      *)
(* delivery, and another batch with one of its files.                        *)
EXTENDS SharedDriveImport, TLC

CONSTANTS f1, f2, f3, b1, b2, v1, v2

MCBatchOf == f1 :> b1 @@ f2 :> b1 @@ f3 :> b2

ARow(n, name, kind) == [row |-> n, name |-> name, kind |-> kind]

MCRows == f1 :> <<ARow(1, v1, "good"), ARow(2, v2, "invalid")>>
       @@ f2 :> <<ARow(1, v1, "good"), ARow(2, v2, "late")>>
       @@ f3 :> <<ARow(1, v1, "late")>>

\* Importers are interchangeable.
MCSymmetry == Permutations(Importers)
===============================================================================
