----------------------- MODULE SharedDriveImportProofs -----------------------
(* Theorems about SharedDriveImport, for every set of folders, batches,      *)
(* sheets and importers: its type invariant and each of its invariants. No   *)
(* folder is left where no scan will look again, a file is released once, a  *)
(* batch is reported as it went, a row has the task it was accepted with,    *)
(* and that task's video is where its path says.                             *)
EXTENDS SharedDriveImport, FiniteSetTheorems, SequenceTheorems, TLAPS

-----------------------------------------------------------------------------
(* The inductive invariant. *)

\* Where an importer may be sure to find its folder, by what it does next.
Settled == {"accepted", "rejected"}
PlacesAt(pc) ==
  CASE pc = "locked" -> {"inbox"}
    [] pc \in {"refresh", "finish", "finish_rejected", "duplicate_batch"} -> Settled
    [] pc = "reject" -> {"processing"} \cup Settled
    [] OTHER -> {"processing"}

\* What a step of one importer leaves of the memory of all.
MemoryShape ==
  /\ importer = [i \in Importers |-> importer[i]]
  /\ \A i \in Importers : {"pc", "folder"} \subseteq DOMAIN importer[i] /\ importer[i].pc \in Pcs

FolderShape ==
  /\ place \in [Folders -> Places] /\ locked \in [Folders -> BOOLEAN]
  /\ \A f \in Folders : place[f] \in {"outside", "staged"} => ~locked[f]

InItsPlace(i) ==
  IF At(i, "off") THEN Folder(i) = Nobody
  ELSE /\ Folder(i) \in Folders
       /\ place[Folder(i)] \in PlacesAt(importer[i].pc)
       /\ At(i, "locked") => locked[Folder(i)]

\* A folder has one importer at most.
OneImporterPerFolder ==
  \A i, j \in Importers : ~At(i, "off") /\ ~At(j, "off") /\ Folder(i) = Folder(j) => i = j

ImportInv ==
  /\ MemoryShape /\ FolderShape
  /\ \A i \in Importers : InItsPlace(i)
  /\ OneImporterPerFolder
  /\ NoFolderIsLeftBehind

-----------------------------------------------------------------------------
(* The kinds of step. *)

\* An importer goes on with its folder.
GoesOn(i) ==
  /\ importer' = [j \in Importers |-> importer'[j]]
  /\ \A j \in Importers \ {i} : importer'[j] = importer[j]
  /\ {"pc", "folder"} \subseteq DOMAIN importer'[i]
  /\ importer'[i].folder = Folder(i) /\ importer'[i].pc \in Pcs \ {"off", "locked"}

\* It touches no folder but its own, and finds it where it will look for it.
LeavesOthers(i) ==
  /\ place' \in [Folders -> Places] /\ locked' \in [Folders -> BOOLEAN]
  /\ \A f \in Folders \ {Folder(i)} : place'[f] = place[f] /\ locked'[f] = locked[f]
  /\ place'[Folder(i)] \in PlacesAt(importer'[i].pc)
  /\ hindered \subseteq hindered'

\* PlacesAt names places a delivery is in or has been through.
LEMMA PlacesAtWork ==
  ASSUME NEW pc
  PROVE  PlacesAt(pc) \subseteq {"inbox", "processing", "accepted", "rejected"}
BY DEF PlacesAt, Settled

\* An importer that goes on keeps the invariant.
LEMMA GoingOn ==
  ASSUME ImportInv, NEW i \in Importers, ~At(i, "off"), GoesOn(i), LeavesOthers(i)
  PROVE  ImportInv'
<1> USE DEF At, Folder
<1>1. \A j \in Importers \ {i} : importer'[j] = importer[j]
  BY DEF GoesOn
<1>2. Folder(i)' = Folder(i) /\ Folder(i) \in Folders /\ importer'[i].pc \notin {"off", "locked"}
  BY DEF GoesOn, ImportInv, InItsPlace
<1>3. \A j \in Importers \ {i} : ~At(j, "off") => Folder(j) # Folder(i)
  BY DEF ImportInv, OneImporterPerFolder
<1>4. MemoryShape'
  BY <1>1 DEF GoesOn, MemoryShape, ImportInv
<1>5. FolderShape'
  <2>1. place'[Folder(i)] \notin {"outside", "staged"}
    BY PlacesAtWork DEF LeavesOthers
  <2> QED BY <2>1 DEF LeavesOthers, FolderShape, ImportInv
<1>6. ASSUME NEW j \in Importers PROVE InItsPlace(j)'
  <2>1. CASE j = i
    BY <1>2, <2>1 DEF InItsPlace, LeavesOthers
  <2>2. CASE j # i
    BY <1>1, <1>3, <2>2 DEF InItsPlace, LeavesOthers, ImportInv
  <2> QED BY <2>1, <2>2
<1>7. OneImporterPerFolder'
  BY <1>1, <1>2, <1>3 DEF OneImporterPerFolder, ImportInv
<1>8. NoFolderIsLeftBehind'
  <2> SUFFICES ASSUME NEW f \in Folders \ hindered',
                      place'[f] = "processing" \/ (place'[f] = "inbox" /\ locked'[f])
               PROVE  \E j \in Importers : Folder(j)' = f
    BY DEF NoFolderIsLeftBehind
  <2>1. CASE f = Folder(i)
    BY <1>2, <2>1
  <2>2. CASE f # Folder(i)
    <3>1. f \in Folders \ hindered
          /\ (place[f] = "processing" \/ (place[f] = "inbox" /\ locked[f]))
      BY <2>2 DEF LeavesOthers
    <3>2. PICK j \in Importers : Folder(j) = f
      BY <3>1 DEF ImportInv, NoFolderIsLeftBehind
    <3> QED BY <1>1, <2>2, <3>2
  <2> QED BY <2>1, <2>2
<1> QED BY <1>4, <1>5, <1>6, <1>7, <1>8 DEF ImportInv

\* It is done with a folder that is settled or whose import was disturbed.
LEMMA Leaving ==
  ASSUME ImportInv, NEW i \in Importers, ~At(i, "off"), Done(i), UNCHANGED <<place, locked>>,
         hindered \subseteq hindered', place[Folder(i)] \in Settled \/ Folder(i) \in hindered'
  PROVE  ImportInv'
<1> USE DEF At, Folder
<1>1. /\ importer' = [j \in Importers |-> importer'[j]] /\ importer'[i] = Off
      /\ \A j \in Importers \ {i} : importer'[j] = importer[j]
  BY DEF Done, ImportInv, MemoryShape
<1>2. {"pc", "folder"} \subseteq DOMAIN Off /\ Off.pc = "off" /\ Off.folder = Nobody /\ "off" \in Pcs
  BY DEF Off, Pcs
<1>3. MemoryShape' /\ FolderShape'
  BY <1>1, <1>2 DEF ImportInv, MemoryShape, FolderShape
<1>4. ASSUME NEW j \in Importers PROVE InItsPlace(j)'
  BY <1>1, <1>2 DEF InItsPlace, ImportInv
<1>5. OneImporterPerFolder'
  BY <1>1, <1>2 DEF OneImporterPerFolder, ImportInv
<1>6. NoFolderIsLeftBehind'
  <2> SUFFICES ASSUME NEW f \in Folders \ hindered',
                      place[f] = "processing" \/ (place[f] = "inbox" /\ locked[f])
               PROVE  \E j \in Importers : Folder(j)' = f
    BY DEF NoFolderIsLeftBehind
  <2>1. PICK j \in Importers : Folder(j) = f
    BY DEF ImportInv, NoFolderIsLeftBehind
  <2>2. j # i
    BY <2>1 DEF Settled
  <2> QED BY <1>1, <2>1, <2>2
<1> QED BY <1>3, <1>4, <1>5, <1>6 DEF ImportInv

\* It takes a folder that no other importer is at work on.
LEMMA Locking ==
  ASSUME ImportInv, NEW i \in Importers, NEW f \in Folders, LockFolder(i, f)
  PROVE  ImportInv'
<1> USE DEF At, Folder
<1>1. /\ importer[i].pc = "off" /\ place[f] = "inbox" /\ ~locked[f] /\ place' = place
      /\ locked' = [locked EXCEPT ![f] = TRUE] /\ hindered \subseteq hindered'
  BY DEF LockFolder
<1>2. /\ importer' = [j \in Importers |-> importer'[j]]
      /\ importer'[i] = [Off EXCEPT !.pc = "locked", !.folder = f]
      /\ \A j \in Importers \ {i} : importer'[j] = importer[j]
  BY DEF LockFolder, ImportInv, MemoryShape
<1>3. /\ {"pc", "folder"} \subseteq DOMAIN importer'[i] /\ importer'[i].pc = "locked"
      /\ importer'[i].folder = f /\ "locked" \in Pcs
  BY <1>2 DEF Off, Pcs
<1>4. \A j \in Importers : ~At(j, "off") => Folder(j) # f
  BY <1>1 DEF ImportInv, InItsPlace, PlacesAt, Settled
<1>5. MemoryShape' /\ FolderShape'
  <2>1. MemoryShape'
    BY <1>2, <1>3 DEF ImportInv, MemoryShape
  <2>2. FolderShape'
    BY <1>1 DEF ImportInv, FolderShape
  <2> QED BY <2>1, <2>2
<1>6. ASSUME NEW j \in Importers PROVE InItsPlace(j)'
  <2>1. CASE j = i
    BY <1>1, <1>3, <2>1 DEF InItsPlace, PlacesAt, ImportInv, FolderShape
  <2>2. CASE j # i
    BY <1>1, <1>2, <1>4, <2>2 DEF InItsPlace, ImportInv, FolderShape
  <2> QED BY <2>1, <2>2
<1>7. OneImporterPerFolder'
  <2> SUFFICES ASSUME NEW j \in Importers, NEW k \in Importers, importer'[j].pc # "off",
                      importer'[k].pc # "off", importer'[j].folder = importer'[k].folder
               PROVE  j = k
    BY DEF OneImporterPerFolder
  <2>1. CASE j = i \/ k = i
    BY <1>2, <1>3, <1>4, <2>1
  <2>2. CASE j # i /\ k # i
    BY <1>2, <2>2 DEF OneImporterPerFolder, ImportInv
  <2> QED BY <2>1, <2>2
<1>8. NoFolderIsLeftBehind'
  <2> SUFFICES ASSUME NEW g \in Folders \ hindered',
                      place[g] = "processing" \/ (place[g] = "inbox" /\ locked'[g])
               PROVE  \E j \in Importers : Folder(j)' = g
    BY <1>1 DEF NoFolderIsLeftBehind
  <2>1. CASE g = f
    BY <1>3, <2>1
  <2>2. CASE g # f
    <3>1. PICK j \in Importers : Folder(j) = g
      BY <1>1, <2>2 DEF ImportInv, NoFolderIsLeftBehind, FolderShape
    <3>2. j # i
      BY <1>1, <3>1, ImportAssumption DEF ImportInv, InItsPlace
    <3> QED BY <1>2, <3>1, <3>2
  <2> QED BY <2>1, <2>2
<1> QED BY <1>5, <1>6, <1>7, <1>8 DEF ImportInv

\* A delivery goes its way to the inbox, and nobody is at work on it yet.
LEMMA Delivering ==
  ASSUME ImportInv, NEW f \in Folders, place[f] \in {"outside", "staged"},
         NEW to \in {"staged", "inbox", "nested"}, place' = [place EXCEPT ![f] = to],
         UNCHANGED <<locked, importer, hindered>>
  PROVE  ImportInv'
<1> USE DEF At, Folder
<1>1. place' \in [Folders -> Places] /\ ~locked[f]
  BY DEF ImportInv, FolderShape, Places
<1>2. \A j \in Importers : ~At(j, "off") => Folder(j) # f
  BY PlacesAtWork DEF ImportInv, InItsPlace
<1>3. MemoryShape' /\ FolderShape' /\ OneImporterPerFolder'
  BY <1>1 DEF ImportInv, MemoryShape, FolderShape, OneImporterPerFolder
<1>4. ASSUME NEW j \in Importers PROVE InItsPlace(j)'
  BY <1>2 DEF InItsPlace, ImportInv, FolderShape
<1>5. NoFolderIsLeftBehind'
  BY <1>1 DEF NoFolderIsLeftBehind, ImportInv, FolderShape
<1> QED BY <1>3, <1>4, <1>5 DEF ImportInv

\* A step from one stage to the next, with or without a move of the folder.
LEMMA NextStage ==
  ASSUME ImportInv, NEW i \in Importers, ~At(i, "off"), NEW pc \in Pcs \ {"off", "locked"},
         Go(i, pc), NEW to \in PlacesAt(pc), place' = [place EXCEPT ![Folder(i)] = to],
         Unlock(i) \/ UNCHANGED locked, hindered \subseteq hindered'
  PROVE  ImportInv'
<1>1. MemoryShape /\ FolderShape /\ Folder(i) \in Folders
  BY DEF ImportInv, InItsPlace
<1>2. GoesOn(i) /\ importer'[i].pc = pc
  BY <1>1 DEF Go, GoesOn, MemoryShape, Folder
<1>3. to \in Places
  BY PlacesAtWork DEF Places
<1>4. LeavesOthers(i)
  BY <1>1, <1>2, <1>3 DEF LeavesOthers, FolderShape, Unlock
<1> QED BY <1>2, <1>4, GoingOn

\* A step inside a row moves no folder.
RowStages == {"row", "name", "select_video", "add_video", "add_caption", "select_task",
              "create_task", "record_item", "record_duplicate", "record_failure"}

\* It keeps the invariant.
LEMMA RowStep ==
  ASSUME ImportInv, NEW i \in Importers, importer[i].pc \in RowStages \cup {"upsert"},
         NEW m, importer' = [importer EXCEPT ![i] = m], {"pc", "folder"} \subseteq DOMAIN m,
         m.folder = importer[i].folder, m.pc \in RowStages,
         UNCHANGED <<place, locked>>, hindered \subseteq hindered'
  PROVE  ImportInv'
<1>1. ~At(i, "off")
  BY DEF At, RowStages
<1>2. MemoryShape /\ FolderShape /\ Folder(i) \in Folders /\ place[Folder(i)] = "processing"
  BY <1>1 DEF ImportInv, InItsPlace, PlacesAt, RowStages
<1>3. m.pc \in Pcs \ {"off", "locked"} /\ PlacesAt(m.pc) = {"processing"}
  BY DEF Pcs, PlacesAt, RowStages
<1>4. GoesOn(i) /\ importer'[i].pc = m.pc
  BY <1>2, <1>3 DEF GoesOn, MemoryShape, Folder
<1>5. LeavesOthers(i)
  BY <1>2, <1>3, <1>4 DEF LeavesOthers, FolderShape
<1> QED BY <1>1, <1>4, <1>5, GoingOn

\* What a row writes to the memory of its importer.
LEMMA RowMemory ==
  ASSUME ImportInv, NEW i \in Importers
  PROVE  LET old == importer[i] IN
         /\ {"pc", "folder"} \subseteq DOMAIN old
         /\ \A pc : /\ {"pc", "folder"} \subseteq DOMAIN [old EXCEPT !.pc = pc]
                    /\ [old EXCEPT !.pc = pc].pc = pc
                    /\ [old EXCEPT !.pc = pc].folder = old.folder
         /\ {"pc", "folder"} \subseteq DOMAIN NextRow(i)
         /\ NextRow(i).pc = "row" /\ NextRow(i).folder = old.folder
BY DEF ImportInv, MemoryShape, NextRow

\* Every step of an importer is one in which it goes on or is done.
LEMMA Importing ==
  ASSUME ImportInv, NEW i \in Importers, ImporterStep(i)
  PROVE  ImportInv'
<1>1. ASSUME NEW pc \in RowStages, NEW qc \in RowStages, At(i, pc), Go(i, qc),
             UNCHANGED <<place, locked, hindered>>
      PROVE  ImportInv'
  <2> DEFINE m == [importer[i] EXCEPT !.pc = qc]
  <2>1. {"pc", "folder"} \subseteq DOMAIN m /\ m.pc = qc /\ m.folder = importer[i].folder
    BY RowMemory
  <2>2. importer' = [importer EXCEPT ![i] = m]
    BY <1>1 DEF Go
  <2> HIDE DEF m
  <2> QED BY <1>1, <2>1, <2>2, RowStep DEF At
<1>2. CASE RejectDuplicate(i)
  <2>1. /\ ~At(i, "off") /\ "duplicate_batch" \in Pcs \ {"off", "locked"}
        /\ "rejected" \in PlacesAt("duplicate_batch")
    BY <1>2 DEF RejectDuplicate, At, Pcs, PlacesAt, Settled
  <2> QED BY <1>2, <2>1, NextStage DEF RejectDuplicate, MoveFolder
<1>3. CASE MoveToProcessing(i)
  <2>1. ~At(i, "off") /\ "upsert" \in Pcs \ {"off", "locked"} /\ "processing" \in PlacesAt("upsert")
    BY <1>3 DEF MoveToProcessing, At, Pcs, PlacesAt
  <2> QED BY <1>3, <2>1, NextStage DEF MoveToProcessing, MoveFolder
<1>4. CASE upsert_batch(i)
  <2>1. CASE At(i, "upsert")
    <3> DEFINE m == [importer[i] EXCEPT !.pc = "row", !.n = 1]
    <3>1. {"pc", "folder"} \subseteq DOMAIN m /\ m.pc = "row" /\ m.folder = importer[i].folder
      BY RowMemory
    <3>2. importer' = [importer EXCEPT ![i] = m] /\ UNCHANGED <<place, locked, hindered>>
      BY <1>4, <2>1 DEF upsert_batch, At
    <3> QED BY <2>1, <3>1, <3>2, RowStep DEF At, RowStages
  <2>2. CASE At(i, "duplicate_batch")
    <3>1. place[Folder(i)] \in Settled
      BY <2>2 DEF ImportInv, InItsPlace, At, PlacesAt
    <3> QED BY <1>4, <2>2, <3>1, Leaving DEF upsert_batch, At
  <2> QED BY <1>4, <2>1, <2>2 DEF upsert_batch
<1>5. CASE item_exists(i)
  <2>1. CASE importer' = [importer EXCEPT ![i] = NextRow(i)]
    BY <1>5, <2>1, RowStep, RowMemory DEF item_exists, InRow, At, RowStages
  <2>2. CASE Go(i, "record_failure") \/ Go(i, "name")
    BY <1>1, <1>5, <2>2 DEF item_exists, InRow, RowStages
  <2> QED BY <1>5, <2>1, <2>2 DEF item_exists
<1>6. CASE CheckFileName(i)
  <2> DEFINE m == [importer[i] EXCEPT !.pc = "select_video", !.seen = @ \cup {Row(i).name}]
  <2>1. {"pc", "folder"} \subseteq DOMAIN m /\ m.pc = "select_video" /\ m.folder = importer[i].folder
    BY RowMemory
  <2>2. CASE importer' = [importer EXCEPT ![i] = m]
    BY <1>6, <2>1, <2>2, RowStep DEF CheckFileName, At, RowStages
  <2>3. CASE Go(i, "record_duplicate")
    BY <1>1, <1>6, <2>3 DEF CheckFileName, RowStages
  <2> QED BY <1>6, <2>2, <2>3 DEF CheckFileName
<1>7. CASE SelectVideo(i)
  <2> DEFINE m(v) == [importer[i] EXCEPT !.pc = "add_video", !.video = v, !.known = Len(videos)]
             fresh == [importer[i] EXCEPT !.pc = "add_video", !.known = Len(videos)]
  <2>1. /\ \A v : {"pc", "folder"} \subseteq DOMAIN m(v) /\ m(v).pc = "add_video"
                 /\ m(v).folder = importer[i].folder
        /\ {"pc", "folder"} \subseteq DOMAIN fresh /\ fresh.pc = "add_video"
        /\ fresh.folder = importer[i].folder
    BY RowMemory
  <2>2. CASE importer' = [importer EXCEPT ![i] = fresh]
    <3> HIDE DEF fresh
    <3> QED BY <1>7, <2>1, <2>2, RowStep DEF SelectVideo, At, RowStages
  <2>3. CASE \E v : importer' = [importer EXCEPT ![i] = m(v)]
    <3> HIDE DEF m
    <3> QED BY <1>7, <2>1, <2>3, RowStep DEF SelectVideo, At, RowStages
  <2>4. CASE Go(i, "record_duplicate")
    BY <1>1, <1>7, <2>4 DEF SelectVideo, RowStages
  <2> QED BY <1>7, <2>2, <2>3, <2>4 DEF SelectVideo
<1>8. CASE add_video(i)
  <2> DEFINE v == IF importer[i].video = 0 THEN Len(videos) + 1 ELSE importer[i].video
             m == [importer[i] EXCEPT !.pc = "add_caption", !.video = v]
  <2>1. {"pc", "folder"} \subseteq DOMAIN m /\ m.pc = "add_caption" /\ m.folder = importer[i].folder
    BY RowMemory
  <2>2. importer' = [importer EXCEPT ![i] = m] /\ At(i, "add_video")
        /\ UNCHANGED <<place, locked, hindered>>
    BY <1>8 DEF add_video
  <2> HIDE DEF m
  <2> QED BY <2>1, <2>2, RowStep DEF At, RowStages
<1>9. CASE add_caption(i)
  BY <1>1, <1>9 DEF add_caption, RowStages
<1>10. CASE SelectTask(i)
  <2> DEFINE m(t) == [importer[i] EXCEPT !.pc = "record_item", !.task = t]
  <2>1. \A t : {"pc", "folder"} \subseteq DOMAIN m(t) /\ m(t).pc = "record_item"
              /\ m(t).folder = importer[i].folder
    BY RowMemory
  <2>2. CASE \E t : importer' = [importer EXCEPT ![i] = m(t)]
    <3> HIDE DEF m
    <3> QED BY <1>10, <2>1, <2>2, RowStep DEF SelectTask, At, RowStages
  <2>3. CASE Go(i, "record_failure") \/ Go(i, "create_task")
    BY <1>1, <1>10, <2>3 DEF SelectTask, RowStages
  <2> QED BY <1>10, <2>2, <2>3 DEF SelectTask
<1>11. CASE create_task(i)
  <2> DEFINE m == [importer[i] EXCEPT !.pc = "record_item", !.task = Len(tasks) + 1]
  <2>1. {"pc", "folder"} \subseteq DOMAIN m /\ m.pc = "record_item" /\ m.folder = importer[i].folder
    BY RowMemory
  <2>2. importer' = [importer EXCEPT ![i] = m] /\ At(i, "create_task")
        /\ UNCHANGED <<place, locked, hindered>>
    BY <1>11 DEF create_task
  <2> HIDE DEF m
  <2> QED BY <2>1, <2>2, RowStep DEF At, RowStages
<1>12. CASE record_item(i)
  <2>1. /\ importer[i].pc \in RowStages /\ UNCHANGED <<place, locked, hindered>>
        /\ \E b : importer' = [importer EXCEPT ![i] = [NextRow(i) EXCEPT !.accepted = b]]
    BY <1>12 DEF record_item, Record, At, RowStages
  <2>2. PICK b : importer' = [importer EXCEPT ![i] = [NextRow(i) EXCEPT !.accepted = b]]
    BY <2>1
  <2> DEFINE m == [NextRow(i) EXCEPT !.accepted = b]
  <2>3. {"pc", "folder"} \subseteq DOMAIN m /\ m.pc = "row" /\ m.folder = importer[i].folder
    BY RowMemory
  <2> HIDE DEF m
  <2> QED BY <2>1, <2>2, <2>3, RowStep DEF RowStages, m
<1>13. CASE SettleFolder(i)
  <2>1. ~At(i, "off") /\ FinalPlace(i) \in Settled
    BY <1>13 DEF SettleFolder, At, FinalPlace, Settled
  <2>2. \A pc \in {"refresh", "finish"} : pc \in Pcs \ {"off", "locked"} /\ PlacesAt(pc) = Settled
    BY DEF Pcs, PlacesAt
  <2> QED BY <1>13, <2>1, <2>2, NextStage DEF SettleFolder, MoveFolder
<1>14. CASE refresh_accepted_video_paths(i)
  <2>1. ~At(i, "off") /\ place[Folder(i)] \in Settled /\ place = [place EXCEPT ![Folder(i)] = @]
    BY <1>14 DEF refresh_accepted_video_paths, At, ImportInv, InItsPlace, PlacesAt, FolderShape
  <2>2. "finish" \in Pcs \ {"off", "locked"} /\ PlacesAt("finish") = Settled
    BY DEF Pcs, PlacesAt
  <2> QED BY <1>14, <2>1, <2>2, NextStage DEF refresh_accepted_video_paths
<1>15. CASE finish_batch(i)
  <2>1. ~At(i, "off") /\ place[Folder(i)] \in Settled
    BY <1>15 DEF finish_batch, At, ImportInv, InItsPlace, PlacesAt
  <2> QED BY <1>15, <2>1, Leaving DEF finish_batch
<1>16. CASE RejectFolder(i)
  <2>1. ~At(i, "off") /\ place[Folder(i)] \in {"processing"} \cup Settled
        /\ place = [place EXCEPT ![Folder(i)] = @]
    BY <1>16 DEF RejectFolder, At, ImportInv, InItsPlace, PlacesAt, FolderShape
  <2>2. "finish_rejected" \in Pcs \ {"off", "locked"} /\ PlacesAt("finish_rejected") = Settled
    BY DEF Pcs, PlacesAt
  <2>3. CASE place[Folder(i)] = "processing"
    BY <1>16, <2>1, <2>2, <2>3, NextStage DEF RejectFolder, MoveFolder, Settled
  <2>4. CASE place[Folder(i)] # "processing"
    BY <1>16, <2>1, <2>2, <2>4, NextStage DEF RejectFolder
  <2> QED BY <2>3, <2>4
<1> QED BY <1>2, <1>3, <1>4, <1>5, <1>6, <1>7, <1>8, <1>9, <1>10, <1>11, <1>12, <1>13, <1>14,
           <1>15, <1>16 DEF ImporterStep

\* A row that fails is recorded, anything else rejects the folder.
LEMMA Failing ==
  ASSUME ImportInv, NEW i \in Importers, DatabaseError(i)
  PROVE  ImportInv'
<1>1. UNCHANGED <<place, locked>> /\ hindered \subseteq hindered'
  BY DEF DatabaseError, Disturb
<1>2. CASE importer[i].pc \in RowStages /\ Go(i, "record_failure")
  <2> DEFINE m == [importer[i] EXCEPT !.pc = "record_failure"]
  <2>1. {"pc", "folder"} \subseteq DOMAIN m /\ m.pc = "record_failure"
        /\ m.folder = importer[i].folder
    BY RowMemory
  <2>2. importer' = [importer EXCEPT ![i] = m]
    BY <1>2 DEF Go
  <2> HIDE DEF m
  <2> QED BY <1>1, <1>2, <2>1, <2>2, RowStep DEF RowStages
<1>3. CASE importer[i].pc \in {"record_failure", "refresh", "finish"} /\ Go(i, "reject")
  <2>1. ~At(i, "off") /\ place[Folder(i)] \in {"processing"} \cup Settled
        /\ place = [place EXCEPT ![Folder(i)] = @]
    BY <1>3 DEF At, ImportInv, InItsPlace, PlacesAt, FolderShape
  <2>2. "reject" \in Pcs \ {"off", "locked"} /\ PlacesAt("reject") = {"processing"} \cup Settled
    BY DEF Pcs, PlacesAt
  <2> QED BY <1>1, <1>3, <2>1, <2>2, NextStage
<1> QED BY <1>2, <1>3 DEF DatabaseError, RowSteps, RowStages, InRow, At

\* Every step keeps the invariant.
LEMMA ImportStep ==
  ASSUME ImportInv, [Next]_vars
  PROVE  ImportInv'
<1>1. ASSUME NEW f \in Folders, BeginUpload(f) \/ upload_batch(f) \/ submit_task(f)
      PROVE  ImportInv'
  BY <1>1, Delivering DEF BeginUpload, upload_batch, submit_task
<1>2. ASSUME NEW i \in Importers, NEW f \in Folders, LockFolder(i, f) PROVE ImportInv'
  BY <1>2, Locking
<1>3. ASSUME NEW i \in Importers, ImporterStep(i) PROVE ImportInv'
  BY <1>3, Importing
<1>4. ASSUME NEW i \in Importers, DatabaseError(i) PROVE ImportInv'
  BY <1>4, Failing
<1>5. ASSUME NEW i \in Importers, Crash(i) PROVE ImportInv'
  BY <1>5, Leaving DEF Crash, Disturb
<1>6. CASE \/ UNCHANGED vars \/ \E t \in DOMAIN tasks : TaskEnds(t)
           \/ \E v \in DOMAIN videos : remove_video(v)
  <2>1. UNCHANGED <<place, locked, importer, hindered>>
    BY <1>6 DEF vars, TaskEnds, remove_video
  <2> QED BY <2>1 DEF ImportInv, MemoryShape, FolderShape, InItsPlace, OneImporterPerFolder,
                      NoFolderIsLeftBehind, At, Folder
<1> QED BY <1>1, <1>2, <1>3, <1>4, <1>5, <1>6 DEF Next

\* The invariant holds of every state.
LEMMA ImportHolds == Spec => []ImportInv
<1>1. Init => ImportInv
  BY DEF Init, ImportInv, MemoryShape, FolderShape, InItsPlace, OneImporterPerFolder,
         NoFolderIsLeftBehind, At, Folder, Off, Pcs, Places
<1>2. ImportInv /\ [Next]_vars => ImportInv'
  BY ImportStep
<1> QED BY <1>1, <1>2, PTL DEF Spec

\* A folder that has been taken is worked on until it is settled, unless its
\* import was disturbed by a crash or an error or overlapped with another of
\* its batch; whatever the importers, the deliveries and the sheets.
THEOREM FoldersAreAttended == Spec => []NoFolderIsLeftBehind
<1>1. ImportInv => NoFolderIsLeftBehind
  BY DEF ImportInv
<1> QED BY <1>1, ImportHolds, PTL

-----------------------------------------------------------------------------
(* Types. *)

\* The stages about one row; those in which its video is in the library, and
\* its task is not yet known; those before it is looked for.
InSheet == RowStages \ {"row"}
Unreleased == {"add_caption", "select_task", "create_task"}
Holding == Unreleased \cup {"record_item"}
Early == {"locked", "upsert", "row", "name", "select_video"}

ItemType == [status : {"none", "accepted", "duplicate", "invalid"}, video : Nat, task : Nat]
VideoType == [name : Names, status : {"unused", "assigned", "removed"},
              path : Folders \X {"processing", "accepted"}]
TaskType == [video : Nat, name : Names, item : Batches \X RowIds, active : BOOLEAN]
MemoryType == [pc : Pcs, folder : Folders \cup {Nobody}, n : Nat, seen : SUBSET Names,
               video : Nat, known : Nat, task : Nat, accepted : BOOLEAN]

\* The row an importer is at is one of its sheet.
InItsSheet(m) ==
  /\ m.pc \in RowStages => m.n \in 1..Len(Rows[m.folder]) + 1
  /\ m.pc \in InSheet => m.n <= Len(Rows[m.folder])

TypeInv ==
  /\ place \in [Folders -> Places] /\ locked \in [Folders -> BOOLEAN]
  /\ batch \in [Batches -> {"none", "processing"} \cup TERMINAL_BATCH_STATUSES]
  /\ items \in [Batches \X RowIds -> ItemType]
  /\ videos \in Seq(VideoType) /\ tasks \in Seq(TaskType) /\ captions \subseteq Names
  /\ importer \in [Importers -> MemoryType] /\ \A i \in Importers : InItsSheet(importer[i])
  /\ faults \in Nat /\ hindered \subseteq Folders /\ overtaken \subseteq Names
  /\ removals \in [Names -> Nat] /\ pulled \subseteq DOMAIN videos

\* Every sheet is a sequence of rows, and every importer at work has one.
LEMMA SheetIs ==
  ASSUME ImportInv, TypeInv, NEW i \in Importers, ~At(i, "off")
  PROVE  /\ Folder(i) \in Folders /\ Batch(i) \in Batches
         /\ Sheet(i) \in Seq(RowRecord) /\ Len(Sheet(i)) \in Nat
         /\ Sheet(i) = Rows[importer[i].folder]
<1>1. Folder(i) \in Folders
  BY DEF ImportInv, InItsPlace
<1> QED BY <1>1, ImportAssumption DEF Sheet, Batch, Folder

\* What it reads of its row.
LEMMA RowIs ==
  ASSUME ImportInv, TypeInv, NEW i \in Importers, importer[i].pc \in InSheet
  PROVE  /\ Row(i) \in RowRecord /\ Row(i).name \in Names /\ Item(i) \in Batches \X RowIds
         /\ Item(i)[1] = Batch(i)
<1>1. ~At(i, "off")
  BY DEF InSheet, RowStages, At
<1>2. importer[i].n \in DOMAIN Sheet(i)
  BY <1>1, SheetIs DEF TypeInv, InItsSheet, InSheet, MemoryType
<1>3. Row(i) \in RowRecord
  BY <1>1, <1>2, SheetIs DEF Row
<1>4. Row(i).row \in RowIds
  <2>1. Folder(i) \in Folders /\ Row(i) = Rows[Folder(i)][importer[i].n]
        /\ importer[i].n \in DOMAIN Rows[Folder(i)]
    BY <1>1, <1>2, SheetIs DEF Row, Sheet
  <2>2. Row(i).row \in { Rows[Folder(i)][n].row : n \in DOMAIN Rows[Folder(i)] }
    BY <2>1
  <2> QED BY <2>1, <2>2 DEF RowIds
<1> QED BY <1>1, <1>3, <1>4, SheetIs DEF RowRecord, Item

-----------------------------------------------------------------------------
(* What a step does to the memories. *)

Others(i) == \A j \in Importers \ {i} : importer'[j] = importer[j]

\* A step of an importer that keeps the types of all.
Typed(i) == /\ importer' \in [Importers -> MemoryType]
            /\ \A j \in Importers : InItsSheet(importer'[j])
            /\ Others(i)

\* It does not look for, hold or have stored a video next.
Leaves(i) ==
  /\ importer'[i].pc \notin Holding \cup {"add_video"}
  /\ importer'[i].video \in {0, importer[i].video}
  /\ importer'[i].pc \in Early => importer'[i].video = 0 \/ importer[i].pc \in Early

Keeps(i) == /\ importer'[i].folder = importer[i].folder /\ importer'[i].n = importer[i].n
            /\ importer'[i].accepted = importer[i].accepted

Selects(i) ==
  /\ importer[i].pc = "select_video" /\ importer'[i].pc = "add_video" /\ Keeps(i)
  /\ importer'[i].known = Len(videos)
  /\ \/ importer'[i].video = importer[i].video /\ SameFile(Row(i).name) = {}
     \/ /\ importer'[i].video \in SameFile(Row(i).name)
        /\ videos[importer'[i].video].status = "removed"

Proceeds(i) ==
  /\ importer[i].pc \in {"add_caption", "select_task"} /\ Keeps(i)
  /\ importer'[i].pc \in {"select_task", "create_task"}
  /\ importer'[i].video = importer[i].video

Finds(i) ==
  /\ importer[i].pc = "select_task" /\ importer'[i].pc = "record_item" /\ Keeps(i)
  /\ importer'[i].video = importer[i].video
  /\ importer'[i].task \in TasksOf(importer[i].video)

Adds(i) ==
  /\ importer[i].pc = "add_video" /\ importer'[i].pc = "add_caption" /\ Keeps(i)
  /\ importer'[i].video = IF importer[i].video = 0 THEN Len(videos) + 1 ELSE importer[i].video

Creates(i) ==
  /\ importer[i].pc = "create_task" /\ importer'[i].pc = "record_item" /\ Keeps(i)
  /\ importer'[i].video = importer[i].video /\ importer'[i].task = Len(tasks) + 1

\* The memory of one importer is written.
LEMMA Writing ==
  ASSUME TypeInv, NEW i \in Importers, NEW m \in MemoryType, InItsSheet(m),
         importer' = [importer EXCEPT ![i] = m]
  PROVE  Typed(i) /\ importer'[i] = m
BY DEF TypeInv, Typed, Others

\* It goes on with its row, or leaves its rows.
LEMMA GoingTyped ==
  ASSUME TypeInv, NEW i \in Importers, NEW pc \in Pcs, Go(i, pc),
         \/ pc \notin RowStages
         \/ pc \in InSheet /\ importer[i].pc \in InSheet
         \/ pc \in InSheet /\ importer[i].n <= Len(Sheet(i)) /\ importer[i].pc \in RowStages
  PROVE  /\ Typed(i) /\ importer'[i].pc = pc /\ Keeps(i)
         /\ importer'[i].video = importer[i].video /\ importer'[i].known = importer[i].known
         /\ importer'[i].task = importer[i].task
<1> DEFINE m == [importer[i] EXCEPT !.pc = pc]
<1>1. /\ m \in MemoryType /\ m.pc = pc /\ m.folder = importer[i].folder /\ m.n = importer[i].n
      /\ m.video = importer[i].video /\ m.known = importer[i].known /\ m.task = importer[i].task
      /\ m.accepted = importer[i].accepted
  BY DEF TypeInv, MemoryType
<1>2. InItsSheet(importer[i])
  BY DEF TypeInv
<1>3. importer' = [importer EXCEPT ![i] = m]
  BY DEF Go
<1>4. InItsSheet(m)
  BY <1>1, <1>2 DEF InItsSheet, InSheet, Sheet, Folder
<1> HIDE DEF m
<1> QED BY <1>1, <1>3, <1>4, Writing DEF Keeps

\* The tables the invariants below are about, and the history beside them.
Tables == <<items, videos, tasks, historyVars>>

\* A step of an importer that writes none of them.
Rests(i) == UNCHANGED Tables /\ (Leaves(i) \/ Selects(i) \/ Proceeds(i) \/ Finds(i))

Effect(i) ==
  /\ Typed(i)
  /\ \/ Rests(i)
     \/ add_video(i) /\ Adds(i)
     \/ create_task(i) /\ Creates(i)
     \/ /\ record_item(i) /\ Leaves(i) /\ importer'[i].pc = "row"
        /\ At(i, "record_item") => importer'[i].accepted
     \/ refresh_accepted_video_paths(i) /\ Leaves(i)

\* The memory of an importer that is not at work, and of one that has just
\* taken a folder.
LEMMA OffIs ==
  ASSUME NEW f \in Folders
  PROVE  /\ Off \in MemoryType /\ InItsSheet(Off) /\ Off.pc = "off" /\ Off.video = 0
         /\ LET m == [Off EXCEPT !.pc = "locked", !.folder = f] IN
            /\ m \in MemoryType /\ InItsSheet(m) /\ m.pc = "locked" /\ m.video = 0
            /\ m.folder = f /\ ~m.accepted
BY DEF Off, MemoryType, Pcs, InItsSheet, InSheet, RowStages

\* An importer that lays its work down.
LEMMA DoneEffect ==
  ASSUME TypeInv, NEW i \in Importers, Done(i)
  PROVE  Typed(i) /\ Leaves(i) /\ importer'[i] = Off
<1>1. Off \in MemoryType /\ InItsSheet(Off) /\ Off.pc = "off" /\ Off.video = 0
  BY DEF Off, MemoryType, Pcs, InItsSheet, InSheet, RowStages
<1>2. Typed(i) /\ importer'[i] = Off
  BY <1>1, Writing DEF Done
<1> HIDE DEF Off
<1> QED BY <1>1, <1>2 DEF Leaves, Holding, Unreleased, Early

\* One field of a memory is written.
LEMMA FieldWritten ==
  ASSUME NEW m \in MemoryType
  PROVE  /\ \A x \in Pcs : [m EXCEPT !.pc = x] \in MemoryType
         /\ \A x \in Nat : [m EXCEPT !.n = x] \in MemoryType
         /\ \A x \in Nat : [m EXCEPT !.video = x] \in MemoryType
         /\ \A x \in Nat : [m EXCEPT !.known = x] \in MemoryType
         /\ \A x \in Nat : [m EXCEPT !.task = x] \in MemoryType
         /\ \A x \in BOOLEAN : [m EXCEPT !.accepted = x] \in MemoryType
         /\ \A x \in SUBSET Names : [m EXCEPT !.seen = x] \in MemoryType
BY DEF MemoryType

\* What is left in it when its importer goes to the next row.
LEMMA NextMemory ==
  ASSUME NEW old \in MemoryType
  PROVE  LET next == [old EXCEPT !.pc = "row", !.n = old.n + 1, !.video = 0, !.known = 0, !.task = 0]
         IN  /\ next \in MemoryType /\ next.pc = "row" /\ next.folder = old.folder
             /\ next.n = old.n + 1 /\ next.video = 0 /\ next.accepted = old.accepted
<1> DEFINE first == [old EXCEPT !.pc = "row", !.n = old.n + 1]
           next == [first EXCEPT !.video = 0, !.known = 0, !.task = 0]
<1>1. "row" \in Pcs /\ old.n + 1 \in Nat
  BY DEF Pcs, MemoryType
<1>2. first \in MemoryType
  BY <1>1, FieldWritten
<1>3. next \in MemoryType
  <2> HIDE DEF first
  <2> QED BY <1>2, FieldWritten
<1>4. next.pc = "row" /\ next.folder = old.folder /\ next.n = old.n + 1 /\ next.video = 0
      /\ next.accepted = old.accepted
  BY DEF MemoryType
<1> QED BY <1>3, <1>4

\* The next row of a batch starts without a video, with what was accepted so far.
LEMMA NextRowIs ==
  ASSUME TypeInv, NEW i \in Importers, NEW accepted \in BOOLEAN
  PROVE  LET last == [NextRow(i) EXCEPT !.accepted = accepted] IN
         /\ NextRow(i) \in MemoryType /\ NextRow(i).pc = "row" /\ NextRow(i).video = 0
         /\ NextRow(i).folder = importer[i].folder /\ NextRow(i).n = importer[i].n + 1
         /\ NextRow(i).accepted = importer[i].accepted
         /\ last \in MemoryType /\ last.pc = "row" /\ last.video = 0
         /\ last.folder = importer[i].folder /\ last.n = importer[i].n + 1
         /\ last.accepted = accepted
<1> DEFINE old == importer[i]
<1>1. old \in MemoryType
  BY DEF TypeInv
<1>2. NextRow(i) = [old EXCEPT !.pc = "row", !.n = old.n + 1, !.video = 0, !.known = 0, !.task = 0]
  BY <1>1 DEF NextRow, MemoryType
<1>3. /\ NextRow(i) \in MemoryType /\ NextRow(i).pc = "row" /\ NextRow(i).video = 0
      /\ NextRow(i).folder = old.folder /\ NextRow(i).n = old.n + 1
      /\ NextRow(i).accepted = old.accepted
  <2> HIDE DEF old
  <2> QED BY <1>1, <1>2, NextMemory
<1>4. \A next \in MemoryType :
        LET last == [next EXCEPT !.accepted = accepted] IN
        /\ last \in MemoryType /\ last.accepted = accepted
        /\ last.pc = next.pc /\ last.video = next.video /\ last.folder = next.folder
        /\ last.n = next.n
  BY DEF MemoryType
<1> QED BY <1>3, <1>4

\* An importer that goes to its next row.
LEMMA NextRowEffect ==
  ASSUME ImportInv, TypeInv, NEW i \in Importers, NEW m \in MemoryType,
         importer[i].pc \in RowStages, importer[i].n <= Len(Sheet(i)),
         importer' = [importer EXCEPT ![i] = m], m.pc = "row", m.video = 0,
         m.folder = importer[i].folder, m.n = importer[i].n + 1
  PROVE  Typed(i) /\ Leaves(i) /\ importer'[i] = m
<1>1. InItsSheet(importer[i]) /\ importer[i].n \in Nat /\ Len(Sheet(i)) \in Nat
      /\ Sheet(i) = Rows[importer[i].folder]
  BY SheetIs DEF TypeInv, MemoryType, RowStages, At
<1>2. InItsSheet(m)
  BY <1>1 DEF InItsSheet, InSheet
<1>3. importer'[i] = m /\ Typed(i)
  BY <1>2, Writing
<1> QED BY <1>3 DEF Leaves, Holding, Unreleased

\* An importer at work goes on with its folder, or lays it down; only an item
\* that records a task changes whether its batch is accepted.
Course(i) ==
  /\ ~At(i, "off")
  /\ \/ importer'[i] = Off
     \/ /\ importer'[i].folder = Folder(i) /\ importer'[i].pc # "off"
        /\ importer[i].accepted => importer'[i].accepted
        /\ importer'[i].accepted => importer[i].accepted \/ At(i, "record_item")

\* A step that only sends the importer on, to a stage in which it does not
\* look for, hold or store a video.
LEMMA GoingEffect ==
  ASSUME ImportInv, TypeInv, NEW i \in Importers, ~At(i, "off"), NEW pc \in Pcs, Go(i, pc),
         pc \notin Holding \cup {"add_video", "off"},
         pc \in Early => importer[i].pc \in Early,
         \/ pc \notin RowStages
         \/ pc \in InSheet /\ importer[i].pc \in InSheet
         \/ pc \in InSheet /\ importer[i].n <= Len(Sheet(i)) /\ importer[i].pc \in RowStages
  PROVE  Typed(i) /\ Leaves(i) /\ Course(i)
<1>1. /\ Typed(i) /\ importer'[i].pc = pc /\ Keeps(i)
      /\ importer'[i].video = importer[i].video
  BY GoingTyped
<1>2. Course(i)
  BY <1>1 DEF Course, Keeps, Folder, At, TypeInv, MemoryType
<1> QED BY <1>1, <1>2 DEF Leaves

\* What every step of an importer does.
LEMMA ImporterEffect ==
  ASSUME ImportInv, TypeInv, NEW i \in Importers, ImporterStep(i)
  PROVE  Effect(i) /\ Course(i)
<1> DEFINE old == importer[i]
<1>1. /\ old \in MemoryType /\ InItsSheet(old) /\ importer \in [Importers -> MemoryType]
  BY DEF TypeInv
<1>2. UNCHANGED Tables /\ Typed(i) /\ Leaves(i) => Effect(i)
  BY DEF Effect, Rests
<1>3. CASE RejectDuplicate(i)
  <2>1. "duplicate_batch" \in Pcs \ RowStages /\ "duplicate_batch" \notin Holding \cup {"add_video", "off"}
        /\ "duplicate_batch" \notin Early
    BY DEF Pcs, RowStages, Holding, Unreleased, Early
  <2>2. ~At(i, "off") /\ Go(i, "duplicate_batch") /\ UNCHANGED Tables
    BY <1>3 DEF RejectDuplicate, At, Tables, dbVars, historyVars
  <2> QED BY <1>2, <2>1, <2>2, GoingEffect
<1>4. CASE MoveToProcessing(i)
  <2>1. "upsert" \in Pcs \ RowStages /\ "upsert" \notin Holding \cup {"add_video", "off"}
        /\ "locked" \in Early
    BY DEF Pcs, RowStages, Holding, Unreleased, Early
  <2>2. old.pc = "locked" /\ ~At(i, "off") /\ Go(i, "upsert") /\ UNCHANGED Tables
    BY <1>4 DEF MoveToProcessing, At, Tables, dbVars, historyVars
  <2> QED BY <1>2, <2>1, <2>2, GoingEffect
<1>5. CASE upsert_batch(i)
  <2>1. UNCHANGED Tables
    BY <1>5 DEF upsert_batch, Tables, historyVars
  <2>2. CASE At(i, "upsert")
    <3> DEFINE m == [old EXCEPT !.pc = "row", !.n = 1]
    <3>1. importer' = [importer EXCEPT ![i] = m]
      BY <1>5, <2>2 DEF upsert_batch, At
    <3>2. "row" \in Pcs /\ 1 \in Nat
      BY DEF Pcs
    <3>3. m \in MemoryType
      <4> HIDE DEF old
      <4> QED BY <1>1, <3>2, FieldWritten
    <3>4. m.pc = "row" /\ m.n = 1 /\ m.folder = old.folder /\ m.video = old.video
          /\ m.accepted = old.accepted
      BY <1>1 DEF MemoryType
    <3>5. ~At(i, "off") /\ Len(Rows[old.folder]) \in Nat
      BY <2>2, SheetIs DEF At
    <3>6. InItsSheet(m)
      BY <3>4, <3>5 DEF InItsSheet, InSheet
    <3> HIDE DEF m
    <3>7. Typed(i) /\ importer'[i] = m
      BY <3>1, <3>3, <3>6, Writing
    <3>8. Leaves(i) /\ Course(i)
      BY <2>2, <3>4, <3>5, <3>7 DEF Leaves, Course, At, Folder, Holding, Unreleased, Early
    <3> QED BY <1>2, <2>1, <3>7, <3>8
  <2>3. CASE At(i, "duplicate_batch")
    <3>1. Done(i) /\ ~At(i, "off")
      BY <1>5, <2>3 DEF upsert_batch, At
    <3> QED BY <1>2, <2>1, <3>1, DoneEffect DEF Course
  <2> QED BY <1>5, <2>2, <2>3 DEF upsert_batch
<1>6. CASE item_exists(i)
  <2>1. /\ UNCHANGED Tables /\ ~At(i, "off") /\ old.pc = "row" /\ old.pc \in RowStages
        /\ old.n <= Len(Sheet(i))
    BY <1>6 DEF item_exists, InRow, At, RowStages, Tables, dbVars, historyVars
  <2>2. CASE importer' = [importer EXCEPT ![i] = NextRow(i)]
    <3>1. TRUE \in BOOLEAN
      OBVIOUS
    <3>2. /\ NextRow(i) \in MemoryType /\ NextRow(i).pc = "row" /\ NextRow(i).video = 0
          /\ NextRow(i).folder = old.folder /\ NextRow(i).n = old.n + 1
          /\ NextRow(i).accepted = old.accepted
      BY <3>1, NextRowIs
    <3>3. Typed(i) /\ Leaves(i) /\ importer'[i] = NextRow(i)
      BY <2>1, <2>2, <3>2, NextRowEffect
    <3> QED BY <1>2, <2>1, <3>2, <3>3 DEF Course, Folder
  <2>3. ASSUME NEW pc \in {"record_failure", "name"}, Go(i, pc) PROVE Typed(i) /\ Leaves(i) /\ Course(i)
    <3>1. pc \in Pcs \cap InSheet /\ pc \notin Holding \cup {"add_video", "off"}
          /\ old.pc \in Early
      BY <2>1 DEF Pcs, InSheet, RowStages, Holding, Unreleased, Early
    <3> QED BY <2>1, <2>3, <3>1, GoingEffect
  <2>4. CASE \E pc \in {"record_failure", "name"} : Go(i, pc)
    BY <1>2, <2>1, <2>3, <2>4
  <2> QED BY <1>6, <2>2, <2>4 DEF item_exists
<1>7. CASE CheckFileName(i)
  <2>1. UNCHANGED Tables /\ ~At(i, "off") /\ old.pc = "name"
    BY <1>7 DEF CheckFileName, At, Tables, dbVars, historyVars
  <2> DEFINE m == [old EXCEPT !.pc = "select_video", !.seen = @ \cup {Row(i).name}]
  <2>2. CASE importer' = [importer EXCEPT ![i] = m]
    <3>1. Row(i).name \in Names
      BY <2>1, RowIs DEF InSheet, RowStages
    <3>2. m = [old EXCEPT !.pc = "select_video", !.seen = old.seen \cup {Row(i).name}]
      BY <1>1 DEF MemoryType
    <3>3. "select_video" \in Pcs /\ old.seen \cup {Row(i).name} \in SUBSET Names
      BY <1>1, <3>1 DEF Pcs, MemoryType
    <3>4. m \in MemoryType
      <4> DEFINE seen == old.seen \cup {Row(i).name}
      <4>1. seen \in SUBSET Names
        BY <3>3
      <4> HIDE DEF old, seen
      <4>2. [old EXCEPT !.pc = "select_video", !.seen = seen] \in MemoryType
        BY <1>1, <3>3, <4>1, FieldWritten
      <4> QED BY <3>2, <4>2 DEF old, seen
    <3>5. m.pc = "select_video" /\ m.n = old.n /\ m.folder = old.folder /\ m.video = old.video
          /\ m.accepted = old.accepted
      BY <1>1 DEF MemoryType
    <3>6. InItsSheet(m)
      BY <1>1, <2>1, <3>5 DEF InItsSheet, InSheet, RowStages
    <3> HIDE DEF m
    <3>7. Typed(i) /\ importer'[i] = m
      BY <2>2, <3>4, <3>6, Writing
    <3>8. Leaves(i) /\ Course(i)
      BY <2>1, <3>5, <3>7 DEF Leaves, Course, At, Folder, Holding, Unreleased, Early
    <3> QED BY <1>2, <2>1, <3>7, <3>8
  <2>3. CASE Go(i, "record_duplicate")
    <3>1. "record_duplicate" \in Pcs \cap InSheet /\ old.pc \in InSheet
          /\ "record_duplicate" \notin Holding \cup {"add_video", "off"} \cup Early
      BY <2>1 DEF Pcs, InSheet, RowStages, Holding, Unreleased, Early
    <3> QED BY <1>2, <2>1, <2>3, <3>1, GoingEffect
  <2> QED BY <1>7, <2>2, <2>3 DEF CheckFileName
<1>8. CASE SelectVideo(i)
  <2>1. /\ UNCHANGED Tables /\ ~At(i, "off") /\ old.pc = "select_video"
        /\ Len(videos) \in Nat /\ SameFile(Row(i).name) \subseteq Nat
    <3>1. videos \in Seq(VideoType)
      BY DEF TypeInv
    <3>2. Len(videos) \in Nat /\ DOMAIN videos \subseteq Nat
      BY <3>1
    <3>3. SameFile(Row(i).name) \subseteq Nat
      BY <3>2 DEF SameFile
    <3> QED BY <1>8, <3>2, <3>3 DEF SelectVideo, At, Tables, dbVars, historyVars
  <2>2. ASSUME NEW m \in MemoryType, importer' = [importer EXCEPT ![i] = m],
               m.pc = "add_video", m.folder = old.folder, m.n = old.n,
               m.accepted = old.accepted, m.known = Len(videos),
               \/ m.video = old.video /\ SameFile(Row(i).name) = {}
               \/ m.video \in SameFile(Row(i).name) /\ videos[m.video].status = "removed"
        PROVE  Effect(i) /\ Course(i)
    <3>1. InItsSheet(m)
      BY <1>1, <2>1, <2>2 DEF InItsSheet, InSheet, RowStages
    <3>2. Typed(i) /\ importer'[i] = m
      BY <2>2, <3>1, Writing
    <3>3. Selects(i) /\ Course(i)
      BY <2>1, <2>2, <3>2 DEF Selects, Keeps, Course, At, Folder
    <3> QED BY <2>1, <3>2, <3>3 DEF Effect, Rests
  <2>3. CASE SameFile(Row(i).name) = {}
    <3> DEFINE m == [old EXCEPT !.pc = "add_video", !.known = Len(videos)]
    <3>1. importer' = [importer EXCEPT ![i] = m]
      BY <1>8, <2>3 DEF SelectVideo
    <3>2. "add_video" \in Pcs
      BY DEF Pcs
    <3>3. m \in MemoryType
      <4> HIDE DEF old
      <4> QED BY <1>1, <2>1, <3>2, FieldWritten
    <3>4. m.pc = "add_video" /\ m.folder = old.folder /\ m.n = old.n
          /\ m.accepted = old.accepted /\ m.known = Len(videos) /\ m.video = old.video
      BY <1>1 DEF MemoryType
    <3> HIDE DEF m
    <3> QED BY <2>2, <2>3, <3>1, <3>3, <3>4
  <2>4. ASSUME NEW v \in SameFile(Row(i).name), videos[v].status = "removed",
               importer' = [importer EXCEPT ![i].pc = "add_video", ![i].video = v,
                                            ![i].known = Len(videos)]
        PROVE  Effect(i) /\ Course(i)
    <3> DEFINE m == [old EXCEPT !.pc = "add_video", !.video = v, !.known = Len(videos)]
    <3>1. importer' = [importer EXCEPT ![i] = m]
      BY <2>4
    <3>2. "add_video" \in Pcs /\ v \in Nat
      BY <2>1, <2>4 DEF Pcs
    <3>3. m \in MemoryType
      <4> HIDE DEF old
      <4> QED BY <1>1, <2>1, <3>2, FieldWritten
    <3>4. m.pc = "add_video" /\ m.folder = old.folder /\ m.n = old.n
          /\ m.accepted = old.accepted /\ m.known = Len(videos) /\ m.video = v
      BY <1>1 DEF MemoryType
    <3> HIDE DEF m
    <3> QED BY <2>2, <2>4, <3>1, <3>3, <3>4
  <2>5. CASE Go(i, "record_duplicate")
    <3>1. "record_duplicate" \in Pcs \cap InSheet /\ old.pc \in InSheet
          /\ "record_duplicate" \notin Holding \cup {"add_video", "off"} \cup Early
      BY <2>1 DEF Pcs, InSheet, RowStages, Holding, Unreleased, Early
    <3> QED BY <1>2, <2>1, <2>5, <3>1, GoingEffect
  <2> QED BY <1>8, <2>3, <2>4, <2>5 DEF SelectVideo
<1>9. CASE add_video(i)
  <2> DEFINE v == IF old.video = 0 THEN Len(videos) + 1 ELSE old.video
             m == [old EXCEPT !.pc = "add_caption", !.video = v]
  <2>1. importer' = [importer EXCEPT ![i] = m] /\ ~At(i, "off") /\ old.pc = "add_video"
    BY <1>9 DEF add_video, At
  <2>2. "add_caption" \in Pcs /\ v \in Nat
    BY <1>1 DEF Pcs, MemoryType, TypeInv
  <2>3. m \in MemoryType
    <3> HIDE DEF old, v
    <3> QED BY <1>1, <2>2, FieldWritten
  <2>4. m.pc = "add_caption" /\ m.folder = old.folder /\ m.n = old.n
        /\ m.accepted = old.accepted /\ m.video = v
    BY <1>1 DEF MemoryType
  <2>5. InItsSheet(m)
    BY <1>1, <2>1, <2>4 DEF InItsSheet, InSheet, RowStages
  <2> HIDE DEF m
  <2>6. Typed(i) /\ importer'[i] = m
    BY <2>1, <2>3, <2>5, Writing
  <2>7. Adds(i) /\ Course(i)
    BY <2>1, <2>4, <2>6 DEF Adds, Keeps, Course, At, Folder
  <2> QED BY <1>9, <2>6, <2>7 DEF Effect
<1>10. ASSUME NEW pc \in {"select_task", "create_task"}, Go(i, pc),
              old.pc \in {"add_caption", "select_task"}, UNCHANGED Tables
       PROVE  Effect(i) /\ Course(i)
  <2>1. pc \in Pcs \cap InSheet /\ old.pc \in InSheet /\ pc # "off"
    BY <1>10 DEF Pcs, InSheet, RowStages
  <2>2. Typed(i) /\ importer'[i].pc = pc /\ Keeps(i) /\ importer'[i].video = old.video
    BY <1>10, <2>1, GoingTyped
  <2>3. Proceeds(i) /\ Course(i)
    BY <1>10, <2>1, <2>2 DEF Proceeds, Course, Keeps, At, Folder
  <2> QED BY <1>10, <2>2, <2>3 DEF Effect, Rests
<1>11. CASE add_caption(i)
  <2>1. UNCHANGED Tables /\ old.pc = "add_caption" /\ Go(i, "select_task")
    BY <1>11 DEF add_caption, At, Tables, historyVars
  <2> QED BY <1>10, <2>1
<1>12. CASE SelectTask(i)
  <2>1. UNCHANGED Tables /\ ~At(i, "off") /\ old.pc = "select_task"
    BY <1>12 DEF SelectTask, At, Tables, dbVars, historyVars
  <2>2. CASE Go(i, "record_failure")
    <3>1. "record_failure" \in Pcs \cap InSheet /\ old.pc \in InSheet
          /\ "record_failure" \notin Holding \cup {"add_video", "off"} \cup Early
      BY <2>1 DEF Pcs, InSheet, RowStages, Holding, Unreleased, Early
    <3> QED BY <1>2, <2>1, <2>2, <3>1, GoingEffect
  <2>3. CASE Go(i, "create_task")
    BY <1>10, <2>1, <2>3
  <2>4. ASSUME NEW t \in TasksOf(old.video),
               importer' = [importer EXCEPT ![i].pc = "record_item", ![i].task = t]
        PROVE  Effect(i) /\ Course(i)
    <3> DEFINE m == [old EXCEPT !.pc = "record_item", !.task = t]
    <3>1. importer' = [importer EXCEPT ![i] = m]
      BY <2>4
    <3>2. "record_item" \in Pcs /\ t \in Nat
      BY DEF Pcs, TasksOf, TypeInv
    <3>3. m \in MemoryType
      <4> HIDE DEF old
      <4> QED BY <1>1, <3>2, FieldWritten
    <3>4. m.pc = "record_item" /\ m.folder = old.folder /\ m.n = old.n
          /\ m.accepted = old.accepted /\ m.video = old.video /\ m.task = t
      BY <1>1 DEF MemoryType
    <3>5. InItsSheet(m)
      BY <1>1, <2>1, <3>4 DEF InItsSheet, InSheet, RowStages
    <3> HIDE DEF m
    <3>6. Typed(i) /\ importer'[i] = m
      BY <3>1, <3>3, <3>5, Writing
    <3>7. Finds(i) /\ Course(i)
      BY <2>1, <3>4, <3>6 DEF Finds, Keeps, Course, At, Folder
    <3> QED BY <2>1, <3>6, <3>7 DEF Effect, Rests
  <2> QED BY <1>12, <2>2, <2>3, <2>4 DEF SelectTask
<1>13. CASE create_task(i)
  <2> DEFINE m == [old EXCEPT !.pc = "record_item", !.task = Len(tasks) + 1]
  <2>1. importer' = [importer EXCEPT ![i] = m] /\ ~At(i, "off") /\ old.pc = "create_task"
    BY <1>13 DEF create_task, At
  <2>2. "record_item" \in Pcs /\ Len(tasks) + 1 \in Nat
    BY DEF Pcs, TypeInv
  <2>3. m \in MemoryType
    <3> HIDE DEF old
    <3> QED BY <1>1, <2>2, FieldWritten
  <2>4. m.pc = "record_item" /\ m.folder = old.folder /\ m.n = old.n
        /\ m.accepted = old.accepted /\ m.video = old.video /\ m.task = Len(tasks) + 1
    BY <1>1 DEF MemoryType
  <2>5. InItsSheet(m)
    BY <1>1, <2>1, <2>4 DEF InItsSheet, InSheet, RowStages
  <2> HIDE DEF m
  <2>6. Typed(i) /\ importer'[i] = m
    BY <2>1, <2>3, <2>5, Writing
  <2>7. Creates(i) /\ Course(i)
    BY <2>1, <2>4, <2>6 DEF Creates, Keeps, Course, At, Folder
  <2> QED BY <1>13, <2>6, <2>7 DEF Effect
<1>14. CASE record_item(i)
  <2>1. PICK item : Record(i, item) /\ (At(i, "record_item") => item.status = "accepted")
                    /\ (~At(i, "record_item") => item.status \in {"duplicate", "invalid"})
    <3>1. [NoItem EXCEPT !.status = "duplicate"].status = "duplicate"
          /\ [NoItem EXCEPT !.status = "invalid"].status = "invalid"
      BY DEF NoItem
    <3> QED BY <1>14, <3>1 DEF record_item, At
  <2>2. old.pc \in {"record_item", "record_duplicate", "record_failure"}
    BY <1>14 DEF record_item, At
  <2>3. ~At(i, "off") /\ old.pc \in RowStages /\ old.n <= Len(Sheet(i))
    <3>1. ~At(i, "off") /\ old.pc \in RowStages /\ old.pc \in InSheet
      BY <2>2 DEF At, RowStages, InSheet
    <3> QED BY <1>1, <3>1, SheetIs DEF InItsSheet
  <2> DEFINE accepted == NextRow(i).accepted \/ item.status = "accepted"
             m == [NextRow(i) EXCEPT !.accepted = accepted]
  <2>4. accepted \in BOOLEAN
    OBVIOUS
  <2>5. NextRow(i) \in MemoryType /\ NextRow(i).accepted = old.accepted
    <3>1. TRUE \in BOOLEAN
      OBVIOUS
    <3> QED BY <3>1, NextRowIs
  <2>6. /\ m \in MemoryType /\ m.pc = "row" /\ m.video = 0 /\ m.folder = old.folder
        /\ m.n = old.n + 1 /\ m.accepted = accepted
    <3> HIDE DEF accepted
    <3> QED BY <2>4, NextRowIs
  <2>7. importer' = [importer EXCEPT ![i] = m]
    BY <2>1, <2>5 DEF Record, MemoryType
  <2> HIDE DEF m
  <2>8. Typed(i) /\ Leaves(i) /\ importer'[i] = m
    BY <2>3, <2>6, <2>7, NextRowEffect
  <2>9. old.accepted => importer'[i].accepted
    BY <2>5, <2>6, <2>8
  <2>10. At(i, "record_item") => importer'[i].accepted
    BY <2>1, <2>6, <2>8
  <2>11. importer'[i].accepted => old.accepted \/ At(i, "record_item")
    BY <2>1, <2>5, <2>6, <2>8
  <2>12. Course(i)
    BY <2>3, <2>6, <2>8, <2>9, <2>11 DEF Course, Folder
  <2> QED BY <1>14, <2>6, <2>8, <2>10, <2>12 DEF Effect
<1>15. ASSUME NEW pc \in {"refresh", "finish", "finish_rejected"}, Go(i, pc), ~At(i, "off")
       PROVE  Typed(i) /\ Leaves(i) /\ Course(i)
  <2>1. pc \in Pcs \ RowStages /\ pc \notin Holding \cup {"add_video", "off"} \cup Early
    BY DEF Pcs, RowStages, Holding, Unreleased, Early
  <2> QED BY <1>15, <2>1, GoingEffect
<1>16. CASE SettleFolder(i) \/ RejectFolder(i)
  <2>1. UNCHANGED Tables /\ ~At(i, "off")
    BY <1>16 DEF SettleFolder, RejectFolder, At, Tables, dbVars, historyVars
  <2> QED BY <1>2, <1>15, <1>16, <2>1 DEF SettleFolder, RejectFolder
<1>17. CASE refresh_accepted_video_paths(i)
  <2>1. ~At(i, "off") /\ Go(i, "finish")
    BY <1>17 DEF refresh_accepted_video_paths, At
  <2> QED BY <1>15, <1>17, <2>1 DEF Effect
<1>18. CASE finish_batch(i)
  <2>1. UNCHANGED Tables /\ ~At(i, "off") /\ Done(i)
    BY <1>18 DEF finish_batch, At, Tables, historyVars
  <2> QED BY <1>2, <2>1, DoneEffect DEF Course
<1> QED BY <1>3, <1>4, <1>5, <1>6, <1>7, <1>8, <1>9, <1>11, <1>12, <1>13, <1>14, <1>16, <1>17,
           <1>18 DEF ImporterStep

\* What a failure or a crash does.
LEMMA FaultEffect ==
  ASSUME ImportInv, TypeInv, NEW i \in Importers, DatabaseError(i) \/ Crash(i)
  PROVE  Effect(i) /\ Course(i) /\ UNCHANGED Tables /\ Leaves(i)
<1> DEFINE old == importer[i]
<1>1. UNCHANGED Tables
  BY DEF DatabaseError, Crash, Tables, dbVars, historyVars
<1>2. Typed(i) /\ Leaves(i) => Effect(i)
  BY <1>1 DEF Effect, Rests
<1>3. CASE Crash(i)
  <2>1. ~At(i, "off") /\ Done(i)
    BY <1>3 DEF Crash
  <2> QED BY <1>1, <1>2, <2>1, DoneEffect DEF Course
<1>4. CASE (old.pc \in RowSteps \/ InRow(i)) /\ Go(i, "record_failure")
  <2>1. "record_failure" \in Pcs \cap InSheet
        /\ "record_failure" \notin Holding \cup {"add_video", "off"} \cup Early
    BY DEF Pcs, InSheet, RowStages, Holding, Unreleased, Early
  <2>2. ~At(i, "off")
    BY <1>4 DEF RowSteps, InRow, At
  <2>3. old.pc \in InSheet \/ (old.n <= Len(Sheet(i)) /\ old.pc \in RowStages)
    BY <1>4 DEF RowSteps, InRow, At, InSheet, RowStages
  <2> QED BY <1>1, <1>2, <1>4, <2>1, <2>2, <2>3, GoingEffect
<1>5. CASE old.pc \in {"record_failure", "refresh", "finish"} /\ Go(i, "reject")
  <2>1. "reject" \in Pcs \ RowStages /\ "reject" \notin Holding \cup {"add_video", "off"} \cup Early
    BY DEF Pcs, RowStages, Holding, Unreleased, Early
  <2>2. ~At(i, "off")
    BY <1>5 DEF At
  <2> QED BY <1>1, <1>2, <1>5, <2>1, <2>2, GoingEffect
<1> QED BY <1>3, <1>4, <1>5 DEF DatabaseError

\* What an importer does that takes a folder.
LEMMA LockEffect ==
  ASSUME ImportInv, TypeInv, NEW i \in Importers, NEW f \in Folders, LockFolder(i, f)
  PROVE  /\ Effect(i) /\ UNCHANGED Tables /\ Leaves(i)
         /\ importer[i].pc = "off" /\ importer'[i].pc = "locked"
         /\ importer'[i].folder = f /\ ~importer'[i].accepted
<1> DEFINE m == [Off EXCEPT !.pc = "locked", !.folder = f]
<1>1. /\ m \in MemoryType /\ InItsSheet(m) /\ m.pc = "locked" /\ m.video = 0
      /\ m.folder = f /\ ~m.accepted
  BY OffIs
<1>2. /\ importer' = [importer EXCEPT ![i] = m] /\ UNCHANGED Tables /\ importer[i].pc = "off"
  BY DEF LockFolder, Tables, dbVars, historyVars, At
<1> HIDE DEF m
<1>3. importer'[i] = m /\ Typed(i)
  BY <1>1, <1>2, Writing
<1>4. Leaves(i)
  BY <1>1, <1>3 DEF Leaves, Holding, Unreleased
<1> QED BY <1>1, <1>2, <1>3, <1>4 DEF Effect, Rests

-----------------------------------------------------------------------------
(* Type correctness. *)

\* One row of a table is written, if it is there.
LEMMA RowWritten ==
  ASSUME NEW S, NEW seq \in Seq(S), NEW v, NEW e, v \in DOMAIN seq => e \in S
  PROVE  /\ [seq EXCEPT ![v] = e] \in Seq(S)
         /\ DOMAIN [seq EXCEPT ![v] = e] = DOMAIN seq
         /\ Len([seq EXCEPT ![v] = e]) = Len(seq)
         /\ \A u \in DOMAIN seq : [seq EXCEPT ![v] = e][u] = IF u = v THEN e ELSE seq[u]
<1> DEFINE new == [seq EXCEPT ![v] = e]
<1>1. Len(seq) \in Nat /\ DOMAIN seq = 1..Len(seq) /\ \A u \in DOMAIN seq : seq[u] \in S
  OBVIOUS
<1>2. DOMAIN new = DOMAIN seq /\ \A u \in DOMAIN seq : new[u] = IF u = v THEN e ELSE seq[u]
  OBVIOUS
<1>3. new = [u \in DOMAIN seq |-> new[u]]
  OBVIOUS
<1>4. new \in [1..Len(seq) -> S]
  BY <1>1, <1>2, <1>3
<1> HIDE DEF new
<1>5. new \in Seq(S)
  BY <1>1, <1>4, SeqDef
<1>6. Len(new) = Len(seq)
  BY <1>1, <1>2, <1>5, LenProperties
<1> QED BY <1>2, <1>5, <1>6 DEF new

\* An importer's step keeps the types of the tables it writes.
LEMMA TablesTyped ==
  ASSUME ImportInv, TypeInv, NEW i \in Importers, Effect(i)
  PROVE  /\ items' \in [Batches \X RowIds -> ItemType]
         /\ videos' \in Seq(VideoType) /\ tasks' \in Seq(TaskType)
         /\ DOMAIN videos \subseteq DOMAIN videos' /\ DOMAIN tasks \subseteq DOMAIN tasks'
         /\ overtaken' \subseteq Names /\ removals' = removals /\ pulled' = pulled
<1>1. /\ items \in [Batches \X RowIds -> ItemType] /\ videos \in Seq(VideoType)
      /\ tasks \in Seq(TaskType) /\ overtaken \subseteq Names
      /\ importer \in [Importers -> MemoryType]
  BY DEF TypeInv
<1>2. CASE Rests(i)
  BY <1>1, <1>2 DEF Rests, Tables, historyVars
<1>3. CASE add_video(i)
  <2> DEFINE video == [name |-> Row(i).name, status |-> "unused", path |-> <<Folder(i), "processing">>]
             v == importer[i].video
  <2>1. importer[i].pc \in InSheet /\ ~At(i, "off")
    BY <1>3 DEF add_video, At, InSheet, RowStages
  <2>2. video \in VideoType
    BY <2>1, RowIs, SheetIs DEF VideoType
  <2>3. videos' = IF v = 0 THEN Append(videos, video) ELSE [videos EXCEPT ![v] = video]
    BY <1>3 DEF add_video
  <2> HIDE DEF video
  <2>4. videos' \in Seq(VideoType) /\ DOMAIN videos \subseteq DOMAIN videos'
    <3>1. CASE v = 0
      BY <1>1, <2>2, <2>3, <3>1
    <3>2. CASE v # 0
      <4>1. videos' = [videos EXCEPT ![v] = video]
        BY <2>3, <3>2
      <4> QED BY <1>1, <2>2, <4>1, RowWritten
    <3> QED BY <3>1, <3>2
  <2>5. overtaken' \subseteq Names
    BY <1>1, <1>3, <2>1, RowIs DEF add_video
  <2> QED BY <1>1, <1>3, <2>4, <2>5 DEF add_video
<1>4. CASE create_task(i)
  <2> DEFINE task == [video |-> importer[i].video, name |-> Row(i).name, item |-> Item(i), active |-> TRUE]
             v == importer[i].video
  <2>1. importer[i].pc \in InSheet
    BY <1>4 DEF create_task, At, InSheet, RowStages
  <2>2. task \in TaskType
    BY <1>1, <2>1, RowIs DEF TaskType, MemoryType
  <2>3. tasks' = Append(tasks, task)
    BY <1>4 DEF create_task
  <2> HIDE DEF task
  <2>4. tasks' \in Seq(TaskType) /\ DOMAIN tasks \subseteq DOMAIN tasks'
    BY <1>1, <2>2, <2>3
  <2>5. videos' = [videos EXCEPT ![v].status = mark_related_assigned(@)]
    BY <1>4 DEF create_task
  <2>6. videos' \in Seq(VideoType) /\ DOMAIN videos' = DOMAIN videos
    <3> DEFINE video == [videos[v] EXCEPT !.status = mark_related_assigned(@)]
    <3>1. ASSUME v \in DOMAIN videos PROVE video \in VideoType
      <4>1. videos[v] \in VideoType
        BY <1>1, <3>1
      <4> QED BY <4>1 DEF VideoType, mark_related_assigned
    <3>2. videos' = [videos EXCEPT ![v] = video]
      BY <2>5
    <3> HIDE DEF video
    <3> QED BY <1>1, <3>1, <3>2, RowWritten
  <2> QED BY <1>1, <1>4, <2>4, <2>6 DEF create_task, historyVars
<1>5. CASE record_item(i)
  <2>1. PICK item : Record(i, item)
                    /\ \/ item = [status |-> "accepted", video |-> importer[i].video,
                                  task |-> importer[i].task]
                       \/ item = [NoItem EXCEPT !.status = "duplicate"]
                       \/ item = [NoItem EXCEPT !.status = "invalid"]
    BY <1>5 DEF record_item
  <2>2. item \in ItemType
    BY <1>1, <2>1 DEF ItemType, NoItem, MemoryType
  <2>3. items' = [items EXCEPT ![Item(i)] = item]
    BY <2>1 DEF Record
  <2>4. items' \in [Batches \X RowIds -> ItemType]
    <3>1. Item(i) \in Batches \X RowIds
      <4>1. importer[i].pc \in InSheet
        BY <1>5 DEF record_item, At, InSheet, RowStages
      <4> QED BY <4>1, RowIs
    <3> QED BY <1>1, <2>2, <2>3, <3>1
  <2> QED BY <1>1, <2>1, <2>4 DEF Record, historyVars
<1>6. CASE refresh_accepted_video_paths(i)
  <2>1. FinalPath(i) \in Folders \X {"processing", "accepted"}
    <3>1. ~At(i, "off")
      BY <1>6 DEF refresh_accepted_video_paths, At
    <3> QED BY <3>1, SheetIs DEF FinalPath
  <2> DEFINE video(v) == IF v \in VideosOf(Batch(i)) THEN [videos[v] EXCEPT !.path = FinalPath(i)]
                                                     ELSE videos[v]
  <2>2. \A v \in DOMAIN videos : video(v) \in VideoType
    <3>1. \A v \in DOMAIN videos : videos[v] \in VideoType
      BY <1>1
    <3> QED BY <2>1, <3>1 DEF VideoType
  <2>3. videos' = [v \in DOMAIN videos |-> video(v)]
    BY <1>6 DEF refresh_accepted_video_paths
  <2>4. DOMAIN videos = 1..Len(videos) /\ Len(videos) \in Nat
    BY <1>1
  <2> HIDE DEF video
  <2>5. videos' \in Seq(VideoType) /\ DOMAIN videos' = DOMAIN videos
    <3>1. videos' \in [1..Len(videos) -> VideoType]
      BY <2>2, <2>3, <2>4
    <3> QED BY <2>3, <2>4, <3>1, SeqDef
  <2> QED BY <1>1, <1>6, <2>5 DEF refresh_accepted_video_paths, historyVars
<1> QED BY <1>2, <1>3, <1>4, <1>5, <1>6 DEF Effect


\* Folders, batches, captions and faults.
LEMMA FilesTyped ==
  ASSUME ImportInv, TypeInv, NEW i \in Importers, ImporterStep(i)
  PROVE  /\ batch' \in [Batches -> {"none", "processing"} \cup TERMINAL_BATCH_STATUSES]
         /\ captions' \subseteq Names /\ faults' \in Nat /\ hindered' \subseteq Folders
<1>1. /\ batch \in [Batches -> {"none", "processing"} \cup TERMINAL_BATCH_STATUSES]
      /\ captions \subseteq Names /\ faults \in Nat /\ hindered \subseteq Folders
  BY DEF TypeInv
<1>2. UNCHANGED <<faults, hindered>>
  BY DEF ImporterStep, RejectDuplicate, MoveToProcessing, upsert_batch, item_exists, CheckFileName,
         SelectVideo, add_video, add_caption, SelectTask, create_task, record_item, Record,
         SettleFolder, refresh_accepted_video_paths, finish_batch, RejectFolder
<1>3. CASE upsert_batch(i) \/ finish_batch(i)
  <2>1. PICK status \in {"processing"} \cup TERMINAL_BATCH_STATUSES :
          batch' = [batch EXCEPT ![Batch(i)] = status]
    BY <1>3 DEF upsert_batch, finish_batch, FinalPlace, TERMINAL_BATCH_STATUSES
  <2>2. captions' = captions
    BY <1>3 DEF upsert_batch, finish_batch
  <2> QED BY <1>1, <1>2, <2>1, <2>2
<1>4. CASE add_caption(i)
  <2>1. Row(i).name \in Names
    BY <1>4, RowIs DEF add_caption, At, InSheet, RowStages
  <2> QED BY <1>1, <1>2, <1>4, <2>1 DEF add_caption
<1>5. CASE ~(upsert_batch(i) \/ finish_batch(i) \/ add_caption(i))
  <2>1. UNCHANGED <<batch, captions>>
    BY <1>5 DEF ImporterStep, RejectDuplicate, MoveToProcessing, item_exists, CheckFileName,
                SelectVideo, add_video, SelectTask, create_task, record_item, Record,
                SettleFolder, refresh_accepted_video_paths, RejectFolder, dbVars
  <2> QED BY <1>1, <1>2, <2>1
<1> QED BY <1>3, <1>4, <1>5

\* Every step keeps the types.
LEMMA TypeStep ==
  ASSUME ImportInv, TypeInv, [Next]_vars
  PROVE  TypeInv'
<1>1. /\ batch \in [Batches -> {"none", "processing"} \cup TERMINAL_BATCH_STATUSES]
      /\ items \in [Batches \X RowIds -> ItemType]
      /\ videos \in Seq(VideoType) /\ tasks \in Seq(TaskType) /\ captions \subseteq Names
      /\ importer \in [Importers -> MemoryType] /\ \A i \in Importers : InItsSheet(importer[i])
      /\ faults \in Nat /\ hindered \subseteq Folders /\ overtaken \subseteq Names
      /\ removals \in [Names -> Nat] /\ pulled \subseteq DOMAIN videos
  BY DEF TypeInv
<1>2. place' \in [Folders -> Places] /\ locked' \in [Folders -> BOOLEAN]
  BY ImportStep DEF ImportInv, FolderShape
<1>3. ASSUME UNCHANGED Tables
      PROVE  /\ items' \in [Batches \X RowIds -> ItemType]
             /\ videos' \in Seq(VideoType) /\ tasks' \in Seq(TaskType)
             /\ overtaken' \subseteq Names /\ removals' \in [Names -> Nat]
             /\ pulled' \subseteq DOMAIN videos'
  BY <1>1, <1>3 DEF Tables, historyVars
<1>4. ASSUME importer' = importer PROVE \A i \in Importers : InItsSheet(importer'[i])
  BY <1>1, <1>4
<1>5. CASE \E f \in Folders : BeginUpload(f) \/ upload_batch(f) \/ submit_task(f)
  <2>1. UNCHANGED <<dbVars, importer, faults, hindered, historyVars>>
    BY <1>5 DEF BeginUpload, upload_batch, submit_task
  <2> QED BY <1>1, <1>2, <1>3, <1>4, <2>1 DEF TypeInv, Tables, dbVars
<1>6. ASSUME NEW i \in Importers, NEW f \in Folders, LockFolder(i, f) PROVE TypeInv'
  <2>1. Typed(i) /\ UNCHANGED Tables
    BY <1>6, LockEffect DEF Effect
  <2>2. UNCHANGED <<dbVars, faults>>
    BY <1>6 DEF LockFolder
  <2>3. hindered' \subseteq Folders
    <3>1. \A j \in Importers : ~At(j, "off") => Folder(j) \in Folders
      BY DEF ImportInv, InItsPlace
    <3> QED BY <1>1, <1>6, <3>1 DEF LockFolder, Overlapping
  <2> QED BY <1>1, <1>2, <1>3, <2>1, <2>2, <2>3 DEF TypeInv, Typed, dbVars
<1>7. ASSUME NEW i \in Importers, ImporterStep(i) PROVE TypeInv'
  <2>1. Effect(i)
    BY <1>7, ImporterEffect
  <2>2. Typed(i)
    BY <2>1 DEF Effect
  <2>3. /\ items' \in [Batches \X RowIds -> ItemType]
        /\ videos' \in Seq(VideoType) /\ tasks' \in Seq(TaskType)
        /\ DOMAIN videos \subseteq DOMAIN videos'
        /\ overtaken' \subseteq Names /\ removals' = removals /\ pulled' = pulled
    BY <2>1, TablesTyped
  <2> QED BY <1>1, <1>2, <1>7, <2>2, <2>3, FilesTyped DEF TypeInv, Typed
<1>8. ASSUME NEW i \in Importers, DatabaseError(i) \/ Crash(i) PROVE TypeInv'
  <2>1. Typed(i) /\ UNCHANGED Tables
    BY <1>8, FaultEffect DEF Effect
  <2>2. UNCHANGED dbVars /\ faults' = faults + 1 /\ hindered' = hindered \cup {Folder(i)}
        /\ ~At(i, "off")
    BY <1>8 DEF DatabaseError, Crash, Disturb, InRow, RowSteps, At
  <2>3. faults' \in Nat /\ hindered' \subseteq Folders
    BY <1>1, <2>2, SheetIs
  <2> QED BY <1>1, <1>2, <1>3, <2>1, <2>2, <2>3 DEF TypeInv, Typed, dbVars
<1>9. ASSUME NEW t \in DOMAIN tasks, TaskEnds(t) PROVE TypeInv'
  <2> DEFINE task == [tasks[t] EXCEPT !.active = FALSE]
  <2>1. tasks' = [tasks EXCEPT ![t] = task]
    BY <1>9 DEF TaskEnds
  <2>2. task \in TaskType
    <3>1. tasks[t] \in TaskType
      BY <1>1, <1>9
    <3> QED BY <3>1 DEF TaskType
  <2> HIDE DEF task
  <2>3. tasks' \in Seq(TaskType)
    BY <1>1, <2>1, <2>2, RowWritten
  <2> QED BY <1>1, <1>2, <1>4, <1>9, <2>3 DEF TypeInv, TaskEnds, historyVars
<1>10. ASSUME NEW v \in DOMAIN videos, remove_video(v) PROVE TypeInv'
  <2> DEFINE video == [videos[v] EXCEPT !.status = "removed"]
  <2>1. videos' = [videos EXCEPT ![v] = video]
    BY <1>10 DEF remove_video
  <2>2. video \in VideoType /\ videos[v].name \in Names
    <3>1. videos[v] \in VideoType
      BY <1>1, <1>10
    <3> QED BY <3>1 DEF VideoType
  <2> HIDE DEF video
  <2>3. videos' \in Seq(VideoType) /\ DOMAIN videos' = DOMAIN videos
    BY <1>1, <2>1, <2>2, RowWritten
  <2>4. removals' \in [Names -> Nat] /\ pulled' \subseteq DOMAIN videos
    <3>1. removals' = [removals EXCEPT ![videos[v].name] = removals[videos[v].name] + 1]
      BY <1>10 DEF remove_video
    <3>2. pulled' \subseteq pulled \cup {v}
      BY <1>10 DEF remove_video
    <3> QED BY <1>1, <1>10, <2>2, <3>1, <3>2
  <2> QED BY <1>1, <1>2, <1>4, <1>10, <2>3, <2>4 DEF TypeInv, remove_video
<1>11. CASE UNCHANGED vars
  <2>1. UNCHANGED <<dbVars, importer, faults, hindered, historyVars>>
    BY <1>11 DEF vars
  <2> QED BY <1>1, <1>2, <1>3, <1>4, <2>1 DEF TypeInv, Tables, dbVars
<1> QED BY <1>5, <1>6, <1>7, <1>8, <1>9, <1>10, <1>11 DEF Next

\* The types hold of every state, with the invariant above.
LEMMA TypeHolds == Spec => []TypeInv
<1>1. Init => TypeInv
  <2> SUFFICES ASSUME Init PROVE TypeInv
    OBVIOUS
  <2>1. Off \in MemoryType /\ InItsSheet(Off)
    BY DEF Off, MemoryType, Pcs, InItsSheet, InSheet, RowStages
  <2>2. NoItem \in ItemType
    BY DEF NoItem, ItemType
  <2> HIDE DEF Off, NoItem
  <2> QED BY <2>1, <2>2 DEF Init, TypeInv, Places
<1>2. ImportInv /\ TypeInv /\ [Next]_vars => TypeInv'
  BY TypeStep
<1> QED BY <1>1, <1>2, ImportHolds, PTL DEF Spec

\* Folders, tables and importers keep their types in every state.
THEOREM SharedDriveTypeCorrect == Spec => []TypeOK
<1>1. TypeInv => TypeOK
  <2> SUFFICES ASSUME TypeInv PROVE TypeOK
    OBVIOUS
  <2>1. VideoType \subseteq [name : Names, status : {"unused", "assigned", "removed"},
                             path : Folders \X Places]
    BY DEF VideoType, Places
  <2>2. videos \in Seq([name : Names, status : {"unused", "assigned", "removed"},
                        path : Folders \X Places])
    BY <2>1, SeqMonotonic DEF TypeInv
  <2> QED BY <2>2 DEF TypeInv, TypeOK, ItemType, TaskType, MemoryType
<1> QED BY <1>1, TypeHolds, PTL


-----------------------------------------------------------------------------
(* What the importers know of the tables. *)

\* An importer knows the video it found or stored, and the task of that video.
Remembers(i) ==
  LET m == importer[i] IN
  /\ m.video = 0 \/ m.video \in DOMAIN videos
  /\ m.pc \in Early => m.video = 0
  /\ m.pc \in Holding => m.video # 0
  /\ m.pc \in Holding \cup {"add_video"} /\ m.video # 0 => videos[m.video].name = Row(i).name
  /\ m.pc = "record_item" => m.task \in DOMAIN tasks /\ tasks[m.task].video = m.video
  /\ m.pc = "add_video" => m.known = 0 \/ m.known \in DOMAIN videos
  /\ m.pc = "add_video" /\ m.video = 0 =>
       \A u \in DOMAIN videos : videos[u].name = Row(i).name => u > m.known

TasksHaveVideos ==
  \A t \in DOMAIN tasks :
    tasks[t].video \in DOMAIN videos /\ tasks[t].name = videos[tasks[t].video].name

Accepted(x) == items[x].status = "accepted"

ItemsHaveTasks ==
  \A x \in DOMAIN items : Accepted(x) =>
    /\ items[x].task \in DOMAIN tasks /\ items[x].video \in DOMAIN videos
    /\ tasks[items[x].task].video = items[x].video

OneVideoPerFile ==
  \A u, v \in DOMAIN videos :
    videos[u].name = videos[v].name /\ videos[u].name \notin overtaken => u = v

FilesInv ==
  /\ \A i \in Importers : Remembers(i)
  /\ TasksHaveVideos /\ ItemsHaveTasks /\ OneVideoPerFile

-----------------------------------------------------------------------------
(* What the steps do to the tables, row by row. *)

\* Rows stay, and keep what they are about.
Persists ==
  /\ \A u \in DOMAIN videos : u \in DOMAIN videos' /\ videos'[u].name = videos[u].name
  /\ \A t \in DOMAIN tasks :
       /\ t \in DOMAIN tasks' /\ tasks'[t].video = tasks[t].video /\ tasks'[t].name = tasks[t].name
       /\ tasks'[t].item = tasks[t].item /\ (tasks'[t].active => tasks[t].active)
  /\ overtaken \subseteq overtaken' /\ pulled \subseteq pulled'

\* A video is stored, or restored in its old row.
LEMMA VideoAdded ==
  ASSUME ImportInv, TypeInv, NEW i \in Importers, Remembers(i), add_video(i), Adds(i)
  PROVE  LET v == importer'[i].video IN
         /\ v \in DOMAIN videos' /\ DOMAIN videos' = DOMAIN videos \cup {v}
         /\ v \in DOMAIN videos => importer[i].video = v
         /\ v \notin DOMAIN videos => importer[i].video = 0
         /\ v # 0 /\ videos'[v].name = Row(i).name /\ videos'[v].status = "unused"
         /\ videos'[v].path = <<Folder(i), "processing">>
         /\ \A u \in DOMAIN videos : u # v => videos'[u] = videos[u]
         /\ v \in DOMAIN videos => videos[v].name = Row(i).name
         /\ UNCHANGED <<items, tasks, removals, pulled>>
         /\ overtaken \subseteq overtaken' /\ overtaken' \subseteq overtaken \cup {Row(i).name}
         /\ Row(i).name \notin overtaken' => ~Overtaken(i)
         /\ Persists
<1> DEFINE v == importer'[i].video
           video == [name |-> Row(i).name, status |-> "unused", path |-> <<Folder(i), "processing">>]
<1>1. /\ videos' = IF importer[i].video = 0 THEN Append(videos, video)
                                            ELSE [videos EXCEPT ![importer[i].video] = video]
      /\ v = IF importer[i].video = 0 THEN Len(videos) + 1 ELSE importer[i].video
      /\ UNCHANGED <<items, tasks, removals, pulled>>
      /\ overtaken' = overtaken \cup (IF Overtaken(i) THEN {Row(i).name} ELSE {})
  BY DEF add_video, Adds
<1>2. /\ videos \in Seq(VideoType) /\ Len(videos) \in Nat /\ DOMAIN videos = 1..Len(videos)
      /\ importer[i].pc = "add_video"
      /\ (importer[i].video = 0 \/ importer[i].video \in DOMAIN videos)
  BY DEF TypeInv, Remembers, Adds
<1>3. video \in VideoType
  <2>1. importer[i].pc \in InSheet /\ ~At(i, "off")
    BY <1>2 DEF InSheet, RowStages, At
  <2> QED BY <2>1, RowIs, SheetIs DEF VideoType
<1>4. video.name = Row(i).name /\ video.status = "unused" /\ video.path = <<Folder(i), "processing">>
  OBVIOUS
<1>5. importer[i].video # 0 => videos[importer[i].video].name = Row(i).name
  BY <1>2 DEF Remembers
<1> HIDE DEF video
<1>6. /\ v \in DOMAIN videos' /\ DOMAIN videos' = DOMAIN videos \cup {v} /\ v # 0 /\ videos'[v] = video
      /\ v \in DOMAIN videos => importer[i].video = v
      /\ v \notin DOMAIN videos => importer[i].video = 0
      /\ \A u \in DOMAIN videos : u # v => videos'[u] = videos[u]
  <2>1. CASE importer[i].video = 0
    <3>1. videos' = Append(videos, video) /\ v = Len(videos) + 1
      BY <1>1, <2>1
    <3>2. /\ DOMAIN videos' = 1..Len(videos) + 1 /\ videos'[Len(videos) + 1] = video
          /\ \A u \in 1..Len(videos) : videos'[u] = videos[u]
      BY <1>2, <1>3, <3>1
    <3> QED BY <1>2, <2>1, <3>1, <3>2
  <2>2. CASE importer[i].video # 0
    <3>1. videos' = [videos EXCEPT ![v] = video] /\ v = importer[i].video /\ v \in DOMAIN videos
      BY <1>1, <1>2, <2>2
    <3> QED BY <1>2, <2>2, <3>1
  <2> QED BY <2>1, <2>2
<1>7. v \in DOMAIN videos => videos[v].name = Row(i).name
  BY <1>2, <1>5, <1>6
<1>8. Persists
  BY <1>1, <1>4, <1>6, <1>7 DEF Persists
<1> QED BY <1>1, <1>4, <1>6, <1>7, <1>8

\* A task is created; its video is not removed or restored by that.
LEMMA TaskCreated ==
  ASSUME ImportInv, TypeInv, NEW i \in Importers, create_task(i), Creates(i)
  PROVE  LET t == importer'[i].task IN
         /\ t \notin DOMAIN tasks /\ DOMAIN tasks' = DOMAIN tasks \cup {t}
         /\ tasks'[t].video = importer[i].video /\ tasks'[t].name = Row(i).name
         /\ tasks'[t].item = Item(i) /\ tasks'[t].active
         /\ \A s \in DOMAIN tasks : tasks'[s] = tasks[s]
         /\ DOMAIN videos' = DOMAIN videos
         /\ \A u \in DOMAIN videos : /\ videos'[u].name = videos[u].name
                                     /\ videos'[u].path = videos[u].path
                                     /\ videos'[u].status = "removed" <=> videos[u].status = "removed"
         /\ UNCHANGED <<items, historyVars>>
         /\ Persists
<1> DEFINE t == importer'[i].task
           v == importer[i].video
           task == [video |-> v, name |-> Row(i).name, item |-> Item(i), active |-> TRUE]
           video == [videos[v] EXCEPT !.status = mark_related_assigned(@)]
<1>1. /\ tasks' = Append(tasks, task) /\ t = Len(tasks) + 1 /\ videos' = [videos EXCEPT ![v] = video]
      /\ UNCHANGED <<items, historyVars>>
  BY DEF create_task, Creates
<1>2. /\ tasks \in Seq(TaskType) /\ videos \in Seq(VideoType)
      /\ importer[i] \in MemoryType /\ importer[i].pc \in InSheet
  BY DEF TypeInv, Creates, InSheet, RowStages
<1>3. task \in TaskType
  BY <1>2, RowIs DEF TaskType, MemoryType
<1>4. task.video = v /\ task.name = Row(i).name /\ task.item = Item(i) /\ task.active
  OBVIOUS
<1> HIDE DEF task
<1>5. /\ t \notin DOMAIN tasks /\ DOMAIN tasks' = DOMAIN tasks \cup {t} /\ tasks'[t] = task
      /\ \A s \in DOMAIN tasks : tasks'[s] = tasks[s]
  <2>1. /\ DOMAIN tasks' = 1..Len(tasks) + 1 /\ tasks'[Len(tasks) + 1] = task
        /\ \A s \in 1..Len(tasks) : tasks'[s] = tasks[s]
        /\ DOMAIN tasks = 1..Len(tasks) /\ Len(tasks) \in Nat
    BY <1>1, <1>2, <1>3
  <2> QED BY <1>1, <2>1
<1>6. /\ DOMAIN videos' = DOMAIN videos
      /\ \A u \in DOMAIN videos : /\ videos'[u].name = videos[u].name
                                  /\ videos'[u].path = videos[u].path
                                  /\ videos'[u].status = "removed" <=> videos[u].status = "removed"
  <2>1. v \in DOMAIN videos => /\ video.name = videos[v].name /\ video.path = videos[v].path
                               /\ video.status = "removed" <=> videos[v].status = "removed"
    BY <1>2 DEF VideoType, mark_related_assigned
  <2> HIDE DEF video
  <2> QED BY <1>1, <1>2, <2>1
<1>7. Persists
  BY <1>1, <1>5, <1>6 DEF Persists, historyVars
<1> QED BY <1>1, <1>4, <1>5, <1>6, <1>7

\* The videos of a batch get the paths in its accepted folder.
LEMMA PathsRefreshed ==
  ASSUME TypeInv, NEW i \in Importers, refresh_accepted_video_paths(i)
  PROVE  /\ DOMAIN videos' = DOMAIN videos
         /\ \A u \in DOMAIN videos :
              /\ videos'[u].name = videos[u].name /\ videos'[u].status = videos[u].status
              /\ videos'[u].path = IF u \in VideosOf(Batch(i)) THEN FinalPath(i) ELSE videos[u].path
         /\ UNCHANGED <<items, tasks, historyVars>>
         /\ Persists
<1>1. \A u \in DOMAIN videos : videos[u] \in VideoType
  BY DEF TypeInv
<1>2. /\ DOMAIN videos' = DOMAIN videos
      /\ \A u \in DOMAIN videos :
           videos'[u] = IF u \in VideosOf(Batch(i)) THEN [videos[u] EXCEPT !.path = FinalPath(i)]
                                                    ELSE videos[u]
      /\ UNCHANGED <<items, tasks, historyVars>>
  BY DEF refresh_accepted_video_paths
<1>3. \A u \in DOMAIN videos :
        /\ [videos[u] EXCEPT !.path = FinalPath(i)].name = videos[u].name
        /\ [videos[u] EXCEPT !.path = FinalPath(i)].status = videos[u].status
        /\ [videos[u] EXCEPT !.path = FinalPath(i)].path = FinalPath(i)
  BY <1>1 DEF VideoType
<1>4. \A u \in DOMAIN videos :
        /\ videos'[u].name = videos[u].name /\ videos'[u].status = videos[u].status
        /\ videos'[u].path = IF u \in VideosOf(Batch(i)) THEN FinalPath(i) ELSE videos[u].path
  BY <1>2, <1>3
<1> QED BY <1>2, <1>4 DEF Persists, historyVars

\* The queue is done with a task.
LEMMA TaskEnded ==
  ASSUME TypeInv, NEW t \in DOMAIN tasks, TaskEnds(t)
  PROVE  /\ DOMAIN tasks' = DOMAIN tasks /\ ~tasks'[t].active
         /\ \A s \in DOMAIN tasks : s # t => tasks'[s] = tasks[s]
         /\ UNCHANGED <<importer, items, videos, historyVars>>
         /\ Persists
<1> DEFINE task == [tasks[t] EXCEPT !.active = FALSE]
<1>1. tasks \in Seq(TaskType) /\ tasks[t] \in TaskType
  BY DEF TypeInv
<1>2. tasks' = [tasks EXCEPT ![t] = task] /\ UNCHANGED <<importer, items, videos, historyVars>>
  BY DEF TaskEnds
<1>3. task.video = tasks[t].video /\ task.name = tasks[t].name /\ task.item = tasks[t].item
      /\ task.active = FALSE
  BY <1>1 DEF TaskType
<1> HIDE DEF task
<1> QED BY <1>1, <1>2, <1>3 DEF Persists, historyVars

\* A video is removed.
LEMMA VideoRemoved ==
  ASSUME TypeInv, NEW v \in DOMAIN videos, remove_video(v)
  PROVE  /\ DOMAIN videos' = DOMAIN videos /\ videos'[v].status = "removed"
         /\ videos[v].status # "removed"
         /\ \A u \in DOMAIN videos : u # v => videos'[u] = videos[u]
         /\ \A u \in DOMAIN videos : /\ videos'[u].path = videos[u].path
                                     /\ videos'[u].name = videos[u].name
         /\ videos[v].name \in Names
         /\ removals' = [removals EXCEPT ![videos[v].name] = removals[videos[v].name] + 1]
         /\ v \notin pulled' => TasksOf(v) = {} /\ \A i \in Importers : importer[i].video # v
         /\ UNCHANGED <<importer, items, tasks, overtaken>>
         /\ Persists
<1> DEFINE video == [videos[v] EXCEPT !.status = "removed"]
<1>1. videos \in Seq(VideoType) /\ videos[v] \in VideoType
  BY DEF TypeInv
<1>2. /\ videos' = [videos EXCEPT ![v] = video] /\ UNCHANGED <<importer, items, tasks, overtaken>>
      /\ removals' = [removals EXCEPT ![videos[v].name] = removals[videos[v].name] + 1]
      /\ pulled' = IF TasksOf(v) # {} \/ \E i \in Importers : importer[i].video = v
                   THEN pulled \cup {v} ELSE pulled
      /\ videos[v].status # "removed"
  BY DEF remove_video
<1>3. video.name = videos[v].name /\ video.path = videos[v].path /\ video.status = "removed"
      /\ videos[v].name \in Names
  BY <1>1 DEF VideoType
<1> HIDE DEF video
<1>4. /\ DOMAIN videos' = DOMAIN videos /\ videos'[v] = video
      /\ \A u \in DOMAIN videos : u # v => videos'[u] = videos[u]
  BY <1>1, <1>2
<1>5. Persists
  BY <1>2, <1>3, <1>4 DEF Persists
<1> QED BY <1>2, <1>3, <1>4, <1>5

\* A row is recorded, as accepted only with its task.
LEMMA ItemRecorded ==
  ASSUME ImportInv, TypeInv, NEW i \in Importers, record_item(i)
  PROVE  LET x == Item(i) IN
         /\ x \in DOMAIN items /\ DOMAIN items' = DOMAIN items
         /\ \A y \in DOMAIN items : y # x => items'[y] = items[y]
         /\ items'[x].status = "accepted" <=> At(i, "record_item")
         /\ At(i, "record_item") =>
              items'[x].video = importer[i].video /\ items'[x].task = importer[i].task
         /\ importer[i].pc \in {"record_item", "record_duplicate", "record_failure"}
         /\ UNCHANGED <<videos, tasks, historyVars>>
         /\ Persists
<1>1. PICK item : /\ items' = [items EXCEPT ![Item(i)] = item]
                  /\ UNCHANGED <<videos, tasks, historyVars>>
                  /\ item.status = "accepted" <=> At(i, "record_item")
                  /\ At(i, "record_item") =>
                       item.video = importer[i].video /\ item.task = importer[i].task
                  /\ importer[i].pc \in {"record_item", "record_duplicate", "record_failure"}
  <2>1. CASE At(i, "record_item") /\ Record(i, [status |-> "accepted", video |-> importer[i].video,
                                                task |-> importer[i].task])
    BY <2>1 DEF Record, At
  <2>2. ASSUME NEW status \in {"duplicate", "invalid"}, Record(i, [NoItem EXCEPT !.status = status]),
               importer[i].pc \in {"record_duplicate", "record_failure"}
        PROVE  /\ items' = [items EXCEPT ![Item(i)] = [NoItem EXCEPT !.status = status]]
               /\ UNCHANGED <<videos, tasks, historyVars>> /\ ~At(i, "record_item")
               /\ [NoItem EXCEPT !.status = status].status # "accepted"
    BY <2>2 DEF Record, At, NoItem
  <2>3. CASE \E status \in {"duplicate", "invalid"} :
               /\ Record(i, [NoItem EXCEPT !.status = status])
               /\ importer[i].pc \in {"record_duplicate", "record_failure"}
    BY <2>2, <2>3
  <2> QED BY <2>1, <2>3 DEF record_item, At
<1>2. Item(i) \in DOMAIN items
  <2>1. importer[i].pc \in InSheet
    BY <1>1 DEF InSheet, RowStages
  <2> QED BY <2>1, RowIs DEF TypeInv
<1>3. Persists
  BY <1>1 DEF Persists, historyVars
<1> QED BY <1>1, <1>2, <1>3


\* Every step is one of these.
LEMMA StepKinds ==
  ASSUME ImportInv, TypeInv, [Next]_vars
  PROVE  \/ UNCHANGED <<Tables, importer>>
         \/ \E i \in Importers : Effect(i)
         \/ \E t \in DOMAIN tasks : TaskEnds(t)
         \/ \E v \in DOMAIN videos : remove_video(v)
<1>1. CASE \E f \in Folders : BeginUpload(f) \/ upload_batch(f) \/ submit_task(f)
  BY <1>1 DEF BeginUpload, upload_batch, submit_task, Tables, dbVars, historyVars
<1>2. CASE \E i \in Importers, f \in Folders : LockFolder(i, f)
  BY <1>2, LockEffect
<1>3. CASE \E i \in Importers : ImporterStep(i) \/ DatabaseError(i) \/ Crash(i)
  BY <1>3, ImporterEffect, FaultEffect
<1>4. CASE UNCHANGED vars
  BY <1>4 DEF vars, Tables, dbVars, historyVars
<1> QED BY <1>1, <1>2, <1>3, <1>4 DEF Next

\* What every importer's step does to the rows that are there.
LEMMA EffectPersists ==
  ASSUME ImportInv, TypeInv, NEW i \in Importers, Remembers(i), Effect(i)
  PROVE  Persists
<1>1. CASE Rests(i)
  BY <1>1 DEF Rests, Tables, historyVars, Persists
<1> QED BY <1>1, VideoAdded, TaskCreated, ItemRecorded, PathsRefreshed DEF Effect

\* An importer that does nothing forgets nothing.
LEMMA StillRemembers ==
  ASSUME TypeInv, TypeInv', NEW i \in Importers, Remembers(i), Persists, importer'[i] = importer[i]
  PROVE  Remembers(i)'
<1>1. Row(i)' = Row(i)
  BY DEF Row, Sheet, Folder
<1>2. \A u \in DOMAIN videos' : \A k : u \notin DOMAIN videos /\ (k = 0 \/ k \in DOMAIN videos) => u > k
  <2>1. /\ DOMAIN videos = 1..Len(videos) /\ Len(videos) \in Nat
        /\ DOMAIN videos' = 1..Len(videos') /\ Len(videos') \in Nat
    BY DEF TypeInv
  <2> QED BY <2>1
<1> QED BY <1>1, <1>2 DEF Remembers, Persists

\* It remembers what it has just found, stored or created.
LEMMA NowRemembers ==
  ASSUME ImportInv, TypeInv, TypeInv', NEW i \in Importers, Remembers(i), Effect(i), Persists
  PROVE  Remembers(i)'
<1> USE DEF Early, Holding, Unreleased
<1>1. Len(videos) \in Nat /\ DOMAIN videos = 1..Len(videos)
  BY DEF TypeInv
<1>2. ASSUME Keeps(i) PROVE Row(i)' = Row(i)
  BY <1>2 DEF Keeps, Row, Sheet, Folder
<1>3. CASE Leaves(i)
  BY <1>3 DEF Leaves, Remembers, Persists
<1>4. CASE Rests(i) /\ Selects(i)
  <2>1. Row(i)' = Row(i) /\ videos' = videos
    BY <1>2, <1>4 DEF Selects, Rests, Tables
  <2> QED BY <1>1, <1>4, <2>1 DEF Selects, Remembers, SameFile
<1>5. CASE Rests(i) /\ Proceeds(i)
  <2>1. Row(i)' = Row(i) /\ videos' = videos
    BY <1>2, <1>5 DEF Proceeds, Rests, Tables
  <2> QED BY <1>5, <2>1 DEF Proceeds, Remembers
<1>6. CASE Rests(i) /\ Finds(i)
  <2>1. Row(i)' = Row(i) /\ videos' = videos /\ tasks' = tasks
    BY <1>2, <1>6 DEF Finds, Rests, Tables
  <2> QED BY <1>6, <2>1 DEF Finds, Remembers, TasksOf
<1>7. CASE add_video(i) /\ Adds(i)
  <2>1. Row(i)' = Row(i) /\ importer'[i].pc = "add_caption"
    BY <1>2, <1>7 DEF Adds
  <2>2. LET v == importer'[i].video IN
        v \in DOMAIN videos' /\ v # 0 /\ videos'[v].name = Row(i).name
    BY <1>7, VideoAdded
  <2> QED BY <2>1, <2>2 DEF Remembers
<1>8. CASE create_task(i) /\ Creates(i)
  <2>1. Row(i)' = Row(i) /\ importer'[i].pc = "record_item" /\ importer'[i].video = importer[i].video
        /\ importer[i].pc = "create_task"
    BY <1>2, <1>8 DEF Creates
  <2>2. LET t == importer'[i].task IN
        t \in DOMAIN tasks' /\ tasks'[t].video = importer[i].video
    BY <1>8, TaskCreated
  <2> QED BY <2>1, <2>2 DEF Remembers, Persists
<1> QED BY <1>3, <1>4, <1>5, <1>6, <1>7, <1>8 DEF Effect, Rests

\* Every step keeps what is known of videos, tasks and items.
LEMMA FilesStep ==
  ASSUME ImportInv, TypeInv, FilesInv, [Next]_vars
  PROVE  FilesInv' /\ Persists
<1>1. TypeInv'
  BY TypeStep
<1>2. /\ \A i \in Importers : Remembers(i)
      /\ TasksHaveVideos /\ ItemsHaveTasks /\ OneVideoPerFile
  BY DEF FilesInv
<1>3. ASSUME Persists, UNCHANGED <<importer, items, DOMAIN tasks, DOMAIN videos>> PROVE FilesInv'
  <2>1. \A i \in Importers : Remembers(i)'
    BY <1>1, <1>2, <1>3, StillRemembers
  <2>2. TasksHaveVideos'
    BY <1>2, <1>3 DEF TasksHaveVideos, Persists
  <2>3. ItemsHaveTasks'
    BY <1>2, <1>3 DEF ItemsHaveTasks, Persists, Accepted
  <2>4. OneVideoPerFile'
    BY <1>2, <1>3 DEF OneVideoPerFile, Persists
  <2> QED BY <2>1, <2>2, <2>3, <2>4 DEF FilesInv
<1>4. CASE UNCHANGED <<Tables, importer>>
  <2>1. Persists /\ UNCHANGED <<importer, items, DOMAIN tasks, DOMAIN videos>>
    BY <1>4 DEF Tables, historyVars, Persists
  <2> QED BY <1>3, <2>1
<1>5. ASSUME NEW i \in Importers, Effect(i) PROVE FilesInv' /\ Persists
  <2>1. Persists
    BY <1>2, <1>5, EffectPersists
  <2>2. \A j \in Importers : Remembers(j)'
    <3>1. Others(i)
      BY <1>5 DEF Effect, Typed
    <3>2. Remembers(i)'
      BY <1>1, <1>2, <1>5, <2>1, NowRemembers
    <3>3. \A j \in Importers \ {i} : Remembers(j)'
      BY <1>1, <1>2, <2>1, <3>1, StillRemembers DEF Others
    <3> QED BY <3>2, <3>3
  <2>3. TasksHaveVideos'
    <3>1. CASE UNCHANGED <<DOMAIN tasks>>
      BY <1>2, <2>1, <3>1 DEF TasksHaveVideos, Persists
    <3>2. CASE create_task(i) /\ Creates(i)
      <4> DEFINE t == importer'[i].task
      <4>1. /\ DOMAIN tasks' = DOMAIN tasks \cup {t}
            /\ tasks'[t].video = importer[i].video /\ tasks'[t].name = Row(i).name
        BY <3>2, TaskCreated
      <4>2. importer[i].video \in DOMAIN videos /\ videos[importer[i].video].name = Row(i).name
        BY <1>2, <3>2 DEF Creates, Remembers, Holding, Unreleased
      <4> QED BY <1>2, <2>1, <4>1, <4>2 DEF TasksHaveVideos, Persists
    <3> QED BY <1>2, <1>5, <3>1, <3>2, VideoAdded, ItemRecorded, PathsRefreshed
            DEF Effect, Rests, Tables
  <2>4. ItemsHaveTasks'
    <3>1. CASE items' = items
      BY <1>2, <2>1, <3>1 DEF ItemsHaveTasks, Persists, Accepted
    <3>2. CASE record_item(i)
      <4>1. /\ DOMAIN items' = DOMAIN items
            /\ \A y \in DOMAIN items : y # Item(i) => items'[y] = items[y]
            /\ items'[Item(i)].status = "accepted" <=> At(i, "record_item")
            /\ At(i, "record_item") =>
                 items'[Item(i)].video = importer[i].video /\ items'[Item(i)].task = importer[i].task
        BY <3>2, ItemRecorded
      <4>2. At(i, "record_item") =>
              /\ importer[i].video \in DOMAIN videos /\ importer[i].task \in DOMAIN tasks
              /\ tasks[importer[i].task].video = importer[i].video
        BY <1>2 DEF Remembers, Holding, At
      <4> QED BY <1>2, <2>1, <4>1, <4>2 DEF ItemsHaveTasks, Persists, Accepted
    <3> QED BY <1>2, <1>5, <3>1, <3>2, VideoAdded, TaskCreated, PathsRefreshed
            DEF Effect, Rests, Tables
  <2>5. OneVideoPerFile'
    <3>1. CASE UNCHANGED <<DOMAIN videos>>
      BY <1>2, <2>1, <3>1 DEF OneVideoPerFile, Persists
    <3>2. CASE add_video(i) /\ Adds(i)
      <4> DEFINE v == importer'[i].video
      <4>1. /\ DOMAIN videos' = DOMAIN videos \cup {v}
            /\ v \notin DOMAIN videos => importer[i].video = 0
            /\ videos'[v].name = Row(i).name
            /\ Row(i).name \notin overtaken' => ~Overtaken(i)
        BY <1>2, <3>2, VideoAdded
      <4>2. v \notin DOMAIN videos /\ Row(i).name \notin overtaken' =>
              \A u \in DOMAIN videos : videos[u].name # Row(i).name
        BY <1>2, <3>2, <4>1 DEF Remembers, Adds, Overtaken
      <4> HIDE DEF v
      <4> QED BY <1>2, <2>1, <4>1, <4>2 DEF OneVideoPerFile, Persists
    <3> QED BY <1>2, <1>5, <3>1, <3>2, TaskCreated, ItemRecorded, PathsRefreshed
            DEF Effect, Rests, Tables
  <2> QED BY <2>1, <2>2, <2>3, <2>4, <2>5 DEF FilesInv
<1>6. CASE \E t \in DOMAIN tasks : TaskEnds(t)
  <2>1. Persists /\ UNCHANGED <<importer, items, DOMAIN tasks, DOMAIN videos>>
    BY <1>6, TaskEnded
  <2> QED BY <1>3, <2>1
<1>7. CASE \E v \in DOMAIN videos : remove_video(v)
  <2>1. Persists /\ UNCHANGED <<importer, items, DOMAIN tasks, DOMAIN videos>>
    BY <1>7, VideoRemoved
  <2> QED BY <1>3, <2>1
<1>8. UNCHANGED <<Tables, importer>> => Persists
  BY DEF Tables, historyVars, Persists
<1>9. (\E t \in DOMAIN tasks : TaskEnds(t)) \/ (\E v \in DOMAIN videos : remove_video(v)) => Persists
  BY TaskEnded, VideoRemoved
<1> QED BY <1>4, <1>5, <1>6, <1>7, <1>8, <1>9, StepKinds

\* What is known of videos, tasks and items holds in every state.
LEMMA FilesHold == Spec => []FilesInv
<1>1. Init => FilesInv
  <2> SUFFICES ASSUME Init PROVE FilesInv
    OBVIOUS
  <2>1. \A i \in Importers : importer[i].pc = "off" /\ importer[i].video = 0
    BY DEF Init, Off
  <2>2. \A i \in Importers : Remembers(i)
    BY <2>1 DEF Remembers, Early, Holding, Unreleased
  <2>3. DOMAIN tasks = {} /\ DOMAIN videos = {}
    BY DEF Init
  <2>4. \A x \in DOMAIN items : items[x].status = "none"
    BY DEF Init, NoItem
  <2> QED BY <2>2, <2>3, <2>4 DEF FilesInv, TasksHaveVideos, ItemsHaveTasks, OneVideoPerFile, Accepted
<1>2. ImportInv /\ TypeInv /\ FilesInv /\ [Next]_vars => FilesInv'
  BY FilesStep
<1> QED BY <1>1, <1>2, ImportHolds, TypeHolds, PTL DEF Spec


-----------------------------------------------------------------------------
(* One release per file.  The tasks of a file and the importers that are     *)
(* about to create one are no more than the removals of its video, and one   *)
(* more while a video of that name is there: an importer goes on to a task   *)
(* only when it has brought the video back, and a video that is there goes   *)
(* away only by a removal.                                                   *)

TasksNamed(name) == { t \in DOMAIN tasks : tasks[t].name = name }
Pending(name) == { i \in Importers : importer[i].pc \in Unreleased /\ Row(i).name = name }
Live(name) == \E v \in SameFile(name) : videos[v].status # "removed"

CountOf(name) ==
  /\ IsFiniteSet(TasksNamed(name)) /\ IsFiniteSet(Pending(name))
  /\ Cardinality(TasksNamed(name)) + Cardinality(Pending(name))
       <= removals[name] + (IF Live(name) THEN 1 ELSE 0)

CountInv == \A name \in Names \ overtaken : CountOf(name)

\* Nothing is added and nothing goes away.
LEMMA CountStays ==
  ASSUME TypeInv, NEW name \in Names, CountOf(name), TasksNamed(name)' = TasksNamed(name),
         Pending(name)' \subseteq Pending(name), removals'[name] = removals[name],
         Live(name) => Live(name)'
  PROVE  CountOf(name)'
<1>1. /\ IsFiniteSet(TasksNamed(name)) /\ IsFiniteSet(Pending(name)) /\ removals[name] \in Nat
      /\ Cardinality(TasksNamed(name)) + Cardinality(Pending(name))
           <= removals[name] + (IF Live(name) THEN 1 ELSE 0)
  BY DEF CountOf, TypeInv
<1>2. /\ IsFiniteSet(Pending(name)') /\ Cardinality(Pending(name)') <= Cardinality(Pending(name))
      /\ Cardinality(Pending(name)) \in Nat /\ Cardinality(Pending(name)') \in Nat
      /\ Cardinality(TasksNamed(name)) \in Nat
  BY <1>1, FS_Subset, FS_CardinalityType
<1>3. Cardinality(TasksNamed(name)') = Cardinality(TasksNamed(name)) /\ IsFiniteSet(TasksNamed(name)')
  BY <1>1
<1>4. (IF Live(name) THEN 1 ELSE 0) <= (IF Live(name)' THEN 1 ELSE 0)
  OBVIOUS
<1>5. (IF Live(name) THEN 1 ELSE 0) \in Nat /\ (IF Live(name)' THEN 1 ELSE 0) \in Nat
  OBVIOUS
<1> DEFINE a == Cardinality(TasksNamed(name))
           b == Cardinality(Pending(name))
           c == Cardinality(Pending(name)')
           live == IF Live(name) THEN 1 ELSE 0
           alive == IF Live(name)' THEN 1 ELSE 0
<1>6. a + c <= removals[name] + alive
  <2>1. a + b <= removals[name] + live /\ c <= b /\ live <= alive
    BY <1>1, <1>2, <1>4
  <2>2. a \in Nat /\ b \in Nat /\ c \in Nat /\ live \in Nat /\ alive \in Nat /\ removals[name] \in Nat
    BY <1>1, <1>2, <1>5
  <2> HIDE DEF a, b, c, live, alive
  <2> QED BY <2>1, <2>2
<1> QED BY <1>2, <1>3, <1>6 DEF CountOf


\* A video that was not there is stored or restored, for one importer.
LEMMA CountAdds ==
  ASSUME TypeInv, NEW name \in Names, NEW i, CountOf(name), TasksNamed(name)' = TasksNamed(name),
         Pending(name)' \subseteq Pending(name) \cup {i}, removals'[name] = removals[name],
         ~Live(name), Live(name)'
  PROVE  CountOf(name)'
<1> DEFINE a == Cardinality(TasksNamed(name))
           b == Cardinality(Pending(name))
           c == Cardinality(Pending(name)')
           d == Cardinality(Pending(name) \cup {i})
<1>1. /\ IsFiniteSet(TasksNamed(name)) /\ IsFiniteSet(Pending(name)) /\ removals[name] \in Nat
      /\ a + b <= removals[name]
  BY DEF CountOf, TypeInv
<1>2. a \in Nat /\ b \in Nat
  BY <1>1, FS_CardinalityType
<1>3. IsFiniteSet(Pending(name) \cup {i}) /\ d <= b + 1 /\ d \in Nat
  <2>1. IsFiniteSet(Pending(name) \cup {i}) /\ d = IF i \in Pending(name) THEN b ELSE b + 1
    BY <1>1, FS_AddElement
  <2> HIDE DEF b, d
  <2> QED BY <1>2, <2>1
<1>4. IsFiniteSet(Pending(name)') /\ c <= d /\ c \in Nat
  BY <1>3, FS_Subset, FS_CardinalityType
<1>5. a + c <= removals[name] + 1
  <2> HIDE DEF a, b, c, d
  <2> QED BY <1>1, <1>2, <1>3, <1>4
<1> QED BY <1>1, <1>4, <1>5 DEF CountOf

\* An importer creates the task it was about to create.
LEMMA CountCreates ==
  ASSUME TypeInv, NEW name \in Names, NEW i \in Pending(name), NEW t, CountOf(name),
         TasksNamed(name)' \subseteq TasksNamed(name) \cup {t},
         Pending(name)' \subseteq Pending(name) \ {i}, removals'[name] = removals[name],
         Live(name) => Live(name)'
  PROVE  CountOf(name)'
<1> DEFINE a == Cardinality(TasksNamed(name))
           b == Cardinality(Pending(name))
           c == Cardinality(TasksNamed(name)')
           d == Cardinality(Pending(name)')
           live == IF Live(name) THEN 1 ELSE 0
           alive == IF Live(name)' THEN 1 ELSE 0
<1>1. /\ IsFiniteSet(TasksNamed(name)) /\ IsFiniteSet(Pending(name)) /\ removals[name] \in Nat
      /\ a + b <= removals[name] + live
  BY DEF CountOf, TypeInv
<1>2. a \in Nat /\ b \in Nat /\ live \in Nat /\ alive \in Nat /\ live <= alive
  BY <1>1, FS_CardinalityType
<1>3. IsFiniteSet(TasksNamed(name)') /\ c <= a + 1 /\ c \in Nat
  <2>1. IsFiniteSet(TasksNamed(name) \cup {t}) /\ Cardinality(TasksNamed(name) \cup {t}) <= a + 1
    <3> DEFINE e == Cardinality(TasksNamed(name) \cup {t})
    <3>1. IsFiniteSet(TasksNamed(name) \cup {t}) /\ e = IF t \in TasksNamed(name) THEN a ELSE a + 1
      BY <1>1, FS_AddElement
    <3> HIDE DEF a, e
    <3>2. e <= a + 1
      BY <1>2, <3>1
    <3> QED BY <3>1, <3>2 DEF e
  <2>2. IsFiniteSet(TasksNamed(name)') /\ c <= Cardinality(TasksNamed(name) \cup {t})
    BY <2>1, FS_Subset
  <2>3. c \in Nat /\ Cardinality(TasksNamed(name) \cup {t}) \in Nat
    BY <2>1, <2>2, FS_CardinalityType
  <2> QED BY <1>2, <2>1, <2>2, <2>3
<1>4. IsFiniteSet(Pending(name)') /\ d <= b - 1 /\ d \in Nat
  <2>1. IsFiniteSet(Pending(name) \ {i}) /\ Cardinality(Pending(name) \ {i}) = b - 1
    BY <1>1, FS_RemoveElement
  <2>2. IsFiniteSet(Pending(name)') /\ d <= Cardinality(Pending(name) \ {i})
    BY <2>1, FS_Subset
  <2> QED BY <2>1, <2>2, FS_CardinalityType
<1>5. c + d <= removals[name] + alive
  <2> HIDE DEF a, b, c, d, live, alive
  <2> QED BY <1>1, <1>2, <1>3, <1>4
<1> QED BY <1>3, <1>4, <1>5 DEF CountOf

\* A video goes away, and the removal is counted.
LEMMA CountRemoves ==
  ASSUME TypeInv, NEW name \in Names, CountOf(name), TasksNamed(name)' = TasksNamed(name),
         Pending(name)' = Pending(name), removals'[name] = removals[name] + 1
  PROVE  CountOf(name)'
<1> DEFINE a == Cardinality(TasksNamed(name))
           b == Cardinality(Pending(name))
           live == IF Live(name) THEN 1 ELSE 0
           alive == IF Live(name)' THEN 1 ELSE 0
<1>1. /\ IsFiniteSet(TasksNamed(name)) /\ IsFiniteSet(Pending(name)) /\ removals[name] \in Nat
      /\ a + b <= removals[name] + live
  BY DEF CountOf, TypeInv
<1>2. a \in Nat /\ b \in Nat /\ live <= 1 /\ live \in Nat /\ alive \in Nat
  BY <1>1, FS_CardinalityType
<1>3. a + b <= removals[name] + 1 + alive
  <2> HIDE DEF a, b, live, alive
  <2> QED BY <1>1, <1>2
<1> QED BY <1>1, <1>3 DEF CountOf

\* Every step keeps the count of every file.
LEMMA CountStep ==
  ASSUME ImportInv, TypeInv, FilesInv, CountInv, [Next]_vars
  PROVE  CountInv'
<1> USE DEF Unreleased, Holding
<1>1. Persists /\ FilesInv' /\ \A i \in Importers : Remembers(i)
  BY FilesStep DEF FilesInv
<1> SUFFICES ASSUME NEW name \in Names \ overtaken' PROVE CountOf(name)'
  BY DEF CountInv
<1>2. CountOf(name) /\ name \notin overtaken /\ name \notin overtaken'
  BY <1>1 DEF CountInv, Persists
<1>3. ASSUME UNCHANGED <<videos, tasks, removals>>
      PROVE  TasksNamed(name)' = TasksNamed(name) /\ removals'[name] = removals[name]
             /\ Live(name)' = Live(name)
  BY <1>3 DEF TasksNamed, Live, SameFile
<1>4. ASSUME importer' = importer PROVE Pending(name)' = Pending(name)
  BY <1>4 DEF Pending, Row, Sheet, Folder
<1>5. CASE UNCHANGED <<Tables, importer>>
  BY <1>2, <1>3, <1>4, <1>5, CountStays DEF Tables, historyVars
<1>6. ASSUME NEW i \in Importers, Effect(i) PROVE CountOf(name)'
  <2>1. \A j \in Importers \ {i} : importer'[j] = importer[j] /\ Row(j)' = Row(j)
    BY <1>6 DEF Effect, Typed, Others, Row, Sheet, Folder
  <2>2. ASSUME Keeps(i) PROVE Row(i)' = Row(i)
    BY <2>2 DEF Keeps, Row, Sheet, Folder
  <2>3. Pending(name)' \subseteq Pending(name) \cup {i}
    BY <2>1 DEF Pending
  <2>4. ASSUME Leaves(i) \/ Selects(i) \/ Finds(i) \/ Creates(i)
        PROVE  Pending(name)' \subseteq Pending(name) \ {i}
    BY <2>1, <2>4 DEF Pending, Leaves, Selects, Finds, Creates
  <2>5. ASSUME Proceeds(i) PROVE Pending(name)' \subseteq Pending(name)
    BY <2>1, <2>2, <2>5 DEF Pending, Proceeds
  <2>6. CASE Rests(i)
    <3>1. Pending(name)' \subseteq Pending(name) /\ UNCHANGED <<videos, tasks, removals>>
      BY <2>4, <2>5, <2>6 DEF Rests, Tables, historyVars
    <3> QED BY <1>2, <1>3, <3>1, CountStays
  <2>7. CASE (record_item(i) \/ refresh_accepted_video_paths(i)) /\ Leaves(i)
    <3>1. /\ DOMAIN videos' = DOMAIN videos /\ tasks' = tasks /\ removals' = removals
          /\ \A u \in DOMAIN videos : videos'[u].name = videos[u].name
                                      /\ videos'[u].status = videos[u].status
      BY <2>7, ItemRecorded, PathsRefreshed DEF historyVars
    <3>2. Live(name)' = Live(name) /\ TasksNamed(name)' = TasksNamed(name)
      BY <3>1 DEF Live, SameFile, TasksNamed
    <3> QED BY <1>2, <2>4, <2>7, <3>1, <3>2, CountStays
  <2>8. CASE create_task(i) /\ Creates(i)
    <3> DEFINE t == importer'[i].task
    <3>1. /\ DOMAIN tasks' = DOMAIN tasks \cup {t} /\ tasks'[t].name = Row(i).name
          /\ \A s \in DOMAIN tasks : tasks'[s] = tasks[s]
          /\ t \notin DOMAIN tasks /\ DOMAIN videos' = DOMAIN videos /\ removals' = removals
          /\ \A u \in DOMAIN videos : videos'[u].name = videos[u].name
      BY <2>8, TaskCreated DEF historyVars
    <3>2. \A u \in DOMAIN videos : videos'[u].status = "removed" <=> videos[u].status = "removed"
      BY <2>8, TaskCreated
    <3>3. Live(name) => Live(name)'
      BY <3>1, <3>2 DEF Live, SameFile
    <3>4. Pending(name)' \subseteq Pending(name) \ {i}
      BY <2>4, <2>8
    <3>5. CASE Row(i).name = name
      <4>1. i \in Pending(name)
        BY <2>8, <3>5 DEF Pending, Creates
      <4>2. TasksNamed(name)' \subseteq TasksNamed(name) \cup {t}
        BY <3>1 DEF TasksNamed
      <4> HIDE DEF t
      <4> QED BY <1>2, <3>1, <3>3, <3>4, <4>1, <4>2, CountCreates
    <3>6. CASE Row(i).name # name
      <4>1. TasksNamed(name)' = TasksNamed(name)
        BY <3>1, <3>6 DEF TasksNamed
      <4> QED BY <1>2, <3>1, <3>3, <3>4, <4>1, CountStays
    <3> QED BY <3>5, <3>6
  <2>9. CASE add_video(i) /\ Adds(i)
    <3> DEFINE v == importer'[i].video
    <3>1. /\ v \in DOMAIN videos' /\ DOMAIN videos' = DOMAIN videos \cup {v}
          /\ v \in DOMAIN videos => importer[i].video = v /\ importer[i].video # 0
          /\ v \notin DOMAIN videos => importer[i].video = 0
          /\ videos'[v].name = Row(i).name /\ videos'[v].status = "unused"
          /\ \A u \in DOMAIN videos : u # v => videos'[u] = videos[u]
          /\ v \in DOMAIN videos => videos[v].name = Row(i).name
          /\ tasks' = tasks /\ removals' = removals
          /\ Row(i).name \notin overtaken' => ~Overtaken(i)
      BY <1>1, <2>9, VideoAdded
    <3> HIDE DEF v
    <3>2. TasksNamed(name)' = TasksNamed(name) /\ removals'[name] = removals[name]
      BY <3>1 DEF TasksNamed
    <3>3. CASE Row(i).name = name
      <4>1. ~Overtaken(i)
        BY <1>2, <3>1, <3>3
      <4>2. ~Live(name)
        <5>1. CASE v \in DOMAIN videos
          <6>1. SameFile(name) \subseteq {v}
            BY <1>2, <3>1, <3>3, <5>1 DEF SameFile, FilesInv, OneVideoPerFile
          <6>2. videos[v].status = "removed"
            BY <3>1, <4>1, <5>1 DEF Overtaken
          <6> QED BY <6>1, <6>2 DEF Live
        <5>2. CASE v \notin DOMAIN videos
          BY <1>1, <2>9, <3>1, <3>3, <4>1, <5>2 DEF Remembers, Adds, Overtaken, Live, SameFile
        <5> QED BY <5>1, <5>2
      <4>3. Live(name)'
        BY <3>1, <3>3 DEF Live, SameFile
      <4> QED BY <1>2, <2>3, <3>2, <4>2, <4>3, CountAdds
    <3>4. CASE Row(i).name # name
      <4>1. Live(name) => Live(name)'
        BY <3>1, <3>4 DEF Live, SameFile
      <4>2. Pending(name)' \subseteq Pending(name)
        BY <2>1, <2>2, <2>9, <3>4 DEF Pending, Adds
      <4> QED BY <1>2, <3>2, <4>1, <4>2, CountStays
    <3> QED BY <3>3, <3>4
  <2> QED BY <1>6, <2>6, <2>7, <2>8, <2>9 DEF Effect
<1>7. ASSUME NEW t \in DOMAIN tasks, TaskEnds(t) PROVE CountOf(name)'
  <2>1. /\ DOMAIN tasks' = DOMAIN tasks /\ UNCHANGED <<importer, videos, historyVars>>
        /\ \A s \in DOMAIN tasks : tasks'[s].name = tasks[s].name
    BY <1>1, <1>7, TaskEnded DEF Persists
  <2>2. TasksNamed(name)' = TasksNamed(name) /\ Live(name)' = Live(name) /\ removals' = removals
    BY <2>1 DEF TasksNamed, Live, SameFile, historyVars
  <2> QED BY <1>2, <1>4, <2>1, <2>2, CountStays
<1>8. ASSUME NEW v \in DOMAIN videos, remove_video(v) PROVE CountOf(name)'
  <2>1. /\ DOMAIN videos' = DOMAIN videos /\ UNCHANGED <<importer, items, tasks, overtaken>>
        /\ \A u \in DOMAIN videos : u # v => videos'[u] = videos[u]
        /\ \A u \in DOMAIN videos : videos'[u].name = videos[u].name
        /\ videos[v].name \in Names
        /\ removals' = [removals EXCEPT ![videos[v].name] = removals[videos[v].name] + 1]
    BY <1>8, VideoRemoved
  <2>2. TasksNamed(name)' = TasksNamed(name) /\ Pending(name)' = Pending(name)
    BY <1>4, <2>1 DEF TasksNamed
  <2>3. CASE videos[v].name = name
    <3>1. removals'[name] = removals[name] + 1
      BY <2>1, <2>3 DEF TypeInv
    <3> QED BY <1>2, <2>2, <3>1, CountRemoves
  <2>4. CASE videos[v].name # name
    <3>1. removals'[name] = removals[name]
      BY <2>1, <2>4 DEF TypeInv
    <3>2. Live(name) => Live(name)'
      BY <2>1, <2>4 DEF Live, SameFile
    <3> QED BY <1>2, <2>2, <3>1, <3>2, CountStays
  <2> QED BY <2>3, <2>4
<1> QED BY <1>5, <1>6, <1>7, <1>8, StepKinds

\* A video file is released once, and once more each time its video was
\* removed, unless add_video's check was overtaken by another importer: for
\* every number of importers, deliveries, crashes and removals.
THEOREM OneReleasePerFileHolds == Spec => []OneReleasePerFile
<1>1. Init => CountInv
  <2> SUFFICES ASSUME Init, NEW name \in Names PROVE CountOf(name)
    BY DEF CountInv
  <2>1. TasksNamed(name) = {} /\ Pending(name) = {} /\ SameFile(name) = {} /\ removals[name] = 0
    BY DEF Init, TasksNamed, Pending, SameFile, Off, Unreleased
  <2> QED BY <2>1, FS_EmptySet DEF CountOf, Live
<1>2. ImportInv /\ TypeInv /\ FilesInv /\ CountInv /\ [Next]_vars => CountInv'
  BY CountStep
<1>3. TypeInv /\ CountInv => OneReleasePerFile
  <2> SUFFICES ASSUME TypeInv, CountInv, NEW name \in Names \ overtaken
               PROVE  Cardinality(TasksNamed(name)) <= 1 + removals[name]
    BY DEF OneReleasePerFile, TasksNamed
  <2> DEFINE a == Cardinality(TasksNamed(name))
             b == Cardinality(Pending(name))
             live == IF Live(name) THEN 1 ELSE 0
  <2>1. IsFiniteSet(TasksNamed(name)) /\ IsFiniteSet(Pending(name)) /\ a + b <= removals[name] + live
        /\ removals[name] \in Nat /\ live \in Nat /\ live <= 1
    BY DEF CountInv, CountOf, TypeInv
  <2>2. a \in Nat /\ b \in Nat
    BY <2>1, FS_CardinalityType
  <2> HIDE DEF a, b, live
  <2>3. a <= 1 + removals[name]
    BY <2>1, <2>2
  <2> QED BY <2>3 DEF a
<1> QED BY <1>1, <1>2, <1>3, ImportHolds, TypeHolds, FilesHold, PTL DEF Spec


-----------------------------------------------------------------------------
(* Who a video and a task belong to.  Of a video that was not removed under  *)
(* an importer or a task, and whose name no importer stored past another's   *)
(* check: while an importer is to give it a task, it has none to run and no  *)
(* other importer holds it; so a task found for it would be somebody else's, *)
(* and a task is recorded for one row.                                       *)

Sound(v) == v \notin pulled /\ videos[v].name \notin overtaken
Stored(i) == importer[i].pc \in Holding

HeldAlone(v) ==
  /\ videos[v].status = "removed" =>
       TasksOf(v) = {} /\ \A i \in Importers : Stored(i) => importer[i].video # v
  /\ \A i \in Importers : importer[i].pc \in Unreleased /\ importer[i].video = v =>
       /\ TasksOf(v) = {}
       /\ \A j \in Importers \ {i} : Stored(j) => importer[j].video # v

Claims(x, t) == Accepted(x) /\ items[x].task = t
Claiming(i, t) == At(i, "record_item") /\ importer[i].task = t

ClaimedOnce(t) ==
  /\ \A x, y \in DOMAIN items : Claims(x, t) /\ Claims(y, t) => x = y
  /\ \A i, j \in Importers : Claiming(i, t) /\ Claiming(j, t) => i = j
  /\ \A i \in Importers, x \in DOMAIN items : Claiming(i, t) => ~Claims(x, t)

OwnersInv ==
  /\ \A v \in DOMAIN videos : Sound(v) => HeldAlone(v)
  /\ \A t \in DOMAIN tasks : Sound(tasks[t].video) => ClaimedOnce(t)

\* Nobody comes to hold a video, and it gets no task.
LEMMA HeldStays ==
  ASSUME NEW v, HeldAlone(v), TasksOf(v)' \subseteq TasksOf(v),
         videos'[v].status = "removed" => videos[v].status = "removed",
         \A i \in Importers :
           /\ Stored(i)' /\ importer'[i].video = v => Stored(i) /\ importer[i].video = v
           /\ importer'[i].pc \in Unreleased /\ importer'[i].video = v => importer[i].pc \in Unreleased
  PROVE  HeldAlone(v)'
BY DEF HeldAlone, Stored, Holding

\* An importer's step changes only whether it holds a video itself.
LEMMA HeldStep ==
  ASSUME ImportInv, TypeInv, FilesInv, NEW i \in Importers, Effect(i), FilesInv', Persists,
         NEW v \in DOMAIN videos', Sound(v)', v \in DOMAIN videos => HeldAlone(v)
  PROVE  HeldAlone(v)'
<1> USE DEF Unreleased, Holding
<1>1. \A j \in Importers \ {i} : importer'[j] = importer[j]
  BY DEF Effect, Typed, Others
<1>2. \A j \in Importers : Remembers(j)
  BY DEF FilesInv
<1>3. ASSUME Leaves(i) \/ Selects(i) \/ Proceeds(i) \/ Finds(i) \/ Creates(i)
      PROVE  \A j \in Importers :
               /\ Stored(j)' /\ importer'[j].video = v => Stored(j) /\ importer[j].video = v
               /\ importer'[j].pc \in Unreleased /\ importer'[j].video = v => importer[j].pc \in Unreleased
  BY <1>1, <1>3 DEF Leaves, Selects, Proceeds, Finds, Creates, Stored
<1>4. ASSUME v \in DOMAIN videos, tasks' = tasks, videos'[v].status = videos[v].status,
             Leaves(i) \/ Selects(i) \/ Proceeds(i) \/ Finds(i)
      PROVE  HeldAlone(v)'
  <2>1. TasksOf(v)' = TasksOf(v)
    BY <1>4 DEF TasksOf
  <2> QED BY <1>3, <1>4, <2>1, HeldStays
<1>5. CASE Rests(i)
  BY <1>4, <1>5 DEF Rests, Tables
<1>6. CASE (record_item(i) \/ refresh_accepted_video_paths(i)) /\ Leaves(i)
  <2>1. /\ DOMAIN videos' = DOMAIN videos /\ tasks' = tasks
        /\ \A u \in DOMAIN videos : videos'[u].status = videos[u].status
    BY <1>6, ItemRecorded, PathsRefreshed
  <2> QED BY <1>4, <1>6, <2>1
<1>7. CASE create_task(i) /\ Creates(i)
  <2> DEFINE t == importer'[i].task
  <2>1. /\ DOMAIN tasks' = DOMAIN tasks \cup {t} /\ tasks'[t].video = importer[i].video
        /\ \A s \in DOMAIN tasks : tasks'[s] = tasks[s]
        /\ t \notin DOMAIN tasks /\ DOMAIN videos' = DOMAIN videos
    BY <1>7, TaskCreated
  <2>2. \A u \in DOMAIN videos : videos'[u].status = "removed" <=> videos[u].status = "removed"
    BY <1>7, TaskCreated
  <2>3. v \in DOMAIN videos /\ HeldAlone(v)
    BY <2>1
  <2>4. CASE importer[i].video = v
    <3>1. Stored(i) /\ importer[i].pc \in Unreleased
      BY <1>7 DEF Creates, Stored
    <3>2. videos'[v].status # "removed"
      BY <2>2, <2>3, <2>4, <3>1 DEF HeldAlone
    <3>3. \A j \in Importers : ~(importer'[j].pc \in Unreleased /\ importer'[j].video = v)
      <4>1. importer'[i].pc \notin Unreleased
        BY <1>7 DEF Creates
      <4> QED BY <1>1, <2>3, <2>4, <3>1, <4>1 DEF HeldAlone, Stored
    <3> QED BY <3>2, <3>3 DEF HeldAlone
  <2>5. CASE importer[i].video # v
    <3>1. TasksOf(v)' = TasksOf(v)
      BY <2>1, <2>5 DEF TasksOf
    <3> QED BY <1>3, <1>7, <2>2, <2>3, <3>1, HeldStays
  <2> QED BY <2>4, <2>5
<1>8. CASE add_video(i) /\ Adds(i)
  <2> DEFINE w == importer'[i].video
  <2>1. /\ w \in DOMAIN videos' /\ DOMAIN videos' = DOMAIN videos \cup {w}
        /\ w \in DOMAIN videos => importer[i].video = w /\ importer[i].video # 0
        /\ w # 0 /\ videos'[w].name = Row(i).name /\ videos'[w].status = "unused"
        /\ \A u \in DOMAIN videos : u # w => videos'[u] = videos[u]
        /\ tasks' = tasks
        /\ Row(i).name \notin overtaken' => ~Overtaken(i)
    BY <1>2, <1>8, VideoAdded
  <2>2. importer[i].pc = "add_video" /\ importer'[i].pc = "add_caption"
    BY <1>8 DEF Adds
  <2>3. TasksOf(v)' = TasksOf(v)
    BY <2>1 DEF TasksOf
  <2> HIDE DEF w
  <2>4. CASE v = w
    <3>1. TasksOf(v) = {} /\ \A j \in Importers \ {i} : Stored(j) => importer[j].video # v
      <4>1. CASE v \in DOMAIN videos
        <5>1. videos[v].status = "removed"
          BY <2>1, <2>4, <4>1 DEF Sound, Overtaken
        <5> QED BY <4>1, <5>1 DEF HeldAlone
      <4>2. CASE v \notin DOMAIN videos
        <5>1. TasksOf(v) = {}
          BY <4>2 DEF TasksOf, FilesInv, TasksHaveVideos
        <5> QED BY <1>2, <2>1, <2>4, <4>2, <5>1 DEF Stored, Remembers
      <4> QED BY <4>1, <4>2
    <3>2. \A j \in Importers \ {i} : Stored(j)' => importer'[j].video # v
      BY <1>1, <3>1 DEF Stored
    <3>3. \A j \in Importers : importer'[j].pc \in Unreleased /\ importer'[j].video = v => j = i
      BY <3>2 DEF Stored
    <3> QED BY <2>1, <2>3, <2>4, <3>1, <3>2, <3>3 DEF HeldAlone
  <2>5. CASE v # w
    <3>1. v \in DOMAIN videos /\ videos'[v] = videos[v]
      BY <2>1, <2>5
    <3>2. \A j \in Importers :
            /\ Stored(j)' /\ importer'[j].video = v => Stored(j) /\ importer[j].video = v
            /\ importer'[j].pc \in Unreleased /\ importer'[j].video = v => importer[j].pc \in Unreleased
      BY <1>1, <2>5 DEF Stored, w
    <3> QED BY <2>3, <3>1, <3>2, HeldStays
  <2> QED BY <2>4, <2>5
<1> QED BY <1>5, <1>6, <1>7, <1>8 DEF Effect

\* Nobody comes to claim a task.
LEMMA ClaimStays ==
  ASSUME NEW t, ClaimedOnce(t), DOMAIN items' = DOMAIN items,
         \A x \in DOMAIN items : Claims(x, t)' => Claims(x, t),
         \A i \in Importers : Claiming(i, t)' => Claiming(i, t)
  PROVE  ClaimedOnce(t)'
BY DEF ClaimedOnce

\* An importer claims the task it has created, or records its claim.
LEMMA ClaimStep ==
  ASSUME ImportInv, TypeInv, FilesInv, NEW i \in Importers, Effect(i), FilesInv', Persists,
         NEW t \in DOMAIN tasks', Sound(tasks[t].video)',
         t \in DOMAIN tasks => ClaimedOnce(t) /\ HeldAlone(tasks[t].video)
  PROVE  ClaimedOnce(t)'
<1> USE DEF Unreleased, Holding
<1>1. \A j \in Importers \ {i} : importer'[j] = importer[j]
  BY DEF Effect, Typed, Others
<1>2. \A j \in Importers : Remembers(j)
  BY DEF FilesInv
<1>3. ASSUME importer'[i].pc # "record_item" PROVE \A j \in Importers : Claiming(j, t)' => Claiming(j, t)
  BY <1>1, <1>3 DEF Claiming, At
<1>4. CASE Rests(i)
  <2>1. t \in DOMAIN tasks /\ UNCHANGED <<items, tasks, videos>>
    BY <1>4 DEF Rests, Tables
  <2>2. \A x \in DOMAIN items : Claims(x, t)' = Claims(x, t)
    BY <2>1 DEF Claims, Accepted
  <2>3. CASE Leaves(i) \/ Selects(i) \/ Proceeds(i)
    <3>1. importer'[i].pc # "record_item"
      BY <2>3 DEF Leaves, Selects, Proceeds
    <3> QED BY <1>3, <2>1, <2>2, <3>1, ClaimStays
  <2>4. CASE Finds(i)
    <3>1. ~Claiming(i, t)'
      <4>1. importer'[i].task # t
        BY <2>1, <2>4 DEF Finds, TasksOf, HeldAlone
      <4> QED BY <4>1 DEF Claiming
    <3>2. \A j \in Importers : Claiming(j, t)' => Claiming(j, t)
      BY <1>1, <3>1 DEF Claiming, At
    <3> QED BY <2>1, <2>2, <3>2, ClaimStays
  <2> QED BY <1>4, <2>3, <2>4 DEF Rests
<1>5. CASE (add_video(i) /\ Adds(i)) \/ (refresh_accepted_video_paths(i) /\ Leaves(i))
  <2>1. t \in DOMAIN tasks /\ UNCHANGED <<items, tasks>> /\ importer'[i].pc # "record_item"
    BY <1>2, <1>5, VideoAdded, PathsRefreshed DEF Adds, Leaves
  <2>2. \A x \in DOMAIN items : Claims(x, t)' = Claims(x, t)
    BY <2>1 DEF Claims, Accepted
  <2> QED BY <1>3, <2>1, <2>2, ClaimStays
<1>6. CASE create_task(i) /\ Creates(i)
  <2> DEFINE new == importer'[i].task
  <2>1. DOMAIN tasks' = DOMAIN tasks \cup {new} /\ new \notin DOMAIN tasks /\ items' = items
    BY <1>6, TaskCreated
  <2>2. \A x \in DOMAIN items : Claims(x, t)' = Claims(x, t)
    BY <2>1 DEF Claims, Accepted
  <2>3. CASE t = new
    <3>1. \A x \in DOMAIN items : ~Claims(x, t)'
      BY <2>1, <2>2, <2>3 DEF FilesInv, ItemsHaveTasks, Claims
    <3>2. \A j \in Importers \ {i} : ~Claiming(j, t)'
      BY <1>1, <1>2, <2>1, <2>3 DEF Claiming, At, Remembers
    <3> QED BY <2>1, <3>1, <3>2 DEF ClaimedOnce
  <2>4. CASE t # new
    <3>1. ~Claiming(i, t)'
      BY <2>4 DEF Claiming
    <3>2. \A j \in Importers : Claiming(j, t)' => Claiming(j, t)
      BY <1>1, <3>1 DEF Claiming, At
    <3> QED BY <2>1, <2>2, <2>4, <3>2, ClaimStays
  <2> QED BY <2>3, <2>4
<1>7. CASE record_item(i) /\ Leaves(i)
  <2>1. /\ DOMAIN items' = DOMAIN items /\ tasks' = tasks
        /\ \A y \in DOMAIN items : y # Item(i) => items'[y] = items[y]
        /\ At(i, "record_item") => items'[Item(i)].task = importer[i].task
        /\ importer'[i].pc # "record_item"
    BY <1>7, ItemRecorded DEF Leaves
  <2>2. items'[Item(i)].status = "accepted" <=> At(i, "record_item")
    BY <1>7, ItemRecorded
  <2>3. \A j \in Importers : Claiming(j, t)' => Claiming(j, t) /\ j # i
    <3>1. ~Claiming(i, t)'
      BY <2>1 DEF Claiming, At
    <3> QED BY <1>3, <2>1, <3>1
  <2>4. \A y \in DOMAIN items : y # Item(i) => Claims(y, t)' = Claims(y, t)
    BY <2>1 DEF Claims, Accepted
  <2>5. \A x \in DOMAIN items : x = Item(i) /\ Claims(x, t)' => Claiming(i, t)
    BY <2>1, <2>2 DEF Claims, Accepted, Claiming
  <2>6. ClaimedOnce(t)
    BY <2>1
  <2>7. CASE Claiming(i, t)
    <3>1. \A y \in DOMAIN items : Claims(y, t)' => y = Item(i)
      BY <2>4, <2>6, <2>7 DEF ClaimedOnce
    <3>2. \A j \in Importers : ~Claiming(j, t)'
      BY <2>3, <2>6, <2>7 DEF ClaimedOnce
    <3> QED BY <2>1, <3>1, <3>2 DEF ClaimedOnce
  <2>8. CASE ~Claiming(i, t)
    <3>1. \A x \in DOMAIN items : Claims(x, t)' => Claims(x, t)
      BY <2>4, <2>5, <2>8
    <3> QED BY <2>1, <2>3, <2>6, <3>1, ClaimStays
  <2> QED BY <2>7, <2>8
<1> QED BY <1>4, <1>5, <1>6, <1>7 DEF Effect

\* Every step keeps videos and tasks with their owners.
LEMMA OwnersStep ==
  ASSUME ImportInv, TypeInv, FilesInv, OwnersInv, [Next]_vars
  PROVE  OwnersInv'
<1>1. FilesInv' /\ Persists
  BY FilesStep
<1>2. \A v \in DOMAIN videos : Sound(v)' => Sound(v)
  BY <1>1 DEF Sound, Persists
<1>3. \A v \in DOMAIN videos : Sound(v)' => HeldAlone(v)
  BY <1>2 DEF OwnersInv
<1>4. \A t \in DOMAIN tasks :
        /\ tasks[t].video \in DOMAIN videos /\ tasks'[t].video = tasks[t].video
        /\ Sound(tasks[t].video)' => Sound(tasks[t].video)
  BY <1>1, <1>2 DEF FilesInv, TasksHaveVideos, Persists
<1>5. \A t \in DOMAIN tasks : Sound(tasks[t].video)' => ClaimedOnce(t) /\ HeldAlone(tasks[t].video)
  BY <1>4 DEF OwnersInv
<1>6. CASE UNCHANGED <<Tables, importer>>
  BY <1>6 DEF Tables, historyVars, OwnersInv, Sound, HeldAlone, ClaimedOnce, Stored, TasksOf,
              Claims, Claiming, Accepted, At
<1>7. ASSUME NEW i \in Importers, Effect(i) PROVE OwnersInv'
  <2>1. ASSUME NEW v \in DOMAIN videos', Sound(v)' PROVE HeldAlone(v)'
    BY <1>1, <1>3, <1>7, <2>1, HeldStep
  <2>2. ASSUME NEW t \in DOMAIN tasks', Sound(tasks[t].video)' PROVE ClaimedOnce(t)'
    BY <1>1, <1>5, <1>7, <2>2, ClaimStep
  <2> QED BY <2>1, <2>2 DEF OwnersInv
<1>8. ASSUME UNCHANGED <<importer, items, DOMAIN videos, DOMAIN tasks>>,
             \A v \in DOMAIN videos : Sound(v)' =>
               /\ TasksOf(v)' \subseteq TasksOf(v)
               /\ videos'[v].status = "removed" =>
                    \/ videos[v].status = "removed"
                    \/ TasksOf(v)' = {} /\ \A i \in Importers : importer[i].video # v
      PROVE  OwnersInv'
  <2>1. ASSUME NEW v \in DOMAIN videos', Sound(v)' PROVE HeldAlone(v)'
    <3>1. HeldAlone(v)
      BY <1>3, <1>8, <2>1
    <3>2. CASE videos'[v].status = "removed" => videos[v].status = "removed"
      BY <1>8, <2>1, <3>1, <3>2, HeldStays DEF Stored
    <3>3. CASE TasksOf(v)' = {} /\ \A i \in Importers : importer[i].video # v
      BY <1>8, <3>3 DEF HeldAlone
    <3> QED BY <1>8, <2>1, <3>2, <3>3
  <2>2. ASSUME NEW t \in DOMAIN tasks', Sound(tasks[t].video)' PROVE ClaimedOnce(t)'
    BY <1>5, <1>8, <2>2 DEF ClaimedOnce, Claims, Claiming, Accepted, At
  <2> QED BY <2>1, <2>2 DEF OwnersInv
<1>9. ASSUME NEW t \in DOMAIN tasks, TaskEnds(t) PROVE OwnersInv'
  <2>1. /\ DOMAIN tasks' = DOMAIN tasks /\ UNCHANGED <<importer, items, videos>>
        /\ \A s \in DOMAIN tasks : tasks'[s].video = tasks[s].video /\ (tasks'[s].active => tasks[s].active)
    BY <1>1, <1>9, TaskEnded DEF Persists
  <2>2. \A v : TasksOf(v)' \subseteq TasksOf(v)
    BY <2>1 DEF TasksOf
  <2> QED BY <1>8, <2>1, <2>2
<1>10. ASSUME NEW w \in DOMAIN videos, remove_video(w) PROVE OwnersInv'
  <2>1. /\ DOMAIN videos' = DOMAIN videos /\ UNCHANGED <<importer, items, tasks>>
        /\ \A u \in DOMAIN videos : u # w => videos'[u] = videos[u]
        /\ w \notin pulled' => TasksOf(w) = {} /\ \A i \in Importers : importer[i].video # w
    BY <1>10, VideoRemoved
  <2>2. \A v : TasksOf(v)' = TasksOf(v)
    BY <2>1 DEF TasksOf
  <2>3. \A v \in DOMAIN videos : Sound(v)' => v \notin pulled'
    BY DEF Sound
  <2> QED BY <1>8, <2>1, <2>2, <2>3
<1> QED BY <1>6, <1>7, <1>9, <1>10, StepKinds

\* Videos and tasks have their owners in every state.
LEMMA OwnersHold == Spec => []OwnersInv
<1>1. Init => OwnersInv
  BY DEF Init, OwnersInv
<1>2. ImportInv /\ TypeInv /\ FilesInv /\ OwnersInv /\ [Next]_vars => OwnersInv'
  BY OwnersStep
<1> QED BY <1>1, <1>2, ImportHolds, TypeHolds, FilesHold, PTL DEF Spec


-----------------------------------------------------------------------------
(* The course of an import. *)

\* An importer that is sent on keeps everything but its stage.
LEMMA GoIs ==
  ASSUME TypeInv, NEW i \in Importers, NEW pc, Go(i, pc)
  PROVE  importer'[i].pc = pc /\ Keeps(i)
BY DEF TypeInv, MemoryType, Go, Keeps

\* What each action makes of the stage of its importer.
InsideRow(i) ==
  \/ CheckFileName(i) \/ SelectVideo(i) \/ add_video(i) \/ add_caption(i) \/ SelectTask(i)
  \/ create_task(i)

Follows(i) ==
  LET old == importer[i]  new == importer'[i] IN
  \/ RejectDuplicate(i) /\ old.pc = "locked" /\ new.pc = "duplicate_batch" /\ Keeps(i)
  \/ MoveToProcessing(i) /\ old.pc = "locked" /\ new.pc = "upsert" /\ Keeps(i)
  \/ upsert_batch(i) /\ old.pc = "upsert" /\ new.pc = "row" /\ new.folder = old.folder
     /\ new.accepted = old.accepted
  \/ upsert_batch(i) /\ old.pc = "duplicate_batch" /\ new = Off
  \/ item_exists(i) /\ old.pc = "row" /\ new.pc = "row" /\ new.folder = old.folder
     /\ new.accepted = old.accepted
  \/ item_exists(i) /\ old.pc = "row" /\ new.pc \in {"name", "record_failure"} /\ Keeps(i)
     /\ items[Item(i)].status = "none"
  \/ InsideRow(i) /\ old.pc \in InSheet \ {"record_item"} /\ new.pc \in InSheet /\ Keeps(i)
  \/ record_item(i) /\ old.pc \in InSheet /\ new.pc = "row" /\ new.folder = old.folder
  \/ SettleFolder(i) /\ old.pc = "row" /\ Keeps(i)
     /\ new.pc = (IF old.accepted THEN "refresh" ELSE "finish")
  \/ refresh_accepted_video_paths(i) /\ old.pc = "refresh" /\ new.pc = "finish" /\ Keeps(i)
  \/ finish_batch(i) /\ old.pc \in {"finish", "finish_rejected"} /\ new = Off
  \/ RejectFolder(i) /\ old.pc = "reject" /\ new.pc = "finish_rejected" /\ Keeps(i)

\* And so with every action.
LEMMA Following ==
  ASSUME ImportInv, TypeInv, NEW i \in Importers, ImporterStep(i)
  PROVE  Follows(i)
<1> USE DEF At
<1> DEFINE old == importer[i]
           new == importer'[i]
<1>1. importer \in [Importers -> MemoryType] /\ old \in MemoryType
  BY DEF TypeInv
<1>2. CASE RejectDuplicate(i)
  BY <1>2, GoIs DEF RejectDuplicate, Follows
<1>3. CASE MoveToProcessing(i)
  BY <1>3, GoIs DEF MoveToProcessing, Follows
<1>4. CASE upsert_batch(i)
  <2>1. CASE old.pc = "upsert"
    <3>1. importer' = [importer EXCEPT ![i].pc = "row", ![i].n = 1]
      BY <1>4, <2>1 DEF upsert_batch
    <3>2. new.pc = "row" /\ new.folder = old.folder /\ new.accepted = old.accepted
      BY <1>1, <3>1 DEF MemoryType
    <3> QED BY <1>4, <2>1, <3>2 DEF Follows
  <2>2. CASE old.pc = "duplicate_batch"
    BY <1>1, <1>4, <2>2 DEF upsert_batch, Done, Follows
  <2> QED BY <1>4, <2>1, <2>2 DEF upsert_batch
<1>5. CASE item_exists(i)
  <2>1. CASE importer' = [importer EXCEPT ![i] = NextRow(i)]
    <3>1. TRUE \in BOOLEAN
      OBVIOUS
    <3>2. new.pc = "row" /\ new.folder = old.folder /\ new.accepted = old.accepted
      BY <1>1, <2>1, <3>1, NextRowIs
    <3> QED BY <1>5, <3>2 DEF item_exists, InRow, Follows
  <2>2. CASE /\ items[Item(i)].status = "none"
             /\ Go(i, "record_failure") \/ Go(i, "name")
    <3>1. new.pc \in {"name", "record_failure"} /\ Keeps(i)
      BY <2>2, GoIs
    <3> QED BY <1>5, <2>2, <3>1 DEF item_exists, InRow, Follows
  <2> QED BY <1>5, <2>1, <2>2 DEF item_exists
<1>6. CASE InsideRow(i)
  <2>1. old.pc \in InSheet \ {"record_item"}
    BY <1>6 DEF InsideRow, CheckFileName, SelectVideo, add_video, add_caption, SelectTask,
                create_task, InSheet, RowStages
  <2>2. ASSUME NEW pc \in InSheet, Go(i, pc) PROVE new.pc \in InSheet /\ Keeps(i)
    BY <2>2, GoIs
  <2>3. {"record_duplicate", "record_failure", "select_task", "create_task", "select_video",
         "add_video", "add_caption", "record_item"} \subseteq InSheet
    BY DEF InSheet, RowStages
  <2>4. CASE CheckFileName(i)
    <3>1. CASE importer' = [importer EXCEPT ![i].pc = "select_video",
                                            ![i].seen = @ \cup {Row(i).name}]
      <4>1. new.pc = "select_video" /\ Keeps(i)
        BY <1>1, <3>1 DEF MemoryType, Keeps
      <4> QED BY <1>6, <2>1, <2>3, <4>1 DEF Follows
    <3>2. CASE Go(i, "record_duplicate")
      BY <1>6, <2>1, <2>2, <2>3, <3>2 DEF Follows
    <3> QED BY <2>4, <3>1, <3>2 DEF CheckFileName
  <2>5. CASE SelectVideo(i)
    <3>2. CASE Go(i, "record_duplicate")
      BY <1>6, <2>1, <2>2, <2>3, <3>2 DEF Follows
    <3>3. CASE importer' = [importer EXCEPT ![i].pc = "add_video", ![i].known = Len(videos)]
      <4>1. new.pc = "add_video" /\ Keeps(i)
        BY <1>1, <3>3 DEF MemoryType, Keeps
      <4> QED BY <1>6, <2>1, <2>3, <4>1 DEF Follows
    <3>4. CASE \E v : importer' = [importer EXCEPT ![i].pc = "add_video", ![i].video = v,
                                                   ![i].known = Len(videos)]
      <4>1. new.pc = "add_video" /\ Keeps(i)
        BY <1>1, <3>4 DEF MemoryType, Keeps
      <4> QED BY <1>6, <2>1, <2>3, <4>1 DEF Follows
    <3> QED BY <2>5, <3>2, <3>3, <3>4 DEF SelectVideo
  <2>6. CASE add_video(i) \/ create_task(i)
    <3>1. new.pc \in {"add_caption", "record_item"} /\ Keeps(i)
      <4>1. CASE add_video(i)
        BY <1>1, <4>1 DEF add_video, MemoryType, Keeps
      <4>2. CASE create_task(i)
        BY <1>1, <4>2 DEF create_task, MemoryType, Keeps
      <4> QED BY <2>6, <4>1, <4>2
    <3> QED BY <1>6, <2>1, <2>3, <3>1 DEF Follows
  <2>7. CASE add_caption(i)
    BY <1>6, <2>1, <2>2, <2>3, <2>7 DEF add_caption, Follows
  <2>8. CASE SelectTask(i)
    <3>1. CASE Go(i, "record_failure") \/ Go(i, "create_task")
      BY <1>6, <2>1, <2>2, <2>3, <3>1 DEF Follows
    <3>2. CASE \E t : importer' = [importer EXCEPT ![i].pc = "record_item", ![i].task = t]
      <4>1. new.pc = "record_item" /\ Keeps(i)
        BY <1>1, <3>2 DEF MemoryType, Keeps
      <4> QED BY <1>6, <2>1, <2>3, <4>1 DEF Follows
    <3> QED BY <2>8, <3>1, <3>2 DEF SelectTask
  <2> QED BY <1>6, <2>4, <2>5, <2>6, <2>7, <2>8 DEF InsideRow
<1>7. CASE record_item(i)
  <2>1. old.pc \in InSheet /\ ~At(i, "off")
    BY <1>7 DEF record_item, InSheet, RowStages
  <2>2. importer'[i].folder = old.folder /\ importer'[i].pc = "row"
    <3>1. PICK accepted \in BOOLEAN :
            importer' = [importer EXCEPT ![i] = [NextRow(i) EXCEPT !.accepted = accepted]]
      <4>1. TRUE \in BOOLEAN
        OBVIOUS
      <4>2. NextRow(i) \in MemoryType
        BY <4>1, NextRowIs
      <4>3. PICK item : Record(i, item)
        BY <1>7 DEF record_item
      <4>4. importer' = [importer EXCEPT ![i] =
                          [NextRow(i) EXCEPT !.accepted = NextRow(i).accepted \/ item.status = "accepted"]]
        BY <4>2, <4>3 DEF Record, MemoryType
      <4>5. (NextRow(i).accepted \/ item.status = "accepted") \in BOOLEAN
        OBVIOUS
      <4> QED BY <4>4, <4>5
    <3> QED BY <1>1, <3>1, NextRowIs
  <2> QED BY <1>7, <2>1, <2>2 DEF Follows
<1>8. CASE SettleFolder(i)
  <2>1. new.pc = (IF old.accepted THEN "refresh" ELSE "finish") /\ Keeps(i)
    BY <1>8, GoIs DEF SettleFolder
  <2> QED BY <1>8, <2>1 DEF SettleFolder, Follows
<1>9. CASE refresh_accepted_video_paths(i)
  BY <1>9, GoIs DEF refresh_accepted_video_paths, Follows
<1>10. CASE finish_batch(i)
  BY <1>1, <1>10 DEF finish_batch, Done, Follows
<1>11. CASE RejectFolder(i)
  BY <1>11, GoIs DEF RejectFolder, Follows
<1> QED BY <1>2, <1>3, <1>4, <1>5, <1>6, <1>7, <1>8, <1>9, <1>10, <1>11 DEF ImporterStep, InsideRow


\* The stages of a pass over the rows and after it.
Passing == RowStages \cup {"refresh", "finish"}

\* A step disturbs an import or leaves it so.
LEMMA HinderedGrows ==
  ASSUME [Next]_vars
  PROVE  hindered \subseteq hindered'
<1>1. \A f \in Folders : BeginUpload(f) \/ upload_batch(f) \/ submit_task(f) => hindered' = hindered
  BY DEF BeginUpload, upload_batch, submit_task
<1>2. \A i \in Importers, f \in Folders : LockFolder(i, f) => hindered \subseteq hindered'
  BY DEF LockFolder
<1>3. \A i \in Importers : ImporterStep(i) => hindered' = hindered
  BY DEF ImporterStep, RejectDuplicate, MoveToProcessing, upsert_batch, item_exists, CheckFileName,
         SelectVideo, add_video, add_caption, SelectTask, create_task, record_item, Record,
         SettleFolder, refresh_accepted_video_paths, finish_batch, RejectFolder
<1>4. \A i \in Importers : DatabaseError(i) \/ Crash(i) => hindered \subseteq hindered'
  BY DEF DatabaseError, Crash, Disturb
<1>5. \A t \in DOMAIN tasks : TaskEnds(t) => hindered' = hindered
  BY DEF TaskEnds
<1>6. \A v \in DOMAIN videos : remove_video(v) => hindered' = hindered
  BY DEF remove_video
<1>7. UNCHANGED vars => hindered' = hindered
  BY DEF vars
<1> QED BY <1>1, <1>2, <1>3, <1>4, <1>5, <1>6, <1>7 DEF Next

\* A failed importer records the row or rejects the folder; a crashed one is
\* off.  Either way its import is disturbed.
LEMMA Faulting ==
  ASSUME ImportInv, TypeInv, NEW i \in Importers, DatabaseError(i) \/ Crash(i)
  PROVE  /\ ~At(i, "off") /\ Folder(i) \in hindered' /\ Others(i)
         /\ UNCHANGED <<place, batch, Tables>>
         /\ \/ importer'[i] = Off
            \/ /\ Keeps(i) /\ importer[i].pc \in Passing
               /\ importer'[i].pc \in {"record_failure", "reject"}
<1>1. Others(i) /\ UNCHANGED <<place, batch, Tables>> /\ Folder(i) \in hindered'
  <2>1. Others(i) /\ UNCHANGED Tables
    BY FaultEffect DEF Effect, Typed
  <2> QED BY <2>1 DEF DatabaseError, Crash, Disturb, dbVars
<1>2. CASE Crash(i)
  <2>1. importer'[i] = Off /\ ~At(i, "off")
    BY <1>2, DoneEffect DEF Crash
  <2> QED BY <1>1, <2>1
<1>3. CASE DatabaseError(i)
  <2>1. importer[i].pc \in Passing /\ ~At(i, "off")
    BY <1>3 DEF DatabaseError, RowSteps, InRow, At, Passing, RowStages
  <2>2. Keeps(i) /\ importer'[i].pc \in {"record_failure", "reject"}
    BY <1>3, GoIs DEF DatabaseError
  <2> QED BY <1>1, <2>1, <2>2
<1> QED BY <1>2, <1>3

\* Only one importer is at work on a batch, unless its import was disturbed;
\* so it is, once a folder is rejected for an error.
AloneInv ==
  /\ \A i, j \in Importers :
       i # j /\ ~At(i, "off") /\ ~At(j, "off") /\ Batch(i) = Batch(j) => Folder(i) \in hindered
  /\ \A i \in Importers : importer[i].pc \in {"reject", "finish_rejected"} => Folder(i) \in hindered

\* An importer that keeps to its folder, or lays it down, keeps that.
LEMMA AloneStays ==
  ASSUME AloneInv, hindered \subseteq hindered', NEW i \in Importers, ~At(i, "off"), Others(i),
         \/ importer'[i] = Off
         \/ /\ importer'[i].folder = Folder(i)
            /\ importer'[i].pc \in {"reject", "finish_rejected"} => Folder(i) \in hindered'
  PROVE  AloneInv'
<1> USE DEF At, Folder, Batch
<1>1. Off.pc = "off"
  BY DEF Off
<1>2. ASSUME NEW j \in Importers, importer'[j].pc # "off"
      PROVE  importer[j].pc # "off" /\ importer'[j].folder = importer[j].folder
  BY <1>1, <1>2 DEF Others
<1>3. ASSUME NEW j \in Importers, NEW k \in Importers, j # k, importer'[j].pc # "off",
             importer'[k].pc # "off", BatchOf[importer'[j].folder] = BatchOf[importer'[k].folder]
      PROVE  importer'[j].folder \in hindered'
  BY <1>2, <1>3 DEF AloneInv
<1>4. ASSUME NEW j \in Importers, importer'[j].pc \in {"reject", "finish_rejected"}
      PROVE  importer'[j].folder \in hindered'
  BY <1>1, <1>4 DEF AloneInv, Others
<1> QED BY <1>3, <1>4 DEF AloneInv

\* Every step keeps the importers apart.
LEMMA AloneStep ==
  ASSUME ImportInv, TypeInv, AloneInv, [Next]_vars
  PROVE  AloneInv'
<1>1. hindered \subseteq hindered'
  BY HinderedGrows
<1>2. CASE importer' = importer
  BY <1>1, <1>2 DEF AloneInv, At, Folder, Batch
<1>3. ASSUME NEW i \in Importers, NEW f \in Folders, LockFolder(i, f) PROVE AloneInv'
  <2> USE DEF At, Folder, Batch
  <2>1. /\ importer[i].pc = "off" /\ importer'[i].pc = "locked" /\ importer'[i].folder = f
        /\ Others(i)
    BY <1>3, LockEffect DEF Effect, Typed
  <2>2. ASSUME NEW j \in Importers \ {i}, importer[j].pc # "off",
               BatchOf[importer[j].folder] = BatchOf[f]
        PROVE  importer[j].folder \in hindered' /\ f \in hindered'
    <3>1. importer[j].folder \in Overlapping(i, f)
      BY <2>2 DEF Overlapping
    <3> QED BY <1>3, <3>1 DEF LockFolder
  <2>3. ASSUME NEW j \in Importers, NEW k \in Importers, j # k, importer'[j].pc # "off",
               importer'[k].pc # "off", BatchOf[importer'[j].folder] = BatchOf[importer'[k].folder]
        PROVE  importer'[j].folder \in hindered'
    BY <1>1, <2>1, <2>2, <2>3 DEF AloneInv, Others
  <2>4. ASSUME NEW j \in Importers, importer'[j].pc \in {"reject", "finish_rejected"}
        PROVE  importer'[j].folder \in hindered'
    BY <1>1, <2>1, <2>4 DEF AloneInv, Others
  <2> QED BY <2>3, <2>4 DEF AloneInv
<1>4. ASSUME NEW i \in Importers, ImporterStep(i) PROVE AloneInv'
  <2>1. Others(i) /\ Course(i) /\ Follows(i)
    BY <1>4, ImporterEffect, Following DEF Effect, Typed
  <2>2. importer'[i].pc \in {"reject", "finish_rejected"} => importer[i].pc = "reject"
    BY <2>1 DEF Follows, Off, InSheet, RowStages
  <2>3. importer'[i].pc \in {"reject", "finish_rejected"} => Folder(i) \in hindered'
    BY <1>1, <2>2 DEF AloneInv
  <2> QED BY <1>1, <2>1, <2>3, AloneStays DEF Course
<1>5. ASSUME NEW i \in Importers, DatabaseError(i) \/ Crash(i) PROVE AloneInv'
  BY <1>1, <1>5, Faulting, AloneStays DEF Keeps, Folder
<1>6. CASE \E f \in Folders : BeginUpload(f) \/ upload_batch(f) \/ submit_task(f)
  BY <1>2, <1>6 DEF BeginUpload, upload_batch, submit_task
<1>7. CASE \/ UNCHANGED vars \/ \E t \in DOMAIN tasks : TaskEnds(t)
           \/ \E v \in DOMAIN videos : remove_video(v)
  BY <1>2, <1>7 DEF vars, TaskEnds, remove_video
<1> QED BY <1>3, <1>4, <1>5, <1>6, <1>7 DEF Next

\* The importers are apart in every state.
LEMMA AloneHolds == Spec => []AloneInv
<1>1. Init => AloneInv
  <2> SUFFICES ASSUME Init PROVE AloneInv
    OBVIOUS
  <2>1. \A i \in Importers : importer[i].pc = "off"
    BY DEF Init, Off
  <2> QED BY <2>1 DEF AloneInv, At
<1>2. ImportInv /\ TypeInv /\ AloneInv /\ [Next]_vars => AloneInv'
  BY AloneStep
<1> QED BY <1>1, <1>2, ImportHolds, TypeHolds, PTL DEF Spec

-----------------------------------------------------------------------------
(* What an importer has accepted. *)

\* Videos were taken away or stored twice.
Odd == pulled # {} \/ overtaken # {}
Released(b) == \E t \in DOMAIN tasks : tasks[t].item[1] = b

\* The task an importer records is of its row, and one that has accepted a
\* row has released a video of its batch.
AcceptsRightly(i) ==
  LET m == importer[i] IN
  /\ m.pc = "record_item" => tasks[m.task].item = Item(i) \/ Odd
  /\ m.pc \in Passing /\ m.accepted => Released(Batch(i)) \/ Odd
  /\ m.pc \in {"locked", "upsert"} => ~m.accepted
  /\ m.pc = "refresh" => m.accepted

AcceptInv == \A i \in Importers : AcceptsRightly(i)

\* Every step keeps that.
LEMMA AcceptStep ==
  ASSUME ImportInv, TypeInv, FilesInv, OwnersInv, AcceptInv, [Next]_vars
  PROVE  AcceptInv'
<1> USE DEF Folder, Batch
<1>1. Persists /\ \A i \in Importers : Remembers(i)
  BY FilesStep DEF FilesInv
<1>2. (Odd => Odd') /\ \A b : Released(b) => Released(b)'
  BY <1>1 DEF Persists, Odd, Released
<1>3. ASSUME NEW j \in Importers, importer'[j] = importer[j] PROVE AcceptsRightly(j)'
  <2>1. Item(j)' = Item(j)
    BY <1>3 DEF Item, Row, Sheet
  <2>2. importer[j].pc = "record_item" => importer[j].task \in DOMAIN tasks
    BY <1>1 DEF Remembers
  <2>3. AcceptsRightly(j)
    BY DEF AcceptInv
  <2> QED BY <1>1, <1>2, <1>3, <2>1, <2>2, <2>3 DEF AcceptsRightly, Persists
<1>4. ASSUME NEW i \in Importers, Effect(i), AcceptsRightly(i)' PROVE AcceptInv'
  BY <1>3, <1>4 DEF AcceptInv, Effect, Typed, Others
<1>5. CASE importer' = importer
  BY <1>3, <1>5 DEF AcceptInv
<1>6. ASSUME NEW i \in Importers, Effect(i), importer'[i].pc = "record_item"
      PROVE  tasks'[importer'[i].task].item = Item(i)' \/ Odd'
  <2>1. CASE Rests(i) /\ Finds(i)
    <3>1. /\ importer[i].video \in DOMAIN videos /\ importer[i].pc \in Unreleased
          /\ importer'[i].task \in TasksOf(importer[i].video)
      BY <1>1, <2>1 DEF Finds, Remembers, Holding, Unreleased
    <3>2. ~Sound(importer[i].video)
      BY <3>1 DEF OwnersInv, HeldAlone
    <3> QED BY <1>2, <3>2 DEF Sound, Odd
  <2>2. CASE create_task(i) /\ Creates(i)
    <3>1. tasks'[importer'[i].task].item = Item(i)
      BY <2>2, TaskCreated
    <3>2. Item(i)' = Item(i)
      BY <2>2 DEF Creates, Keeps, Item, Row, Sheet
    <3> QED BY <3>1, <3>2
  <2> QED BY <1>6, <2>1, <2>2 DEF Effect, Rests, Leaves, Selects, Proceeds, Adds, Holding, Unreleased
<1>7. ASSUME NEW i \in Importers, importer[i].pc \in Passing, importer'[i].folder = importer[i].folder,
             importer'[i].accepted => importer[i].accepted \/ importer[i].pc = "record_item",
             importer'[i].accepted
      PROVE  Released(Batch(i))' \/ Odd'
  <2>1. importer[i].pc = "record_item" => Released(Batch(i)) \/ Odd
    <3>1. importer[i].pc = "record_item" =>
            importer[i].task \in DOMAIN tasks /\ (tasks[importer[i].task].item = Item(i) \/ Odd)
      BY <1>1 DEF Remembers, AcceptInv, AcceptsRightly
    <3> QED BY <3>1 DEF Released, Item
  <2>2. Released(Batch(i)) \/ Odd
    BY <1>7, <2>1 DEF AcceptInv, AcceptsRightly
  <2>3. Released(Batch(i)) => Released(Batch(i))'
    BY <1>1, <1>7 DEF Released, Persists
  <2> QED BY <1>2, <2>2, <2>3
<1>8. ASSUME NEW i \in Importers, NEW f \in Folders, LockFolder(i, f) PROVE AcceptInv'
  <2>1. Effect(i) /\ importer'[i].pc = "locked" /\ ~importer'[i].accepted
    BY <1>8, LockEffect
  <2> QED BY <1>4, <2>1 DEF AcceptsRightly, Passing, RowStages
<1>9. ASSUME NEW i \in Importers, ImporterStep(i) PROVE AcceptInv'
  <2>1. Effect(i) /\ Course(i) /\ Follows(i)
    BY <1>9, ImporterEffect, Following
  <2>2. AcceptsRightly(i)
    BY DEF AcceptInv
  <2>3. importer'[i].pc \in {"locked", "upsert"} => ~importer'[i].accepted
    <3>1. importer'[i].pc \in {"locked", "upsert"} => importer[i].pc = "locked" /\ Keeps(i)
      BY <2>1 DEF Follows, Off, InSheet, RowStages
    <3> QED BY <2>2, <3>1 DEF Keeps, AcceptsRightly
  <2>4. importer'[i].pc = "refresh" => importer'[i].accepted
    <3>1. importer'[i].pc = "refresh" => importer[i].accepted /\ Keeps(i)
      BY <2>1 DEF Follows, Off, InSheet, RowStages
    <3> QED BY <3>1 DEF Keeps
  <2>5. ASSUME importer'[i].pc \in Passing, importer'[i].accepted PROVE Released(Batch(i))' \/ Odd'
    <3>1. importer'[i] # Off
      BY <2>5 DEF Off
    <3>2. /\ importer'[i].folder = importer[i].folder
          /\ importer'[i].accepted => importer[i].accepted \/ importer[i].pc = "record_item"
      BY <2>1, <3>1 DEF Course, At
    <3>3. importer[i].pc \in Passing \/ (importer[i].pc = "upsert" /\ importer'[i].accepted = importer[i].accepted)
      BY <2>1, <2>5, <3>1 DEF Follows, InSheet, RowStages, Passing
    <3>4. importer[i].pc \in Passing
      BY <2>2, <2>5, <3>3 DEF AcceptsRightly
    <3> QED BY <1>7, <2>5, <3>2, <3>4
  <2>6. AcceptsRightly(i)'
    BY <1>6, <2>1, <2>3, <2>4, <2>5 DEF AcceptsRightly
  <2> QED BY <1>4, <2>1, <2>6
<1>10. ASSUME NEW i \in Importers, DatabaseError(i) \/ Crash(i) PROVE AcceptInv'
  <2>1. Effect(i)
    BY <1>10, FaultEffect
  <2>2. CASE importer'[i] = Off
    BY <1>4, <2>1, <2>2 DEF Off, AcceptsRightly, Passing, RowStages
  <2>3. CASE /\ Keeps(i) /\ importer[i].pc \in Passing
             /\ importer'[i].pc \in {"record_failure", "reject"}
    <3>1. importer'[i].accepted => Released(Batch(i))' \/ Odd'
      BY <1>7, <2>3 DEF Keeps
    <3> QED BY <1>4, <2>1, <2>3, <3>1 DEF AcceptsRightly
  <2> QED BY <1>10, <2>2, <2>3, Faulting
<1>11. CASE \E f \in Folders : BeginUpload(f) \/ upload_batch(f) \/ submit_task(f)
  BY <1>5, <1>11 DEF BeginUpload, upload_batch, submit_task
<1>12. CASE \/ UNCHANGED vars \/ \E t \in DOMAIN tasks : TaskEnds(t)
            \/ \E v \in DOMAIN videos : remove_video(v)
  BY <1>5, <1>12 DEF vars, TaskEnds, remove_video
<1> QED BY <1>8, <1>9, <1>10, <1>11, <1>12 DEF Next

\* Rows are accepted rightly in every state.
LEMMA AcceptHolds == Spec => []AcceptInv
<1>1. Init => AcceptInv
  BY DEF Init, Off, AcceptInv, AcceptsRightly, Passing, RowStages
<1>2. ImportInv /\ TypeInv /\ FilesInv /\ OwnersInv /\ AcceptInv /\ [Next]_vars => AcceptInv'
  BY AcceptStep
<1> QED BY <1>1, <1>2, ImportHolds, TypeHolds, FilesHold, OwnersHold, PTL DEF Spec


-----------------------------------------------------------------------------
(* What a batch reports, while its import is not disturbed: its rows, its    *)
(* tasks and its status, and the importer that is at work on it.             *)

\* A row is imported once.
RowsAreNew(b) ==
  \A i \in Importers : importer[i].pc \in InSheet /\ Batch(i) = b => items[Item(i)].status = "none"

\* A task is its row's, or its importer is about to record that.
TasksAreRecorded(b) ==
  \A t \in DOMAIN tasks : tasks[t].item[1] = b =>
    \/ Claims(tasks[t].item, t)
    \/ \E i \in Importers : Claiming(i, t) /\ Item(i) = tasks[t].item

\* Rows are accepted in a pass that knows of it, until the batch is settled.
AcceptingPass(b) ==
  \E i \in Importers : importer[i].pc \in Passing /\ importer[i].accepted /\ Batch(i) = b
AcceptedRows(b) ==
  \A x \in DOMAIN items : x[1] = b /\ Accepted(x) => batch_is_terminal(b) \/ AcceptingPass(b)

BatchAtWork(b) ==
  \A i \in Importers : Batch(i) = b =>
    /\ At(i, "upsert") => ~batch_is_terminal(b)
    /\ importer[i].pc \in Passing => batch[b] = "processing"

ReportIsTrue(b) ==
  /\ batch[b] = "rejected" => ~Released(b)
  /\ batch[b] = "accepted" => Released(b) \/ Odd

BatchInv(b) ==
  RowsAreNew(b) /\ TasksAreRecorded(b) /\ AcceptedRows(b) /\ BatchAtWork(b) /\ ReportIsTrue(b)

BatchesInv == \A b \in Batches : ~Hindered(b) => BatchInv(b)

\* A step of nobody who passes over the rows of the batch.
LEMMA BatchStays ==
  ASSUME ImportInv, TypeInv, NEW b, BatchInv(b), Persists, batch'[b] = batch[b], DOMAIN items' = DOMAIN items,
         \A x \in DOMAIN items : x[1] = b => items'[x] = items[x],
         \A t \in DOMAIN tasks' \ DOMAIN tasks : tasks'[t].item[1] # b,
         \A j \in Importers : importer'[j] # importer[j] =>
           /\ Batch(j) = b => importer[j].pc \notin Passing
           /\ Batch(j)' = b => /\ importer'[j].pc \notin Passing
                               /\ importer'[j].pc = "upsert" => ~batch_is_terminal(b)
  PROVE  BatchInv(b)'
<1>1. InSheet \subseteq Passing /\ "record_item" \in Passing
  BY DEF InSheet, Passing, RowStages
<1>2. \A j \in Importers : importer'[j] = importer[j] => Item(j)' = Item(j) /\ Batch(j)' = Batch(j)
  BY DEF Item, Row, Sheet, Batch, Folder
<1>3. (Odd => Odd') /\ (Released(b)' <=> Released(b))
  BY DEF Persists, Odd, Released
<1>4. \A j \in Importers : Item(j)[1] = Batch(j)
  BY DEF Item
<1>5. RowsAreNew(b)'
  <2> SUFFICES ASSUME NEW j \in Importers, importer'[j].pc \in InSheet, Batch(j)' = b
               PROVE  items'[Item(j)'].status = "none"
    BY DEF RowsAreNew
  <2>1. importer'[j] = importer[j] /\ Item(j)' = Item(j) /\ Batch(j) = b
    BY <1>1, <1>2
  <2>2. items[Item(j)].status = "none" /\ Item(j)[1] = b
    BY <1>4, <2>1 DEF RowsAreNew, BatchInv
  <2>3. Item(j) \in DOMAIN items
    BY <2>1, RowIs DEF TypeInv
  <2> QED BY <2>1, <2>2, <2>3
<1>6. TasksAreRecorded(b)'
  <2> SUFFICES ASSUME NEW t \in DOMAIN tasks', tasks'[t].item[1] = b
               PROVE  \/ Claims(tasks[t].item, t)'
                      \/ \E j \in Importers : Claiming(j, t)' /\ Item(j)' = tasks'[t].item
    BY DEF TasksAreRecorded
  <2>1. t \in DOMAIN tasks /\ tasks'[t].item = tasks[t].item /\ tasks[t].item \in DOMAIN items
    <3>1. t \in DOMAIN tasks /\ tasks'[t].item = tasks[t].item
      BY DEF Persists
    <3>2. tasks[t] \in TaskType
      BY <3>1 DEF TypeInv
    <3>3. tasks[t].item \in DOMAIN items
      BY <3>2 DEF TypeInv, TaskType
    <3> QED BY <3>1, <3>3
  <2>2. CASE Claims(tasks[t].item, t)
    BY <2>1, <2>2 DEF Claims, Accepted
  <2>3. ASSUME NEW j \in Importers, Claiming(j, t), Item(j) = tasks[t].item
        PROVE  Claiming(j, t)' /\ Item(j)' = tasks'[t].item
    <3>1. Batch(j) = b /\ importer[j].pc \in Passing
      BY <1>1, <1>4, <2>1, <2>3 DEF Claiming, At
    <3>2. importer'[j] = importer[j]
      BY <3>1
    <3> QED BY <1>2, <2>1, <2>3, <3>2 DEF Claiming, At
  <2> QED BY <2>1, <2>2, <2>3 DEF BatchInv, TasksAreRecorded
<1>7. AcceptedRows(b)'
  <2>1. batch_is_terminal(b)' = batch_is_terminal(b)
    BY DEF batch_is_terminal
  <2>2. AcceptingPass(b) => AcceptingPass(b)'
    BY <1>2 DEF AcceptingPass
  <2> QED BY <2>1, <2>2 DEF AcceptedRows, BatchInv, Accepted
<1>8. BatchAtWork(b)'
  <2> SUFFICES ASSUME NEW j \in Importers, Batch(j)' = b
               PROVE  /\ importer'[j].pc = "upsert" => batch'[b] \notin TERMINAL_BATCH_STATUSES
                      /\ importer'[j].pc \in Passing => batch'[b] = "processing"
    BY DEF BatchAtWork, At, batch_is_terminal
  <2>1. CASE importer'[j] = importer[j]
    BY <1>2, <2>1 DEF BatchAtWork, BatchInv, At, batch_is_terminal
  <2>2. CASE importer'[j] # importer[j]
    BY <2>2 DEF batch_is_terminal
  <2> QED BY <2>1, <2>2
<1>9. ReportIsTrue(b)'
  BY <1>3 DEF BatchInv, ReportIsTrue
<1> QED BY <1>5, <1>6, <1>7, <1>8, <1>9 DEF BatchInv

\* The one importer of an undisturbed batch.
LEMMA Alone ==
  ASSUME AloneInv, NEW i \in Importers, ~At(i, "off"), ~Hindered(Batch(i))
  PROVE  /\ \A j \in Importers \ {i} : ~At(j, "off") => Batch(j) # Batch(i)
         /\ importer[i].pc \notin {"reject", "finish_rejected"}
<1>1. Folder(i) \notin hindered
  BY DEF Hindered, Batch
<1> QED BY <1>1 DEF AloneInv

\* All tasks of its batch are recorded while it does not record one.
LEMMA TasksRecorded ==
  ASSUME AloneInv, NEW i \in Importers, ~At(i, "off"), ~Hindered(Batch(i)), TasksAreRecorded(Batch(i)),
         ~At(i, "record_item"), NEW t \in DOMAIN tasks, tasks[t].item[1] = Batch(i)
  PROVE  Claims(tasks[t].item, t)
<1>1. ASSUME NEW j \in Importers, Claiming(j, t), Item(j) = tasks[t].item PROVE FALSE
  <2>1. Batch(j) = Batch(i) /\ ~At(j, "off") /\ At(j, "record_item")
    BY <1>1 DEF Claiming, At, Item
  <2> QED BY <2>1, Alone
<1> QED BY <1>1 DEF TasksAreRecorded

\* If it has accepted no row, its batch has released nothing.
LEMMA NothingReleased ==
  ASSUME AloneInv, NEW i \in Importers, ~At(i, "off"), ~Hindered(Batch(i)), BatchInv(Batch(i)),
         ~At(i, "record_item"), TypeInv, ~batch_is_terminal(Batch(i)),
         ~importer[i].accepted \/ importer[i].pc \notin Passing
  PROVE  ~Released(Batch(i)) /\ \A x \in DOMAIN items : x[1] = Batch(i) => ~Accepted(x)
<1>1. ~AcceptingPass(Batch(i))
  BY Alone DEF AcceptingPass, At, Passing, RowStages
<1>2. \A x \in DOMAIN items : x[1] = Batch(i) => ~Accepted(x)
  BY <1>1 DEF BatchInv, AcceptedRows
<1>3. \A t \in DOMAIN tasks : tasks[t].item \in DOMAIN items
  <2>1. \A t \in DOMAIN tasks : tasks[t] \in TaskType
    BY DEF TypeInv
  <2> QED BY <2>1 DEF TypeInv, TaskType
<1>4. \A t \in DOMAIN tasks : tasks[t].item[1] # Batch(i)
  BY <1>2, <1>3, TasksRecorded DEF Claims, BatchInv
<1> QED BY <1>2, <1>4 DEF Released

\* A step from one stage of its pass to the next.
LEMMA PassStep ==
  ASSUME NEW b, NEW i \in Importers, Batch(i) = b, BatchInv(b),
         \A j \in Importers \ {i} : ~At(j, "off") => Batch(j) # b,
         Others(i), importer'[i].folder = Folder(i),
         importer[i].pc \in Passing, importer'[i].pc \in Passing,
         importer[i].accepted => importer'[i].accepted, batch' = batch,
         DOMAIN items' = DOMAIN items,
         \A x \in DOMAIN items : x[1] = b /\ Accepted(x)' => Accepted(x) \/ importer'[i].accepted,
         importer'[i].pc \in InSheet => items'[Item(i)'].status = "none",
         TasksAreRecorded(b)'
  PROVE  BatchInv(b)'
<1>1. /\ Batch(i)' = b /\ batch[b] = "processing" /\ ~batch_is_terminal(b)
      /\ \A j \in Importers \ {i} : ~At(j, "off")' => Batch(j)' # b
  BY DEF Batch, Folder, BatchInv, BatchAtWork, Others, At, batch_is_terminal, TERMINAL_BATCH_STATUSES
<1>2. \A j \in Importers : importer'[j].pc \in Passing /\ Batch(j)' = b => j = i
  BY <1>1 DEF At, Passing, RowStages
<1>3. RowsAreNew(b)'
  BY <1>2 DEF RowsAreNew, InSheet, Passing
<1>4. AcceptedRows(b)'
  <2> SUFFICES ASSUME NEW x \in DOMAIN items, x[1] = b, Accepted(x)' PROVE importer'[i].accepted
    BY <1>1 DEF AcceptedRows, AcceptingPass
  <2>1. ASSUME Accepted(x) PROVE importer'[i].accepted
    <3>1. PICK j \in Importers : importer[j].pc \in Passing /\ importer[j].accepted /\ Batch(j) = b
      BY <1>1, <2>1 DEF BatchInv, AcceptedRows, AcceptingPass
    <3>2. j = i
      BY <3>1 DEF At, Passing, RowStages
    <3> QED BY <3>1, <3>2
  <2> QED BY <2>1
<1>5. BatchAtWork(b)'
  <2>1. \A j \in Importers : importer'[j].pc = "upsert" => Batch(j)' # b
    <3>1. importer'[i].pc # "upsert"
      BY DEF Passing, RowStages
    <3> QED BY <1>1, <3>1 DEF At
  <2> QED BY <1>1, <2>1 DEF BatchAtWork, At
<1>6. ReportIsTrue(b)'
  BY <1>1 DEF ReportIsTrue
<1> QED BY <1>3, <1>4, <1>5, <1>6 DEF BatchInv


\* A step of the batch's importer keeps what its batch reports.
LEMMA OwnBatchStep ==
  ASSUME ImportInv, TypeInv, FilesInv, AloneInv, AcceptInv, NEW i \in Importers, ImporterStep(i),
         NEW b, b = Batch(i), ~Hindered(b), BatchInv(b), Persists
  PROVE  BatchInv(b)'
<1> DEFINE old == importer[i]
           new == importer'[i]
<1>1. Effect(i) /\ Course(i) /\ Follows(i) /\ Others(i)
  BY ImporterEffect, Following DEF Effect, Typed
<1>2. /\ ~At(i, "off") /\ b \in Batches /\ batch \in [Batches -> {"none", "processing"} \cup TERMINAL_BATCH_STATUSES]
  BY <1>1, SheetIs DEF Course, TypeInv
<1>3. /\ \A j \in Importers \ {i} : ~At(j, "off") => Batch(j) # b
      /\ old.pc \notin {"reject", "finish_rejected"}
  BY <1>2, Alone
<1>4. \A j \in Importers \ {i} : importer'[j] = importer[j] /\ Batch(j)' = Batch(j)
  BY <1>1 DEF Others, Batch, Folder
<1>5. \A t \in DOMAIN tasks : tasks[t].item \in DOMAIN items /\ tasks'[t].item = tasks[t].item
  <2>1. \A t \in DOMAIN tasks : tasks[t] \in TaskType
    BY DEF TypeInv
  <2> QED BY <2>1 DEF TypeInv, TaskType, Persists
<1>6. ASSUME old.pc # "record_item", items' = items, NEW t \in DOMAIN tasks, tasks'[t].item[1] = b
      PROVE  Claims(tasks[t].item, t)'
  <2>1. Claims(tasks[t].item, t)
    BY <1>2, <1>5, <1>6, TasksRecorded DEF BatchInv, At
  <2> QED BY <1>5, <1>6, <2>1 DEF Claims, Accepted
<1>7. ASSUME old.pc # "record_item", items' = items, DOMAIN tasks' = DOMAIN tasks
      PROVE  TasksAreRecorded(b)'
  BY <1>6, <1>7 DEF TasksAreRecorded
<1>8. ASSUME UNCHANGED <<Tables, batch>>, old.pc \in Passing \ {"record_item"}, new.pc \in Passing,
             new.folder = old.folder, new.accepted = old.accepted,
             new.pc \in InSheet => items[Item(i)'].status = "none"
      PROVE  BatchInv(b)'
  <2>1. TasksAreRecorded(b)'
    BY <1>7, <1>8 DEF Tables
  <2>2. /\ items' = items /\ new.folder = Folder(i) /\ (old.accepted => new.accepted)
        /\ \A x \in DOMAIN items : Accepted(x)' => Accepted(x)
    BY <1>8 DEF Tables, Folder, Accepted
  <2> QED BY <1>1, <1>3, <1>8, <2>1, <2>2, PassStep
<1>9. CASE (RejectDuplicate(i) \/ MoveToProcessing(i)) /\ old.pc = "locked"
           /\ (new.pc = "upsert" => MoveToProcessing(i)) /\ new.pc \in {"duplicate_batch", "upsert"}
           /\ Keeps(i)
  <2>1. UNCHANGED <<Tables, batch>> /\ (MoveToProcessing(i) => ~batch_is_terminal(b))
    BY <1>9 DEF RejectDuplicate, MoveToProcessing, Tables, dbVars, historyVars
  <2>2. new.pc \notin Passing /\ old.pc \notin Passing
    BY <1>9 DEF Passing, RowStages
  <2>3. \A j \in Importers : importer'[j] # importer[j] =>
          /\ Batch(j) = b => importer[j].pc \notin Passing
          /\ Batch(j)' = b => /\ importer'[j].pc \notin Passing
                              /\ importer'[j].pc = "upsert" => ~batch_is_terminal(b)
    BY <1>4, <1>9, <2>1, <2>2
  <2>4. DOMAIN items' = DOMAIN items /\ DOMAIN tasks' = DOMAIN tasks /\ items' = items /\ batch' = batch
    BY <2>1 DEF Tables
  <2> QED BY <2>3, <2>4, BatchStays
<1>10. CASE upsert_batch(i)
  <2>1. UNCHANGED Tables
    BY <1>10 DEF upsert_batch, Tables, historyVars
  <2>2. \A j \in Importers \ {i} : importer'[j].pc \in Passing \cup {"upsert"} => Batch(j)' # b
    BY <1>3, <1>4 DEF At, Passing, RowStages
  <2>3. TasksAreRecorded(b)'
    BY <1>7, <1>10, <2>1 DEF upsert_batch, At, Tables
  <2>4. CASE old.pc = "upsert" /\ new.pc = "row" /\ new.folder = old.folder
    <3>1. batch'[b] = "processing"
      BY <1>2, <1>10, <2>4 DEF upsert_batch, At
    <3>2. ~batch_is_terminal(b) /\ old.pc \notin Passing
      BY <2>4 DEF BatchInv, BatchAtWork, At, Passing, RowStages
    <3>3. \A x \in DOMAIN items : x[1] = b => ~Accepted(x)
      BY <1>2, <2>4, <3>2, NothingReleased DEF At
    <3>4. RowsAreNew(b)' /\ AcceptedRows(b)' /\ ReportIsTrue(b)'
      BY <2>1, <2>2, <2>4, <3>1, <3>3 DEF RowsAreNew, AcceptedRows, ReportIsTrue, InSheet, Passing,
         RowStages, Accepted, Tables
    <3>5. BatchAtWork(b)'
      BY <2>2, <2>4, <3>1 DEF BatchAtWork, At
    <3> QED BY <2>3, <3>4, <3>5 DEF BatchInv
  <2>5. CASE old.pc = "duplicate_batch" /\ new = Off
    <3>1. batch'[b] = "duplicate_batch" /\ new.pc = "off"
      BY <1>2, <1>10, <2>5 DEF upsert_batch, At, Off
    <3>2. \A j \in Importers : importer'[j].pc \in Passing \cup {"upsert"} => Batch(j)' # b
      BY <2>2, <3>1 DEF Passing, RowStages
    <3>3. RowsAreNew(b)' /\ AcceptedRows(b)' /\ ReportIsTrue(b)' /\ BatchAtWork(b)'
      BY <3>1, <3>2 DEF RowsAreNew, AcceptedRows, ReportIsTrue, BatchAtWork, InSheet, Passing, At,
         batch_is_terminal, TERMINAL_BATCH_STATUSES
    <3> QED BY <2>3, <3>3 DEF BatchInv
  <2> QED BY <1>1, <1>10, <2>4, <2>5 DEF Follows, upsert_batch, RejectDuplicate, MoveToProcessing,
             item_exists, InsideRow, CheckFileName, SelectVideo, add_video, add_caption, SelectTask,
             create_task, record_item, SettleFolder, InRow, refresh_accepted_video_paths,
             finish_batch, RejectFolder, At
<1>11. CASE /\ item_exists(i) /\ old.pc = "row" /\ new.pc = "row" /\ new.folder = old.folder
            /\ new.accepted = old.accepted
  <2>1. UNCHANGED <<Tables, batch>> /\ "row" \in Passing \ {"record_item"} /\ "row" \notin InSheet
    BY <1>11 DEF item_exists, Tables, dbVars, historyVars, Passing, RowStages, InSheet
  <2> QED BY <1>8, <1>11, <2>1
<1>12. CASE /\ item_exists(i) /\ old.pc = "row" /\ new.pc \in {"name", "record_failure"} /\ Keeps(i)
            /\ items[Item(i)].status = "none"
  <2>1. UNCHANGED <<Tables, batch>> /\ old.pc \in Passing \ {"record_item"} /\ new.pc \in Passing
    BY <1>12 DEF item_exists, Tables, dbVars, historyVars, Passing, RowStages, InSheet
  <2>2. Item(i)' = Item(i)
    BY <1>12 DEF Keeps, Item, Row, Sheet, Batch, Folder
  <2> QED BY <1>8, <1>12, <2>1, <2>2 DEF Keeps
<1>13. CASE InsideRow(i) /\ old.pc \in InSheet \ {"record_item"} /\ new.pc \in InSheet /\ Keeps(i)
  <2>1. UNCHANGED <<items, batch>>
    BY <1>13 DEF InsideRow, CheckFileName, SelectVideo, add_video, add_caption, SelectTask,
                 create_task, dbVars
  <2>2. Item(i)' = Item(i) /\ new.folder = Folder(i) /\ new.accepted = old.accepted
    BY <1>13 DEF Keeps, Item, Row, Sheet, Batch, Folder
  <2>3. old.pc \in Passing /\ new.pc \in Passing
    BY <1>13 DEF Passing, InSheet
  <2>4. items[Item(i)].status = "none"
    BY <1>13 DEF BatchInv, RowsAreNew
  <2>5. TasksAreRecorded(b)'
    <3>1. CASE create_task(i) /\ Creates(i)
      <4>1. PICK s : s = new.task
        OBVIOUS
      <4>2. /\ DOMAIN tasks' = DOMAIN tasks \cup {s} /\ tasks'[s].item = Item(i)
            /\ new.pc = "record_item"
        BY <3>1, <4>1, TaskCreated DEF Creates
      <4>3. Claiming(i, s)' /\ Item(i)' = tasks'[s].item
        BY <2>2, <4>1, <4>2 DEF Claiming, At
      <4> QED BY <1>6, <1>13, <2>1, <4>2, <4>3 DEF TasksAreRecorded
    <3>2. CASE DOMAIN tasks' = DOMAIN tasks
      BY <1>7, <1>13, <2>1, <3>2
    <3>3. tasks' = tasks \/ create_task(i)
      BY <1>13 DEF InsideRow, CheckFileName, SelectVideo, add_video, add_caption, SelectTask, dbVars
    <3>4. create_task(i) => Creates(i)
      BY <1>1, <1>13 DEF Effect, Rests, Leaves, Tables, create_task, add_video, record_item,
                         refresh_accepted_video_paths, At, Selects, Proceeds, Finds
    <3> QED BY <3>1, <3>2, <3>3, <3>4
  <2>6. \A x \in DOMAIN items : Accepted(x)' => Accepted(x)
    BY <2>1 DEF Accepted
  <2> QED BY <1>1, <1>3, <2>1, <2>2, <2>3, <2>4, <2>5, <2>6, PassStep
<1>14. CASE record_item(i) /\ old.pc \in InSheet /\ new.pc = "row" /\ new.folder = old.folder
  <2>1. /\ DOMAIN items' = DOMAIN items /\ tasks' = tasks /\ batch' = batch
        /\ \A y \in DOMAIN items : y # Item(i) => items'[y] = items[y]
        /\ At(i, "record_item") => items'[Item(i)].task = old.task
    BY <1>14, ItemRecorded DEF record_item, Record
  <2>2. items'[Item(i)].status = "accepted" <=> At(i, "record_item")
    BY <1>14, ItemRecorded
  <2>3. items[Item(i)].status = "none"
    BY <1>14 DEF BatchInv, RowsAreNew
  <2>4. At(i, "record_item") => new.accepted
    <3> SUFFICES ASSUME At(i, "record_item") PROVE new.accepted
      OBVIOUS
    <3>1. ~Rests(i)
      BY <2>2, <2>3 DEF Rests, Tables
    <3>2. ~add_video(i) /\ ~create_task(i) /\ ~refresh_accepted_video_paths(i)
      BY DEF add_video, create_task, refresh_accepted_video_paths, At
    <3> QED BY <1>1, <3>1, <3>2 DEF Effect
  <2>5. old.accepted => new.accepted
    <3>1. new # Off
      BY <1>14 DEF Off
    <3> QED BY <1>1, <3>1 DEF Course
  <2>6. TasksAreRecorded(b)'
    <3> SUFFICES ASSUME NEW t \in DOMAIN tasks, tasks[t].item[1] = b PROVE Claims(tasks[t].item, t)'
      BY <2>1 DEF TasksAreRecorded
    <3>1. CASE Claims(tasks[t].item, t)
      <4>1. tasks[t].item # Item(i)
        BY <2>3, <3>1 DEF Claims, Accepted
      <4> QED BY <1>5, <2>1, <3>1, <4>1 DEF Claims, Accepted
    <3>2. ASSUME NEW j \in Importers, Claiming(j, t), Item(j) = tasks[t].item
          PROVE  Claims(tasks[t].item, t)'
      <4>1. Batch(j) = b /\ ~At(j, "off")
        BY <3>2 DEF Item, Claiming, At
      <4>2. j = i
        BY <1>3, <4>1
      <4> QED BY <2>1, <2>2, <3>2, <4>2 DEF Claiming, Claims, Accepted
    <3> QED BY <3>1, <3>2 DEF BatchInv, TasksAreRecorded
  <2>7. \A x \in DOMAIN items : Accepted(x)' => Accepted(x) \/ new.accepted
    BY <2>1, <2>2, <2>4 DEF Accepted
  <2>8. old.pc \in Passing /\ new.pc \in Passing /\ new.pc \notin InSheet /\ new.folder = Folder(i)
    BY <1>14 DEF Passing, InSheet, RowStages, Folder
  <2> QED BY <1>1, <1>3, <2>1, <2>5, <2>6, <2>7, <2>8, PassStep
<1>15. CASE SettleFolder(i) /\ old.pc = "row" /\ Keeps(i) /\ new.pc \in {"refresh", "finish"}
  <2>1. UNCHANGED <<Tables, batch>> /\ old.pc \in Passing \ {"record_item"}
        /\ new.pc \in Passing \ InSheet
    BY <1>15 DEF SettleFolder, Tables, dbVars, historyVars, Passing, RowStages, InSheet
  <2> QED BY <1>8, <1>15, <2>1 DEF Keeps
<1>16. CASE refresh_accepted_video_paths(i) /\ old.pc = "refresh" /\ new.pc = "finish" /\ Keeps(i)
  <2>1. UNCHANGED <<items, tasks, batch>> /\ old.pc \in Passing
        /\ new.pc \in Passing \ InSheet
    BY <1>16 DEF refresh_accepted_video_paths, Passing, RowStages, InSheet
  <2>2. TasksAreRecorded(b)' /\ new.folder = Folder(i) /\ (old.accepted => new.accepted)
    BY <1>7, <1>16, <2>1 DEF Keeps, Folder
  <2>3. \A x \in DOMAIN items : Accepted(x)' => Accepted(x)
    BY <2>1 DEF Accepted
  <2> QED BY <1>1, <1>3, <2>1, <2>2, <2>3, PassStep
<1>17. CASE finish_batch(i) /\ old.pc \in {"finish", "finish_rejected"} /\ new = Off
  <2>1. UNCHANGED Tables /\ old.pc = "finish" /\ new.pc = "off"
    BY <1>3, <1>17 DEF finish_batch, Tables, historyVars, Off
  <2>2. batch'[b] = IF old.accepted THEN "accepted" ELSE "rejected"
    BY <1>2, <1>17, <2>1 DEF finish_batch, At, FinalPlace
  <2>3. \A j \in Importers : importer'[j].pc \in Passing \cup {"upsert"} => Batch(j)' # b
    BY <1>3, <1>4, <2>1 DEF At, Passing, RowStages
  <2>4. old.pc \in Passing /\ ~At(i, "record_item") /\ ~batch_is_terminal(b)
    BY <2>1 DEF Passing, At, BatchInv, BatchAtWork, batch_is_terminal, TERMINAL_BATCH_STATUSES
  <2>5. ~old.accepted => ~Released(b)
    BY <1>2, <2>4, NothingReleased
  <2>6. old.accepted => Released(b) \/ Odd
    BY <2>4 DEF AcceptInv, AcceptsRightly
  <2>7. ReportIsTrue(b)'
    <3>1. Released(b)' = Released(b) /\ Odd' = Odd
      BY <2>1 DEF Released, Odd, Tables, historyVars
    <3> QED BY <2>2, <2>5, <2>6, <3>1 DEF ReportIsTrue
  <2>8. TasksAreRecorded(b)'
    BY <1>7, <2>1 DEF Tables
  <2>9. RowsAreNew(b)' /\ AcceptedRows(b)' /\ BatchAtWork(b)'
    BY <2>2, <2>3 DEF RowsAreNew, AcceptedRows, BatchAtWork, InSheet, Passing, At,
         batch_is_terminal, TERMINAL_BATCH_STATUSES
  <2> QED BY <2>7, <2>8, <2>9 DEF BatchInv
<1> QED BY <1>1, <1>3, <1>9, <1>10, <1>11, <1>12, <1>13, <1>14, <1>15, <1>16, <1>17 DEF Follows


\* Every step keeps what undisturbed batches report.
LEMMA BatchesStep ==
  ASSUME ImportInv, TypeInv, FilesInv, AloneInv, AcceptInv, BatchesInv, [Next]_vars
  PROVE  BatchesInv'
<1> SUFFICES ASSUME NEW b \in Batches, ~Hindered(b)' PROVE BatchInv(b)'
  BY DEF BatchesInv
<1>1. Persists /\ hindered \subseteq hindered'
  BY FilesStep, HinderedGrows
<1>2. ~Hindered(b) /\ BatchInv(b)
  BY <1>1 DEF BatchesInv, Hindered
<1>3. ASSUME UNCHANGED <<items, batch, DOMAIN tasks>>,
             \A j \in Importers : importer'[j] # importer[j] =>
               /\ Batch(j) = b => importer[j].pc \notin Passing
               /\ Batch(j)' = b => importer'[j].pc \notin Passing \cup {"upsert"}
      PROVE  BatchInv(b)'
  BY <1>1, <1>2, <1>3, BatchStays
<1>4. ASSUME NEW i \in Importers, NEW f \in Folders, LockFolder(i, f) PROVE BatchInv(b)'
  <2>1. /\ Others(i) /\ UNCHANGED Tables /\ importer[i].pc = "off" /\ importer'[i].pc = "locked"
    BY <1>4, LockEffect DEF Effect, Typed
  <2>2. UNCHANGED <<items, batch, DOMAIN tasks>>
    BY <1>4, <2>1 DEF LockFolder, dbVars
  <2>3. importer[i].pc \notin Passing /\ importer'[i].pc \notin Passing \cup {"upsert"}
    BY <2>1 DEF Passing, RowStages
  <2> QED BY <1>3, <2>1, <2>2, <2>3 DEF Others
<1>5. ASSUME NEW i \in Importers, ImporterStep(i) PROVE BatchInv(b)'
  <2>1. Effect(i) /\ Course(i) /\ Others(i)
    BY <1>5, ImporterEffect DEF Effect, Typed
  <2>2. CASE Batch(i) = b
    BY <1>1, <1>2, <1>5, <2>2, OwnBatchStep
  <2>3. CASE Batch(i) # b
    <3>1. batch'[b] = batch[b]
      <4>1. batch' = batch \/ \E status : batch' = [batch EXCEPT ![Batch(i)] = status]
        BY <1>5 DEF ImporterStep, RejectDuplicate, MoveToProcessing, upsert_batch, item_exists,
           CheckFileName, SelectVideo, add_video, add_caption, SelectTask, create_task, record_item,
           Record, SettleFolder, refresh_accepted_video_paths, finish_batch, RejectFolder, dbVars
      <4> QED BY <2>3, <4>1 DEF TypeInv
    <3>2. DOMAIN items' = DOMAIN items /\ \A x \in DOMAIN items : x[1] = b => items'[x] = items[x]
      <4>1. CASE record_item(i)
        <5>1. Item(i)[1] = Batch(i)
          BY DEF Item
        <5> QED BY <2>3, <4>1, <5>1, ItemRecorded
      <4>2. CASE items' = items
        BY <4>2
      <4> QED BY <2>1, <4>1, <4>2 DEF Effect, Rests, Tables, add_video, create_task,
                                      refresh_accepted_video_paths
    <3>3. \A t \in DOMAIN tasks' \ DOMAIN tasks : tasks'[t].item[1] # b
      <4>1. CASE create_task(i) /\ Creates(i)
        <5>1. Item(i)[1] = Batch(i)
          BY DEF Item
        <5> QED BY <2>3, <4>1, <5>1, TaskCreated
      <4>2. CASE tasks' = tasks
        BY <4>2
      <4> QED BY <2>1, <4>1, <4>2 DEF Effect, Rests, Tables, add_video, record_item, Record,
                                      refresh_accepted_video_paths
    <3>4. importer'[i].pc # "off" => Batch(i)' # b
      BY <2>1, <2>3 DEF Course, Off, Batch, Folder
    <3>5. \A j \in Importers : importer'[j] # importer[j] =>
            /\ Batch(j) = b => importer[j].pc \notin Passing
            /\ Batch(j)' = b => /\ importer'[j].pc \notin Passing
                                /\ importer'[j].pc = "upsert" => ~batch_is_terminal(b)
      BY <2>1, <2>3, <3>4 DEF Others, Passing, RowStages
    <3> QED BY <1>1, <1>2, <3>1, <3>2, <3>3, <3>5, BatchStays
  <2> QED BY <2>2, <2>3
<1>6. ASSUME NEW i \in Importers, DatabaseError(i) \/ Crash(i) PROVE BatchInv(b)'
  <2>1. /\ Folder(i) \in hindered' /\ Others(i) /\ UNCHANGED <<batch, Tables>>
        /\ importer'[i] = Off \/ Keeps(i)
    BY <1>6, Faulting
  <2>2. Batch(i) # b
    BY <2>1 DEF Hindered, Batch
  <2>3. importer'[i].pc \in Passing \cup {"upsert"} => Batch(i)' # b
    <3>1. "off" \notin Passing
      BY DEF Passing, RowStages
    <3> QED BY <2>1, <2>2, <3>1 DEF Keeps, Off, Batch, Folder
  <2>4. UNCHANGED <<items, batch, DOMAIN tasks>>
    BY <2>1 DEF Tables
  <2> QED BY <1>3, <2>1, <2>2, <2>3, <2>4 DEF Others
<1>7. ASSUME UNCHANGED <<items, batch, importer, DOMAIN tasks>> PROVE BatchInv(b)'
  BY <1>3, <1>7
<1>8. CASE \E f \in Folders : BeginUpload(f) \/ upload_batch(f) \/ submit_task(f)
  BY <1>7, <1>8 DEF BeginUpload, upload_batch, submit_task, dbVars
<1>9. CASE UNCHANGED vars
  BY <1>7, <1>9 DEF vars, dbVars
<1>10. CASE \E t \in DOMAIN tasks : TaskEnds(t)
  BY <1>7, <1>10, TaskEnded DEF TaskEnds
<1>11. CASE \E v \in DOMAIN videos : remove_video(v)
  BY <1>7, <1>11, VideoRemoved DEF remove_video
<1> QED BY <1>4, <1>5, <1>6, <1>8, <1>9, <1>10, <1>11 DEF Next

\* What undisturbed batches report holds in every state.
LEMMA BatchesHold == Spec => []BatchesInv
<1>1. Init => BatchesInv
  <2> SUFFICES ASSUME Init, NEW b \in Batches PROVE BatchInv(b)
    BY DEF BatchesInv
  <2>1. /\ \A i \in Importers : importer[i].pc = "off"
        /\ tasks = << >> /\ \A x \in DOMAIN items : items[x].status = "none"
        /\ batch[b] = "none"
    BY DEF Init, Off, NoItem
  <2>2. RowsAreNew(b) /\ BatchAtWork(b)
    BY <2>1 DEF RowsAreNew, BatchAtWork, At, InSheet, Passing, RowStages
  <2>3. TasksAreRecorded(b) /\ AcceptedRows(b) /\ ReportIsTrue(b)
    BY <2>1 DEF TasksAreRecorded, AcceptedRows, Accepted, ReportIsTrue
  <2> QED BY <2>2, <2>3 DEF BatchInv
<1>2. /\ ImportInv /\ TypeInv /\ FilesInv /\ AloneInv /\ AcceptInv /\ BatchesInv /\ [Next]_vars
      => BatchesInv'
  BY BatchesStep
<1> QED BY <1>1, <1>2, ImportHolds, TypeHolds, FilesHold, AloneHolds, AcceptHolds, PTL DEF Spec

\* What a batch reports is what it did, unless its import was disturbed: no
\* row of a rejected batch became a task, and one of an accepted batch did, or
\* was given the task of a video that was removed or stored twice.
THEOREM BatchReportIsTrueHolds == Spec => []BatchReportIsTrue
<1>1. BatchesInv => BatchReportIsTrue
  BY DEF BatchesInv, BatchInv, ReportIsTrue, BatchReportIsTrue, Released, Odd
<1> QED BY <1>1, BatchesHold, PTL

\* Every task of a settled, undisturbed batch is the task of the row it stems
\* from, and no two rows claim one task, unless its video was removed under
\* its importer or its task, or stored by two importers at once.
THEOREM RowsOwnTheirTasksHolds == Spec => []RowsOwnTheirTasks
<1>1. TypeInv /\ FilesInv /\ OwnersInv /\ BatchesInv => RowsOwnTheirTasks
  <2> SUFFICES ASSUME TypeInv, FilesInv, OwnersInv, BatchesInv PROVE RowsOwnTheirTasks
    OBVIOUS
  <2>1. ASSUME NEW t \in DOMAIN tasks, ~Hindered(tasks[t].item[1]), ~AtWork(tasks[t].item[1])
        PROVE  items[tasks[t].item].status = "accepted" /\ items[tasks[t].item].task = t
    <3>1. tasks[t].item[1] \in Batches
      <4>1. tasks[t] \in TaskType
        BY DEF TypeInv
      <4> QED BY <4>1 DEF TaskType
    <3>2. TasksAreRecorded(tasks[t].item[1])
      BY <2>1, <3>1 DEF BatchesInv, BatchInv
    <3>3. ASSUME NEW i \in Importers, Claiming(i, t), Item(i) = tasks[t].item PROVE FALSE
      BY <2>1, <3>3 DEF Claiming, At, AtWork, Item
    <3> QED BY <3>2, <3>3 DEF TasksAreRecorded, Claims, Accepted
  <2>2. ASSUME NEW x \in DOMAIN items, NEW y \in DOMAIN items, items[x].status = "accepted",
               items[y].status = "accepted", x # y, items[x].task = items[y].task,
               items[x].video \notin pulled, videos[items[x].video].name \notin overtaken
        PROVE  FALSE
    <3>1. items[x].task \in DOMAIN tasks /\ tasks[items[x].task].video = items[x].video
      BY <2>2 DEF FilesInv, ItemsHaveTasks, Accepted
    <3>2. ClaimedOnce(items[x].task)
      BY <2>2, <3>1 DEF OwnersInv, Sound
    <3> QED BY <2>2, <3>2 DEF ClaimedOnce, Claims, Accepted
  <2> QED BY <2>1, <2>2 DEF RowsOwnTheirTasks
<1> QED BY <1>1, TypeHolds, FilesHold, OwnersHold, BatchesHold, PTL


-----------------------------------------------------------------------------
(* Where the video of a task is. *)

\* A folder is refreshed once it is accepted, and a path in an accepted
\* folder is right.
PathsInv ==
  /\ \A i \in Importers : At(i, "refresh") => place[Folder(i)] = "accepted"
  /\ \A v \in DOMAIN videos : videos[v].path[2] = "accepted" => place[videos[v].path[1]] = "accepted"

\* While a batch is passed over, its paths are still to be refreshed.
UnsettledPass(b) ==
  \E i \in Importers : importer[i].pc \in Passing \ {"finish"} /\ Batch(i) = b
PathsOf(b) ==
  \A t \in DOMAIN tasks :
    tasks[t].active /\ tasks[t].item[1] = b /\ Sound(tasks[t].video)
      => videos[tasks[t].video].path[2] = "accepted" \/ UnsettledPass(b)

DiskInv == PathsInv /\ \A b \in Batches : ~Hindered(b) => PathsOf(b)

\* An accepted folder stays where it is.
LEMMA AcceptedStays ==
  ASSUME ImportInv, [Next]_vars, NEW f, place[f] = "accepted"
  PROVE  place'[f] = "accepted"
<1>1. place \in [Folders -> Places]
  BY DEF ImportInv, FolderShape
<1>2. ASSUME NEW g \in Folders, place[g] # "accepted", NEW to, place' = [place EXCEPT ![g] = to]
      PROVE  place'[f] = "accepted"
  BY <1>1, <1>2
<1>3. CASE \E g \in Folders : BeginUpload(g) \/ upload_batch(g) \/ submit_task(g)
  BY <1>2, <1>3 DEF BeginUpload, upload_batch, submit_task
<1>4. ASSUME NEW i \in Importers, ImporterStep(i) PROVE place'[f] = "accepted"
  <2>1. CASE place' = place
    BY <2>1
  <2>2. CASE RejectDuplicate(i) \/ MoveToProcessing(i)
    <3>1. Folder(i) \in Folders /\ place[Folder(i)] = "inbox"
      BY <2>2 DEF RejectDuplicate, MoveToProcessing, At, ImportInv, InItsPlace, PlacesAt
    <3> QED BY <1>2, <2>2, <3>1 DEF RejectDuplicate, MoveToProcessing, MoveFolder
  <2>3. CASE SettleFolder(i)
    <3>1. Folder(i) \in Folders /\ place[Folder(i)] = "processing"
      BY <2>3 DEF SettleFolder, At, ImportInv, InItsPlace, PlacesAt
    <3> QED BY <1>2, <2>3, <3>1 DEF SettleFolder, MoveFolder
  <2>4. CASE RejectFolder(i)
    <3>1. Folder(i) \in Folders
      BY <2>4 DEF RejectFolder, At, ImportInv, InItsPlace
    <3> QED BY <1>2, <2>4, <3>1 DEF RejectFolder, MoveFolder
  <2> QED BY <1>4, <2>1, <2>2, <2>3, <2>4 DEF ImporterStep, upsert_batch, item_exists, CheckFileName,
         SelectVideo, add_video, add_caption, SelectTask, create_task, record_item, Record,
         refresh_accepted_video_paths, finish_batch
<1>5. CASE \E i \in Importers : (\E g \in Folders : LockFolder(i, g)) \/ DatabaseError(i) \/ Crash(i)
  BY <1>5 DEF LockFolder, DatabaseError, Crash
<1>6. CASE UNCHANGED vars \/ (\E t \in DOMAIN tasks : TaskEnds(t)) \/ (\E v \in DOMAIN videos : remove_video(v))
  BY <1>6 DEF vars, TaskEnds, remove_video
<1> QED BY <1>3, <1>4, <1>5, <1>6 DEF Next

\* What a step makes of the path of a video: it stays, is that of a folder in
\* processing if the video had no task to run, or that of an accepted folder.
PathIs(v) ==
  \/ v \in DOMAIN videos /\ videos'[v].path = videos[v].path
  \/ /\ videos'[v].path[2] = "processing"
     /\ v \in DOMAIN videos => TasksOf(v) = {} \/ ~Sound(v)'
  \/ /\ \E i \in Importers : At(i, "refresh") /\ videos'[v].path = FinalPath(i)
     /\ v \in DOMAIN videos

\* And so with every step.
LEMMA PathStep ==
  ASSUME ImportInv, TypeInv, FilesInv, OwnersInv, [Next]_vars, NEW v \in DOMAIN videos'
  PROVE  PathIs(v)
<1>1. \A i \in Importers : Remembers(i)
  BY DEF FilesInv
<1>2. CASE UNCHANGED <<Tables, importer>>
  BY <1>2 DEF Tables, PathIs
<1>3. ASSUME NEW i \in Importers, Effect(i) PROVE PathIs(v)
  <2>1. CASE Rests(i)
    BY <2>1 DEF Rests, Tables, PathIs
  <2>2. CASE add_video(i) /\ Adds(i)
    <3> DEFINE w == importer'[i].video
    <3>1. /\ w \in DOMAIN videos' /\ DOMAIN videos' = DOMAIN videos \cup {w}
          /\ w \in DOMAIN videos => importer[i].video = w /\ importer[i].video # 0
          /\ videos'[w].path = <<Folder(i), "processing">> /\ videos'[w].name = Row(i).name
          /\ \A u \in DOMAIN videos : u # w => videos'[u] = videos[u]
          /\ Row(i).name \notin overtaken' => ~Overtaken(i)
          /\ overtaken \subseteq overtaken' /\ pulled' = pulled
          /\ w \in DOMAIN videos => videos[w].name = Row(i).name
      BY <1>1, <2>2, VideoAdded
    <3> HIDE DEF w
    <3>2. CASE v # w
      BY <3>1, <3>2 DEF PathIs
    <3>3. CASE v = w
      <4>1. ASSUME v \in DOMAIN videos, Sound(v)' PROVE TasksOf(v) = {}
        <5>1. videos[v].status = "removed" /\ Sound(v)
          BY <3>1, <3>3, <4>1 DEF Sound, Overtaken
        <5> QED BY <4>1, <5>1 DEF OwnersInv, HeldAlone
      <4> QED BY <3>1, <3>3, <4>1 DEF PathIs
    <3> QED BY <3>2, <3>3
  <2>3. CASE create_task(i) /\ Creates(i)
    BY <2>3, TaskCreated DEF PathIs
  <2>4. CASE record_item(i)
    BY <2>4, ItemRecorded DEF PathIs
  <2>5. CASE refresh_accepted_video_paths(i)
    BY <2>5, PathsRefreshed DEF PathIs, refresh_accepted_video_paths
  <2> QED BY <1>3, <2>1, <2>2, <2>3, <2>4, <2>5 DEF Effect
<1>4. CASE \E t \in DOMAIN tasks : TaskEnds(t)
  BY <1>4, TaskEnded DEF PathIs
<1>5. CASE \E w \in DOMAIN videos : remove_video(w)
  BY <1>5, VideoRemoved DEF PathIs
<1> QED BY <1>2, <1>3, <1>4, <1>5, StepKinds

\* Paths in accepted folders stay right.
LEMMA PathsStep ==
  ASSUME ImportInv, TypeInv, FilesInv, OwnersInv, PathsInv, [Next]_vars
  PROVE  PathsInv'
<1>1. ASSUME NEW v \in DOMAIN videos', videos'[v].path[2] = "accepted"
      PROVE  place'[videos'[v].path[1]] = "accepted"
  <2>1. place[videos'[v].path[1]] = "accepted"
    BY <1>1, PathStep DEF PathIs, PathsInv, FinalPath
  <2> QED BY <2>1, AcceptedStays
<1>2. ASSUME NEW j \in Importers, importer'[j].pc = "refresh" PROVE place'[importer'[j].folder] = "accepted"
  <2>1. CASE importer'[j] = importer[j]
    BY <1>2, <2>1, AcceptedStays DEF PathsInv, At, Folder
  <2>2. CASE importer'[j] # importer[j]
    <3>1. CASE \E i \in Importers, f \in Folders : LockFolder(i, f)
      BY <1>2, <2>2, <3>1, LockEffect DEF Effect, Typed, Others
    <3>2. ASSUME NEW i \in Importers, ImporterStep(i) PROVE place'[importer'[j].folder] = "accepted"
      <4>1. j = i /\ Follows(i)
        BY <2>2, <3>2, Following, ImporterEffect DEF Effect, Typed, Others
      <4>2. SettleFolder(i) /\ importer[i].accepted /\ importer'[i].folder = importer[i].folder
        BY <1>2, <4>1 DEF Follows, Off, InSheet, RowStages, Keeps
      <4>3. place' = [place EXCEPT ![Folder(i)] = "accepted"] /\ Folder(i) \in Folders
        BY <4>2 DEF SettleFolder, MoveFolder, FinalPlace, At, ImportInv, InItsPlace
      <4> QED BY <4>1, <4>2, <4>3 DEF Folder, ImportInv, FolderShape
    <3>3. CASE \E i \in Importers : DatabaseError(i) \/ Crash(i)
      BY <1>2, <2>2, <3>3, Faulting DEF Others, Off
    <3>4. CASE \/ UNCHANGED vars \/ \E f \in Folders : BeginUpload(f) \/ upload_batch(f) \/ submit_task(f)
               \/ \E t \in DOMAIN tasks : TaskEnds(t)
               \/ \E v \in DOMAIN videos : remove_video(v)
      <4>1. importer' = importer
        BY <3>4 DEF vars, BeginUpload, upload_batch, submit_task, TaskEnds, remove_video
      <4> QED BY <2>2, <4>1
    <3> QED BY <3>1, <3>2, <3>3, <3>4 DEF Next
  <2> QED BY <2>1, <2>2
<1> QED BY <1>1, <1>2 DEF PathsInv, At, Folder

\* Every step keeps the videos of the tasks to run where they are looked for.
LEMMA DiskStep ==
  ASSUME ImportInv, TypeInv, FilesInv, OwnersInv, AloneInv, BatchesInv, DiskInv, [Next]_vars
  PROVE  DiskInv'
<1>1. PathsInv'
  BY PathsStep DEF DiskInv
<1> SUFFICES ASSUME NEW b \in Batches, ~Hindered(b)', NEW t \in DOMAIN tasks',
                    tasks'[t].active, tasks'[t].item[1] = b, Sound(tasks[t].video)',
                    ~UnsettledPass(b)'
             PROVE  videos'[tasks'[t].video].path[2] = "accepted"
  BY <1>1 DEF DiskInv, PathsOf
<1>2. Persists /\ FilesInv' /\ hindered \subseteq hindered' /\ TypeInv'
  BY FilesStep, HinderedGrows, TypeStep
<1>3. ~Hindered(b) /\ PathsOf(b) /\ BatchInv(b)
  BY <1>2 DEF DiskInv, BatchesInv, Hindered
<1>4. PICK v \in DOMAIN videos' : v = tasks'[t].video
  BY <1>2 DEF FilesInv, TasksHaveVideos
<1>5. PathIs(v) /\ Sound(v)'
  BY <1>4, PathStep DEF Sound
<1>6. ASSUME t \in DOMAIN tasks
      PROVE  /\ tasks[t].video \in DOMAIN videos /\ tasks'[t].video = tasks[t].video
             /\ tasks[t].active /\ tasks[t].item[1] = b /\ Sound(tasks[t].video)
             /\ TasksOf(tasks[t].video) # {}
  BY <1>2, <1>6 DEF Persists, FilesInv, TasksHaveVideos, Sound, TasksOf
<1>7. ASSUME t \in DOMAIN tasks, videos[tasks[t].video].path[2] = "accepted"
      PROVE  videos'[tasks'[t].video].path[2] = "accepted"
  <2>1. v \in DOMAIN videos /\ v = tasks[t].video /\ TasksOf(v) # {}
    BY <1>4, <1>6, <1>7
  <2>2. videos'[v].path = videos[v].path \/ \E i \in Importers : videos'[v].path = FinalPath(i)
    BY <1>5, <2>1 DEF PathIs
  <2> QED BY <1>4, <1>7, <2>1, <2>2 DEF FinalPath
<1>8. ASSUME t \in DOMAIN tasks, ~UnsettledPass(b) PROVE videos'[tasks'[t].video].path[2] = "accepted"
  BY <1>3, <1>6, <1>7, <1>8 DEF PathsOf
<1>9. ASSUME importer' = importer, DOMAIN tasks' = DOMAIN tasks
      PROVE  videos'[tasks'[t].video].path[2] = "accepted"
  BY <1>8, <1>9 DEF UnsettledPass, Batch, Folder
<1>10. ASSUME NEW i \in Importers, Others(i), tasks' = tasks,
              importer[i].pc \in Passing \ {"finish"} => Batch(i) # b
       PROVE  videos'[tasks'[t].video].path[2] = "accepted"
  <2>1. UnsettledPass(b) => UnsettledPass(b)'
    BY <1>10 DEF UnsettledPass, Others, Batch, Folder
  <2> QED BY <1>8, <1>10, <2>1
<1>11. ASSUME NEW i \in Importers, NEW f \in Folders, LockFolder(i, f)
       PROVE  videos'[tasks'[t].video].path[2] = "accepted"
  <2>1. Others(i) /\ tasks' = tasks /\ importer[i].pc = "off"
    BY <1>11, LockEffect DEF Effect, Typed, Tables
  <2> QED BY <1>10, <2>1 DEF Passing, RowStages
<1>12. ASSUME NEW i \in Importers, DatabaseError(i) \/ Crash(i)
       PROVE  videos'[tasks'[t].video].path[2] = "accepted"
  <2>1. Others(i) /\ tasks' = tasks /\ Folder(i) \in hindered'
    BY <1>12, Faulting DEF Tables
  <2>2. Batch(i) # b
    BY <2>1 DEF Hindered, Batch
  <2> QED BY <1>10, <2>1, <2>2
<1>13. ASSUME NEW i \in Importers, ImporterStep(i)
       PROVE  videos'[tasks'[t].video].path[2] = "accepted"
  <2>1. Effect(i) /\ Others(i) /\ Follows(i) /\ ~At(i, "off")
    BY <1>13, Following, ImporterEffect DEF Effect, Typed, Course
  <2>2. ASSUME importer'[i].pc \in Passing \ {"finish"}, importer'[i].folder = Folder(i) PROVE Batch(i) # b
    BY <2>2 DEF UnsettledPass, Batch, Folder
  <2>3. ASSUME Batch(i) = b, importer[i].pc \in Passing
        PROVE  \/ SettleFolder(i) /\ ~importer[i].accepted
               \/ refresh_accepted_video_paths(i) /\ importer[i].pc = "refresh"
               \/ finish_batch(i) /\ importer[i].pc = "finish"
    <3>1. ~(importer'[i].pc \in Passing \ {"finish"} /\ importer'[i].folder = importer[i].folder)
      BY <2>2, <2>3 DEF Folder
    <3>2. InSheet \cup {"row", "name", "record_failure", "refresh"} \subseteq Passing \ {"finish"}
      BY DEF Passing, RowStages, InSheet
    <3>3. importer[i].pc \notin {"locked", "upsert", "duplicate_batch", "reject", "finish_rejected"}
      BY <2>3 DEF Passing, RowStages
    <3> QED BY <2>1, <3>1, <3>2, <3>3 DEF Follows, Keeps
  <2>4. CASE t \notin DOMAIN tasks
    <3>1. create_task(i) /\ Creates(i)
      BY <2>1, <2>4, ItemRecorded, PathsRefreshed, VideoAdded, <1>2
         DEF Effect, Rests, Tables, add_video, record_item, Record, refresh_accepted_video_paths
    <3>2. tasks'[t].item = Item(i)
      BY <2>4, <3>1, TaskCreated
    <3>3. Batch(i) = b /\ importer[i].pc = "create_task"
      BY <3>1, <3>2 DEF Item, Creates
    <3>4. ~SettleFolder(i) /\ ~refresh_accepted_video_paths(i) /\ ~finish_batch(i)
      BY <3>3 DEF SettleFolder, refresh_accepted_video_paths, finish_batch, At
    <3> QED BY <2>3, <3>3, <3>4 DEF Passing, RowStages
  <2>5. CASE t \in DOMAIN tasks /\ Batch(i) = b /\ importer[i].pc \in Passing \ {"finish"}
    <3>1. CASE SettleFolder(i) /\ ~importer[i].accepted
      <4>1. ~At(i, "record_item") /\ ~batch_is_terminal(b)
        BY <1>3, <2>5, <3>1 DEF SettleFolder, At, BatchInv, BatchAtWork, batch_is_terminal,
                                TERMINAL_BATCH_STATUSES
      <4>2. ~Released(b)
        BY <1>3, <2>1, <2>5, <3>1, <4>1, NothingReleased
      <4> QED BY <1>6, <2>5, <4>2 DEF Released
    <3>2. CASE refresh_accepted_video_paths(i) /\ importer[i].pc = "refresh"
      <4>1. Claims(tasks[t].item, t)
        BY <1>3, <1>6, <2>1, <2>5, <3>2, TasksRecorded DEF At, BatchInv
      <4>2. tasks[t].item \in DOMAIN items
        <5>1. tasks[t] \in TaskType
          BY <2>5 DEF TypeInv
        <5> QED BY <5>1 DEF TypeInv, TaskType
      <4>3. items[tasks[t].item].video = tasks[t].video
        BY <4>1, <4>2 DEF FilesInv, ItemsHaveTasks, Claims
      <4>4. tasks[t].video \in VideosOf(Batch(i))
        BY <1>6, <2>5, <4>1, <4>2, <4>3 DEF VideosOf, Claims, Accepted
      <4>5. videos'[tasks[t].video].path = FinalPath(i)
        BY <1>6, <2>5, <3>2, <4>4, PathsRefreshed
      <4> QED BY <1>6, <2>5, <4>5 DEF FinalPath
    <3> QED BY <2>3, <2>5, <3>1, <3>2
  <2>6. CASE t \in DOMAIN tasks /\ ~(Batch(i) = b /\ importer[i].pc \in Passing \ {"finish"})
    <3>1. UnsettledPass(b) => UnsettledPass(b)'
      BY <2>1, <2>6 DEF UnsettledPass, Others, Batch, Folder
    <3> QED BY <1>8, <2>6, <3>1
  <2> QED BY <2>4, <2>5, <2>6
<1>14. CASE \E f \in Folders : BeginUpload(f) \/ upload_batch(f) \/ submit_task(f)
  BY <1>9, <1>14 DEF BeginUpload, upload_batch, submit_task, dbVars
<1>15. CASE UNCHANGED vars
  BY <1>9, <1>15 DEF vars, dbVars
<1>16. CASE \E s \in DOMAIN tasks : TaskEnds(s)
  BY <1>9, <1>16, TaskEnded
<1>17. CASE \E w \in DOMAIN videos : remove_video(w)
  BY <1>9, <1>17, VideoRemoved
<1> QED BY <1>11, <1>12, <1>13, <1>14, <1>15, <1>16, <1>17 DEF Next

\* The video of every task to run of a settled, undisturbed batch is where its
\* row in the library says, although its folder has moved twice since it was
\* stored: the paths are refreshed after the folder was accepted, and an
\* accepted folder moves no more.
THEOREM TaskVideoIsOnDiskHolds == Spec => []TaskVideoIsOnDisk
<1>1. Init => DiskInv
  <2> SUFFICES ASSUME Init PROVE DiskInv
    OBVIOUS
  <2>1. /\ \A i \in Importers : importer[i].pc = "off"
        /\ DOMAIN tasks = {} /\ DOMAIN videos = {}
    BY DEF Init, Off
  <2> QED BY <2>1 DEF DiskInv, PathsInv, PathsOf, At
<1>2. /\ ImportInv /\ TypeInv /\ FilesInv /\ OwnersInv /\ AloneInv /\ BatchesInv /\ DiskInv
      /\ [Next]_vars
      => DiskInv'
  BY DiskStep
<1>3. TypeInv /\ FilesInv /\ DiskInv => TaskVideoIsOnDisk
  <2> SUFFICES ASSUME TypeInv, FilesInv, DiskInv, NEW t \in DOMAIN tasks, tasks[t].active,
                      ~Hindered(tasks[t].item[1]), ~AtWork(tasks[t].item[1]),
                      tasks[t].video \notin pulled, tasks[t].name \notin overtaken
               PROVE  place[videos[tasks[t].video].path[1]] = videos[tasks[t].video].path[2]
    BY DEF TaskVideoIsOnDisk
  <2>1. tasks[t].item[1] \in Batches
    <3>1. tasks[t] \in TaskType
      BY DEF TypeInv
    <3> QED BY <3>1 DEF TaskType
  <2>2. tasks[t].video \in DOMAIN videos /\ Sound(tasks[t].video)
    BY DEF FilesInv, TasksHaveVideos, Sound
  <2>3. ~UnsettledPass(tasks[t].item[1])
    BY DEF UnsettledPass, AtWork, At, Passing, RowStages
  <2>4. videos[tasks[t].video].path[2] = "accepted"
    BY <2>1, <2>2, <2>3 DEF DiskInv, PathsOf
  <2> QED BY <2>2, <2>4 DEF DiskInv, PathsInv
<1> QED BY <1>1, <1>2, <1>3, ImportHolds, TypeHolds, FilesHold, OwnersHold, AloneHolds, BatchesHold,
           PTL DEF Spec

=============================================================================
