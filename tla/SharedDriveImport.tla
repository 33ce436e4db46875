-------------------------- MODULE SharedDriveImport --------------------------
(* The shared drive importer (src/shared_drive_importer, shared_drive_web):  *)
(* folders with videos and a sheet of rows arrive in the inbox; importers -  *)
(* the scan of every minute and the portal's request threads - turn each row *)
(* into a video, a caption and a release task and move the folder to         *)
(* accepted or rejected.  An importer locks the folder it takes, but nothing *)
(* spans its file operations and its sessions: every step is an action, and  *)
(* a SELECT is apart from the INSERT it decides about, because the sessions  *)
(* open their transaction at the first write.                                *)
EXTENDS Naturals, Sequences, FiniteSets

CONSTANTS
  Folders,      \* deliveries; several may bear the name of one batch
  Batches, Names, Importers,
  BatchOf,      \* safe_batch_id of each folder's name
  Rows,         \* the sheet of each folder: a sequence of RowRecord
  Nobody,
  MaxFaults,    \* bound on crashes and database errors
  MaxRemovals   \* bound on removals: none more once a file was removed so often

(* A row is good, refused before anything is written (phone, file, account   *)
(* rule), or refused by create_task (its scheduled_at).                      *)
RowRecord == [row : Nat \ {0}, name : Names, kind : {"good", "invalid", "late"}]

ASSUME ImportAssumption ==
  /\ BatchOf \in [Folders -> Batches] /\ Rows \in [Folders -> Seq(RowRecord)]
  /\ Nobody \notin Folders
  /\ MaxFaults \in Nat /\ MaxRemovals \in Nat

VARIABLES
  place, locked,   \* where each folder is, and whether it holds .importing.lock
  batch, items,    \* shared_import_batches and shared_import_items
  videos, tasks,   \* rows in order of insertion; the position is the id
  captions,        \* files whose caption is in the library
  importer,        \* memory of each importer
  faults,
  \* history: folders whose import was disturbed or overlapped with another of
  \* their batch, files inserted past a check that had been overtaken, removals
  \* by file, videos removed while they were imported or had a task to run
  hindered, overtaken, removals, pulled

historyVars == <<overtaken, removals, pulled>>
dbVars == <<batch, items, videos, tasks, captions>>
vars == <<place, locked, dbVars, importer, faults, hindered, historyVars>>

RowIds == UNION { { Rows[f][n].row : n \in DOMAIN Rows[f] } : f \in Folders }
NoItem == [status |-> "none", video |-> 0, task |-> 0]
Off == [pc |-> "off", folder |-> Nobody, n |-> 0, seen |-> {}, video |-> 0, known |-> 0,
        task |-> 0, accepted |-> FALSE]

Pcs == {"off", "locked", "duplicate_batch", "upsert", "row", "name", "select_video",
        "add_video", "add_caption", "select_task", "create_task", "record_item",
        "record_duplicate", "record_failure", "refresh", "finish", "reject",
        "finish_rejected"}

Init ==
  /\ place = [f \in Folders |-> "outside"] /\ locked = [f \in Folders |-> FALSE]
  /\ batch = [b \in Batches |-> "none"]
  /\ items = [x \in Batches \X RowIds |-> NoItem]
  /\ videos = << >> /\ tasks = << >> /\ captions = {}
  /\ importer = [i \in Importers |-> Off]
  /\ faults = 0
  /\ hindered = {} /\ overtaken = {} /\ removals = [v \in Names |-> 0] /\ pulled = {}

-----------------------------------------------------------------------------
(* Delivery.  upload_batch looks for the batch in the inbox, stages the files *)
(* and moves the staged folder: into the folder of an upload that was faster. *)

InInbox(b) == { f \in Folders : place[f] = "inbox" /\ BatchOf[f] = b }

BeginUpload(f) ==
  /\ place[f] = "outside" /\ InInbox(BatchOf[f]) = {}
  /\ place' = [place EXCEPT ![f] = "staged"]
  /\ UNCHANGED <<locked, dbVars, importer, faults, hindered, historyVars>>

upload_batch(f) ==
  /\ place[f] = "staged"
  /\ place' = [place EXCEPT ![f] = IF InInbox(BatchOf[f]) = {} THEN "inbox" ELSE "nested"]
  /\ UNCHANGED <<locked, dbVars, importer, faults, hindered, historyVars>>

(* The portal's form for one task names its batch itself.                    *)
submit_task(f) ==
  /\ place[f] = "outside" /\ Len(Rows[f]) = 1
  /\ \A g \in Folders \ {f} : BatchOf[g] = BatchOf[f] => place[g] = "outside"
  /\ place' = [place EXCEPT ![f] = "inbox"]
  /\ UNCHANGED <<locked, dbVars, importer, faults, hindered, historyVars>>

-----------------------------------------------------------------------------
(* process_inbox_batch. *)

Go(i, pc) == importer' = [importer EXCEPT ![i].pc = pc]
Done(i) == importer' = [importer EXCEPT ![i] = Off]
At(i, pc) == importer[i].pc = pc
Folder(i) == importer[i].folder
Batch(i) == BatchOf[Folder(i)]

Overlapping(i, f) ==
  { Folder(j) : j \in { j \in Importers \ {i} : ~At(j, "off") /\ Batch(j) = BatchOf[f] } }

(* A locked folder is skipped; one that has just been moved is an error that *)
(* ends the scan.                                                            *)
LockFolder(i, f) ==
  /\ At(i, "off") /\ place[f] = "inbox" /\ ~locked[f]
  /\ locked' = [locked EXCEPT ![f] = TRUE]
  /\ importer' = [importer EXCEPT ![i] = [Off EXCEPT !.pc = "locked", !.folder = f]]
  /\ hindered' = hindered \cup (IF Overlapping(i, f) = {} THEN {} ELSE {f} \cup Overlapping(i, f))
  /\ UNCHANGED <<place, dbVars, faults, historyVars>>

TERMINAL_BATCH_STATUSES == {"accepted", "rejected", "duplicate_batch"}

batch_is_terminal(b) == batch[b] \in TERMINAL_BATCH_STATUSES

MoveFolder(i, to) == place' = [place EXCEPT ![Folder(i)] = to]

\* A faulty variant: the folder of a known batch is left where it is.
RejectInPlace(i) ==
  /\ At(i, "locked") /\ batch_is_terminal(Batch(i))
  /\ Go(i, "duplicate_batch")
  /\ UNCHANGED <<place, locked, dbVars, faults, hindered, historyVars>>

RejectDuplicate(i) ==
  /\ At(i, "locked") /\ batch_is_terminal(Batch(i))
  /\ MoveFolder(i, "rejected") /\ Go(i, "duplicate_batch")
  /\ UNCHANGED <<locked, dbVars, faults, hindered, historyVars>>

MoveToProcessing(i) ==
  /\ At(i, "locked") /\ ~batch_is_terminal(Batch(i))
  /\ MoveFolder(i, "processing") /\ Go(i, "upsert")
  /\ UNCHANGED <<locked, dbVars, faults, hindered, historyVars>>

upsert_batch(i) ==
  /\ \/ At(i, "upsert") /\ batch' = [batch EXCEPT ![Batch(i)] = "processing"]
        /\ importer' = [importer EXCEPT ![i].pc = "row", ![i].n = 1]
     \/ At(i, "duplicate_batch") /\ batch' = [batch EXCEPT ![Batch(i)] = "duplicate_batch"]
        /\ Done(i)
  /\ UNCHANGED <<place, locked, items, videos, tasks, captions, faults, hindered, historyVars>>

-----------------------------------------------------------------------------
(* import_processing_batch and import_row. *)

Sheet(i) == Rows[Folder(i)]
Row(i) == Sheet(i)[importer[i].n]
Item(i) == <<Batch(i), Row(i).row>>
NextRow(i) == [importer[i] EXCEPT !.pc = "row", !.n = @ + 1, !.video = 0, !.known = 0, !.task = 0]
InRow(i) == At(i, "row") /\ importer[i].n <= Len(Sheet(i))

(* A row that was seen before, in this pass or an earlier one, is skipped    *)
(* without a trace.                                                          *)
item_exists(i) ==
  /\ InRow(i)
  /\ IF items[Item(i)].status # "none" THEN importer' = [importer EXCEPT ![i] = NextRow(i)]
     ELSE Go(i, IF Row(i).kind = "invalid" THEN "record_failure" ELSE "name")
  /\ UNCHANGED <<place, locked, dbVars, faults, hindered, historyVars>>

video_file_name_exists(name) ==
  \E v \in DOMAIN videos : videos[v].name = name /\ videos[v].status # "removed"

CheckFileName(i) ==
  /\ At(i, "name")
  /\ IF Row(i).name \in importer[i].seen \/ video_file_name_exists(Row(i).name)
     THEN Go(i, "record_duplicate")
     ELSE importer' = [importer EXCEPT ![i].pc = "select_video", ![i].seen = @ \cup {Row(i).name}]
  /\ UNCHANGED <<place, locked, dbVars, faults, hindered, historyVars>>

\* A faulty variant: add_video finds a video only by its full path.
SameFileByPath(name) == {}

SameFile(name) == { v \in DOMAIN videos : videos[v].name = name }

(* add_video: any video with that path or name is a duplicate, unless it was *)
(* removed; then it is restored.                                             *)
SelectVideo(i) ==
  /\ At(i, "select_video")
  /\ IF SameFile(Row(i).name) = {}
     THEN importer' = [importer EXCEPT ![i].pc = "add_video", ![i].known = Len(videos)]
     ELSE \E v \in SameFile(Row(i).name) :
            IF videos[v].status = "removed"
            THEN importer' = [importer EXCEPT ![i].pc = "add_video", ![i].video = v,
                                              ![i].known = Len(videos)]
            ELSE Go(i, "record_duplicate")
  /\ UNCHANGED <<place, locked, dbVars, faults, hindered, historyVars>>

Overtaken(i) ==
  \/ \E v \in DOMAIN videos : v > importer[i].known /\ videos[v].name = Row(i).name
  \/ importer[i].video # 0 /\ videos[importer[i].video].status # "removed"

add_video(i) ==
  /\ At(i, "add_video")
  /\ LET video == [name |-> Row(i).name, status |-> "unused",
                   path |-> <<Folder(i), "processing">>]
         v == importer[i].video
     IN /\ videos' = IF v = 0 THEN Append(videos, video) ELSE [videos EXCEPT ![v] = video]
        /\ importer' = [importer EXCEPT ![i].pc = "add_caption",
                                        ![i].video = IF v = 0 THEN Len(videos) + 1 ELSE v]
  /\ overtaken' = overtaken \cup (IF Overtaken(i) THEN {Row(i).name} ELSE {})
  /\ UNCHANGED <<place, locked, batch, items, tasks, captions, faults, hindered, removals, pulled>>

add_caption(i) ==
  /\ At(i, "add_caption")
  /\ captions' = captions \cup {Row(i).name}
  /\ Go(i, "select_task")
  /\ UNCHANGED <<place, locked, batch, items, videos, tasks, faults, hindered, historyVars>>

TasksOf(v) == { t \in DOMAIN tasks : tasks[t].video = v /\ tasks[t].active }

(* create_task refuses a bad time before it reads; an active task of the     *)
(* video is returned instead of a new one, and the importer takes it for its *)
(* own.                                                                      *)
SelectTask(i) ==
  /\ At(i, "select_task")
  /\ IF Row(i).kind = "late" THEN Go(i, "record_failure")
     ELSE IF TasksOf(importer[i].video) = {} THEN Go(i, "create_task")
     ELSE \E t \in TasksOf(importer[i].video) :
            importer' = [importer EXCEPT ![i].pc = "record_item", ![i].task = t]
  /\ UNCHANGED <<place, locked, dbVars, faults, hindered, historyVars>>

\* A faulty variant: the video is given the status of a used caption.
AssignedStatus(s) == IF s = "unused" THEN "used" ELSE s

mark_related_assigned(s) == IF s = "unused" THEN "assigned" ELSE s

create_task(i) ==
  /\ At(i, "create_task")
  /\ tasks' = Append(tasks, [video |-> importer[i].video, name |-> Row(i).name,
                             item |-> Item(i), active |-> TRUE])
  /\ videos' = [videos EXCEPT ![importer[i].video].status = mark_related_assigned(@)]
  /\ importer' = [importer EXCEPT ![i].pc = "record_item", ![i].task = Len(tasks) + 1]
  /\ UNCHANGED <<place, locked, batch, items, captions, faults, hindered, historyVars>>

(* The item is written over whatever another pass has recorded for the row.  *)
Record(i, item) ==
  /\ items' = [items EXCEPT ![Item(i)] = item]
  /\ importer' = [importer EXCEPT ![i] =
                    [NextRow(i) EXCEPT !.accepted = @ \/ item.status = "accepted"]]
  /\ UNCHANGED <<place, locked, batch, videos, tasks, captions, faults, hindered, historyVars>>

\* A faulty variant: the item does not keep the task.
RecordWithoutTask(i) ==
  \/ At(i, "record_item") /\ Record(i, [NoItem EXCEPT !.status = "accepted", !.video = importer[i].video])
  \/ At(i, "record_duplicate") /\ Record(i, [NoItem EXCEPT !.status = "duplicate"])
  \/ At(i, "record_failure") /\ Record(i, [NoItem EXCEPT !.status = "invalid"])

record_item(i) ==
  \/ /\ At(i, "record_item")
     /\ Record(i, [status |-> "accepted", video |-> importer[i].video, task |-> importer[i].task])
  \/ At(i, "record_duplicate") /\ Record(i, [NoItem EXCEPT !.status = "duplicate"])
  \/ At(i, "record_failure") /\ Record(i, [NoItem EXCEPT !.status = "invalid"])

-----------------------------------------------------------------------------
(* The end of a pass. *)

FinalPlace(i) == IF importer[i].accepted THEN "accepted" ELSE "rejected"

Unlock(i) == locked' = [locked EXCEPT ![Folder(i)] = FALSE]

SettleFolder(i) ==
  /\ At(i, "row") /\ importer[i].n > Len(Sheet(i))
  /\ Unlock(i) /\ MoveFolder(i, FinalPlace(i))
  /\ Go(i, IF importer[i].accepted THEN "refresh" ELSE "finish")
  /\ UNCHANGED <<dbVars, faults, hindered, historyVars>>

VideosOf(b) == { items[x].video : x \in { y \in DOMAIN items : y[1] = b /\ items[y].status = "accepted" } }

\* A faulty variant: the new paths are those of the processing folder.
RefreshedPath(i) == <<Folder(i), "processing">>

FinalPath(i) == <<Folder(i), "accepted">>

refresh_accepted_video_paths(i) ==
  /\ At(i, "refresh")
  /\ videos' = [v \in DOMAIN videos |-> IF v \in VideosOf(Batch(i))
                                        THEN [videos[v] EXCEPT !.path = FinalPath(i)] ELSE videos[v]]
  /\ Go(i, "finish")
  /\ UNCHANGED <<place, locked, batch, items, tasks, captions, faults, hindered, historyVars>>

\* A faulty variant: a batch with rows is accepted.
FinishByRows(i) ==
  /\ At(i, "finish") \/ At(i, "finish_rejected")
  /\ batch' = [batch EXCEPT ![Batch(i)] = IF At(i, "finish") /\ Sheet(i) # << >> THEN "accepted" ELSE "rejected"]
  /\ Done(i)
  /\ UNCHANGED <<place, locked, items, videos, tasks, captions, faults, hindered, historyVars>>

finish_batch(i) ==
  /\ At(i, "finish") \/ At(i, "finish_rejected")
  /\ batch' = [batch EXCEPT ![Batch(i)] = IF At(i, "finish") THEN FinalPlace(i) ELSE "rejected"]
  /\ Done(i)
  /\ UNCHANGED <<place, locked, items, videos, tasks, captions, faults, hindered, historyVars>>

(* An error that no row handles: the folder is rejected, what its rows have  *)
(* created stays.                                                            *)
RejectFolder(i) ==
  /\ At(i, "reject")
  /\ Unlock(i) /\ Go(i, "finish_rejected")
  /\ IF place[Folder(i)] = "processing" THEN MoveFolder(i, "rejected") ELSE UNCHANGED place
  /\ UNCHANGED <<dbVars, faults, hindered, historyVars>>

-----------------------------------------------------------------------------
(* Disturbances and the rest of the system. *)

Disturb(i) ==
  /\ faults < MaxFaults /\ faults' = faults + 1
  /\ hindered' = hindered \cup {Folder(i)}

RowSteps == {"name", "select_video", "add_video", "add_caption", "select_task", "create_task",
             "record_item", "record_duplicate"}

(* A locked database: a row that fails is recorded as invalid, also when its *)
(* task exists; a failure that cannot be recorded, or a failure at the end,  *)
(* rejects the batch.                                                        *)
DatabaseError(i) ==
  /\ \/ (importer[i].pc \in RowSteps \/ InRow(i)) /\ Go(i, "record_failure")
     \/ importer[i].pc \in {"record_failure", "refresh", "finish"} /\ Go(i, "reject")
  /\ Disturb(i)
  /\ UNCHANGED <<place, locked, dbVars, historyVars>>

(* The importer's process ends; lock and folder stay as they are.            *)
Crash(i) ==
  /\ ~At(i, "off") /\ Disturb(i) /\ Done(i)
  /\ UNCHANGED <<place, locked, dbVars, historyVars>>

(* The queue is done with a task.                                            *)
TaskEnds(t) ==
  /\ tasks[t].active
  /\ tasks' = [tasks EXCEPT ![t].active = FALSE]
  /\ UNCHANGED <<place, locked, batch, items, videos, captions, importer, faults, hindered, historyVars>>

(* An operator removes a video, also one whose task is still to run.         *)
remove_video(v) ==
  /\ videos[v].status # "removed" /\ \A name \in Names : removals[name] < MaxRemovals
  /\ videos' = [videos EXCEPT ![v].status = "removed"]
  /\ removals' = [removals EXCEPT ![videos[v].name] = @ + 1]
  /\ pulled' = IF TasksOf(v) # {} \/ \E i \in Importers : importer[i].video = v
                THEN pulled \cup {v} ELSE pulled
  /\ UNCHANGED <<place, locked, batch, items, tasks, captions, importer, faults, hindered, overtaken>>

-----------------------------------------------------------------------------

ImporterStep(i) ==
  \/ RejectDuplicate(i) \/ MoveToProcessing(i) \/ upsert_batch(i)
  \/ item_exists(i) \/ CheckFileName(i) \/ SelectVideo(i) \/ add_video(i) \/ add_caption(i)
  \/ SelectTask(i) \/ create_task(i) \/ record_item(i)
  \/ SettleFolder(i) \/ refresh_accepted_video_paths(i) \/ finish_batch(i) \/ RejectFolder(i)

Next ==
  \/ \E f \in Folders : BeginUpload(f) \/ upload_batch(f) \/ submit_task(f)
  \/ \E i \in Importers, f \in Folders : LockFolder(i, f)
  \/ \E i \in Importers : ImporterStep(i) \/ DatabaseError(i) \/ Crash(i)
  \/ \E t \in DOMAIN tasks : TaskEnds(t)
  \/ \E v \in DOMAIN videos : remove_video(v)

Spec == Init /\ [][Next]_vars

-----------------------------------------------------------------------------

Places == {"outside", "staged", "nested", "inbox", "processing", "accepted", "rejected"}

(* Type invariant of the folders, the tables and the importers.              *)
TypeOK ==
  /\ place \in [Folders -> Places] /\ locked \in [Folders -> BOOLEAN]
  /\ batch \in [Batches -> {"none", "processing"} \cup TERMINAL_BATCH_STATUSES]
  /\ items \in [Batches \X RowIds -> [status : {"none", "accepted", "duplicate", "invalid"},
                                      video : Nat, task : Nat]]
  /\ videos \in Seq([name : Names, status : {"unused", "assigned", "removed"}, path : Folders \X Places])
  /\ tasks \in Seq([video : Nat, name : Names, item : Batches \X RowIds, active : BOOLEAN])
  /\ captions \subseteq Names
  /\ importer \in [Importers -> [pc : Pcs, folder : Folders \cup {Nobody}, n : Nat,
                                 seen : SUBSET Names, video : Nat, known : Nat, task : Nat,
                                 accepted : BOOLEAN]]
  /\ faults \in Nat /\ hindered \subseteq Folders /\ overtaken \subseteq Names
  /\ removals \in [Names -> Nat] /\ pulled \subseteq DOMAIN videos

(* A video file is released once, and once more each time its video was      *)
(* removed: neither a crash in the middle of a row, a second delivery of the *)
(* batch, nor a file of that name in another batch makes a second task.  The *)
(* only gap is add_video's own check, overtaken by another importer.         *)
OneReleasePerFile ==
  \A name \in Names \ overtaken :
    Cardinality({ t \in DOMAIN tasks : tasks[t].name = name }) <= 1 + removals[name]

Hindered(b) == \E f \in hindered : BatchOf[f] = b
AtWork(b) == \E i \in Importers : ~At(i, "off") /\ Batch(i) = b

(* What a batch reports is what it did: it is rejected only if none of its   *)
(* rows became a task, and accepted only if one did, also when rows fail     *)
(* after their video was stored and when the batch is delivered again.  A row *)
(* that restored a removed video may have been given an older task.          *)
BatchReportIsTrue ==
  \A b \in Batches : ~Hindered(b) =>
    LET released == \E t \in DOMAIN tasks : tasks[t].item[1] = b IN
    /\ batch[b] = "rejected" => ~released
    /\ batch[b] = "accepted" => released \/ pulled # {} \/ overtaken # {}

(* The video of every task that is still to run is where its row in the      *)
(* library says, although its folder moved twice since it was stored, once   *)
(* the batch is settled.                                                     *)
TaskVideoIsOnDisk ==
  \A t \in DOMAIN tasks :
    LET v == tasks[t].video  b == tasks[t].item[1] IN
    tasks[t].active /\ ~Hindered(b) /\ ~AtWork(b) /\ v \notin pulled /\ tasks[t].name \notin overtaken
      => place[videos[v].path[1]] = videos[v].path[2]

(* The sheet and the queue agree: every task that a settled batch created is *)
(* the task of the row it stems from, and no two rows claim one task, unless *)
(* a video was removed under a task that had yet to run or was restored by   *)
(* two importers at once.                                                    *)
RowsOwnTheirTasks ==
  /\ \A t \in DOMAIN tasks : ~Hindered(tasks[t].item[1]) /\ ~AtWork(tasks[t].item[1]) =>
       items[tasks[t].item].status = "accepted" /\ items[tasks[t].item].task = t
  /\ \A x, y \in DOMAIN items :
       items[x].status = "accepted" /\ items[y].status = "accepted" /\ x # y
         => \/ items[x].task # items[y].task \/ items[x].video \in pulled
            \/ videos[items[x].video].name \in overtaken

(* No folder is left behind: one that is locked in the inbox, or that was    *)
(* taken out of it, has an importer at work on it until it is accepted or    *)
(* rejected; else no scan would ever look at it again.                       *)
NoFolderIsLeftBehind ==
  \A f \in Folders \ hindered :
    place[f] = "processing" \/ (place[f] = "inbox" /\ locked[f])
      => \E i \in Importers : Folder(i) = f
==============================================================================
