---------------------------- MODULE PublishPhone ----------------------------
(* The phone a publication drives, as the workflow scripts see it through    *)
(* ADB, and what the two pipeline scripts share: the options of the job, the *)
(* steps still to run, the state of the run and the way a step ends.  What   *)
(* TikTok shows after a tap is external: a tap reaches the page it is meant  *)
(* for, or misses, or leaves the application.                                *)
EXTENDS NativeSchedule, Sequences, SequencesExt

CONSTANTS
  Products,        \* the products that lists of the application may show
  Target,          \* the product of the task
  Lookalikes,      \* products whose normalized titles begin like the target's
  Showcases,       \* possible contents of the account's showcase
  Shops,           \* possible contents of the TikTok Shop list
  CardsPerScreen,  \* product cards one screen shows
  Galleries,       \* possible contents of the phone's gallery before a task
  Jobs,            \* the jobs considered: task and command line options
  StartTime        \* the clock when the task is claimed first

NoTime == -1
NoVideo == "none"
NoProduct == "none"

(* A video the workflow left behind has a name of the workflow's pattern, a  *)
(* camera video only shares the directory, the others lie outside of it.     *)
Videos == {"task", "left", "camera", "outside"}

JobOptions ==
  [account : {"showcase", "marketing"}, mode : {"scheduled", "immediate"},
   allow : BOOLEAN, dry : BOOLEAN, stop : BOOLEAN, calibrated : BOOLEAN,
   managed : BOOLEAN, indexLags : BOOLEAN, captionNamesProduct : BOOLEAN,
   addTextElsewhere : BOOLEAN, ocr : BOOLEAN, time : Nat]

(* indexLags, captionNamesProduct and addTextElsewhere are not options but   *)
(* what the phone shows: a slow media index, a caption that names the        *)
(* product, and pages other than the dialog with a text like "Add product".  *)
(* An immediate marketing task is never claimed (account_rules), and the     *)
(* pipeline adapter passes no other mode than "scheduled" to that script.    *)
ASSUME PublishPhoneAssumption ==
  /\ Target \in Lookalikes /\ Lookalikes \subseteq Products /\ NoProduct \notin Products
  /\ Showcases \subseteq Seq(Products) /\ Shops \subseteq Seq(Products)
  /\ CardsPerScreen \in Nat \ {0}
  /\ Galleries \subseteq SUBSET (Videos \ {"task"})
  /\ Jobs \subseteq JobOptions
  /\ \A j \in Jobs : j.account = "marketing" => j.mode = "scheduled"
  /\ StartTime \in Nat

VARIABLES
  job,      \* the task's account and the options the queue passes on
  todo,     \* the steps that are left, the current one first
  outcome,  \* how the attempt goes: running, finished, or its kind of failure
  state,    \* the context of the script, as its state file holds it
  scan,     \* the product search, while one is under way
  phone,    \* what the application shows and the draft it holds
  gallery,  \* video files on the phone, and those its media index lists
  posts,    \* what was published, oldest first
  now       \* the clock

runVars == <<todo, outcome, state>>
mediaVars == <<gallery, posts>>
publishVars == <<job, runVars, scan, phone, mediaVars, now>>

Pages == {"launcher", "home", "camera", "upload", "picker", "editor", "preset", "linkPanel",
          "showcaseList", "moreProducts", "shopList", "askAdd", "productName", "askSponsor",
          "detail", "search", "settings", "timeDialog", "askPermission", "posted", "elsewhere"}

(* A draft and the state of a run before anything was done. *)
EmptyDraft == [video |-> NoVideo, caption |-> FALSE, pick |-> NoProduct, link |-> NoProduct,
               schedule |-> NoTime, opened |-> NoTime]

NewState == [done |-> {}, configured |-> FALSE, verified |-> FALSE, stopped |-> FALSE,
             target |-> NoTime, initial |-> NoTime]

Outcomes == {"idle", "running", "finished", "retryable", "final"}

Step == IF todo = <<>> THEN "end" ELSE Head(todo)
Running == outcome = "running"

(* A step that ends without an exception is recorded in the state file and   *)
(* the next one begins.  It may also fail after it has touched the phone: an *)
(* ADB command that failed three times, or a capture that did.               *)
Fail(kind) == outcome' = kind /\ UNCHANGED <<todo, state>>

Record(s) == /\ todo' = Tail(todo)
             /\ state' = [s EXCEPT !.done = @ \cup {Step}]
             /\ UNCHANGED outcome

Complete(s) == Record(s) \/ Fail("retryable")

-----------------------------------------------------------------------------
(* The lists of the application. *)

ListOf(page) == CASE page = "showcaseList" -> phone.showcase
                  [] page = "shopList" -> phone.shop
                  [] OTHER -> <<>>

AtLeast(m, n) == IF m >= n THEN m ELSE n
AtMost(m, n) == IF m <= n THEN m ELSE n

(* The cards on the screen, by position in the list. *)
Shown == LET list == ListOf(phone.page)
         IN  { i \in DOMAIN list : phone.offset < i /\ i <= phone.offset + CardsPerScreen }

LastOffset(list) == AtLeast(Len(list), CardsPerScreen) - CardsPerScreen

-----------------------------------------------------------------------------
(* Taps. *)

(* The page shown next; the time picker opens some time ahead of the clock.  *)
Show(page) ==
  [phone EXCEPT !.page = page, !.offset = 0,
                !.draft.opened = IF page = "timeDialog"
                                   THEN infer_native_schedule_initial_from_phone_clock(now)
                                   ELSE @]

(* A tap on something the page shows: it works, misses, or leaves the app.   *)
Press(page) == phone' \in { Show(page), phone, Show("elsewhere") }

(* A tap on a calibrated point of a page that is not the expected one: it    *)
(* hits nothing or leaves the application (never the publish button).        *)
Stray == phone' \in { phone, Show("elsewhere") }

(* A point is pressed on whatever page is shown; a dry run presses nothing.  *)
Tap(on, to) ==
  IF job.dry THEN UNCHANGED phone
  ELSE \/ phone.page = on /\ Press(to)
       \/ phone.page # on /\ Stray

confirm_expected_package == phone.page \notin {"elsewhere", "launcher"}

(* The application publishes its draft.                                      *)
Posted == [video |-> phone.draft.video, caption |-> phone.draft.caption,
           link |-> phone.draft.link, schedule |-> phone.draft.schedule]

(* The video the picker shows first is the newest one the index lists.       *)
FirstListed(listed) == IF "task" \in listed THEN {"task"} ELSE listed
=============================================================================
