-------------------------- MODULE ShowcaseWorkflow --------------------------
(* run_showcase_workflow.py: one process pushes the video, walks through the *)
(* pages of TikTok by the steps of a profile and attaches the product.  Its  *)
(* context lives in memory and is written to the state file after each step. *)
EXTENDS ProductSearch

ShowcaseTolerance == 15   \* schedule_verification_tolerance_minutes

(* The steps of the profiles, and the modes of those that have one.          *)
ShowcaseProfile ==
  <<"open_tiktok", "tap_plus", "open_gallery_from_camera", "ensure_video_picker",
    "tap_video_tab", "assert_single_media_picker_video", "select_first_video",
    "optional_remove_added_music", "tap_next_until_publish_preset", "paste_caption",
    "tap_add_link", "wait_add_link_panel", "tap_add_product", "wait_product_search_screen",
    "tap_product_search", "wait_product_search_field_ready", "input_product_search_title",
    "confirm_product_search_editor_code", "ensure_showcase_product_attached",
    "optional_confirm_add_product", "wait_product_publish_name_screen",
    "input_product_publish_name", "tap_product_final_add",
    "optional_confirm_sponsored_content", "optional_close_music_warning",
    "wait_return_to_publish_preset", "assert_product_link_attached",
    "open_more_settings", "open_schedule_publish", "wait_schedule_picker_open",
    "set_schedule_datetime", "verify_schedule_configured", "close_more_settings",
    "tap_scheduled_publish", "tap_publish", "minimize_tiktok_app">>

ScheduledOnly == {"open_more_settings", "open_schedule_publish", "set_schedule_datetime",
                  "verify_schedule_configured", "close_more_settings", "tap_scheduled_publish"}

SKIPPED_RUNTIME_STEP_IDS ==
  {"tap_product_search", "input_product_search_title",
   "confirm_product_search_editor_code", "wait_schedule_picker_open"}

FINAL_PUBLISH_STEP_IDS == {"tap_scheduled_publish", "tap_publish"}

filter_steps_for_publish_mode(steps, mode) ==
  SelectSeq(steps, LAMBDA id :
    /\ id \notin SKIPPED_RUNTIME_STEP_IDS
    /\ id \in ScheduledOnly => mode = "scheduled"
    /\ id = "tap_publish" => mode = "immediate")

ShowcaseSteps(mode) ==
  <<"preflight", "pre_push_gallery_cleanup", "push_video", "verify_current_gallery_video">>
    \o filter_steps_for_publish_mode(ShowcaseProfile, mode)

-----------------------------------------------------------------------------
(* Before the profile's steps. *)

(* run_device_preflight, verify_device and grant_media_permissions: the      *)
(* phone is awake, unlocked, online and has the profile's screen, or not.    *)
preflight ==
  /\ Step = "preflight"
  /\ \/ todo' = Tail(todo) /\ UNCHANGED <<outcome, state>>
     \/ Fail("retryable")
  /\ UNCHANGED <<scan, phone, mediaVars>>

(* The videos of the directory, all of them or those the workflow named.     *)
list_gallery_video_paths(includeAll) ==
  gallery.files \cap ({"task", "left"} \cup IF includeAll THEN {"camera"} ELSE {})

(* What rm or the media provider refuses to delete stays without an error.   *)
cleanup_workflow_videos_before_push ==
  /\ Step = "pre_push_gallery_cleanup"
  /\ \E kept \in SUBSET list_gallery_video_paths(job.managed) :
       LET gone == list_gallery_video_paths(job.managed) \ kept
       IN  gallery' = IF job.dry THEN gallery
                      ELSE [files |-> gallery.files \ gone, index |-> gallery.index \ gone]
  /\ Complete(state)
  /\ UNCHANGED <<scan, phone, posts>>

(* The video is pushed in a dry run too.  The scans asked for may not have   *)
(* reached the media index when the picker is opened.                        *)
push_video ==
  /\ Step = "push_video" /\ job.account = "showcase"
  /\ \E listed \in {TRUE, ~job.indexLags} :
       gallery' = [files |-> gallery.files \cup {"task"},
                   index |-> IF listed THEN gallery.index \cup {"task"} ELSE gallery.index \ {"task"}]
  /\ Complete(state)
  /\ UNCHANGED <<scan, phone, posts>>

(* The files are looked at, not the index the picker reads.                  *)
verify_current_gallery_video ==
  /\ Step = "verify_current_gallery_video"
  /\ LET paths == list_gallery_video_paths(job.managed)
     IN  IF "task" \in paths /\ (job.managed => paths = {"task"})
           THEN Complete(state)
           ELSE Fail("retryable")
  /\ UNCHANGED <<scan, phone, mediaVars>>

-----------------------------------------------------------------------------
(* Steps that tap and steps that wait. *)

TapRoute ==
  [tap_plus                 |-> <<"home", "camera">>,
   open_gallery_from_camera |-> <<"camera", "picker">>,
   tap_video_tab            |-> <<"picker", "picker">>,
   tap_add_link             |-> <<"preset", "linkPanel">>,
   tap_add_product          |-> <<"linkPanel", "showcaseList">>,
   open_more_settings       |-> <<"preset", "settings">>,
   open_schedule_publish    |-> <<"settings", "timeDialog">>,
   close_more_settings      |-> <<"settings", "preset">>]

OptionalRoute ==
  [optional_confirm_add_product       |-> <<"askAdd", "productName">>,
   optional_confirm_sponsored_content |-> <<"askSponsor", "preset">>,
   optional_close_music_warning       |-> <<"preset", "preset">>]

AwaitedPage ==
  [ensure_video_picker              |-> "picker",
   wait_add_link_panel              |-> "linkPanel",
   wait_product_search_screen       |-> "showcaseList",
   wait_product_search_field_ready  |-> "showcaseList",
   wait_product_publish_name_screen |-> "productName",
   wait_return_to_publish_preset    |-> "preset"]

(* force_stop drops the draft; TikTok must come to the foreground again.     *)
open_app ==
  /\ Step = "open_tiktok"
  /\ IF job.dry THEN UNCHANGED phone /\ Complete(state)
     ELSE \/ phone' = [Show("home") EXCEPT !.draft = EmptyDraft] /\ Complete(state)
          \/ phone' = [Show("elsewhere") EXCEPT !.draft = EmptyDraft] /\ Fail("retryable")
  /\ UNCHANGED <<scan, mediaVars>>

tap_step ==
  /\ Step \in DOMAIN TapRoute
  /\ \/ Tap(TapRoute[Step][1], TapRoute[Step][2])
     \/ Step = "open_gallery_from_camera" /\ phone.page = "camera" /\ ~job.dry
        /\ phone' = Show("askPermission")
  /\ Complete(state)
  /\ UNCHANGED <<scan, mediaVars>>

(* A permission dialog of Android is answered before a step that taps.       *)
clear_android_permission_dialogs ==
  /\ Step \in DOMAIN TapRoute \cup {"select_first_video", "ensure_video_picker"}
  /\ phone.page = "askPermission" /\ ~job.dry
  /\ phone' = Show("picker")
  /\ UNCHANGED <<runVars, scan, mediaVars>>

(* A page is recognized by texts that only it shows.                         *)
xml_has_any_text(page) == phone.page = page

(* OCR looks for the text of a dialog that may show: it finds it or misses   *)
(* it, on its page, and may break down.  Without it the step is skipped; the *)
(* dialog to add a product is also known by its two buttons in the middle,   *)
(* and must be gone afterwards.                                              *)
paddle_ocr_optional_gate(page) ==
  IF xml_has_any_text(page) THEN {"present", "absent", "failed"} ELSE {"absent", "failed"}

optional_add_product_confirm_popup(page) ==
  Step = "optional_confirm_add_product" /\ page = "askAdd"

optional_tap ==
  /\ Step \in DOMAIN OptionalRoute
  /\ LET route == OptionalRoute[Step]
         gate == paddle_ocr_optional_gate(route[1])
     IN  \/ "absent" \in gate /\ UNCHANGED phone /\ Complete(state)
         \/ "failed" \in gate /\ UNCHANGED phone /\ Fail("final")
         \/ /\ "present" \in gate /\ Tap(route[1], route[2])
            /\ IF optional_add_product_confirm_popup(phone'.page) /\ ~job.dry
                 THEN Fail("retryable")
                 ELSE Complete(state)
  /\ UNCHANGED <<scan, mediaVars>>

\* A faulty variant: the page is awaited without a limit.
WaitForEver ==
  /\ Step \in DOMAIN AwaitedPage
  /\ xml_has_any_text(AwaitedPage[Step]) /\ Complete(state)
  /\ UNCHANGED <<scan, phone, mediaVars>>

wait_for_any_text ==
  /\ Step \in DOMAIN AwaitedPage
  /\ IF xml_has_any_text(AwaitedPage[Step]) THEN Complete(state) ELSE Fail("retryable")
  /\ UNCHANGED <<scan, phone, mediaVars>>

(* At least one video in the picker: not that it is the task's.              *)
count_media_picker_items == IF phone.page = "picker" THEN Cardinality(gallery.index) ELSE 0
media_picker_count_matches == count_media_picker_items >= 1

assert_media_picker_item_count ==
  /\ Step = "assert_single_media_picker_video"
  /\ IF media_picker_count_matches THEN Complete(state) ELSE Fail("retryable")
  /\ UNCHANGED <<scan, phone, mediaVars>>

first_matching_node == IF phone.page = "picker" THEN FirstListed(gallery.index) ELSE {}

tap_first_matching_node ==
  /\ Step = "select_first_video" /\ job.account = "showcase"
  /\ \/ /\ first_matching_node # {}
        /\ \/ job.dry /\ UNCHANGED phone
           \/ ~job.dry /\ \E v \in first_matching_node :
                            phone' \in {[Show("editor") EXCEPT !.draft.video = v], phone, Show("elsewhere")}
        /\ Complete(state)
     \/ first_matching_node = {} /\ Fail("retryable") /\ UNCHANGED phone
  /\ UNCHANGED <<scan, mediaVars>>

optional_remove_added_music ==
  /\ Step = "optional_remove_added_music"
  /\ \/ ~job.dry /\ phone.page = "editor" /\ Press("editor")
     \/ UNCHANGED phone
  /\ Complete(state)
  /\ UNCHANGED <<scan, mediaVars>>

(* The button is tapped until the next page shows, within the application.   *)
(* While the dumps come back empty the publish page is not recognized and    *)
(* tapped as well (Stray), and the step may fail upon it.                    *)
tap_until_any_text ==
  /\ Step = "tap_next_until_publish_preset"
  /\ \/ phone.page = "editor" /\ ~job.dry /\ phone' = Show("preset") /\ Complete(state)
     \/ phone.page = "preset" /\ UNCHANGED phone /\ Complete(state)
     \/ Tap("editor", "preset") /\ Fail("retryable")
  /\ UNCHANGED <<scan, mediaVars>>

-----------------------------------------------------------------------------
(* Texts, the product's link and the schedule. *)

\* A faulty variant: what was pasted is not verified.
PasteUnverified ==
  /\ Step = "paste_caption" /\ job.account = "showcase"
  /\ Tap("preset", "preset") /\ Complete(state)
  /\ UNCHANGED <<scan, mediaVars>>

(* verify_caption_pasted_or_raise pastes again once before it gives up.      *)
paste_caption ==
  /\ Step = "paste_caption" /\ job.account = "showcase"
  /\ \/ job.dry /\ UNCHANGED phone /\ Complete(state)
     \/ /\ ~job.dry /\ phone.page = "preset"
        /\ phone' = [phone EXCEPT !.draft.caption = TRUE] /\ Complete(state)
     \/ ~job.dry /\ phone' \in {phone, Show("elsewhere")} /\ Fail("retryable")
  /\ UNCHANGED <<scan, mediaVars>>

(* The name of the product is pasted without a look at the result.           *)
input_product_publish_name ==
  /\ Step = "input_product_publish_name"
  /\ Tap("productName", "productName") /\ Complete(state)
  /\ UNCHANGED <<scan, mediaVars>>

(* TikTok may take the product into the draft, ask about sponsored content   *)
(* first, or return without it.                                              *)
tap_product_final_add ==
  /\ Step = "tap_product_final_add"
  /\ \/ Tap("productName", "preset")
     \/ /\ phone.page = "productName" /\ ~job.dry
        /\ phone' \in { [Show(p) EXCEPT !.draft.link = phone.draft.pick] : p \in {"preset", "askSponsor"} }
  /\ Complete(state)
  /\ UNCHANGED <<scan, mediaVars>>

\* A faulty variant: any publish page counts as one with the link.
AnyPublishPage == phone.page \in {"preset", "productName"}

(* The product's name is looked for anywhere on the page: a caption, or the  *)
(* page of the name itself, serves as well.                                  *)
first_product_link_match ==
  \/ phone.page = "productName"
  \/ /\ phone.page = "preset"
     /\ phone.draft.link # NoProduct \/ (phone.draft.caption /\ job.captionNamesProduct)

assert_product_link_attached ==
  /\ Step = "assert_product_link_attached"
  /\ IF first_product_link_match THEN Complete(state) ELSE Fail("retryable")
  /\ UNCHANGED <<scan, phone, mediaVars>>

(* The time is resolved and moved on a second time by the phone's clock.     *)
(* run_wheel_strategy then saves a short state of its own over the queue's   *)
(* state file, which stays when the picker turns out not to be open.         *)
set_showcase_schedule_datetime ==
  /\ Step = "set_schedule_datetime" /\ job.account = "showcase"
  /\ LET resolved == resolve_publish_schedule(job.time, now)
         target == apply_schedule_lead_window(resolved, now)
         initial == infer_native_schedule_initial_from_phone_clock(now)
     IN  CASE ~Resolvable(job.time, now) -> Fail("retryable") /\ UNCHANGED phone
           [] Resolvable(job.time, now) /\ phone.page # "timeDialog" ->
                /\ outcome' = "retryable" /\ state' = NewState /\ UNCHANGED <<todo, phone>>
           [] OTHER ->
                /\ IF job.dry THEN UNCHANGED phone
                   ELSE phone' \in { [Show(p) EXCEPT !.draft.schedule = t] :
                          p \in {"settings", "timeDialog"},
                          t \in apply_wheel_adjustment(phone.draft.opened, initial, target) }
                /\ Record([state EXCEPT !.configured = TRUE, !.target = target, !.initial = initial])
  /\ UNCHANGED <<scan, mediaVars>>

(* A dialog still open is closed by its button; then the page must show a    *)
(* time close to the target.                                                 *)
classify_schedule_verification_page == phone.page \in {"settings", "preset", "timeDialog"}
schedule_datetime_candidates_from_xml ==
  IF classify_schedule_verification_page /\ phone.draft.schedule # NoTime
    THEN {phone.draft.schedule} ELSE {}

verify_showcase_schedule_configured_from_current_ui ==
  /\ Step = "verify_schedule_configured" /\ job.account = "showcase"
  /\ \/ /\ state.configured
        /\ \E shown \in schedule_datetime_candidates_from_xml :
             verify_showcase_schedule_configured(shown, state.target, ShowcaseTolerance)
        /\ \/ phone.page # "timeDialog" /\ UNCHANGED phone
           \/ phone.page = "timeDialog" /\ ~job.dry /\ phone' = Show("settings")
        /\ Complete([state EXCEPT !.verified = TRUE])
     \/ Fail("retryable") /\ UNCHANGED phone
  /\ UNCHANGED <<scan, mediaVars>>

-----------------------------------------------------------------------------
(* The end. *)

stop_before_final_publish ==
  /\ job.stop /\ Step \in FINAL_PUBLISH_STEP_IDS
  /\ outcome' = "finished" /\ todo' = <<>>
  /\ state' = [state EXCEPT !.stopped = TRUE]
  /\ UNCHANGED <<scan, phone, mediaVars>>

\* A faulty variant: the button is tapped again when the tap seems lost.
TapUntilPosted ==
  /\ ~job.stop /\ Step \in FINAL_PUBLISH_STEP_IDS /\ job.allow /\ ~job.dry
  /\ \/ Tap("preset", "preset") /\ UNCHANGED posts /\ Complete(state)
     \/ /\ phone.page = "preset" /\ posts' = Append(posts, Posted)
        /\ \/ phone' = Show("posted") /\ Complete(state)
           \/ UNCHANGED <<phone, runVars>>
  /\ UNCHANGED <<scan, gallery>>

(* requires_allow_publish.  Nothing looks at what the tap has done.          *)
final_publish_tap ==
  /\ ~job.stop /\ Step \in FINAL_PUBLISH_STEP_IDS
  /\ \/ ~job.allow /\ ~job.dry /\ Fail("retryable") /\ UNCHANGED <<phone, posts>>
     \/ /\ job.allow \/ job.dry
        /\ \/ Tap("preset", "preset") /\ UNCHANGED posts
           \/ phone.page = "preset" /\ ~job.dry /\ phone' = Show("posted") /\ posts' = Append(posts, Posted)
        /\ Complete(state)
  /\ UNCHANGED <<scan, gallery>>

minimize_app ==
  /\ Step = "minimize_tiktok_app"
  /\ IF job.dry THEN UNCHANGED phone ELSE phone' = Show("launcher")
  /\ Complete(state)
  /\ UNCHANGED <<scan, mediaVars>>

finish_workflow ==
  /\ Step = "end" /\ outcome' = "finished"
  /\ UNCHANGED <<todo, state, scan, phone, mediaVars>>

ShowcaseStep ==
  /\ job.account = "showcase"
  /\ \/ preflight \/ cleanup_workflow_videos_before_push \/ push_video
     \/ verify_current_gallery_video \/ open_app \/ tap_step
     \/ clear_android_permission_dialogs \/ optional_tap \/ wait_for_any_text
     \/ assert_media_picker_item_count \/ tap_first_matching_node
     \/ optional_remove_added_music \/ tap_until_any_text \/ paste_caption
     \/ ensure_showcase_product_attached /\ UNCHANGED mediaVars
     \/ input_product_publish_name \/ tap_product_final_add
     \/ assert_product_link_attached \/ set_showcase_schedule_datetime
     \/ verify_showcase_schedule_configured_from_current_ui
     \/ stop_before_final_publish \/ final_publish_tap \/ minimize_app \/ finish_workflow
=============================================================================
