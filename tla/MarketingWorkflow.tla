------------------------- MODULE MarketingWorkflow -------------------------
(* run_marketing_workflow.py: every step is a process of its own that reads  *)
(* the state file, drives TikTok Studio and writes the file again.  Only     *)
(* scheduled publications exist, and no option stops before the final tap.   *)
EXTENDS PublishPhone

MarketingTolerance == 30   \* configured_time_tolerance_minutes

DEFAULT_SCHEDULED_WORKFLOW ==
  <<"push_video", "open_target_app", "tap_studio_create", "tap_upload",
    "refresh_media_picker", "select_first_video", "tap_next_after_select",
    "tap_next_after_edit", "paste_caption", "open_schedule_settings",
    "wait_schedule_picker_open", "set_schedule_datetime", "verify_schedule_configured",
    "tap_scheduled_publish", "minimize_tiktok_studio">>

SCREEN_GUARD_STEPS ==
  ToSet(DEFAULT_SCHEDULED_WORKFLOW) \
    {"push_video", "open_target_app", "refresh_media_picker", "minimize_tiktok_studio"}

MarketingSteps == <<"preflight">> \o DEFAULT_SCHEDULED_WORKFLOW

(* Before the first step and before each one that taps, the phone must be    *)
(* awake, unlocked and online.                                               *)
require_device_ready ==
  \/ /\ Step = "preflight"
     /\ \/ todo' = Tail(todo) /\ UNCHANGED <<outcome, state>>
        \/ Fail("retryable")
     /\ UNCHANGED <<phone, mediaVars>>
  \/ /\ Step \in SCREEN_GUARD_STEPS
     /\ Fail("retryable") /\ UNCHANGED <<phone, mediaVars>>

-----------------------------------------------------------------------------
(* The video. *)

(* Old videos are looked for in the media index and among the files, within  *)
(* the directory and by the patterns of the workflow's names.  What cannot   *)
(* be deleted stays, without an error.                                       *)
is_in_scope(video) == video \in {"task", "left", "camera"}
candidate_matches_name_filters(video) == video \in {"task", "left"}

collect_delete_candidates ==
  { v \in gallery.files \cup gallery.index : is_in_scope(v) /\ candidate_matches_name_filters(v) }

delete_candidates(candidates) ==
  IF job.dry THEN {gallery}
  ELSE { [files |-> gallery.files \ gone, index |-> gallery.index \ gone] : gone \in SUBSET candidates }

(* The index is asked for the new video, which is entered by hand if it does *)
(* not come; neither need help in time.                                      *)
wait_for_media_file == IF job.indexLags THEN BOOLEAN ELSE {TRUE}

(* The newest of the directory's rows must be the new video.                 *)
wait_until_media_is_top(index) == "task" \in index /\ FirstListed(index) = {"task"}

\* A faulty variant: the pushed video is not awaited in the media index.
PushUnindexed ==
  /\ Step = "push_video"
  /\ \E swept \in delete_candidates(collect_delete_candidates), listed \in BOOLEAN :
       gallery' = [files |-> swept.files \cup {"task"},
                   index |-> swept.index \cup IF listed THEN {"task"} ELSE {}]
  /\ Complete(state)
  /\ UNCHANGED <<phone, posts>>

push_video_indexed ==
  /\ Step = "push_video"
  /\ \E swept \in delete_candidates(collect_delete_candidates), listed \in wait_for_media_file :
       LET index == IF listed THEN swept.index \cup {"task"} ELSE swept.index \ {"task"}
       IN  /\ gallery' = [files |-> swept.files \cup {"task"}, index |-> index]
           /\ IF listed /\ wait_until_media_is_top(index) THEN Complete(state) ELSE Fail("retryable")
  /\ UNCHANGED <<phone, posts>>

(* The application is stopped and started, in a dry run too.                 *)
open_target_app ==
  /\ Step = "open_target_app"
  /\ \/ phone' = [Show("home") EXCEPT !.draft = EmptyDraft] /\ Complete(state)
     \/ phone' = [Show("elsewhere") EXCEPT !.draft = EmptyDraft] /\ Fail("retryable")
  /\ UNCHANGED mediaVars

(* A calibrated point: the page is not looked at.                            *)
tap_profile_point ==
  /\ Step = "tap_studio_create"
  /\ Tap("home", "upload") /\ Complete(state)
  /\ UNCHANGED mediaVars

(* What a step recognizes a page by.                                         *)
media_picker_visible == phone.page = "picker"
publish_form_signal == phone.page = "preset"
native_schedule_picker_signal == phone.page = "timeDialog"

(* Taps until the picker shows; a dry run, which never taps, fails here.     *)
tap_upload_and_verify ==
  /\ Step = "tap_upload"
  /\ \/ /\ phone.page = "upload" /\ ~job.dry
        /\ phone' = Show("picker") /\ media_picker_visible' /\ Complete(state)
     \/ (IF job.dry THEN UNCHANGED phone ELSE phone' \in {phone, Show("elsewhere")})
          /\ Fail("retryable")
  /\ UNCHANGED mediaVars

(* refresh_by_reopen is off in this workflow.                                *)
refresh_media_picker ==
  /\ Step = "refresh_media_picker"
  /\ Complete(state)
  /\ UNCHANGED <<phone, mediaVars>>

(* The album of videos is chosen where the picker offers one; of what it     *)
(* then lists, the first item is taken, by the control that selects it.      *)
choose_preferred_album == IF media_picker_visible THEN gallery.index ELSE {}
first_media_candidate == FirstListed(choose_preferred_album)

select_first_media ==
  /\ Step = "select_first_video"
  /\ IF first_media_candidate # {}
       THEN /\ \E v \in first_media_candidate :
                 phone' \in {[phone EXCEPT !.draft.video = v], phone, Show("elsewhere")}
            /\ Complete(state)
       ELSE Fail("retryable") /\ UNCHANGED phone
  /\ UNCHANGED mediaVars

(* Next, by its text or by the point of the profile, whatever page is shown. *)
tap_next_after_select ==
  /\ Step = "tap_next_after_select"
  /\ \/ phone.page = "picker" /\ phone.draft.video # NoVideo /\ Press("editor")
     \/ Stray
  /\ Complete(state)
  /\ UNCHANGED mediaVars

(* Next until the publish form shows.                                        *)
tap_next_and_verify ==
  /\ Step = "tap_next_after_edit"
  /\ \/ publish_form_signal /\ UNCHANGED phone /\ Complete(state)
     \/ phone.page = "editor" /\ phone' = Show("preset") /\ Complete(state)
     \/ phone' \in {phone, Show("elsewhere")} /\ Fail("retryable")
  /\ UNCHANGED mediaVars

-----------------------------------------------------------------------------
(* The caption and the schedule. *)

(* The form must still be there afterwards; what its caption field holds is  *)
(* not read back.                                                            *)
paste_caption_on_form ==
  /\ Step = "paste_caption"
  /\ \/ /\ publish_form_signal
        /\ phone' \in {phone, [phone EXCEPT !.draft.caption = TRUE]}
        /\ Complete(state)
     \/ phone' \in {phone, Show("elsewhere")} /\ Fail("retryable")
  /\ UNCHANGED mediaVars

(* The row of the schedule is tapped only on the publish form.               *)
schedule_entry_preflight == publish_form_signal

(* The picker's first time is taken from the phone's clock before the tap.   *)
open_schedule_picker ==
  /\ Step = "open_schedule_settings"
  /\ \/ /\ schedule_entry_preflight /\ phone' = Show("timeDialog")
        /\ Complete([state EXCEPT !.initial = infer_native_schedule_initial_from_phone_clock(now)])
     \/ phone' \in {phone, Show("elsewhere")} /\ Fail("retryable")
  /\ UNCHANGED mediaVars

wait_schedule_picker_open ==
  /\ Step = "wait_schedule_picker_open"
  /\ IF native_schedule_picker_signal THEN Complete(state) ELSE Fail("retryable")
  /\ UNCHANGED <<phone, mediaVars>>

(* The time asked for is resolved again, by the clock of this moment, while  *)
(* the wheels start at the time recorded when the picker was opened.  What   *)
(* they come to rest at is assumed to be the target.                         *)
run_wheel_strategy ==
  /\ Step = "set_schedule_datetime"
  /\ IF Resolvable(job.time, now) /\ native_schedule_picker_signal
       THEN LET target == resolve_publish_schedule(job.time, now)
            IN  /\ phone' \in { [Show(p) EXCEPT !.draft.schedule = t] :
                     p \in {"preset", "timeDialog"},
                     t \in apply_wheel_adjustment(phone.draft.opened, state.initial, target) }
                /\ Complete([state EXCEPT !.configured = TRUE, !.target = target])
       ELSE Fail("retryable") /\ UNCHANGED phone
  /\ UNCHANGED mediaVars

(* The final button reads "Schedule" instead of "Post" on the form of a      *)
(* draft that has a time.                                                    *)
scheduled_publish_page_signal == publish_form_signal /\ phone.draft.schedule # NoTime

verify_schedule_configured ==
  /\ Step = "verify_schedule_configured"
  /\ IF /\ state.configured /\ scheduled_publish_page_signal
        /\ schedule_time_tolerance_match(phone.draft.schedule, state.target, MarketingTolerance)
       THEN Complete([state EXCEPT !.verified = TRUE])
       ELSE Fail("retryable")
  /\ UNCHANGED <<phone, mediaVars>>

-----------------------------------------------------------------------------
(* The end. *)

tap_scheduled_publish ==
  /\ Step = "tap_scheduled_publish"
  /\ \/ /\ state.configured /\ state.verified /\ scheduled_publish_page_signal
        /\ job.allow
        /\ \/ Press("preset") /\ UNCHANGED posts
           \/ phone' = Show("posted") /\ posts' = Append(posts, Posted)
        /\ Complete(state)
     \/ /\ ~(state.configured /\ state.verified /\ scheduled_publish_page_signal /\ job.allow)
        /\ Fail("retryable") /\ UNCHANGED <<phone, posts>>
  /\ UNCHANGED gallery

minimize_tiktok_studio ==
  /\ Step = "minimize_tiktok_studio"
  /\ phone' = Show("launcher") /\ Complete(state)
  /\ UNCHANGED mediaVars

all_steps_done ==
  /\ Step = "end" /\ outcome' = "finished"
  /\ UNCHANGED <<todo, state, phone, mediaVars>>

MarketingStep ==
  /\ job.account = "marketing" /\ UNCHANGED scan
  /\ \/ require_device_ready \/ push_video_indexed \/ open_target_app
     \/ tap_profile_point \/ tap_upload_and_verify \/ refresh_media_picker
     \/ select_first_media \/ tap_next_after_select \/ tap_next_and_verify
     \/ paste_caption_on_form \/ open_schedule_picker \/ wait_schedule_picker_open
     \/ run_wheel_strategy \/ verify_schedule_configured \/ tap_scheduled_publish
     \/ minimize_tiktok_studio \/ all_steps_done
=============================================================================
