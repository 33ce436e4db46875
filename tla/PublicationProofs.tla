------------------------- MODULE PublicationProofs -------------------------
(* Theorems about Publication, for every set of jobs, every contents of the  *)
(* phone's lists and gallery, every number of attempts and every clock.      *)
EXTENDS Publication, NativeScheduleProofs, SequenceTheorems, FiniteSetTheorems

-----------------------------------------------------------------------------
(* What the steps of the scripts do to the list of steps and to the posts.   *)

\* A step leaves the steps that are left as they are, takes the first one
\* away, or ends the run instead of the final tap.
ScriptGoesOn == \/ todo' = todo
                \/ todo # << >> /\ todo' = Tail(todo)
                \/ Step \in FINAL_PUBLISH_STEP_IDS /\ todo' = << >>

Quiet == posts' = posts /\ ScriptGoesOn

\* A step is one of the list unless it is the end.
LEMMA StepIsHead == Step # "end" => todo # << >> /\ Step = Head(todo)
BY DEF Step

\* The end of a step: recorded and done with, or failed.
LEMMA CompleteGoesOn ==
  ASSUME NEW s, Complete(s), Step # "end"
  PROVE  ScriptGoesOn
BY StepIsHead DEF Complete, Record, Fail, ScriptGoesOn

\* A failed step leaves the list of steps as it is.
LEMMA FailGoesOn ==
  ASSUME NEW kind, Fail(kind)
  PROVE  ScriptGoesOn
BY DEF Fail, ScriptGoesOn

\* No step before the final tap publishes anything.
LEMMA PreparationIsQuiet ==
  ASSUME \/ preflight \/ cleanup_workflow_videos_before_push \/ push_video
         \/ verify_current_gallery_video
  PROVE  Quiet
<1>1. CASE preflight
  BY <1>1, StepIsHead DEF preflight, Fail, ScriptGoesOn, Quiet, mediaVars
<1>2. CASE cleanup_workflow_videos_before_push
  BY <1>2, CompleteGoesOn DEF cleanup_workflow_videos_before_push, Quiet
<1>3. CASE push_video
  BY <1>3, CompleteGoesOn DEF push_video, Quiet
<1>4. CASE verify_current_gallery_video
  BY <1>4, CompleteGoesOn, FailGoesOn DEF verify_current_gallery_video, Quiet, mediaVars
<1> QED BY <1>1, <1>2, <1>3, <1>4

\* Nor does any step that goes from one page of TikTok to the next.
LEMMA PagesAreQuiet ==
  ASSUME \/ open_app \/ tap_step \/ clear_android_permission_dialogs \/ optional_tap
         \/ wait_for_any_text \/ assert_media_picker_item_count \/ tap_first_matching_node
         \/ optional_remove_added_music \/ tap_until_any_text
  PROVE  Quiet
<1>1. CASE open_app
  BY <1>1, CompleteGoesOn, FailGoesOn DEF open_app, Quiet, mediaVars
<1>2. CASE tap_step
  BY <1>2, CompleteGoesOn DEF tap_step, TapRoute, Quiet, mediaVars
<1>3. CASE clear_android_permission_dialogs
  BY <1>3 DEF clear_android_permission_dialogs, Quiet, ScriptGoesOn, mediaVars, runVars
<1>4. CASE optional_tap
  <2>1. Step # "end"
    BY <1>4 DEF optional_tap, OptionalRoute
  <2> QED BY <1>4, <2>1, CompleteGoesOn, FailGoesOn DEF optional_tap, Quiet, mediaVars
<1>5. CASE wait_for_any_text
  BY <1>5, CompleteGoesOn, FailGoesOn DEF wait_for_any_text, AwaitedPage, Quiet, mediaVars
<1>6. CASE assert_media_picker_item_count
  BY <1>6, CompleteGoesOn, FailGoesOn DEF assert_media_picker_item_count, Quiet, mediaVars
<1>7. CASE tap_first_matching_node
  BY <1>7, CompleteGoesOn, FailGoesOn DEF tap_first_matching_node, Quiet, mediaVars
<1>8. CASE optional_remove_added_music
  BY <1>8, CompleteGoesOn DEF optional_remove_added_music, Quiet, mediaVars
<1>9. CASE tap_until_any_text
  BY <1>9, CompleteGoesOn, FailGoesOn DEF tap_until_any_text, Quiet, mediaVars
<1> QED BY <1>1, <1>2, <1>3, <1>4, <1>5, <1>6, <1>7, <1>8, <1>9

\* Nor any step that fills in the form or ends the run.
LEMMA FormIsQuiet ==
  ASSUME \/ paste_caption \/ input_product_publish_name \/ tap_product_final_add
         \/ assert_product_link_attached \/ set_showcase_schedule_datetime
         \/ verify_showcase_schedule_configured_from_current_ui
         \/ stop_before_final_publish \/ minimize_app \/ finish_workflow
  PROVE  Quiet
<1>1. CASE paste_caption
  BY <1>1, CompleteGoesOn, FailGoesOn DEF paste_caption, Quiet, mediaVars
<1>2. CASE input_product_publish_name
  BY <1>2, CompleteGoesOn DEF input_product_publish_name, Quiet, mediaVars
<1>3. CASE tap_product_final_add
  BY <1>3, CompleteGoesOn DEF tap_product_final_add, Quiet, mediaVars
<1>4. CASE assert_product_link_attached
  BY <1>4, CompleteGoesOn, FailGoesOn DEF assert_product_link_attached, Quiet, mediaVars
<1>5. CASE set_showcase_schedule_datetime
  BY <1>5, StepIsHead
     DEF set_showcase_schedule_datetime, Record, Fail, ScriptGoesOn, Quiet, mediaVars
<1>6. CASE verify_showcase_schedule_configured_from_current_ui
  BY <1>6, CompleteGoesOn, FailGoesOn
     DEF verify_showcase_schedule_configured_from_current_ui, Quiet, mediaVars
<1>7. CASE stop_before_final_publish
  BY <1>7 DEF stop_before_final_publish, ScriptGoesOn, Quiet, mediaVars
<1>8. CASE minimize_app
  BY <1>8, CompleteGoesOn DEF minimize_app, Quiet, mediaVars
<1>9. CASE finish_workflow
  BY <1>9 DEF finish_workflow, ScriptGoesOn, Quiet, mediaVars
<1> QED BY <1>1, <1>2, <1>3, <1>4, <1>5, <1>6, <1>7, <1>8, <1>9

\* The search of a product leaves the list of steps alone until the product is
\* attached or the search is given up.
LEMMA SearchGoesOn ==
  ASSUME ensure_showcase_product_attached
  PROVE  ScriptGoesOn
<1> USE DEF ScriptGoesOn, runVars
<1>0. \A result : finish(result) => ScriptGoesOn
  BY DEF finish, Stay
<1>1. \A kind : Refuse(kind) => ScriptGoesOn
  BY FailGoesOn DEF Refuse
<1>2. \A next : Enter(next) => ScriptGoesOn
  BY DEF Enter
<1>3. \A titled, signature, same : SwipeOn(titled, signature, same) => ScriptGoesOn
  BY DEF SwipeOn
<1>4. \A area : begin_search(area) => ScriptGoesOn
  BY <1>1 DEF begin_search
<1>5. search_visible_product_list => ScriptGoesOn
  <2>1. recover_from_product_detail_page => ScriptGoesOn
    BY <1>0 DEF recover_from_product_detail_page
  <2>3. \A cards, titled : NoMatch(cards, titled) => ScriptGoesOn
    BY <1>0, <1>3 DEF NoMatch
  <2>4. \A titled, i : OneMatch(titled, i) => ScriptGoesOn
    BY <1>0, <1>3 DEF OneMatch, Stay
  <2>5. look_at_cards => ScriptGoesOn
    BY <1>0, <1>1, <2>3, <2>4 DEF look_at_cards
  <2>6. look_without_cards => ScriptGoesOn
    BY <1>0, <2>3 DEF look_without_cards
  <2> QED BY <1>1, <2>1, <2>5, <2>6 DEF search_visible_product_list
<1>6. press_add_button => ScriptGoesOn
  BY DEF press_add_button, Fail
<1>7. after_showcase_search \/ after_shop_search => ScriptGoesOn
  BY <1>1, <1>2 DEF after_showcase_search, after_shop_search, Attached
<1>8. tap_add_more_products \/ tap_tiktok_shop_tab => ScriptGoesOn
  BY <1>2 DEF tap_add_more_products, tap_tiktok_shop_tab
<1>9. confirm_shop_add_dialog_if_present \/ classify_shop_post_add_screen
        \/ return_to_showcase_product_list => ScriptGoesOn
  BY <1>1, <1>2, FailGoesOn DEF confirm_shop_add_dialog_if_present, classify_shop_post_add_screen,
                    return_to_showcase_product_list, Attached
<1>10. Step = "ensure_showcase_product_attached" /\ Complete(state) => ScriptGoesOn
  BY CompleteGoesOn
<1> QED BY <1>4, <1>5, <1>6, <1>7, <1>8, <1>9, <1>10 DEF ensure_showcase_product_attached

\* The final tap of the showcase publishes, if at all, with permission and as
\* the last thing of its step.
TapPublishes ==
  /\ Step \in FINAL_PUBLISH_STEP_IDS /\ phone.page = "preset"
  /\ posts' = Append(posts, Posted)
  /\ todo' = Tail(todo) \/ (todo' = todo /\ outcome' # "running")

\* final_publish_tap publishes with permission, or nothing.
LEMMA FinalTap ==
  ASSUME final_publish_tap
  PROVE  Quiet \/ (TapPublishes /\ ~job.stop /\ job.allow /\ ~job.dry)
<1>1. Step # "end" /\ Step \in FINAL_PUBLISH_STEP_IDS /\ ~job.stop
  BY DEF final_publish_tap, FINAL_PUBLISH_STEP_IDS
<1>2. CASE Fail("retryable") /\ posts' = posts
  BY <1>2, FailGoesOn DEF Quiet
<1>3. CASE Complete(state) /\ posts' = posts
  BY <1>1, <1>3, CompleteGoesOn DEF Quiet
<1>4. CASE /\ job.allow \/ job.dry
           /\ ~job.dry /\ phone.page = "preset"
           /\ posts' = Append(posts, Posted) /\ Complete(state)
  <2>1. todo' = Tail(todo) \/ (todo' = todo /\ outcome' # "running")
    BY <1>4 DEF Complete, Record, Fail
  <2> QED BY <1>1, <1>4, <2>1 DEF TapPublishes
<1> QED BY <1>2, <1>3, <1>4 DEF final_publish_tap

\* The final tap of TikTok Studio does so only on a form that has a time.
LEMMA ScheduledTap ==
  ASSUME tap_scheduled_publish
  PROVE  Quiet \/ (TapPublishes /\ job.allow /\ state.verified /\ scheduled_publish_page_signal)
<1>1. Step # "end" /\ Step \in FINAL_PUBLISH_STEP_IDS
  BY DEF tap_scheduled_publish, FINAL_PUBLISH_STEP_IDS
<1>2. CASE Fail("retryable") /\ posts' = posts
  BY <1>2, FailGoesOn DEF Quiet
<1>3. CASE Complete(state) /\ posts' = posts
  BY <1>1, <1>3, CompleteGoesOn DEF Quiet
<1>4. CASE /\ job.allow /\ state.verified /\ scheduled_publish_page_signal
           /\ posts' = Append(posts, Posted) /\ Complete(state)
  <2>1. todo' = Tail(todo) \/ (todo' = todo /\ outcome' # "running")
    BY <1>4 DEF Complete, Record, Fail
  <2> QED BY <1>1, <1>4, <2>1
          DEF TapPublishes, scheduled_publish_page_signal, publish_form_signal
<1> QED BY <1>2, <1>3, <1>4 DEF tap_scheduled_publish

\* No other step of the marketing workflow publishes.
LEMMA MarketingIsQuiet ==
  ASSUME \/ require_device_ready \/ push_video_indexed \/ open_target_app
         \/ tap_profile_point \/ tap_upload_and_verify \/ refresh_media_picker
         \/ select_first_media \/ tap_next_after_select \/ tap_next_and_verify
         \/ paste_caption_on_form \/ open_schedule_picker \/ wait_schedule_picker_open
         \/ run_wheel_strategy \/ verify_schedule_configured
         \/ minimize_tiktok_studio \/ all_steps_done
  PROVE  Quiet
<1> USE DEF Quiet, mediaVars
<1>1. CASE require_device_ready
  BY <1>1, StepIsHead, FailGoesOn DEF require_device_ready, ScriptGoesOn
<1>2. CASE push_video_indexed
  BY <1>2, CompleteGoesOn, FailGoesOn DEF push_video_indexed
<1>3. CASE open_target_app \/ tap_profile_point \/ refresh_media_picker
  BY <1>3, CompleteGoesOn, FailGoesOn DEF open_target_app, tap_profile_point, refresh_media_picker
<1>4. CASE tap_upload_and_verify
  BY <1>4, CompleteGoesOn, FailGoesOn DEF tap_upload_and_verify
<1>5. CASE select_first_media \/ tap_next_after_select
  BY <1>5, CompleteGoesOn, FailGoesOn DEF select_first_media, tap_next_after_select
<1>6. CASE tap_next_and_verify \/ paste_caption_on_form
  BY <1>6, CompleteGoesOn, FailGoesOn DEF tap_next_and_verify, paste_caption_on_form
<1>7. CASE open_schedule_picker
  BY <1>7, CompleteGoesOn, FailGoesOn DEF open_schedule_picker
<1>8. CASE wait_schedule_picker_open \/ verify_schedule_configured
  BY <1>8, CompleteGoesOn, FailGoesOn DEF wait_schedule_picker_open, verify_schedule_configured
<1>9. CASE run_wheel_strategy
  BY <1>9, CompleteGoesOn, FailGoesOn DEF run_wheel_strategy
<1>10. CASE minimize_tiktok_studio \/ all_steps_done
  BY <1>10, CompleteGoesOn DEF minimize_tiktok_studio, all_steps_done, ScriptGoesOn
<1> QED BY <1>1, <1>2, <1>3, <1>4, <1>5, <1>6, <1>7, <1>8, <1>9, <1>10

\* So every step of a script is quiet or the permitted final tap.
PermittedTap ==
  /\ TapPublishes /\ job.allow
  /\ \/ job.account = "showcase" /\ ~job.stop /\ ~job.dry
     \/ job.account = "marketing" /\ state.verified /\ scheduled_publish_page_signal

\* What a step of either script does to the posts.
LEMMA ScriptStep ==
  ASSUME PipelineStep
  PROVE  Quiet \/ PermittedTap
<1>1. CASE ShowcaseStep
  <2>1. ensure_showcase_product_attached /\ UNCHANGED mediaVars => Quiet
    BY SearchGoesOn DEF Quiet, mediaVars
  <2> QED BY <1>1, <2>1, PreparationIsQuiet, PagesAreQuiet, FormIsQuiet, FinalTap
          DEF ShowcaseStep, PermittedTap
<1>2. CASE MarketingStep
  BY <1>2, MarketingIsQuiet, ScheduledTap DEF MarketingStep, PermittedTap
<1> QED BY <1>1, <1>2 DEF PipelineStep

-----------------------------------------------------------------------------
(* Permission. *)

\* Nothing publishes in a dry run of the marketing workflow because no form of
\* it is ever reached: the application is opened and left, but never tapped.
QuietPages == {"launcher", "home", "elsewhere"}
DryPhone ==
  job.account = "marketing" /\ job.dry =>
    "page" \in DOMAIN phone /\ phone.page \in QuietPages

\* Show really shows the page it is asked for.
LEMMA ShowsPage ==
  ASSUME "page" \in DOMAIN phone, NEW p
  PROVE  "page" \in DOMAIN Show(p) /\ Show(p).page = p
BY DEF Show

\* A dry marketing run goes on from quiet pages to quiet pages.
LEMMA DryMarketingStep ==
  ASSUME job.account = "marketing", job.dry, DryPhone, PipelineStep
  PROVE  DryPhone'
<1> SUFFICES "page" \in DOMAIN phone' /\ phone'.page \in QuietPages
  BY DEF DryPhone
<1>1. "page" \in DOMAIN phone /\ phone.page \in QuietPages
  BY DEF DryPhone
<1>2. MarketingStep
  BY DEF PipelineStep, ShowcaseStep
<1>3. \A p : "page" \in DOMAIN Show(p) /\ Show(p).page = p
  BY <1>1, ShowsPage
<1> USE DEF QuietPages
<1>4. CASE UNCHANGED phone
  BY <1>1, <1>4
<1>5. CASE phone' \in {phone, Show("elsewhere")}
  BY <1>1, <1>3, <1>5
<1>6. CASE phone' = Show("launcher")
  BY <1>3, <1>6
<1>7. CASE \E p \in {"home", "elsewhere"} : phone' = [Show(p) EXCEPT !.draft = EmptyDraft]
  BY <1>3, <1>7
<1>8. UNCHANGED phone \/ phone' \in {phone, Show("elsewhere")} \/ phone' = Show("launcher")
      \/ \E p \in {"home", "elsewhere"} : phone' = [Show(p) EXCEPT !.draft = EmptyDraft]
  <2>1. /\ phone.page # "upload" /\ phone.page # "picker" /\ phone.page # "editor"
        /\ phone.page # "preset" /\ phone.page # "timeDialog"
    BY <1>1
  <2>2. CASE require_device_ready \/ push_video_indexed \/ refresh_media_picker
             \/ wait_schedule_picker_open \/ verify_schedule_configured \/ all_steps_done
    BY <2>2 DEF require_device_ready, push_video_indexed, refresh_media_picker,
                wait_schedule_picker_open, verify_schedule_configured, all_steps_done
  <2>3. CASE open_target_app \/ minimize_tiktok_studio
    BY <2>3 DEF open_target_app, minimize_tiktok_studio
  <2>4. CASE tap_profile_point
    BY <2>4 DEF tap_profile_point, Tap
  <2>5. CASE tap_upload_and_verify
    BY <2>1, <2>5 DEF tap_upload_and_verify
  <2>6. CASE select_first_media
    BY <2>1, <2>6
       DEF select_first_media, first_media_candidate, choose_preferred_album, FirstListed,
           media_picker_visible
  <2>7. CASE tap_next_after_select
    BY <2>1, <2>7 DEF tap_next_after_select, Stray
  <2>8. CASE tap_next_and_verify \/ paste_caption_on_form
    BY <2>1, <2>8 DEF tap_next_and_verify, paste_caption_on_form, publish_form_signal
  <2>9. CASE open_schedule_picker
    BY <2>1, <2>9 DEF open_schedule_picker, schedule_entry_preflight, publish_form_signal
  <2>10. CASE run_wheel_strategy
    BY <2>1, <2>10 DEF run_wheel_strategy, native_schedule_picker_signal
  <2>11. CASE tap_scheduled_publish
    BY <2>1, <2>11 DEF tap_scheduled_publish, scheduled_publish_page_signal, publish_form_signal
  <2> QED BY <1>2, <2>2, <2>3, <2>4, <2>5, <2>6, <2>7, <2>8, <2>9, <2>10, <2>11 DEF MarketingStep
<1> QED BY <1>4, <1>5, <1>6, <1>7, <1>8

\* The gate of claim_and_prepare has been passed while a script runs.
PermissionInv ==
  /\ PostedOnlyWithPermission
  /\ Running => validate_profile_publish_gate
  /\ DryPhone

\* Every step keeps the invariant; only PermittedTap adds a post.
LEMMA PermissionStep ==
  ASSUME PermissionInv, [Next]_vars
  PROVE  PermissionInv'
<1> USE DEF PermissionInv
<1>1. job' = job
  BY DEF Next, vars, run_once_refused, claim_and_prepare, run_plan_timeout, PipelineStep, judge,
         Elapse, Settle
<1>2. CASE PipelineStep
  <2>1. DryPhone'
    BY <1>1, <1>2, DryMarketingStep DEF DryPhone
  <2>2. validate_profile_publish_gate /\ validate_profile_publish_gate'
    BY <1>1, <1>2 DEF PipelineStep, validate_profile_publish_gate
  <2>3. CASE Quiet
    BY <1>1, <2>1, <2>2, <2>3 DEF Quiet, PostedOnlyWithPermission
  <2>4. CASE PermittedTap
    <3>1. ~job.dry
      BY <2>4 DEF PermittedTap, DryPhone, QuietPages, scheduled_publish_page_signal,
                  publish_form_signal
    <3>2. /\ job.allow /\ ~job.dry
          /\ job.stop => job.account = "marketing"
          /\ job.calibrated \/ job.stop
      BY <2>2, <2>4, <3>1 DEF PermittedTap, validate_profile_publish_gate
    <3>3. PostedOnlyWithPermission'
      BY <1>1, <3>2 DEF PostedOnlyWithPermission
    <3> QED BY <2>1, <2>2, <3>3
  <2> QED BY <1>2, <2>3, <2>4, ScriptStep
<1>3. CASE ~PipelineStep
  <2>1. posts' = posts /\ phone' = phone
    BY <1>3 DEF Next, vars, run_once_refused, claim_and_prepare, run_plan_timeout, judge, Elapse,
                Settle, mediaVars
  <2>2. Running' => Running \/ validate_profile_publish_gate
    <3>1. CASE claim_and_prepare
      BY <3>1 DEF claim_and_prepare, Running
    <3>2. CASE run_once_refused \/ Elapse \/ Settle \/ UNCHANGED vars
      BY <3>2 DEF run_once_refused, Elapse, Settle, vars, runVars, Running
    <3>3. CASE run_plan_timeout \/ judge
      BY <3>3 DEF run_plan_timeout, judge, Fail, Running
    <3> QED BY <1>3, <3>1, <3>2, <3>3 DEF Next
  <2>3. (Running => validate_profile_publish_gate)'
    BY <1>1, <2>2 DEF validate_profile_publish_gate
  <2>4. PostedOnlyWithPermission' /\ DryPhone'
    BY <1>1, <2>1 DEF PostedOnlyWithPermission, DryPhone
  <2> QED BY <2>3, <2>4
<1> QED BY <1>2, <1>3

\* Nothing is ever published in a dry run, without permission, by a showcase
\* run that was to stop, or with an uncalibrated profile whose gate was asked:
\* whatever the phone shows, however often the task is tried again.
THEOREM PublishedOnlyWithPermission == Spec => []PostedOnlyWithPermission
<1>1. Init => PermissionInv
  BY DEF Init, PermissionInv, PostedOnlyWithPermission, Running, DryPhone, QuietPages
<1>2. PermissionInv /\ [Next]_vars => PermissionInv'
  BY PermissionStep
<1>3. PermissionInv => PostedOnlyWithPermission
  BY DEF PermissionInv
<1> QED BY <1>1, <1>2, <1>3, PTL DEF Spec

-----------------------------------------------------------------------------
(* Once per attempt. *)

\* The publish buttons that are still to be tapped number at most one, and none
\* after the attempt has published.
OnceInv ==
  /\ job \in Jobs
  /\ todo \in Seq(STRING) /\ PublishesOnce(todo)
  /\ postsBefore \in Nat
  /\ \E R : posts \in Seq(R)
  /\ OnePostPerAttempt

\* What a workflow starts with.
LEMMA WorkflowPublishesOnce ==
  ASSUME job \in Jobs
  PROVE  WorkflowSteps \in Seq(STRING) /\ PublishesOnce(WorkflowSteps)
<1>1. job.mode \in {"scheduled", "immediate"}
  BY PublishPhoneAssumption DEF JobOptions
<1>2. ShowcaseSteps(job.mode) \in {ShowcaseSteps("scheduled"), ShowcaseSteps("immediate")}
  BY <1>1
<1> QED BY <1>2, PublishStepsAssumption DEF WorkflowSteps

\* Without its first step a list still publishes at most once, and not at
\* all when the first one did.
LEMMA TailPublishesOnce ==
  ASSUME NEW steps \in Seq(STRING), steps # << >>, PublishesOnce(steps)
  PROVE  /\ Tail(steps) \in Seq(STRING) /\ PublishesOnce(Tail(steps))
         /\ ToSet(Tail(steps)) \subseteq ToSet(steps)
         /\ Head(steps) \in FINAL_PUBLISH_STEP_IDS =>
              ToSet(Tail(steps)) \cap FINAL_PUBLISH_STEP_IDS = {}
<1>1. /\ Tail(steps) \in Seq(STRING) /\ Len(steps) \in Nat \ {0}
      /\ DOMAIN Tail(steps) = 1..Len(steps) - 1
      /\ \A i \in 1..Len(steps) - 1 : Tail(steps)[i] = steps[i + 1]
  BY HeadTailProperties, EmptySeq
<1>2. /\ DOMAIN steps = 1..Len(steps) /\ Head(steps) = steps[1]
      /\ 1 \in DOMAIN steps
  BY <1>1
<1>3. \A i \in DOMAIN Tail(steps) :
        i \in Nat /\ i + 1 \in DOMAIN steps /\ i + 1 # 1 /\ Tail(steps)[i] = steps[i + 1]
  BY <1>1, <1>2
<1>4. PublishesOnce(Tail(steps))
  <2>1. SUFFICES ASSUME NEW i \in DOMAIN Tail(steps), NEW j \in DOMAIN Tail(steps),
                        Tail(steps)[i] \in FINAL_PUBLISH_STEP_IDS,
                        Tail(steps)[j] \in FINAL_PUBLISH_STEP_IDS
                 PROVE  i = j
    BY DEF PublishesOnce
  <2>2. /\ i \in Nat /\ i + 1 \in DOMAIN steps /\ steps[i + 1] \in FINAL_PUBLISH_STEP_IDS
        /\ j \in Nat /\ j + 1 \in DOMAIN steps /\ steps[j + 1] \in FINAL_PUBLISH_STEP_IDS
    BY <1>3, <2>1
  <2>3. i + 1 = j + 1
    BY <2>2 DEF PublishesOnce
  <2> QED BY <2>2, <2>3
<1>5. ToSet(Tail(steps)) \subseteq ToSet(steps)
  BY <1>3 DEF ToSet
<1>6. Head(steps) \in FINAL_PUBLISH_STEP_IDS =>
        ToSet(Tail(steps)) \cap FINAL_PUBLISH_STEP_IDS = {}
  BY <1>2, <1>3 DEF ToSet, PublishesOnce
<1> QED BY <1>1, <1>4, <1>5, <1>6

\* The list of steps stays one that publishes at most once, and no step is
\* added to it.
LEMMA ScriptPublishesOnce ==
  ASSUME todo \in Seq(STRING), PublishesOnce(todo), ScriptGoesOn
  PROVE  /\ todo' \in Seq(STRING) /\ PublishesOnce(todo)'
         /\ ToSet(todo') \subseteq ToSet(todo)
<1>1. CASE todo' = todo
  BY <1>1 DEF PublishesOnce
<1>2. CASE todo # << >> /\ todo' = Tail(todo)
  BY <1>2, TailPublishesOnce DEF PublishesOnce
<1>3. CASE todo' = << >>
  BY <1>3 DEF PublishesOnce, ToSet
<1> QED BY <1>1, <1>2, <1>3 DEF ScriptGoesOn

\* Every step keeps the invariant; only a claim lengthens the list of steps.
LEMMA OnceStep ==
  ASSUME OnceInv, [Next]_vars
  PROVE  OnceInv'
<1> USE DEF OnceInv
<1>0. job' = job
  BY DEF Next, vars, run_once_refused, claim_and_prepare, run_plan_timeout, PipelineStep, judge,
         Elapse, Settle
<1> USE <1>0
<1>1. PICK R : posts \in Seq(R)
  OBVIOUS
<1>2. Len(posts) \in Nat
  BY <1>1
<1>3. CASE claim_and_prepare
  <2>1. todo' = WorkflowSteps /\ posts' = posts /\ postsBefore' = Len(posts)
    BY <1>3 DEF claim_and_prepare, mediaVars
  <2>2. todo' \in Seq(STRING) /\ PublishesOnce(todo)'
    BY <2>1, WorkflowPublishesOnce DEF PublishesOnce
  <2>3. OnePostPerAttempt'
    BY <1>2, <2>1 DEF OnePostPerAttempt
  <2> QED BY <1>1, <1>2, <2>1, <2>2, <2>3
<1>4. CASE PipelineStep /\ Quiet
  <2>1. Running /\ posts' = posts /\ postsBefore' = postsBefore /\ ScriptGoesOn
    BY <1>4 DEF PipelineStep, Quiet, taskVars
  <2>2. /\ todo' \in Seq(STRING) /\ PublishesOnce(todo)'
        /\ ToSet(todo') \subseteq ToSet(todo)
    BY <2>1, ScriptPublishesOnce
  <2>3. OnePostPerAttempt'
    BY <2>1, <2>2 DEF OnePostPerAttempt
  <2> QED BY <1>1, <2>1, <2>2, <2>3
<1>5. CASE PipelineStep /\ TapPublishes
  <2>1. Running /\ postsBefore' = postsBefore
    BY <1>5 DEF PipelineStep, taskVars
  <2>2. todo # << >> /\ Head(todo) \in FINAL_PUBLISH_STEP_IDS
    BY <1>5, StepIsHead DEF TapPublishes, FINAL_PUBLISH_STEP_IDS
  <2>3. Head(todo) \in ToSet(todo)
    BY <2>2 DEF ToSet
  <2>4. Len(posts) <= postsBefore
    BY <1>2, <2>1, <2>2, <2>3 DEF OnePostPerAttempt
  <2>5. PICK post : posts' = Append(posts, post)
    BY <1>5 DEF TapPublishes
  <2>6. posts' \in Seq(R \cup {post}) /\ Len(posts') = Len(posts) + 1
    <3>1. posts \in Seq(R \cup {post})
      BY <1>1
    <3> QED BY <2>5, <3>1, AppendProperties
  <2>7. /\ todo' \in Seq(STRING) /\ PublishesOnce(todo)'
        /\ Running' => ToSet(todo') \cap FINAL_PUBLISH_STEP_IDS = {}
    <3>1. CASE todo' = Tail(todo)
      BY <2>2, <3>1, TailPublishesOnce DEF PublishesOnce
    <3>2. CASE todo' = todo /\ outcome' # "running"
      BY <3>2 DEF PublishesOnce, Running
    <3> QED BY <1>5, <3>1, <3>2 DEF TapPublishes
  <2>8. OnePostPerAttempt'
    BY <1>2, <2>1, <2>4, <2>6, <2>7 DEF OnePostPerAttempt
  <2> QED BY <2>1, <2>6, <2>7, <2>8
<1>6. CASE run_once_refused \/ run_plan_timeout \/ judge \/ Elapse \/ Settle \/ UNCHANGED vars
  <2>1. /\ todo' = todo /\ posts' = posts /\ postsBefore' = postsBefore
        /\ Running' => Running
    <3>1. CASE run_once_refused \/ Elapse \/ Settle \/ UNCHANGED vars
      BY <3>1 DEF run_once_refused, Elapse, Settle, vars, runVars, mediaVars, taskVars, Running
    <3>2. CASE run_plan_timeout \/ judge
      BY <3>2 DEF run_plan_timeout, judge, Fail, mediaVars, taskVars, Running
    <3> QED BY <1>6, <3>1, <3>2
  <2>2. OnePostPerAttempt'
    BY <2>1 DEF OnePostPerAttempt
  <2> QED BY <1>1, <2>1, <2>2 DEF PublishesOnce
<1> QED BY <1>3, <1>4, <1>5, <1>6, ScriptStep DEF Next, PermittedTap

\* Every attempt publishes at most once, with the last publish tap of its
\* script, for every list of steps that taps a publish button at most once
\* (which those of the two workflows are).
THEOREM PublishedOncePerAttempt == Spec => []OnePostPerAttempt
<1>1. Init => OnceInv
  <2> SUFFICES ASSUME Init PROVE OnceInv
    OBVIOUS
  <2>1. job \in Jobs /\ todo = << >> /\ posts = << >> /\ postsBefore = 0 /\ ~Running
    BY DEF Init, Running
  <2>2. todo \in Seq(STRING) /\ PublishesOnce(todo) /\ posts \in Seq({})
    BY <2>1 DEF PublishesOnce
  <2>3. OnePostPerAttempt
    BY <2>1 DEF OnePostPerAttempt
  <2> QED BY <2>1, <2>2, <2>3 DEF OnceInv
<1>2. OnceInv /\ [Next]_vars => OnceInv'
  BY OnceStep
<1>3. OnceInv => OnePostPerAttempt
  BY DEF OnceInv
<1> QED BY <1>1, <1>2, <1>3, PTL DEF Spec

-----------------------------------------------------------------------------
(* The types of what a publication keeps. *)

Named == Products \cup {NoProduct}

DraftType == [video : Videos \cup {NoVideo}, caption : BOOLEAN, pick : Named, link : Named,
              schedule : Int, opened : Int]

PhoneType == [page : Pages, offset : Nat, showcase : Seq(Named), shop : Seq(Named),
              draft : DraftType]

StateType == [done : SUBSET ToSet(WorkflowSteps), configured : BOOLEAN, verified : BOOLEAN,
              stopped : BOOLEAN, target : Nat \cup {NoTime}, initial : Nat \cup {NoTime}]

Phases == {"none", "look", "press", "concluded", "addMore", "shopTab", "shop", "confirm",
           "postAdd", "return", "verify", "attached"}

ScanType == [area : Areas \cup {"none"}, phase : Phases, swipes : 0..MaxListSwipes,
             seen : SUBSET Named, signature : SUBSET Nat, same : 0..SameScreenLimit,
             card : Nat, result : Results \cup {"none"}]

PostType == [video : Videos \cup {NoVideo}, caption : BOOLEAN, link : Named, schedule : Int]

\* The pages an application shows before the draft of a task has a video.
EarlyPages == {"launcher", "home", "camera", "upload", "picker", "askPermission", "elsewhere"}

\* A search is under way only in its step, presses the button of a card that
\* is on the page and looks like the target's, and returns to the showcase
\* from a list; the card skipped at the bottom of a screen starts the count of
\* equal screens anew.
SearchInv ==
  /\ scan.phase # "none" => Step = "ensure_showcase_product_attached"
  /\ scan.phase = "press" => /\ scan.card \in DOMAIN ListOf(phone.page)
                             /\ ListOf(phone.page)[scan.card] \in Lookalikes
  /\ scan.phase = "return" \/ (scan.phase = "concluded" /\ scan.result = "already_added") =>
       phone.page \notin EarlyPages
  /\ scan.signature # {} => scan.same < SameScreenLimit

TypedInv ==
  /\ job \in Jobs /\ outcome \in Outcomes
  /\ todo \in Seq(STRING) /\ ToSet(todo) \subseteq ToSet(WorkflowSteps)
  /\ state \in StateType /\ scan \in ScanType /\ phone \in PhoneType
  /\ job.account = "marketing" => scan.phase = "none"
  /\ gallery \in [files : SUBSET Videos, index : SUBSET Videos]
  /\ posts \in Seq(PostType) /\ now \in Nat
  /\ attempt \in 0..MaxAttempts /\ verdict \in Verdicts /\ postsBefore \in Nat

\* What a tap leads to keeps the lists and the draft.
LEMMA ShowIs ==
  ASSUME phone \in PhoneType, now \in Nat, NEW p \in Pages
  PROVE  /\ Show(p) \in PhoneType /\ Show(p).page = p /\ Show(p).offset = 0
         /\ Show(p).showcase = phone.showcase /\ Show(p).shop = phone.shop
         /\ Show(p).draft.video = phone.draft.video
         /\ Show(p).draft.caption = phone.draft.caption
         /\ Show(p).draft.pick = phone.draft.pick /\ Show(p).draft.link = phone.draft.link
         /\ Show(p).draft.schedule = phone.draft.schedule
<1>1. infer_native_schedule_initial_from_phone_clock(now) \in Int
  BY NativeScheduleAssumption DEF infer_native_schedule_initial_from_phone_clock
<1>2. PICK t \in Int :
        Show(p) = [phone EXCEPT !.page = p, !.offset = 0, !.draft.opened = t]
  <2>1. CASE p = "timeDialog"
    BY <1>1, <2>1 DEF Show
  <2>2. CASE p # "timeDialog"
    BY <2>2 DEF Show, PhoneType, DraftType
  <2> QED BY <2>1, <2>2
<1>3. Show(p) = [page |-> p, offset |-> 0, showcase |-> phone.showcase, shop |-> phone.shop,
                 draft |-> [phone.draft EXCEPT !.opened = t]]
  BY <1>2 DEF PhoneType
<1>4. [phone.draft EXCEPT !.opened = t] =
        [video |-> phone.draft.video, caption |-> phone.draft.caption,
         pick |-> phone.draft.pick, link |-> phone.draft.link,
         schedule |-> phone.draft.schedule, opened |-> t]
  BY DEF PhoneType, DraftType
<1> QED BY <1>3, <1>4 DEF PhoneType, DraftType

\* What is entered into a draft changes this of it alone.
LEMMA DraftWith ==
  ASSUME NEW q \in PhoneType
  PROVE  /\ \A v \in Videos : [q EXCEPT !.draft.video = v] \in PhoneType
         /\ \A c \in BOOLEAN : [q EXCEPT !.draft.caption = c] \in PhoneType
         /\ \A n \in Named : [q EXCEPT !.draft.link = n] \in PhoneType
         /\ \A n \in Named : [q EXCEPT !.draft.pick = n] \in PhoneType
         /\ \A t \in Int : [q EXCEPT !.draft.schedule = t] \in PhoneType
         /\ [q EXCEPT !.draft = EmptyDraft] \in PhoneType
<1> USE DEF PhoneType, DraftType
<1>1. \A v \in Videos : [q EXCEPT !.draft.video = v] \in PhoneType
  OBVIOUS
<1>2. \A c \in BOOLEAN : [q EXCEPT !.draft.caption = c] \in PhoneType
  OBVIOUS
<1>3. \A n \in Named : /\ [q EXCEPT !.draft.link = n] \in PhoneType
                       /\ [q EXCEPT !.draft.pick = n] \in PhoneType
  OBVIOUS
<1>4. \A t \in Int : [q EXCEPT !.draft.schedule = t] \in PhoneType
  OBVIOUS
<1>5. EmptyDraft \in DraftType
  BY DEF EmptyDraft, NoVideo, Named, NoTime
<1>6. [q EXCEPT !.draft = EmptyDraft] \in PhoneType
  BY <1>5
<1> QED BY <1>1, <1>2, <1>3, <1>4, <1>6

\* The lists a page shows.
LEMMA ListIs ==
  ASSUME phone \in PhoneType, NEW p
  PROVE  /\ ListOf(p) \in Seq(Named)
         /\ DOMAIN ListOf(p) # {} => p \in {"showcaseList", "shopList"}
BY DEF ListOf, PhoneType

\* A card on the screen is one of the page's list.
LEMMA ShownIs ==
  ASSUME phone \in PhoneType
  PROVE  /\ Shown \subseteq DOMAIN ListOf(phone.page) /\ Shown \subseteq Nat
         /\ \A i \in Shown : ListOf(phone.page)[i] \in Named
         /\ Shown # {} => phone.page \in {"showcaseList", "shopList"}
<1>1. Shown \subseteq DOMAIN ListOf(phone.page)
  BY DEF Shown
<1>2. DOMAIN ListOf(phone.page) \subseteq Nat
  BY ListIs
<1> QED BY <1>1, <1>2, ListIs

-----------------------------------------------------------------------------
(* What a step of a script may do to the phone and its draft. *)

VideoEffect ==
  \/ phone'.draft.video = phone.draft.video
  \/ Step \in {"open_tiktok", "open_target_app"} /\ phone'.draft.video = NoVideo
  \/ Step = "select_first_video" /\ phone'.draft.video \in FirstListed(gallery.index)

CaptionEffect ==
  \/ phone'.draft.caption \/ phone'.draft.caption = phone.draft.caption
  \/ Step \in {"open_tiktok", "open_target_app"}

PickEffect == \/ phone'.draft.pick = phone.draft.pick
              \/ phone'.draft.pick \in Lookalikes \cup {NoProduct}
              \/ job.addTextElsewhere

LinkEffect ==
  \/ phone'.draft.link = phone.draft.link
  \/ Step \in {"open_tiktok", "open_target_app"} /\ phone'.draft.link = NoProduct
  \/ Step \in {"ensure_showcase_product_attached", "tap_product_final_add"}
     /\ phone'.draft.link = phone.draft.pick

ScheduleEffect ==
  \/ phone'.draft.schedule = phone.draft.schedule
  \/ Step \in {"open_tiktok", "open_target_app"} /\ phone'.draft.schedule = NoTime
  \/ Step = "set_schedule_datetime"

\* The pages that need a video are reached only with one in the draft.
PageEffect ==
  phone'.page \notin EarlyPages =>
    \/ phone'.draft.video # NoVideo
    \/ phone.page \notin EarlyPages /\ phone'.draft.video = phone.draft.video

PhoneEffect == /\ phone' \in PhoneType
               /\ VideoEffect /\ CaptionEffect /\ PickEffect /\ LinkEffect /\ ScheduleEffect
               /\ PageEffect

\* Most steps only go to another page; none of these leads from an early page
\* to a later one.
Browse == \/ phone' = phone
          \/ \E p \in Pages : /\ phone' = Show(p)
                              /\ p \in EarlyPages \/ phone.page \notin EarlyPages

\* Looking around changes no draft and posts nothing.
LEMMA BrowseKeepsDraft ==
  ASSUME phone \in PhoneType, now \in Nat, Browse
  PROVE  PhoneEffect
<1> USE DEF PhoneEffect, VideoEffect, CaptionEffect, PickEffect, LinkEffect, ScheduleEffect,
            PageEffect
<1>1. CASE phone' = phone
  BY <1>1
<1>2. CASE \E p \in Pages : /\ phone' = Show(p)
                            /\ p \in EarlyPages \/ phone.page \notin EarlyPages
  BY <1>2, ShowIs
<1> QED BY <1>1, <1>2 DEF Browse


\* The newest of the videos listed is one of them.
LEMMA FirstIsListed ==
  ASSUME gallery.index \subseteq Videos
  PROVE  FirstListed(gallery.index) \subseteq Videos
BY DEF FirstListed

\* The pages a tap of the showcase profile leads from and to.
LEMMA RoutesAreOrdered ==
  /\ \A s \in DOMAIN TapRoute :
       /\ TapRoute[s][1] \in Pages /\ TapRoute[s][2] \in Pages
       /\ TapRoute[s][2] \in EarlyPages \/ TapRoute[s][1] \notin EarlyPages
  /\ \A s \in DOMAIN OptionalRoute :
       /\ OptionalRoute[s][1] \in Pages /\ OptionalRoute[s][2] \in Pages
       /\ OptionalRoute[s][2] \in EarlyPages \/ OptionalRoute[s][1] \notin EarlyPages
BY DEF TapRoute, OptionalRoute, Pages, EarlyPages

\* A tap that opens an early page, or starts from a late one, only looks around.
LEMMA TapBrowses ==
  ASSUME NEW on \in Pages, NEW to \in Pages, to \in EarlyPages \/ on \notin EarlyPages,
         Tap(on, to)
  PROVE  Browse
BY DEF Tap, Press, Stray, Browse, Pages, EarlyPages

\* The steps of the showcase script that only look, wait, tap or leave.
LEMMA ShowcaseBrowses ==
  ASSUME \/ preflight \/ cleanup_workflow_videos_before_push \/ push_video
         \/ verify_current_gallery_video \/ tap_step \/ clear_android_permission_dialogs
         \/ optional_tap \/ wait_for_any_text \/ assert_media_picker_item_count
         \/ optional_remove_added_music \/ tap_until_any_text
         \/ input_product_publish_name \/ assert_product_link_attached
         \/ verify_showcase_schedule_configured_from_current_ui
         \/ stop_before_final_publish \/ final_publish_tap \/ minimize_app \/ finish_workflow
  PROVE  Browse
<1> USE DEF Pages, EarlyPages
<1>1. CASE \/ preflight \/ cleanup_workflow_videos_before_push \/ push_video
           \/ verify_current_gallery_video \/ wait_for_any_text
           \/ assert_media_picker_item_count \/ assert_product_link_attached
           \/ stop_before_final_publish \/ finish_workflow
  BY <1>1 DEF preflight, cleanup_workflow_videos_before_push, push_video,
              verify_current_gallery_video, wait_for_any_text, assert_media_picker_item_count,
              assert_product_link_attached, stop_before_final_publish, finish_workflow, Browse
<1>2. CASE tap_step
  <2>1. Step \in DOMAIN TapRoute
    BY <1>2 DEF tap_step
  <2>2. CASE Tap(TapRoute[Step][1], TapRoute[Step][2])
    BY <2>1, <2>2, RoutesAreOrdered, TapBrowses
  <2>3. CASE phone' = Show("askPermission")
    BY <2>3 DEF Browse
  <2> QED BY <1>2, <2>2, <2>3 DEF tap_step
<1>3. CASE clear_android_permission_dialogs
  BY <1>3 DEF clear_android_permission_dialogs, Browse
<1>4. CASE optional_tap
  <2>1. Step \in DOMAIN OptionalRoute
    BY <1>4 DEF optional_tap
  <2>2. CASE Tap(OptionalRoute[Step][1], OptionalRoute[Step][2])
    BY <2>1, <2>2, RoutesAreOrdered, TapBrowses
  <2>3. CASE UNCHANGED phone
    BY <2>3 DEF Browse
  <2> QED BY <1>4, <2>2, <2>3 DEF optional_tap
<1>5. CASE optional_remove_added_music
  BY <1>5 DEF optional_remove_added_music, Press, Browse
<1>6. CASE tap_until_any_text
  <2>1. CASE phone.page = "editor" /\ phone' = Show("preset")
    BY <2>1 DEF Browse
  <2>2. CASE UNCHANGED phone
    BY <2>2 DEF Browse
  <2>3. CASE Tap("editor", "preset")
    BY <2>3, RoutesAreOrdered DEF Tap, Press, Stray, Browse
  <2> QED BY <1>6, <2>1, <2>2, <2>3 DEF tap_until_any_text
<1>7. CASE input_product_publish_name
  BY <1>7, TapBrowses DEF input_product_publish_name
<1>8. CASE verify_showcase_schedule_configured_from_current_ui
  BY <1>8 DEF verify_showcase_schedule_configured_from_current_ui, Browse
<1>9. CASE final_publish_tap
  <2>1. CASE Tap("preset", "preset")
    BY <2>1, TapBrowses
  <2>2. CASE phone.page = "preset" /\ phone' = Show("posted")
    BY <2>2 DEF Browse
  <2>3. CASE UNCHANGED phone
    BY <2>3 DEF Browse
  <2> QED BY <1>9, <2>1, <2>2, <2>3 DEF final_publish_tap
<1>10. CASE minimize_app
  BY <1>10 DEF minimize_app, Browse
<1> QED BY <1>1, <1>2, <1>3, <1>4, <1>5, <1>6, <1>7, <1>8, <1>9, <1>10

\* What the wheels come to rest at is a time.
LEMMA WheelsShowTimes ==
  ASSUME NEW opened \in Int, NEW initial \in Int, NEW target \in Int
  PROVE  apply_wheel_adjustment(opened, initial, target) \subseteq Int
<1>1. /\ Date(initial) \in Int /\ Hour(initial) \in Int /\ Minute(initial) \in Int
      /\ Date(target) \in Int /\ Hour(target) \in Int /\ Minute(target) \in Int
  BY TimeSplits
<1>2. LET turns == [date : Int, hour : Int, minute : Int]
          deltas == compute_wheel_deltas(initial, target)
      IN  deltas \in turns /\ LostSwipes(deltas) \subseteq turns
  BY <1>1 DEF compute_wheel_deltas, LostSwipes
<1>3. \A d \in [date : Int, hour : Int, minute : Int] : scroll_wheel(opened, d) \in Int
  <2>1. Date(opened) \in Int /\ Hour(opened) \in Int /\ Minute(opened) \in Int
    BY TimeSplits
  <2> QED BY <2>1 DEF scroll_wheel, HoursPerDay, MinutesPerHour
<1> QED BY <1>2, <1>3 DEF apply_wheel_adjustment, Settled

\* The target of a run is at least the time asked for and at most two
\* extensions later.
LEMMA TargetsAreNear ==
  ASSUME job.time \in Nat, now \in Nat
  PROVE  LET resolved == resolve_publish_schedule(job.time, now)
             target == apply_schedule_lead_window(resolved, now)
         IN  /\ resolved \in Nat /\ resolved \in job.time .. job.time + 2 * Extension
             /\ target \in Nat /\ target \in job.time .. job.time + 2 * Extension
BY NativeScheduleAssumption
   DEF resolve_publish_schedule, apply_schedule_lead_window, extend_target_if_within_lead_window

\* Turning the wheels of an open picker changes the draft's time alone.
LEMMA WheelsSetTime ==
  ASSUME phone \in PhoneType, now \in Nat, phone.page = "timeDialog",
         Step = "set_schedule_datetime", NEW p \in Pages, NEW t \in Int,
         phone' = [Show(p) EXCEPT !.draft.schedule = t]
  PROVE  PhoneEffect
<1>1. Show(p) \in PhoneType
  BY ShowIs
<1>2. phone' \in PhoneType
  BY <1>1, DraftWith
<1>3. /\ phone'.draft.video = Show(p).draft.video
      /\ phone'.draft.caption = Show(p).draft.caption
      /\ phone'.draft.pick = Show(p).draft.pick
      /\ phone'.draft.link = Show(p).draft.link
  BY <1>1 DEF PhoneType, DraftType
<1> QED BY <1>2, <1>3, ShowIs
        DEF PhoneEffect, VideoEffect, CaptionEffect, PickEffect, LinkEffect, ScheduleEffect,
            PageEffect, EarlyPages

\* The steps of the showcase script that fill in the draft.
LEMMA ShowcaseFills ==
  ASSUME phone \in PhoneType, now \in Nat, gallery.index \subseteq Videos,
         job.time \in Nat,
         \/ open_app \/ tap_first_matching_node \/ paste_caption
         \/ tap_product_final_add \/ set_showcase_schedule_datetime
  PROVE  PhoneEffect
<1> USE DEF PhoneEffect, VideoEffect, CaptionEffect, PickEffect, LinkEffect, ScheduleEffect,
            PageEffect
<1>0. \A p \in Pages : Show(p) \in PhoneType
  BY ShowIs
<1>1. CASE Browse
  BY <1>1, BrowseKeepsDraft
<1>2. CASE open_app
  <2>1. CASE \E p \in {"home", "elsewhere"} : phone' = [Show(p) EXCEPT !.draft = EmptyDraft]
    <3>1. PICK p \in {"home", "elsewhere"} : phone' = [Show(p) EXCEPT !.draft = EmptyDraft]
      BY <2>1
    <3>2. p \in Pages /\ p \in EarlyPages
      BY DEF Pages, EarlyPages
    <3>3. phone' \in PhoneType /\ phone'.page = p /\ phone'.draft = EmptyDraft
      BY <3>1, <3>2, <1>0, ShowIs, DraftWith DEF PhoneType
    <3>4. Step = "open_tiktok"
      BY <1>2 DEF open_app
    <3> QED BY <3>2, <3>3, <3>4 DEF EmptyDraft
  <2>2. CASE UNCHANGED phone
    BY <2>2, <1>1 DEF Browse
  <2> QED BY <1>2, <2>1, <2>2 DEF open_app
<1>3. CASE tap_first_matching_node
  <2>1. CASE UNCHANGED phone \/ phone' = Show("elsewhere")
    BY <2>1, <1>1 DEF Browse, Pages, EarlyPages
  <2>2. CASE \E v \in FirstListed(gallery.index) : phone' = [Show("editor") EXCEPT !.draft.video = v]
    <3>1. PICK v \in FirstListed(gallery.index) :
            phone' = [Show("editor") EXCEPT !.draft.video = v]
      BY <2>2
    <3>2. "editor" \in Pages /\ v \in Videos /\ v # NoVideo
      BY FirstIsListed DEF Pages, Videos, NoVideo
    <3>3. Show("editor") \in PhoneType
      BY <1>0, <3>2
    <3>4. phone' \in PhoneType
      BY <3>1, <3>2, <3>3, DraftWith
    <3>5. /\ phone'.draft.video = v
          /\ phone'.draft.caption = Show("editor").draft.caption
          /\ phone'.draft.pick = Show("editor").draft.pick
          /\ phone'.draft.link = Show("editor").draft.link
          /\ phone'.draft.schedule = Show("editor").draft.schedule
      BY <3>1, <3>3 DEF PhoneType, DraftType
    <3>6. Step = "select_first_video"
      BY <1>3 DEF tap_first_matching_node
    <3> QED BY <3>2, <3>4, <3>5, <3>6, ShowIs
  <2> QED BY <1>3, <2>1, <2>2 DEF tap_first_matching_node, first_matching_node
<1>4. CASE paste_caption
  <2>1. CASE UNCHANGED phone \/ phone' = Show("elsewhere")
    BY <2>1, <1>1 DEF Browse, Pages, EarlyPages
  <2>2. CASE phone.page = "preset" /\ phone' = [phone EXCEPT !.draft.caption = TRUE]
    BY <2>2 DEF PhoneType, DraftType, EarlyPages
  <2> QED BY <1>4, <2>1, <2>2 DEF paste_caption
<1>5. CASE tap_product_final_add
  <2>1. CASE Tap("productName", "preset")
    BY <2>1, <1>1, TapBrowses DEF Pages, EarlyPages
  <2>2. CASE phone.page = "productName" /\ \E p \in {"preset", "askSponsor"} :
               phone' = [Show(p) EXCEPT !.draft.link = phone.draft.pick]
    <3>1. PICK p \in {"preset", "askSponsor"} :
            phone' = [Show(p) EXCEPT !.draft.link = phone.draft.pick]
      BY <2>2
    <3>2. p \in Pages /\ phone.page \notin EarlyPages /\ phone.draft.pick \in Named
      BY <2>2 DEF Pages, EarlyPages, PhoneType, DraftType
    <3>3. Show(p) \in PhoneType
      BY <1>0, <3>2
    <3>4. phone' \in PhoneType
      BY <3>1, <3>2, <3>3, DraftWith
    <3>5. /\ phone'.draft.link = phone.draft.pick
          /\ phone'.draft.video = Show(p).draft.video
          /\ phone'.draft.caption = Show(p).draft.caption
          /\ phone'.draft.pick = Show(p).draft.pick
          /\ phone'.draft.schedule = Show(p).draft.schedule
      BY <3>1, <3>3 DEF PhoneType, DraftType
    <3>6. Step = "tap_product_final_add"
      BY <1>5 DEF tap_product_final_add
    <3> QED BY <3>2, <3>4, <3>5, <3>6, ShowIs
  <2> QED BY <1>5, <2>1, <2>2 DEF tap_product_final_add
<1>6. CASE set_showcase_schedule_datetime
  <2>1. CASE UNCHANGED phone
    BY <2>1, <1>1 DEF Browse
  <2>2. CASE phone' # phone
    <3>1. PICK p \in {"settings", "timeDialog"},
               t \in apply_wheel_adjustment(
                       phone.draft.opened, infer_native_schedule_initial_from_phone_clock(now),
                       apply_schedule_lead_window(resolve_publish_schedule(job.time, now), now)) :
            /\ phone.page = "timeDialog" /\ Step = "set_schedule_datetime"
            /\ phone' = [Show(p) EXCEPT !.draft.schedule = t]
      BY <1>6, <2>2 DEF set_showcase_schedule_datetime
    <3>2. p \in Pages
      BY DEF Pages
    <3>3. phone.draft.opened \in Int
      BY DEF PhoneType, DraftType
    <3>4. infer_native_schedule_initial_from_phone_clock(now) \in Int
      BY NativeScheduleAssumption DEF infer_native_schedule_initial_from_phone_clock
    <3>5. apply_schedule_lead_window(resolve_publish_schedule(job.time, now), now) \in Int
      BY TargetsAreNear
    <3>6. t \in Int
      BY <3>3, <3>4, <3>5, WheelsShowTimes
    <3> QED BY <3>1, <3>2, <3>6, WheelsSetTime
  <2> QED BY <2>1, <2>2
<1> QED BY <1>2, <1>3, <1>4, <1>5, <1>6


\* The steps of the marketing workflow that only look, wait, tap or leave.
LEMMA MarketingBrowses ==
  ASSUME \/ require_device_ready \/ push_video_indexed \/ tap_profile_point
         \/ tap_upload_and_verify \/ refresh_media_picker \/ tap_next_and_verify
         \/ open_schedule_picker \/ wait_schedule_picker_open \/ verify_schedule_configured
         \/ tap_scheduled_publish \/ minimize_tiktok_studio \/ all_steps_done
  PROVE  Browse
<1> USE DEF Pages, EarlyPages
<1>1. CASE \/ require_device_ready \/ push_video_indexed \/ refresh_media_picker
           \/ wait_schedule_picker_open \/ verify_schedule_configured \/ all_steps_done
  BY <1>1 DEF require_device_ready, push_video_indexed, refresh_media_picker,
              wait_schedule_picker_open, verify_schedule_configured, all_steps_done, Browse
<1>2. CASE tap_profile_point
  BY <1>2, TapBrowses DEF tap_profile_point
<1>3. CASE tap_upload_and_verify
  BY <1>3 DEF tap_upload_and_verify, Browse
<1>4. CASE tap_next_and_verify
  BY <1>4 DEF tap_next_and_verify, publish_form_signal, Browse
<1>5. CASE open_schedule_picker
  BY <1>5 DEF open_schedule_picker, schedule_entry_preflight, publish_form_signal, Browse
<1>6. CASE tap_scheduled_publish
  <2>1. CASE phone.page = "preset" /\ (Press("preset") \/ phone' = Show("posted"))
    BY <2>1 DEF Press, Browse
  <2>2. CASE UNCHANGED phone
    BY <2>2 DEF Browse
  <2> QED BY <1>6, <2>1, <2>2
          DEF tap_scheduled_publish, scheduled_publish_page_signal, publish_form_signal
<1>7. CASE minimize_tiktok_studio
  BY <1>7 DEF minimize_tiktok_studio, Browse
<1> QED BY <1>1, <1>2, <1>3, <1>4, <1>5, <1>6, <1>7

\* The steps of the marketing workflow that fill in the draft.
LEMMA MarketingFills ==
  ASSUME phone \in PhoneType, now \in Nat, gallery.index \subseteq Videos, state.initial \in Int,
         job.time \in Nat,
         \/ open_target_app \/ select_first_media \/ tap_next_after_select
         \/ paste_caption_on_form \/ run_wheel_strategy
  PROVE  PhoneEffect
<1> USE DEF PhoneEffect, VideoEffect, CaptionEffect, PickEffect, LinkEffect, ScheduleEffect,
            PageEffect
<1>0. \A p \in Pages : Show(p) \in PhoneType
  BY ShowIs
<1>1. CASE Browse
  BY <1>1, BrowseKeepsDraft
<1>2. CASE open_target_app
  <2>1. PICK p \in {"home", "elsewhere"} : phone' = [Show(p) EXCEPT !.draft = EmptyDraft]
    BY <1>2 DEF open_target_app
  <2>2. p \in Pages /\ p \in EarlyPages
    BY DEF Pages, EarlyPages
  <2>3. phone' \in PhoneType /\ phone'.page = p /\ phone'.draft = EmptyDraft
    BY <2>1, <2>2, <1>0, ShowIs, DraftWith DEF PhoneType
  <2>4. Step = "open_target_app"
    BY <1>2 DEF open_target_app
  <2> QED BY <2>2, <2>3, <2>4 DEF EmptyDraft
<1>3. CASE select_first_media
  <2>1. CASE UNCHANGED phone \/ phone' = Show("elsewhere")
    BY <2>1, <1>1 DEF Browse, Pages, EarlyPages
  <2>2. CASE \E v \in FirstListed(gallery.index) : phone' = [phone EXCEPT !.draft.video = v]
    <3>1. PICK v \in FirstListed(gallery.index) : phone' = [phone EXCEPT !.draft.video = v]
      BY <2>2
    <3>2. v \in Videos /\ v # NoVideo
      BY FirstIsListed DEF Videos, NoVideo
    <3>3. phone' \in PhoneType
      BY <3>1, <3>2, DraftWith
    <3>4. Step = "select_first_video"
      BY <1>3 DEF select_first_media
    <3> QED BY <3>1, <3>2, <3>3, <3>4 DEF PhoneType, DraftType
  <2>3. FirstListed({}) = {}
    BY DEF FirstListed
  <2> QED BY <1>3, <2>1, <2>2, <2>3
          DEF select_first_media, first_media_candidate, choose_preferred_album
<1>4. CASE tap_next_after_select
  <2>1. CASE Stray
    BY <2>1, <1>1 DEF Stray, Browse, Pages, EarlyPages
  <2>2. CASE phone.draft.video # NoVideo /\ Press("editor")
    <3>1. CASE phone' = Show("editor")
      BY <2>2, <3>1, ShowIs DEF Pages
    <3>2. CASE phone' # Show("editor")
      BY <2>2, <3>2, <1>1 DEF Press, Browse, Pages, EarlyPages
    <3> QED BY <3>1, <3>2
  <2> QED BY <1>4, <2>1, <2>2 DEF tap_next_after_select
<1>5. CASE paste_caption_on_form
  <2>1. CASE UNCHANGED phone \/ phone' = Show("elsewhere")
    BY <2>1, <1>1 DEF Browse, Pages, EarlyPages
  <2>2. CASE phone.page = "preset" /\ phone' = [phone EXCEPT !.draft.caption = TRUE]
    BY <2>2 DEF PhoneType, DraftType, EarlyPages
  <2> QED BY <1>5, <2>1, <2>2 DEF paste_caption_on_form, publish_form_signal
<1>6. CASE run_wheel_strategy
  <2>1. CASE UNCHANGED phone
    BY <2>1, <1>1 DEF Browse
  <2>2. CASE phone' # phone
    <3>1. PICK p \in {"preset", "timeDialog"},
               t \in apply_wheel_adjustment(phone.draft.opened, state.initial,
                                            resolve_publish_schedule(job.time, now)) :
            /\ phone.page = "timeDialog" /\ Step = "set_schedule_datetime"
            /\ phone' = [Show(p) EXCEPT !.draft.schedule = t]
      BY <1>6, <2>2 DEF run_wheel_strategy, native_schedule_picker_signal
    <3>2. p \in Pages
      BY DEF Pages
    <3>3. phone.draft.opened \in Int
      BY DEF PhoneType, DraftType
    <3>4. resolve_publish_schedule(job.time, now) \in Int
      BY TargetsAreNear
    <3>5. t \in Int
      BY <3>3, <3>4, WheelsShowTimes
    <3> QED BY <3>1, <3>2, <3>5, WheelsSetTime
  <2> QED BY <2>1, <2>2
<1> QED BY <1>2, <1>3, <1>4, <1>5, <1>6


-----------------------------------------------------------------------------
(* The search of a product. *)

\* A moved list, a product added to the showcase or picked for the draft.
LEMMA ListsMove ==
  ASSUME NEW q \in PhoneType
  PROVE  /\ \A o \in Nat : [q EXCEPT !.offset = o] \in PhoneType
         /\ \A n \in Named : [q EXCEPT !.showcase = Added(@, n)] \in PhoneType
         /\ \A n \in Named :
              [q EXCEPT !.showcase = Added(@, n), !.draft.pick = n] \in PhoneType
<1>1. \A o \in Nat : [q EXCEPT !.offset = o] \in PhoneType
  BY DEF PhoneType
<1>2. \A n \in Named : Added(q.showcase, n) \in Seq(Named)
  BY DEF PhoneType, Added
<1>3. \A n \in Named : [q EXCEPT !.showcase = Added(@, n)] \in PhoneType
  BY <1>2 DEF PhoneType
<1>4. \A n \in Named : [q EXCEPT !.showcase = Added(@, n), !.draft.pick = n] \in PhoneType
  BY <1>2 DEF PhoneType, DraftType
<1> QED BY <1>1, <1>3, <1>4

\* What every part of the search keeps.
SearchKeeps == PhoneEffect /\ scan' \in ScanType /\ SearchInv'

\* No search is under way.
LEMMA NoScanIsTyped == NoScan \in ScanType
BY ProductSearchAssumption DEF NoScan, ScanType, Phases

\* A search that ends or is given up.
LEMMA SearchEnds ==
  ASSUME phone \in PhoneType, scan' = NoScan, PhoneEffect
  PROVE  SearchKeeps
BY NoScanIsTyped DEF SearchKeeps, SearchInv, NoScan

\* A refused search forgets the scan and leaves the phone alone.
LEMMA Refuses ==
  ASSUME phone \in PhoneType, now \in Nat, NEW kind, Refuse(kind)
  PROVE  SearchKeeps
BY SearchEnds, BrowseKeepsDraft DEF Refuse, Browse

\* A search that comes to a result.
LEMMA Finishes ==
  ASSUME phone \in PhoneType, scan \in ScanType, now \in Nat, SearchInv, scan.phase = "look",
         NEW result \in Results, result = "already_added" => phone.page \notin EarlyPages,
         finish(result)
  PROVE  SearchKeeps
<1>1. PhoneEffect
  BY BrowseKeepsDraft DEF finish, Stay, Browse
<1>2. scan' \in ScanType
  BY DEF finish, ScanType, Phases
<1>3. /\ scan'.phase = "concluded" /\ scan'.result = result
      /\ scan'.signature = scan.signature /\ scan'.same = scan.same
  BY DEF finish, ScanType
<1>4. Step' = Step /\ phone' = phone
  BY DEF finish, Stay, runVars, Step
<1>5. SearchInv'
  BY <1>3, <1>4 DEF SearchInv
<1> QED BY <1>1, <1>2, <1>5 DEF SearchKeeps

\* The next part of the step.
LEMMA Enters ==
  ASSUME phone \in PhoneType, scan \in ScanType, now \in Nat,
         Step = "ensure_showcase_product_attached", PhoneEffect,
         NEW next \in Phases \ {"press"}, next = "return" => phone'.page \notin EarlyPages,
         Enter(next)
  PROVE  SearchKeeps
<1>1. scan' \in ScanType
  BY NoScanIsTyped DEF Enter, ScanType
<1>2. scan'.phase = next /\ scan'.result = "none" /\ scan'.signature = {}
  BY DEF Enter, NoScan
<1>3. Step' = Step
  BY DEF Enter, runVars, Step
<1>4. SearchInv'
  BY <1>2, <1>3 DEF SearchInv
<1> QED BY <1>1, <1>4 DEF SearchKeeps

\* A list that is moved or opened at a card.
LEMMA SwipesKeepDraft ==
  ASSUME phone \in PhoneType, now \in Nat, swipe_product_list
  PROVE  PhoneEffect
<1>0. CASE Shown = {}
  BY <1>0, BrowseKeepsDraft DEF swipe_product_list, Stray, Browse, Pages, EarlyPages
<1> SUFFICES ASSUME Shown # {} PROVE PhoneEffect
  BY <1>0
<1>1. phone.page \in {"showcaseList", "shopList"}
  BY ShownIs
<1>2. CASE phone' = Show("detail")
  BY <1>1, <1>2, BrowseKeepsDraft DEF Browse, Pages, EarlyPages
<1>3. CASE \E o \in Nat : phone' = [phone EXCEPT !.offset = o]
  <2>1. PICK o \in Nat : phone' = [phone EXCEPT !.offset = o]
    BY <1>3
  <2>2. phone' \in PhoneType /\ phone'.draft = phone.draft /\ phone'.page = phone.page
    BY <2>1, ListsMove DEF PhoneType
  <2> QED BY <2>2 DEF PhoneEffect, VideoEffect, CaptionEffect, PickEffect, LinkEffect,
                      ScheduleEffect, PageEffect
<1>4. AtMost(phone.offset + AtLeast(1, CardsPerScreen \div 2), LastOffset(ListOf(phone.page))) \in Nat
  <2>1. Len(ListOf(phone.page)) \in Nat
    BY ListIs
  <2>2. LastOffset(ListOf(phone.page)) \in Nat
    BY <2>1, PublishPhoneAssumption DEF LastOffset, AtLeast
  <2>3. CardsPerScreen \div 2 \in Nat
    BY PublishPhoneAssumption
  <2>4. phone.offset + AtLeast(1, CardsPerScreen \div 2) \in Nat
    BY <2>3 DEF AtLeast, PhoneType
  <2> QED BY <2>2, <2>4 DEF AtMost
<1>5. phone.offset \in Nat
  BY DEF PhoneType
<1> QED BY <1>2, <1>3, <1>4, <1>5 DEF swipe_product_list

\* A swipe goes on with the names that were seen so far.
LEMMA SwipesOn ==
  ASSUME phone \in PhoneType, scan \in ScanType, now \in Nat, SearchInv, scan.phase = "look",
         NEW titled \in SUBSET Shown, NEW signature \in SUBSET Nat,
         NEW same \in 0..SameScreenLimit, signature # {} => same < SameScreenLimit,
         scan.swipes < MaxListSwipes,
         SwipeOn(titled, signature, same)
  PROVE  SearchKeeps
<1>1. PhoneEffect
  BY SwipesKeepDraft DEF SwipeOn
<1>2. Titles(titled) \subseteq Named
  BY ShownIs DEF Titles
<1>3. scan.swipes + 1 \in 0..MaxListSwipes
  BY ProductSearchAssumption DEF ScanType
<1>4. scan' \in ScanType
  BY <1>2, <1>3 DEF SwipeOn, ScanType
<1>5. /\ scan'.phase = "look" /\ scan'.result = scan.result
      /\ scan'.signature = signature /\ scan'.same = same
  BY DEF SwipeOn, ScanType
<1>6. Step' = Step
  BY DEF SwipeOn, runVars, Step
<1>7. SearchInv'
  BY <1>5, <1>6 DEF SearchInv
<1> QED BY <1>1, <1>4, <1>7 DEF SearchKeeps


\* A round of the search, on the page of a product, without cards or with.
LEMMA SearchesVisibleList ==
  ASSUME phone \in PhoneType, scan \in ScanType, now \in Nat, SearchInv,
         search_visible_product_list
  PROVE  SearchKeeps
<1>0. scan.phase = "look"
  BY DEF search_visible_product_list
<1>1. ASSUME NEW result \in Results \ {"already_added"}, finish(result) PROVE SearchKeeps
  BY <1>0, <1>1, Finishes
<1>2. ASSUME NEW kind, Refuse(kind) PROVE SearchKeeps
  BY <1>2, Refuses
<1>3. CASE recover_from_product_detail_page
  <2>1. CASE finish("not_product_list")
    BY <2>1, <1>1 DEF Results
  <2>2. CASE /\ phone' = Show(IF scan.area = "tiktok_shop" THEN "shopList" ELSE "showcaseList")
             /\ UNCHANGED <<scan, runVars>>
    <3>1. PICK p \in {"shopList", "showcaseList"} : phone' = Show(p)
      BY <2>2
    <3>2. PhoneEffect
      BY <1>3, <3>1, BrowseKeepsDraft
         DEF recover_from_product_detail_page, product_detail_page_visible, Browse, Pages, EarlyPages
    <3>3. Step' = Step /\ scan' = scan
      BY <2>2 DEF runVars, Step
    <3>4. SearchInv'
      BY <1>0, <3>3 DEF SearchInv
    <3> QED BY <3>2, <3>3, <3>4 DEF SearchKeeps
  <2> QED BY <1>3, <2>1, <2>2 DEF recover_from_product_detail_page
<1>6. ASSUME NEW cards \in SUBSET Nat, NEW titled \in SUBSET Shown, NoMatch(cards, titled)
      PROVE  SearchKeeps
  <2>1. CASE finish("not_found")
    BY <2>1, <1>1 DEF Results
  <2>2. CASE ~finish("not_found")
    <3>1. scan.same + 1 \in Nat /\ scan.same \in Nat /\ scan.swipes \in Nat
      BY DEF ScanType
    <3>2. PICK same \in {scan.same + 1, 0} :
            /\ same < SameScreenLimit /\ scan.swipes < MaxListSwipes
            /\ SwipeOn(titled, cards, same)
      BY <1>6, <2>2, <3>1, ProductSearchAssumption DEF NoMatch
    <3>3. same \in 0..SameScreenLimit
      BY <3>1, <3>2, ProductSearchAssumption
    <3> QED BY <1>0, <3>2, <3>3, SwipesOn
  <2> QED BY <2>1, <2>2
<1>4. CASE look_without_cards
  BY <1>1, <1>6, <1>4 DEF look_without_cards, Results
<1>5. CASE look_at_cards
  <2>0. Shown # {} /\ Shown \subseteq Nat /\ phone.page \notin EarlyPages
    BY <1>5, ShownIs DEF look_at_cards, EarlyPages
  <2>1. PICK titled \in SUBSET Shown :
               LET matches == matching_product_cards(titled)
               IN  \/ Cardinality(matches) > 1 /\ Refuse("retryable")
                   \/ titled = {} /\ finish("titles_unreadable")
                   \/ titled # {} /\ matches = {} /\ NoMatch(Shown, titled)
                   \/ \E i \in matches : matches = {i} /\ OneMatch(titled, i)
    BY <1>5 DEF look_at_cards, wait_for_product_card_titles
  <2>2. scan.same + 1 \in Nat /\ scan.same \in Nat /\ scan.swipes \in Nat
    BY DEF ScanType
  <2>3. CASE NoMatch(Shown, titled)
    BY <1>6, <2>0, <2>3
  <2>4. ASSUME NEW i \in matching_product_cards(titled), OneMatch(titled, i) PROVE SearchKeeps
    <3>0. i \in Shown /\ ListOf(phone.page)[i] \in Lookalikes
      BY <2>4 DEF matching_product_cards
    <3>1. CASE finish("matched") \/ finish("not_found")
      BY <3>1, <1>1 DEF Results
    <3>2. CASE finish("already_added")
      BY <1>0, <2>0, <3>2, Finishes DEF Results
    <3>3. CASE /\ scan.swipes < MaxListSwipes
               /\ SwipeOn(titled, {}, IF SameAsBefore(Shown, titled) THEN scan.same + 1 ELSE 0)
      <4>1. SameAsBefore(Shown, titled) => scan.same < SameScreenLimit
        BY DEF SameAsBefore, SearchInv
      <4>2. PICK same \in 0..SameScreenLimit : SwipeOn(titled, {}, same)
        BY <2>2, <3>3, <4>1, ProductSearchAssumption
      <4> QED BY <1>0, <2>0, <3>3, <4>2, SwipesOn
    <3>4. CASE scan' = [scan EXCEPT !.phase = "press", !.card = i] /\ Stay
      <4>1. PhoneEffect
        BY <3>4, BrowseKeepsDraft DEF Stay, Browse
      <4>2. i \in Nat /\ i \in DOMAIN ListOf(phone.page)
        BY <3>0, ShownIs
      <4>3. scan' \in ScanType /\ scan'.phase = "press" /\ scan'.card = i
            /\ scan'.signature = scan.signature /\ scan'.same = scan.same
        BY <3>4, <4>2 DEF ScanType, Phases
      <4>4. Step' = Step /\ phone' = phone /\ ListOf(phone.page)' = ListOf(phone.page)
        BY <3>4 DEF Stay, runVars, Step, ListOf
      <4>5. SearchInv'
        BY <1>0, <3>0, <4>2, <4>3, <4>4 DEF SearchInv
      <4> QED BY <4>1, <4>3, <4>5 DEF SearchKeeps
    <3> QED BY <2>2, <2>4, <3>1, <3>2, <3>3, <3>4, ProductSearchAssumption DEF OneMatch
  <2> QED BY <1>1, <1>2, <2>1, <2>3, <2>4 DEF Results
<1> QED BY <1>2, <1>3, <1>4, <1>5 DEF search_visible_product_list

\* The button of a card: only its product gets into the draft.
LEMMA ButtonPicks ==
  ASSUME phone \in PhoneType, now \in Nat, phone.page \in {"showcaseList", "shopList"},
         NEW n \in Named, n \in Lookalikes \/ job.addTextElsewhere, phone' \in AfterPress(n)
  PROVE  PhoneEffect
<1> USE DEF PhoneEffect, VideoEffect, CaptionEffect, PickEffect, LinkEffect, ScheduleEffect,
            PageEffect
<1>0. phone.page \notin EarlyPages /\ \A p \in Pages : Show(p) \in PhoneType
  BY ShowIs DEF EarlyPages
<1>1. CASE phone' = Show("search")
  BY <1>0, <1>1, BrowseKeepsDraft DEF Browse, Pages
<1>2. CASE \E p \in {"askAdd", "productName"} : phone' = [Show(p) EXCEPT !.draft.pick = n]
  <2>1. PICK p \in {"askAdd", "productName"} : phone' = [Show(p) EXCEPT !.draft.pick = n]
    BY <1>2
  <2>2. p \in Pages /\ Show(p) \in PhoneType
    BY <1>0 DEF Pages
  <2>3. phone' \in PhoneType
    BY <2>1, <2>2, DraftWith
  <2>4. /\ phone'.draft.pick = n
        /\ phone'.draft.video = Show(p).draft.video
        /\ phone'.draft.caption = Show(p).draft.caption
        /\ phone'.draft.link = Show(p).draft.link
        /\ phone'.draft.schedule = Show(p).draft.schedule
    BY <2>1, <2>2 DEF PhoneType, DraftType
  <2> QED BY <1>0, <2>2, <2>3, <2>4, ShowIs
<1>3. CASE phone' = [phone EXCEPT !.showcase = Added(@, n)]
  <2>1. phone' \in PhoneType /\ phone'.draft = phone.draft /\ phone'.page = phone.page
    BY <1>3, ListsMove DEF PhoneType
  <2> QED BY <1>0, <2>1
<1>4. CASE phone' = [Show("productName") EXCEPT !.showcase = Added(@, n), !.draft.pick = n]
  <2>1. "productName" \in Pages /\ Show("productName") \in PhoneType
    BY <1>0 DEF Pages
  <2>2. phone' \in PhoneType
    BY <1>4, <2>1, ListsMove
  <2>3. /\ phone'.draft.pick = n
        /\ phone'.draft.video = Show("productName").draft.video
        /\ phone'.draft.caption = Show("productName").draft.caption
        /\ phone'.draft.link = Show("productName").draft.link
        /\ phone'.draft.schedule = Show("productName").draft.schedule
    BY <1>4, <2>1 DEF PhoneType, DraftType
  <2> QED BY <1>0, <2>1, <2>2, <2>3, ShowIs
<1> QED BY <1>1, <1>2, <1>3, <1>4 DEF AfterPress

\* The button of the chosen card, whose title matches.
LEMMA Presses ==
  ASSUME phone \in PhoneType, scan \in ScanType, now \in Nat, SearchInv, press_add_button
  PROVE  SearchKeeps
<1>1. /\ Chosen \in Lookalikes /\ Chosen \in Named /\ scan.phase = "press"
      /\ phone.page \in {"showcaseList", "shopList"}
  <2>1. scan.phase = "press" /\ scan.card \in DOMAIN ListOf(phone.page)
        /\ ListOf(phone.page)[scan.card] \in Lookalikes
    BY DEF press_add_button, SearchInv
  <2> QED BY <2>1, ListIs, PublishPhoneAssumption DEF Chosen, Named
<1>2. CASE phone' = Show("elsewhere") /\ scan' = NoScan
  BY <1>2, SearchEnds, BrowseKeepsDraft DEF Browse, Pages, EarlyPages
<1>3. CASE /\ phone' \in AfterPress(Chosen) \cup {phone}
           /\ scan' = [scan EXCEPT !.phase = "concluded", !.result = "matched"]
           /\ UNCHANGED runVars
  <2>1. PhoneEffect
    BY <1>1, <1>3, ButtonPicks, BrowseKeepsDraft DEF Browse
  <2>2. /\ scan' \in ScanType /\ scan'.phase = "concluded" /\ scan'.result = "matched"
        /\ scan'.signature = scan.signature /\ scan'.same = scan.same
    BY <1>3 DEF ScanType, Phases, Results
  <2>3. Step' = Step
    BY <1>3 DEF runVars, Step
  <2>4. SearchInv'
    BY <1>1, <2>2, <2>3 DEF SearchInv
  <2> QED BY <2>1, <2>2, <2>4 DEF SearchKeeps
<1> QED BY <1>2, <1>3 DEF press_add_button

\* What the confirmation presses is the dialog's button, or, where a page is
\* taken for the dialog, that of any card or of the product's name.
LEMMA Confirms ==
  ASSUME phone \in PhoneType, now \in Nat, Step = "ensure_showcase_product_attached",
         centered_modal_dialog_visible \/ job.addTextElsewhere, phone' \in AfterConfirm \cup {phone}
  PROVE  PhoneEffect
<1> USE DEF PhoneEffect, VideoEffect, CaptionEffect, PickEffect, LinkEffect, ScheduleEffect,
            PageEffect
<1>1. CASE phone' = phone
  BY <1>1
<1>2. CASE \E p \in {"detail", "preset", "elsewhere"} :
             phone' = Show(p) /\ (p = "elsewhere" \/ phone.page \in {"shopList", "productName"})
  BY <1>2, BrowseKeepsDraft DEF Browse, Pages, EarlyPages
<1>3. CASE phone.page = "askAdd" /\ \E p \in {"shopList", "productName", "search", "elsewhere"} :
             phone' = [Show(p) EXCEPT !.showcase = Added(@, phone.draft.pick)]
  <2>1. PICK p \in {"shopList", "productName", "search", "elsewhere"} :
          phone' = [Show(p) EXCEPT !.showcase = Added(@, phone.draft.pick)]
    BY <1>3
  <2>2. p \in Pages /\ phone.draft.pick \in Named
    BY DEF Pages, PhoneType, DraftType
  <2>3. Show(p) \in PhoneType
    BY <2>2, ShowIs
  <2>4. phone' \in PhoneType /\ phone'.draft = Show(p).draft /\ phone'.page = Show(p).page
    BY <2>1, <2>2, <2>3, ListsMove DEF PhoneType
  <2> QED BY <1>3, <2>2, <2>4, ShowIs DEF EarlyPages
<1>4. CASE phone.page = "shopList" /\ \E i \in Shown : phone' \in AfterPress(ListOf(phone.page)[i])
  BY <1>4, ShownIs, ButtonPicks DEF centered_modal_dialog_visible
<1>5. CASE phone.page = "productName" /\ \E p \in {"preset", "askSponsor"} :
             phone' = [Show(p) EXCEPT !.draft.link = phone.draft.pick]
  <2>1. PICK p \in {"preset", "askSponsor"} : phone' = [Show(p) EXCEPT !.draft.link = phone.draft.pick]
    BY <1>5
  <2>2. p \in Pages /\ phone.draft.pick \in Named
    BY DEF Pages, PhoneType, DraftType
  <2>5. Show(p) \in PhoneType
    BY <2>2, ShowIs
  <2>3. phone' \in PhoneType
    BY <2>1, <2>2, <2>5, DraftWith
  <2>4. /\ phone'.draft.link = phone.draft.pick
        /\ phone'.draft.video = Show(p).draft.video
        /\ phone'.draft.caption = Show(p).draft.caption
        /\ phone'.draft.pick = Show(p).draft.pick
        /\ phone'.draft.schedule = Show(p).draft.schedule
    BY <2>1, <2>2, <2>5 DEF PhoneType, DraftType
  <2> QED BY <1>5, <2>2, <2>3, <2>4, <2>5, ShowIs DEF EarlyPages
<1> QED BY <1>1, <1>2, <1>3, <1>4, <1>5 DEF AfterConfirm

\* A search begins at the top of its list, or where the list was left.
LEMMA Begins ==
  ASSUME phone \in PhoneType, scan \in ScanType, now \in Nat,
         Step = "ensure_showcase_product_attached", NEW area \in Areas, begin_search(area)
  PROVE  SearchKeeps
<1>1. CASE Refuse("retryable")
  BY <1>1, Refuses
<1>2. CASE /\ scan' = [NoScan EXCEPT !.area = area, !.phase = "look"]
           /\ reset_product_list_to_top /\ UNCHANGED runVars
  <2>1. PhoneEffect
    <3>1. CASE phone' = phone
      BY <3>1, BrowseKeepsDraft DEF Browse
    <3>2. CASE phone' = [phone EXCEPT !.offset = 0]
      <4>1. phone' \in PhoneType /\ phone'.draft = phone.draft /\ phone'.page = phone.page
        BY <3>2, ListsMove DEF PhoneType
      <4> QED BY <4>1 DEF PhoneEffect, VideoEffect, CaptionEffect, PickEffect, LinkEffect,
                          ScheduleEffect, PageEffect
    <3>3. [phone EXCEPT !.offset = phone.offset] = phone
      BY DEF PhoneType
    <3> QED BY <1>2, <3>1, <3>2, <3>3 DEF reset_product_list_to_top
  <2>2. scan' \in ScanType
    BY <1>2, NoScanIsTyped DEF ScanType, Phases
  <2>3. scan'.phase = "look" /\ scan'.signature = {}
    BY <1>2 DEF NoScan
  <2>4. Step' = Step
    BY <1>2 DEF runVars, Step
  <2>5. SearchInv'
    BY <2>3, <2>4 DEF SearchInv
  <2> QED BY <2>1, <2>2, <2>5 DEF SearchKeeps
<1> QED BY <1>1, <1>2 DEF begin_search

\* Adding a product from TikTok Shop, and the way back to the showcase.
LEMMA AddsFromShop ==
  ASSUME phone \in PhoneType, scan \in ScanType, now \in Nat, SearchInv,
         Step = "ensure_showcase_product_attached",
         \/ after_showcase_search \/ after_shop_search
         \/ tap_add_more_products \/ tap_tiktok_shop_tab
         \/ confirm_shop_add_dialog_if_present \/ classify_shop_post_add_screen
         \/ return_to_showcase_product_list
  PROVE  SearchKeeps
<1> USE DEF Phases
<1>0. ASSUME UNCHANGED phone PROVE PhoneEffect
  BY <1>0, BrowseKeepsDraft DEF Browse
<1>1. ASSUME NEW next \in Phases \ {"press", "return"}, Enter(next), PhoneEffect
      PROVE  SearchKeeps
  BY <1>1, Enters
<1>2. ASSUME NEW kind, Refuse(kind) PROVE SearchKeeps
  BY <1>2, Refuses
<1>3. CASE Attached
  BY <1>0, <1>1, <1>3 DEF Attached
<1>4. CASE after_showcase_search
  BY <1>0, <1>1, <1>2, <1>3, <1>4 DEF after_showcase_search
<1>5. CASE after_shop_search
  <2>1. CASE Enter("return") /\ UNCHANGED phone /\ scan.result = "already_added"
    <3>1. phone.page \notin EarlyPages
      BY <1>5, <2>1 DEF after_shop_search, SearchInv
    <3> QED BY <1>0, <2>1, <3>1, Enters
  <2>2. CASE Enter("confirm") /\ UNCHANGED phone
    BY <1>0, <1>1, <2>2
  <2> QED BY <1>2, <1>5, <2>1, <2>2 DEF after_shop_search
<1>6. CASE tap_add_more_products \/ tap_tiktok_shop_tab
  <2>1. Browse
    BY <1>6, TapBrowses DEF tap_add_more_products, tap_tiktok_shop_tab, Pages, EarlyPages
  <2> QED BY <1>1, <1>6, <2>1, BrowseKeepsDraft DEF tap_add_more_products, tap_tiktok_shop_tab
<1>7. CASE confirm_shop_add_dialog_if_present
  <2>1. CASE UNCHANGED phone /\ Enter("postAdd")
    BY <1>0, <1>1, <2>1
  <2>2. ASSUME PhoneEffect, (scan' = NoScan /\ Fail("final")) \/ Enter("postAdd") PROVE SearchKeeps
    BY <1>1, <2>2, SearchEnds
  <2>3. ASSUME centered_modal_dialog_visible \/ job.addTextElsewhere,
               phone' \in AfterConfirm \cup {phone}
        PROVE  PhoneEffect
    BY <2>3, Confirms
  <2> QED BY <1>7, <2>1, <2>2, <2>3 DEF confirm_shop_add_dialog_if_present
<1>8. CASE classify_shop_post_add_screen
  <2>1. CASE Shown # {} /\ Enter("return") /\ UNCHANGED phone
    <3>1. phone.page \notin EarlyPages
      BY <2>1, ShownIs DEF EarlyPages
    <3> QED BY <1>0, <2>1, <3>1, Enters
  <2> QED BY <1>2, <1>3, <1>8, <2>1 DEF classify_shop_post_add_screen
<1>9. CASE return_to_showcase_product_list
  <2>1. phone.page \notin EarlyPages
    BY <1>9 DEF return_to_showcase_product_list, SearchInv
  <2>2. CASE phone' = Show("showcaseList") /\ Enter("verify")
    <3>1. PhoneEffect
      BY <2>1, <2>2, BrowseKeepsDraft DEF Browse, Pages
    <3> QED BY <1>1, <2>2, <3>1
  <2>3. CASE UNCHANGED phone /\ Enter("verify")
    BY <1>0, <1>1, <2>3
  <2> QED BY <1>2, <1>9, <2>2, <2>3 DEF return_to_showcase_product_list
<1> QED BY <1>4, <1>5, <1>6, <1>7, <1>8, <1>9

\* Every step of the search.
LEMMA SearchStep ==
  ASSUME phone \in PhoneType, scan \in ScanType, now \in Nat, SearchInv,
         ensure_showcase_product_attached
  PROVE  SearchKeeps
<1>1. Step = "ensure_showcase_product_attached"
  BY DEF ensure_showcase_product_attached
<1>2. \A area \in Areas : begin_search(area) => SearchKeeps
  BY <1>1, Begins
<1>3. {"showcase", "tiktok_shop", "showcase_verify"} \subseteq Areas
  BY DEF Areas
<1>4. scan' = NoScan /\ UNCHANGED phone => SearchKeeps
  BY SearchEnds, BrowseKeepsDraft DEF Browse
<1> QED BY <1>1, <1>2, <1>3, <1>4, SearchesVisibleList, Presses, AddsFromShop
        DEF ensure_showcase_product_attached


-----------------------------------------------------------------------------
(* What a step of a script may do to the state of the run and the gallery. *)

Advances == todo # << >> /\ todo' = Tail(todo)

\* The state file counts a schedule as verified only for the time the draft has.
VerifiedEffect ==
  \/ /\ state'.verified = state.verified /\ state'.target = state.target
     /\ state'.configured = state.configured
  \/ Step = "set_schedule_datetime" /\ (state'.verified => state.verified)
  \/ /\ Step = "verify_schedule_configured" /\ Advances
     /\ state.configured /\ state'.configured /\ state'.target = state.target
     /\ phone.draft.schedule # NoTime
     /\ WithinTolerance(phone.draft.schedule, state.target)

ConfiguredEffect ==
  state'.configured => \/ state.configured /\ state'.target = state.target
                       \/ state'.target \in job.time .. job.time + 2 * Extension

RunEffect == /\ outcome' \in Outcomes /\ state' \in StateType
             /\ VerifiedEffect /\ ConfiguredEffect
             /\ state'.stopped => state.stopped \/ todo' = << >>

\* What the steps that look have seen when they are done.
SeenEffect ==
  /\ Step = "assert_product_link_attached" => phone' = phone
  /\ Advances =>
       /\ Step = "push_video" /\ (job.account = "marketing" \/ ~job.indexLags) =>
            "task" \in gallery'.index
       /\ Step = "tap_next_until_publish_preset" => phone'.page \notin EarlyPages
       /\ Step = "paste_caption" /\ job.account = "showcase" => phone'.draft.caption \/ job.dry
       /\ Step = "wait_return_to_publish_preset" => phone'.page = "preset"
       /\ Step = "assert_product_link_attached" => first_product_link_match
       /\ Step = "verify_schedule_configured" => state'.verified

GalleryEffect ==
  /\ gallery' \in [files : SUBSET Videos, index : SUBSET Videos]
  /\ gallery' = gallery \/ Step \in {"pre_push_gallery_cleanup", "push_video"}

ScriptEffect == RunEffect /\ SeenEffect /\ GalleryEffect

\* What the lemmas on single steps start from.
RunTyped ==
  /\ todo \in Seq(STRING) /\ ToSet(todo) \subseteq ToSet(WorkflowSteps)
  /\ state \in StateType /\ outcome \in Outcomes
  /\ gallery \in [files : SUBSET Videos, index : SUBSET Videos]
  /\ phone \in PhoneType /\ now \in Nat
  /\ job \in JobOptions

\* A step that fails does not advance.
LEMMA TailIsShorter ==
  ASSUME RunTyped, todo # << >>
  PROVE  Tail(todo) # todo
BY HeadTailProperties, EmptySeq DEF RunTyped

\* The step that is recorded is one of the workflow's.
LEMMA StepIsKnown ==
  ASSUME RunTyped, Step # "end"
  PROVE  Step \in ToSet(WorkflowSteps)
<1>1. todo # << >> /\ Step = Head(todo)
  BY StepIsHead
<1>2. Head(todo) \in ToSet(todo)
  BY <1>1 DEF RunTyped, ToSet
<1> QED BY <1>1, <1>2 DEF RunTyped

\* Most steps are only recorded.
LEMMA PlainRun ==
  ASSUME RunTyped,
         \/ Complete(state) /\ Step # "end"
         \/ UNCHANGED state /\ outcome' \in Outcomes
  PROVE  RunEffect
<1> USE DEF RunTyped, RunEffect, VerifiedEffect, ConfiguredEffect
<1>1. CASE UNCHANGED state /\ outcome' \in Outcomes
  BY <1>1
<1>2. CASE Record(state) /\ Step # "end"
  <2>1. /\ state' \in StateType /\ state'.verified = state.verified
        /\ state'.configured = state.configured /\ state'.target = state.target
        /\ state'.stopped = state.stopped
    BY <1>2, StepIsKnown DEF Record, StateType
  <2> QED BY <1>2, <2>1 DEF Record
<1> QED BY <1>1, <1>2 DEF Complete, Fail, Outcomes

\* A failed step ends the run and leaves phone, gallery and posts alone.
LEMMA FailsPlainly ==
  ASSUME RunTyped, NEW kind \in Outcomes, Fail(kind)
  PROVE  RunEffect
BY PlainRun DEF Fail

\* Steps that look at nothing have nothing to answer for.
LEMMA NothingSeen ==
  ASSUME Step \notin {"push_video", "tap_next_until_publish_preset", "paste_caption",
                      "wait_return_to_publish_preset", "assert_product_link_attached",
                      "verify_schedule_configured"}
  PROVE  SeenEffect
BY DEF SeenEffect

\* The end of a step that is only recorded, or fails.
Ends == \/ Complete(state) /\ Step # "end"
        \/ Fail("retryable") \/ Fail("final")

\* A step that completes or fails without touching the phone has no other effect.
LEMMA EndsPlainly ==
  ASSUME RunTyped, Ends
  PROVE  RunEffect /\ (Advances => Record(state))
BY PlainRun, FailsPlainly, TailIsShorter DEF Ends, Advances, Complete, Fail, Outcomes

\* The preparation of the phone.
LEMMA PreparationRuns ==
  ASSUME RunTyped, job.account = "showcase",
         \/ preflight \/ cleanup_workflow_videos_before_push \/ push_video
         \/ verify_current_gallery_video
  PROVE  ScriptEffect
<1> USE DEF ScriptEffect, RunTyped
<1>1. CASE preflight
  BY <1>1, PlainRun, FailsPlainly, NothingSeen DEF preflight, GalleryEffect, mediaVars, Outcomes
<1>2. CASE cleanup_workflow_videos_before_push
  BY <1>2, EndsPlainly, NothingSeen
     DEF cleanup_workflow_videos_before_push, GalleryEffect, Ends, list_gallery_video_paths
<1>3. CASE push_video
  <2>1. Step = "push_video"
    BY <1>3 DEF push_video
  <2>0. PICK listed \in {TRUE, ~job.indexLags} :
          gallery' = [files |-> gallery.files \cup {"task"},
                      index |-> IF listed THEN gallery.index \cup {"task"}
                                          ELSE gallery.index \ {"task"}]
    BY <1>3 DEF push_video
  <2>2. gallery' \in [files : SUBSET Videos, index : SUBSET Videos]
    <3>1. (IF listed THEN gallery.index \cup {"task"} ELSE gallery.index \ {"task"})
            \in SUBSET Videos
      BY DEF Videos
    <3> QED BY <2>0, <3>1 DEF Videos
  <2>3. ~job.indexLags => "task" \in gallery'.index
    <3>1. ~job.indexLags => listed
      BY Zenon
    <3> QED BY <2>0, <3>1
  <2>4. RunEffect
    BY <1>3, EndsPlainly DEF push_video, Ends
  <2> QED BY <2>1, <2>2, <2>3, <2>4 DEF SeenEffect, GalleryEffect
<1>4. CASE verify_current_gallery_video
  BY <1>4, EndsPlainly, NothingSeen DEF verify_current_gallery_video, GalleryEffect, Ends, mediaVars
<1> QED BY <1>1, <1>2, <1>3, <1>4


\* The steps that go through the pages of TikTok.
LEMMA PagesRun ==
  ASSUME RunTyped,
         \/ open_app \/ tap_step \/ clear_android_permission_dialogs \/ optional_tap
         \/ wait_for_any_text \/ assert_media_picker_item_count \/ tap_first_matching_node
         \/ optional_remove_added_music \/ tap_until_any_text
  PROVE  ScriptEffect
<1> USE DEF ScriptEffect, GalleryEffect, RunTyped, mediaVars
<1>1. CASE open_app
  BY <1>1, EndsPlainly, NothingSeen DEF open_app, Ends
<1>2. CASE tap_step
  <2>1. Step \in DOMAIN TapRoute
    BY <1>2 DEF tap_step
  <2>2. Ends /\ SeenEffect
    BY <1>2, <2>1, NothingSeen DEF tap_step, Ends, TapRoute
  <2> QED BY <1>2, <2>2, EndsPlainly DEF tap_step
<1>3. CASE clear_android_permission_dialogs
  <2>1. SeenEffect
    BY <1>3, NothingSeen DEF clear_android_permission_dialogs, TapRoute
  <2> QED BY <1>3, <2>1, PlainRun DEF clear_android_permission_dialogs, runVars
<1>4. CASE optional_tap
  <2>1. Step \in DOMAIN OptionalRoute
    BY <1>4 DEF optional_tap
  <2>2. Ends /\ SeenEffect
    BY <1>4, <2>1, NothingSeen DEF optional_tap, Ends, OptionalRoute
  <2> QED BY <1>4, <2>2, EndsPlainly DEF optional_tap
<1>5. CASE wait_for_any_text
  <2>1. Step \in DOMAIN AwaitedPage /\ Step # "end"
    BY <1>5 DEF wait_for_any_text, AwaitedPage
  <2>2. Ends
    BY <1>5, <2>1 DEF wait_for_any_text, Ends
  <2>3. Advances => xml_has_any_text(AwaitedPage[Step]) /\ phone' = phone
    BY <1>5, TailIsShorter DEF wait_for_any_text, Fail, Advances
  <2>4. SeenEffect
    <3>1. CASE Step = "wait_return_to_publish_preset"
      BY <2>3, <3>1 DEF SeenEffect, xml_has_any_text, AwaitedPage
    <3>2. CASE Step # "wait_return_to_publish_preset"
      BY <2>1, <3>2, NothingSeen DEF AwaitedPage
    <3> QED BY <3>1, <3>2
  <2> QED BY <1>5, <2>2, <2>4, EndsPlainly DEF wait_for_any_text
<1>6. CASE assert_media_picker_item_count
  BY <1>6, EndsPlainly, NothingSeen DEF assert_media_picker_item_count, Ends
<1>7. CASE tap_first_matching_node
  BY <1>7, EndsPlainly, NothingSeen DEF tap_first_matching_node, Ends
<1>8. CASE optional_remove_added_music
  BY <1>8, EndsPlainly, NothingSeen DEF optional_remove_added_music, Ends
<1>9. CASE tap_until_any_text
  <2>1. Step = "tap_next_until_publish_preset" /\ Ends
    BY <1>9 DEF tap_until_any_text, Ends
  <2>2. Advances => phone'.page = "preset"
    <3>1. Advances => phone' = Show("preset") \/ (phone.page = "preset" /\ phone' = phone)
      BY <1>9, TailIsShorter DEF tap_until_any_text, Fail, Advances
    <3> QED BY <3>1, ShowIs DEF Pages
  <2>3. SeenEffect
    BY <2>1, <2>2 DEF SeenEffect, EarlyPages
  <2> QED BY <1>9, <2>1, <2>3, EndsPlainly DEF tap_until_any_text
<1> QED BY <1>1, <1>2, <1>3, <1>4, <1>5, <1>6, <1>7, <1>8, <1>9

\* The steps of the showcase script that fill in the form or end the run.
LEMMA FormRuns ==
  ASSUME RunTyped, job.account = "showcase",
         \/ paste_caption \/ input_product_publish_name \/ tap_product_final_add
         \/ assert_product_link_attached \/ set_showcase_schedule_datetime
         \/ verify_showcase_schedule_configured_from_current_ui
         \/ stop_before_final_publish \/ final_publish_tap \/ minimize_app \/ finish_workflow
  PROVE  ScriptEffect
<1> USE DEF ScriptEffect, GalleryEffect, RunTyped, mediaVars
<1>1. CASE paste_caption
  <2>1. Step = "paste_caption" /\ Ends
    BY <1>1 DEF paste_caption, Ends
  <2>2. Advances => phone'.draft.caption \/ job.dry
    BY <1>1, TailIsShorter DEF paste_caption, Fail, Advances, PhoneType, DraftType
  <2>3. SeenEffect
    BY <2>1, <2>2 DEF SeenEffect
  <2> QED BY <1>1, <2>1, <2>3, EndsPlainly DEF paste_caption
<1>2. CASE input_product_publish_name \/ tap_product_final_add
  BY <1>2, EndsPlainly, NothingSeen DEF input_product_publish_name, tap_product_final_add, Ends
<1>3. CASE assert_product_link_attached
  <2>1. Step = "assert_product_link_attached" /\ Ends /\ phone' = phone
    BY <1>3 DEF assert_product_link_attached, Ends
  <2>2. Advances => first_product_link_match
    BY <1>3, TailIsShorter DEF assert_product_link_attached, Fail, Advances
  <2>3. SeenEffect
    BY <2>1, <2>2 DEF SeenEffect
  <2> QED BY <1>3, <2>1, <2>3, EndsPlainly DEF assert_product_link_attached
<1>4. CASE set_showcase_schedule_datetime
  <2> DEFINE target == apply_schedule_lead_window(resolve_publish_schedule(job.time, now), now)
             initial == infer_native_schedule_initial_from_phone_clock(now)
  <2>1. Step = "set_schedule_datetime" /\ gallery' = gallery
    BY <1>4 DEF set_showcase_schedule_datetime
  <2>2. CASE Fail("retryable")
    BY <2>1, <2>2, FailsPlainly, NothingSeen DEF Outcomes
  <2>3. CASE outcome' = "retryable" /\ state' = NewState
    <3>1. NewState \in StateType /\ ~NewState.verified /\ ~NewState.configured /\ ~NewState.stopped
      BY DEF NewState, StateType, NoTime
    <3> QED BY <2>1, <2>3, <3>1, NothingSeen
            DEF RunEffect, VerifiedEffect, ConfiguredEffect, Outcomes
  <2>4. CASE Record([state EXCEPT !.configured = TRUE, !.target = target, !.initial = initial])
    <3>1. /\ target \in Nat /\ target \in job.time .. job.time + 2 * Extension
      BY TargetsAreNear DEF JobOptions
    <3>2. initial \in Nat
      BY NativeScheduleAssumption DEF infer_native_schedule_initial_from_phone_clock
    <3>3. Step \in ToSet(WorkflowSteps)
      BY <2>1, StepIsKnown
    <3> HIDE DEF target, initial
    <3>4. /\ state' \in StateType /\ state'.target = target /\ state'.stopped = state.stopped
          /\ state'.verified = state.verified /\ outcome' = outcome
      BY <2>4, <3>1, <3>2, <3>3 DEF Record, StateType
    <3>5. RunEffect
      BY <2>1, <3>1, <3>4 DEF RunEffect, VerifiedEffect, ConfiguredEffect
    <3> QED BY <2>1, <3>5, NothingSeen
  <2> QED BY <1>4, <2>2, <2>3, <2>4 DEF set_showcase_schedule_datetime
<1>5. CASE verify_showcase_schedule_configured_from_current_ui
  <2>1. Step = "verify_schedule_configured" /\ gallery' = gallery
    BY <1>5 DEF verify_showcase_schedule_configured_from_current_ui
  <2>2. CASE Fail("retryable")
    BY <2>1, <2>2, FailsPlainly, TailIsShorter DEF Outcomes, SeenEffect, Advances, Fail
  <2>3. CASE /\ state.configured
             /\ \E shown \in schedule_datetime_candidates_from_xml :
                  verify_showcase_schedule_configured(shown, state.target, ShowcaseTolerance)
             /\ Record([state EXCEPT !.verified = TRUE])
    <3>1. /\ state' \in StateType /\ state'.verified /\ state'.target = state.target
          /\ state'.configured = state.configured /\ state'.stopped = state.stopped
          /\ outcome' = outcome /\ Advances
      BY <2>1, <2>3, StepIsKnown, StepIsHead DEF Record, StateType, Advances
    <3>2. phone.draft.schedule # NoTime /\ WithinTolerance(phone.draft.schedule, state.target)
      BY <2>3 DEF schedule_datetime_candidates_from_xml, WithinTolerance
    <3> QED BY <2>1, <2>3, <3>1, <3>2
            DEF RunEffect, VerifiedEffect, ConfiguredEffect, SeenEffect
  <2>4. Complete([state EXCEPT !.verified = TRUE]) =>
          Record([state EXCEPT !.verified = TRUE]) \/ Fail("retryable")
    BY DEF Complete
  <2> QED BY <1>5, <2>2, <2>3, <2>4 DEF verify_showcase_schedule_configured_from_current_ui
<1>6. CASE stop_before_final_publish
  <2>1. /\ state' \in StateType /\ state'.verified = state.verified
        /\ state'.configured = state.configured /\ state'.target = state.target
    BY <1>6 DEF stop_before_final_publish, StateType
  <2>2. SeenEffect
    BY <1>6, NothingSeen DEF stop_before_final_publish, FINAL_PUBLISH_STEP_IDS
  <2> QED BY <1>6, <2>1, <2>2
          DEF stop_before_final_publish, RunEffect, VerifiedEffect, ConfiguredEffect, Outcomes
<1>7. CASE final_publish_tap
  <2>1. Step \in FINAL_PUBLISH_STEP_IDS /\ Step # "end" /\ Ends /\ gallery' = gallery
    BY <1>7 DEF final_publish_tap, Ends, FINAL_PUBLISH_STEP_IDS
  <2>2. SeenEffect
    BY <2>1, NothingSeen DEF FINAL_PUBLISH_STEP_IDS
  <2> QED BY <2>1, <2>2, EndsPlainly
<1>8. CASE minimize_app
  BY <1>8, EndsPlainly, NothingSeen DEF minimize_app, Ends
<1>9. CASE finish_workflow
  BY <1>9, PlainRun, NothingSeen DEF finish_workflow, Outcomes
<1> QED BY <1>1, <1>2, <1>3, <1>4, <1>5, <1>6, <1>7, <1>8, <1>9


\* The steps of the marketing workflow.
LEMMA MarketingRuns ==
  ASSUME RunTyped, job.account = "marketing",
         \/ require_device_ready \/ push_video_indexed \/ open_target_app
         \/ tap_profile_point \/ tap_upload_and_verify \/ refresh_media_picker
         \/ select_first_media \/ tap_next_after_select \/ tap_next_and_verify
         \/ paste_caption_on_form \/ open_schedule_picker \/ wait_schedule_picker_open
         \/ run_wheel_strategy \/ verify_schedule_configured \/ tap_scheduled_publish
         \/ minimize_tiktok_studio \/ all_steps_done
  PROVE  ScriptEffect
<1> USE DEF ScriptEffect, GalleryEffect, RunTyped, mediaVars
<1>1. CASE require_device_ready
  <2>1. CASE todo' = Tail(todo) /\ UNCHANGED <<outcome, state>> /\ Step = "preflight"
    BY <1>1, <2>1, PlainRun, NothingSeen DEF require_device_ready
  <2>2. CASE Fail("retryable")
    <3>1. phone' = phone /\ gallery' = gallery
      BY <1>1 DEF require_device_ready
    <3>2. ~Advances
      BY <2>2, TailIsShorter DEF Fail, Advances
    <3> QED BY <2>2, <3>1, <3>2, FailsPlainly DEF SeenEffect, Outcomes
  <2> QED BY <1>1, <2>1, <2>2 DEF require_device_ready
<1>2. CASE push_video_indexed
  <2>1. PICK swept \in delete_candidates(collect_delete_candidates), listed \in wait_for_media_file :
          LET index == IF listed THEN swept.index \cup {"task"} ELSE swept.index \ {"task"}
          IN  /\ gallery' = [files |-> swept.files \cup {"task"}, index |-> index]
              /\ IF listed /\ wait_until_media_is_top(index)
                   THEN Complete(state) ELSE Fail("retryable")
    BY <1>2 DEF push_video_indexed
  <2>2. swept.files \subseteq Videos /\ swept.index \subseteq Videos
    BY DEF delete_candidates
  <2>3. gallery' \in [files : SUBSET Videos, index : SUBSET Videos]
    <3>1. (IF listed THEN swept.index \cup {"task"} ELSE swept.index \ {"task"}) \in SUBSET Videos
      BY <2>2 DEF Videos
    <3> QED BY <2>1, <2>2, <3>1 DEF Videos
  <2>4. Step = "push_video"
    BY <1>2 DEF push_video_indexed
  <2>5. Ends
    BY <2>1, <2>4 DEF Ends
  <2>6. Advances => "task" \in gallery'.index
    <3>1. ~Fail("retryable") \/ ~Advances
      BY TailIsShorter DEF Fail, Advances
    <3>2. Advances => wait_until_media_is_top(gallery'.index)
      BY <2>1, <3>1
    <3> QED BY <3>2 DEF wait_until_media_is_top
  <2> QED BY <2>3, <2>4, <2>5, <2>6, EndsPlainly DEF SeenEffect
<1>3. CASE open_target_app \/ tap_profile_point \/ refresh_media_picker
  BY <1>3, EndsPlainly, NothingSeen DEF open_target_app, tap_profile_point, refresh_media_picker, Ends
<1>4. CASE tap_upload_and_verify
  BY <1>4, EndsPlainly, NothingSeen DEF tap_upload_and_verify, Ends
<1>5. CASE select_first_media \/ tap_next_after_select
  BY <1>5, EndsPlainly, NothingSeen DEF select_first_media, tap_next_after_select, Ends
<1>6. CASE tap_next_and_verify
  BY <1>6, EndsPlainly, NothingSeen DEF tap_next_and_verify, Ends
<1>7. CASE paste_caption_on_form
  <2>1. Step = "paste_caption" /\ Ends /\ gallery' = gallery
    BY <1>7 DEF paste_caption_on_form, Ends
  <2> QED BY <2>1, EndsPlainly DEF SeenEffect
<1>8. CASE open_schedule_picker
  <2> DEFINE initial == infer_native_schedule_initial_from_phone_clock(now)
  <2>1. Step = "open_schedule_settings" /\ gallery' = gallery
    BY <1>8 DEF open_schedule_picker
  <2>2. CASE Fail("retryable")
    BY <2>1, <2>2, FailsPlainly, NothingSeen DEF Outcomes
  <2>3. CASE Record([state EXCEPT !.initial = initial])
    <3>1. initial \in Nat
      BY NativeScheduleAssumption DEF infer_native_schedule_initial_from_phone_clock
    <3>2. Step \in ToSet(WorkflowSteps)
      BY <2>1, StepIsKnown
    <3> HIDE DEF initial
    <3>3. /\ state' \in StateType /\ state'.verified = state.verified
          /\ state'.configured = state.configured /\ state'.target = state.target
          /\ state'.stopped = state.stopped /\ outcome' = outcome
      BY <2>3, <3>1, <3>2 DEF Record, StateType
    <3> QED BY <2>1, <3>3, NothingSeen DEF RunEffect, VerifiedEffect, ConfiguredEffect
  <2> QED BY <1>8, <2>2, <2>3 DEF open_schedule_picker, Complete
<1>9. CASE wait_schedule_picker_open
  BY <1>9, EndsPlainly, NothingSeen DEF wait_schedule_picker_open, Ends
<1>10. CASE run_wheel_strategy
  <2> DEFINE target == resolve_publish_schedule(job.time, now)
  <2>1. Step = "set_schedule_datetime" /\ gallery' = gallery
    BY <1>10 DEF run_wheel_strategy
  <2>2. CASE Fail("retryable")
    BY <2>1, <2>2, FailsPlainly, NothingSeen DEF Outcomes
  <2>3. CASE Record([state EXCEPT !.configured = TRUE, !.target = target])
    <3>1. target \in Nat /\ target \in job.time .. job.time + 2 * Extension
      BY TargetsAreNear DEF JobOptions
    <3>2. Step \in ToSet(WorkflowSteps)
      BY <2>1, StepIsKnown
    <3> HIDE DEF target
    <3>3. /\ state' \in StateType /\ state'.target = target /\ state'.stopped = state.stopped
          /\ state'.verified = state.verified /\ outcome' = outcome
      BY <2>3, <3>1, <3>2 DEF Record, StateType
    <3>4. RunEffect
      BY <2>1, <3>1, <3>3 DEF RunEffect, VerifiedEffect, ConfiguredEffect
    <3> QED BY <2>1, <3>4, NothingSeen
  <2> QED BY <1>10, <2>2, <2>3 DEF run_wheel_strategy, Complete
<1>11. CASE verify_schedule_configured
  <2>1. Step = "verify_schedule_configured" /\ gallery' = gallery
    BY <1>11 DEF verify_schedule_configured
  <2>2. CASE Fail("retryable")
    BY <2>1, <2>2, FailsPlainly, TailIsShorter DEF Outcomes, SeenEffect, Advances, Fail
  <2>3. CASE /\ state.configured /\ scheduled_publish_page_signal
             /\ schedule_time_tolerance_match(phone.draft.schedule, state.target, MarketingTolerance)
             /\ Record([state EXCEPT !.verified = TRUE])
    <3>1. /\ state' \in StateType /\ state'.verified /\ state'.target = state.target
          /\ state'.configured = state.configured /\ state'.stopped = state.stopped
          /\ outcome' = outcome /\ Advances
      BY <2>1, <2>3, StepIsKnown, StepIsHead DEF Record, StateType, Advances
    <3>2. phone.draft.schedule # NoTime /\ WithinTolerance(phone.draft.schedule, state.target)
      BY <2>3 DEF scheduled_publish_page_signal, WithinTolerance
    <3> QED BY <2>1, <2>3, <3>1, <3>2
            DEF RunEffect, VerifiedEffect, ConfiguredEffect, SeenEffect
  <2> QED BY <1>11, <2>2, <2>3 DEF verify_schedule_configured, Complete
<1>12. CASE tap_scheduled_publish
  BY <1>12, EndsPlainly, NothingSeen DEF tap_scheduled_publish, Ends
<1>13. CASE minimize_tiktok_studio
  BY <1>13, EndsPlainly, NothingSeen DEF minimize_tiktok_studio, Ends
<1>14. CASE all_steps_done
  BY <1>14, PlainRun, NothingSeen DEF all_steps_done, Outcomes
<1> QED BY <1>1, <1>2, <1>3, <1>4, <1>5, <1>6, <1>7, <1>8, <1>9, <1>10, <1>11, <1>12, <1>13, <1>14

\* The search of a product records nothing until it has ended.
LEMMA SearchRuns ==
  ASSUME RunTyped, ensure_showcase_product_attached, UNCHANGED mediaVars
  PROVE  ScriptEffect
<1> USE DEF runVars
<1>0. Step = "ensure_showcase_product_attached"
  BY DEF ensure_showcase_product_attached
<1> DEFINE Plainly == Ends \/ (UNCHANGED state /\ outcome' \in Outcomes)
<1>1. UNCHANGED runVars => Plainly
  BY DEF RunTyped
<1>2. \A result : finish(result) => UNCHANGED runVars
  BY DEF finish, Stay
<1>3. \A kind \in {"retryable", "final"} : Refuse(kind) => Ends
  BY DEF Refuse, Ends
<1>4. \A next : Enter(next) => UNCHANGED runVars
  BY DEF Enter
<1>5. \A area : begin_search(area) => Plainly
  BY <1>1, <1>3 DEF begin_search
<1>6. search_visible_product_list => Plainly
  <2>2. \A cards, titled : NoMatch(cards, titled) => UNCHANGED runVars
    BY <1>2 DEF NoMatch, SwipeOn
  <2>1. recover_from_product_detail_page \/ look_without_cards => UNCHANGED runVars
    BY <1>2, <2>2 DEF recover_from_product_detail_page, look_without_cards
  <2>3. \A titled, i : OneMatch(titled, i) => UNCHANGED runVars
    BY <1>2 DEF OneMatch, SwipeOn, Stay
  <2>4. look_at_cards => Plainly
    BY <1>1, <1>2, <1>3, <2>2, <2>3 DEF look_at_cards
  <2> QED BY <1>1, <1>3, <2>1, <2>4 DEF search_visible_product_list
<1>7. press_add_button => Plainly
  BY <1>1 DEF press_add_button, Ends
<1>8. (\/ after_showcase_search \/ after_shop_search \/ tap_add_more_products
       \/ tap_tiktok_shop_tab \/ return_to_showcase_product_list) => Plainly
  BY <1>1, <1>3, <1>4
     DEF after_showcase_search, after_shop_search, tap_add_more_products, tap_tiktok_shop_tab,
         return_to_showcase_product_list, Attached
<1>12. confirm_shop_add_dialog_if_present => Plainly
  <2>1. Fail("final") => Ends
    BY DEF Fail, Ends
  <2> QED BY <1>1, <1>4, <2>1 DEF confirm_shop_add_dialog_if_present
<1>13. classify_shop_post_add_screen => Plainly
  <2>1. Attached => Plainly
    BY <1>1, <1>4 DEF Attached
  <2> QED BY <1>1, <1>3, <1>4, <2>1 DEF classify_shop_post_add_screen
<1>9. Complete(state) => Ends
  BY <1>0 DEF Ends
<1>10. Plainly
  <2> HIDE DEF Plainly
  <2>1. Ends => Plainly
    BY DEF Plainly
  <2> QED BY <1>5, <1>6, <1>7, <1>8, <1>9, <1>12, <1>13, <2>1
         DEF ensure_showcase_product_attached
<1>11. RunEffect
  BY <1>10, EndsPlainly, PlainRun
<1> QED BY <1>0, <1>11, NothingSeen DEF ScriptEffect, GalleryEffect, mediaVars, RunTyped


-----------------------------------------------------------------------------
(* Types. *)

FormInv == TypedInv /\ SearchInv

\* What the lemmas on single steps start from holds of every state.
LEMMA FormIsTyped ==
  ASSUME FormInv
  PROVE  /\ RunTyped /\ scan \in ScanType /\ SearchInv
         /\ gallery.index \subseteq Videos /\ state.initial \in Int
         /\ job.time \in Nat
BY PublishPhoneAssumption DEF FormInv, TypedInv, RunTyped, JobOptions, StateType, NoTime

\* The search is the only part of a script that is under way for more than one step.
LEMMA OthersDoNotSearch ==
  ASSUME \/ preflight \/ cleanup_workflow_videos_before_push \/ push_video
         \/ verify_current_gallery_video \/ open_app \/ tap_step
         \/ clear_android_permission_dialogs \/ optional_tap \/ wait_for_any_text
         \/ assert_media_picker_item_count \/ tap_first_matching_node
         \/ optional_remove_added_music \/ tap_until_any_text \/ paste_caption
         \/ input_product_publish_name \/ tap_product_final_add
         \/ assert_product_link_attached \/ set_showcase_schedule_datetime
         \/ verify_showcase_schedule_configured_from_current_ui
         \/ stop_before_final_publish \/ final_publish_tap \/ minimize_app \/ finish_workflow
  PROVE  Step # "ensure_showcase_product_attached" /\ scan' = scan
<1>1. CASE \/ preflight \/ cleanup_workflow_videos_before_push \/ push_video
           \/ verify_current_gallery_video \/ open_app \/ tap_step
           \/ clear_android_permission_dialogs \/ optional_tap \/ wait_for_any_text
  BY <1>1 DEF preflight, cleanup_workflow_videos_before_push, push_video,
              verify_current_gallery_video, open_app, tap_step, TapRoute, OptionalRoute,
              AwaitedPage, clear_android_permission_dialogs, optional_tap, wait_for_any_text
<1>2. CASE \/ assert_media_picker_item_count \/ tap_first_matching_node
           \/ optional_remove_added_music \/ tap_until_any_text \/ paste_caption
           \/ input_product_publish_name \/ tap_product_final_add
           \/ assert_product_link_attached
  BY <1>2 DEF assert_media_picker_item_count, tap_first_matching_node,
              optional_remove_added_music, tap_until_any_text, paste_caption,
              input_product_publish_name, tap_product_final_add, assert_product_link_attached
<1>3. CASE \/ set_showcase_schedule_datetime
           \/ verify_showcase_schedule_configured_from_current_ui
           \/ stop_before_final_publish \/ final_publish_tap \/ minimize_app \/ finish_workflow
  BY <1>3 DEF set_showcase_schedule_datetime,
              verify_showcase_schedule_configured_from_current_ui, stop_before_final_publish,
              final_publish_tap, minimize_app, finish_workflow, FINAL_PUBLISH_STEP_IDS
<1> QED BY <1>1, <1>2, <1>3

\* The effects of a step of either script.
LEMMA ScriptEffects ==
  ASSUME FormInv, PipelineStep
  PROVE  /\ PhoneEffect /\ ScriptEffect /\ scan' \in ScanType /\ SearchInv'
         /\ job.account = "marketing" => scan'.phase = "none"
<1>0. /\ RunTyped /\ scan \in ScanType /\ SearchInv
      /\ gallery.index \subseteq Videos /\ state.initial \in Int
      /\ job.time \in Nat /\ phone \in PhoneType /\ now \in Nat
  BY FormIsTyped DEF RunTyped
<1>1. ASSUME scan' = scan, scan.phase = "none"
      PROVE  scan' \in ScanType /\ SearchInv'
  BY <1>0, <1>1 DEF SearchInv
<1>2. CASE ShowcaseStep
  <2>1. job.account = "showcase"
    BY <1>2 DEF ShowcaseStep
  <2>2. CASE ensure_showcase_product_attached /\ UNCHANGED mediaVars
    BY <1>0, <2>1, <2>2, SearchStep, SearchRuns DEF SearchKeeps
  <2>3. CASE ~(ensure_showcase_product_attached /\ UNCHANGED mediaVars)
    <3>1. scan' = scan /\ scan.phase = "none"
      BY <1>0, <1>2, <2>3, OthersDoNotSearch DEF ShowcaseStep, SearchInv
    <3>2. PhoneEffect
      BY <1>0, <1>2, <2>3, ShowcaseBrowses, ShowcaseFills, BrowseKeepsDraft DEF ShowcaseStep
    <3>3. ScriptEffect
      BY <1>0, <1>2, <2>1, <2>3, PreparationRuns, PagesRun, FormRuns DEF ShowcaseStep
    <3> QED BY <1>1, <2>1, <3>1, <3>2, <3>3
  <2> QED BY <2>2, <2>3
<1>3. CASE MarketingStep
  <2>1. job.account = "marketing" /\ scan' = scan
    BY <1>3 DEF MarketingStep
  <2>2. scan.phase = "none"
    BY <2>1 DEF FormInv, TypedInv
  <2>3. PhoneEffect
    BY <1>0, <1>3, MarketingBrowses, MarketingFills, BrowseKeepsDraft DEF MarketingStep
  <2>4. ScriptEffect
    BY <1>0, <1>3, <2>1, MarketingRuns DEF MarketingStep
  <2> QED BY <1>1, <2>1, <2>2, <2>3, <2>4
<1> QED BY <1>2, <1>3 DEF PipelineStep

\* No step is added to the list of a running script.
LEMMA ScriptShortens ==
  ASSUME todo \in Seq(STRING), ScriptGoesOn
  PROVE  todo' \in Seq(STRING) /\ ToSet(todo') \subseteq ToSet(todo)
<1>1. CASE todo # << >> /\ todo' = Tail(todo)
  <2>1. /\ Tail(todo) \in Seq(STRING) /\ Len(todo) \in Nat \ {0}
        /\ DOMAIN Tail(todo) = 1..Len(todo) - 1 /\ DOMAIN todo = 1..Len(todo)
        /\ \A i \in 1..Len(todo) - 1 : Tail(todo)[i] = todo[i + 1]
    BY <1>1, HeadTailProperties, EmptySeq
  <2>2. \A i \in DOMAIN Tail(todo) : i + 1 \in DOMAIN todo /\ Tail(todo)[i] = todo[i + 1]
    BY <2>1
  <2> QED BY <1>1, <2>1, <2>2 DEF ToSet
<1>2. CASE todo' = << >>
  BY <1>2 DEF ToSet
<1> QED BY <1>1, <1>2 DEF ScriptGoesOn

\* So does the final tap.
LEMMA TapGoesOn ==
  ASSUME TapPublishes
  PROVE  ScriptGoesOn
BY StepIsHead DEF TapPublishes, ScriptGoesOn, FINAL_PUBLISH_STEP_IDS

\* What is posted is the draft of the phone.
LEMMA PostIsTyped ==
  ASSUME phone \in PhoneType
  PROVE  Posted \in PostType
BY DEF Posted, PhoneType, DraftType, PostType

\* Every step of a publication keeps the types.
LEMMA FormStep ==
  ASSUME FormInv, [Next]_vars
  PROVE  FormInv'
<1> USE DEF FormInv, TypedInv
<1>0. job' = job
  BY DEF Next, vars, run_once_refused, claim_and_prepare, run_plan_timeout, PipelineStep, judge,
         Elapse, Settle
<1>1. WorkflowSteps' = WorkflowSteps /\ StateType' = StateType
  BY <1>0 DEF WorkflowSteps, StateType
<1>2. NewState \in StateType
  BY DEF NewState, StateType, NoTime
<1>3. CASE run_once_refused
  <2>1. UNCHANGED <<job, todo, outcome, state, scan, phone, gallery, posts, now, attempt, postsBefore>>
    BY <1>3 DEF run_once_refused, runVars, mediaVars
  <2>2. verdict' \in Verdicts
    BY <1>3 DEF run_once_refused, Verdicts
  <2>3. SearchInv'
    BY <2>1 DEF SearchInv, Step, ListOf
  <2> QED BY <1>1, <2>1, <2>2, <2>3
<1>4. CASE claim_and_prepare
  <2>1. /\ todo' = WorkflowSteps /\ state' = NewState /\ scan' = NoScan
        /\ UNCHANGED <<job, phone, gallery, posts, now>>
        /\ attempt' = attempt + 1 /\ attempt < MaxAttempts /\ verdict' = "none"
        /\ postsBefore' = Len(posts) /\ outcome' \in {"running", "retryable", "final"}
    BY <1>4 DEF claim_and_prepare, mediaVars
  <2>2. todo' \in Seq(STRING)
    BY <2>1, WorkflowPublishesOnce
  <2>3. SearchInv' /\ scan' \in ScanType /\ scan'.phase = "none"
    BY <2>1, NoScanIsTyped DEF SearchInv, NoScan
  <2>4. attempt' \in 0..MaxAttempts /\ postsBefore' \in Nat
    BY <2>1, PublicationAssumption
  <2>5. outcome' \in Outcomes /\ verdict' \in Verdicts
    BY <2>1 DEF Outcomes, Verdicts
  <2> QED BY <1>1, <1>2, <2>1, <2>2, <2>3, <2>4, <2>5
<1>5. CASE run_plan_timeout
  <2>1. /\ UNCHANGED <<job, todo, state, phone, gallery, posts, now, attempt, verdict, postsBefore>>
        /\ outcome' = "retryable" /\ scan' = NoScan
    BY <1>5 DEF run_plan_timeout, Fail, mediaVars, taskVars
  <2>2. SearchInv' /\ scan' \in ScanType /\ scan'.phase = "none"
    BY <2>1, NoScanIsTyped DEF SearchInv, NoScan
  <2> QED BY <1>1, <2>1, <2>2 DEF Outcomes
<1>6. CASE PipelineStep
  <2>1. UNCHANGED <<now, attempt, verdict, postsBefore>>
    BY <1>6 DEF PipelineStep, taskVars
  <2>2. /\ phone' \in PhoneType /\ outcome' \in Outcomes /\ state' \in StateType
        /\ gallery' \in [files : SUBSET Videos, index : SUBSET Videos]
        /\ scan' \in ScanType /\ SearchInv'
        /\ job.account = "marketing" => scan'.phase = "none"
    BY <1>6, ScriptEffects DEF PhoneEffect, ScriptEffect, RunEffect, GalleryEffect
  <2>3. /\ posts' = posts \/ posts' = Append(posts, Posted)
        /\ ScriptGoesOn
    BY <1>6, ScriptStep, TapGoesOn DEF Quiet, PermittedTap, TapPublishes
  <2>4. posts' \in Seq(PostType)
    BY <2>3, PostIsTyped, AppendProperties
  <2>5. todo' \in Seq(STRING) /\ ToSet(todo') \subseteq ToSet(WorkflowSteps)
    BY <2>3, ScriptShortens
  <2> QED BY <1>0, <1>1, <2>1, <2>2, <2>4, <2>5
<1>7. CASE judge
  <2>1. /\ UNCHANGED <<job, todo, state, scan, phone, gallery, posts, now, attempt, postsBefore>>
        /\ outcome' = "idle"
    BY <1>7 DEF judge, mediaVars
  <2>2. verdict' \in Verdicts
    BY <1>7 DEF judge, Verdicts
  <2>3. SearchInv'
    BY <2>1 DEF SearchInv, Step, ListOf
  <2> QED BY <1>1, <2>1, <2>2, <2>3 DEF Outcomes
<1>8. CASE Elapse
  <2>1. UNCHANGED <<job, todo, outcome, state, scan, phone, gallery, posts, attempt, verdict, postsBefore>>
    BY <1>8 DEF Elapse, runVars, mediaVars, taskVars
  <2>2. now' \in Nat
    BY <1>8, PublicationAssumption DEF Elapse
  <2>3. SearchInv'
    BY <2>1 DEF SearchInv, Step, ListOf
  <2> QED BY <1>1, <2>1, <2>2, <2>3
<1>9. CASE Settle \/ UNCHANGED vars
  <2>1. UNCHANGED vars
    BY <1>9 DEF Settle
  <2>2. SearchInv'
    BY <2>1 DEF vars, SearchInv, Step, ListOf
  <2> QED BY <1>1, <2>1, <2>2 DEF vars
<1> QED BY <1>3, <1>4, <1>5, <1>6, <1>7, <1>8, <1>9 DEF Next

\* A publication begins typed.
LEMMA FormInit ==
  ASSUME Init
  PROVE  FormInv
<1>1. phone \in PhoneType
  <2>1. PICK b \in Showcases, s \in Shops :
          phone = [page |-> "launcher", offset |-> 0, showcase |-> b, shop |-> s, draft |-> EmptyDraft]
    BY DEF Init
  <2>2. b \in Seq(Named) /\ s \in Seq(Named)
    BY PublishPhoneAssumption, SeqMonotonic DEF Named
  <2>3. EmptyDraft \in DraftType
    BY DEF EmptyDraft, DraftType, NoVideo, Named, NoTime
  <2> QED BY <2>1, <2>2, <2>3 DEF PhoneType, Pages
<1>2. gallery \in [files : SUBSET Videos, index : SUBSET Videos]
  BY PublishPhoneAssumption DEF Init
<1>3. NewState \in StateType
  BY DEF NewState, StateType, NoTime
<1>4. SearchInv /\ scan \in ScanType /\ scan.phase = "none"
  BY NoScanIsTyped DEF Init, SearchInv, NoScan
<1>5. todo \in Seq(STRING) /\ ToSet(todo) = {} /\ posts \in Seq(PostType)
  BY DEF Init, ToSet
<1> QED BY <1>1, <1>2, <1>3, <1>4, <1>5, PublishPhoneAssumption, PublicationAssumption
        DEF Init, FormInv, TypedInv, Outcomes, Verdicts

\* The typing and the state of the product search are inductive.
LEMMA FormHolds == Spec => []FormInv
<1>1. FormInv /\ [Next]_vars => FormInv'
  BY FormStep
<1> QED BY <1>1, FormInit, PTL DEF Spec

\* Type correctness of a publication, with the bounds of the product search:
\* its swipes and the screens that look the same never exceed their limits.
THEOREM PublicationTypeCorrect == Spec => []TypeOK
<1>1. FormInv => TypeOK
  BY DEF FormInv, TypedInv, TypeOK, StateType, ScanType, PhoneType, DraftType, Named
<1> QED BY <1>1, FormHolds, PTL


-----------------------------------------------------------------------------
(* The order of the steps. *)

\* A workflow's steps are in order, and only a claim brings any.
OrderInv ==
  /\ InOrder(todo)
  /\ todo # << >> => attempt > 0
  /\ job.mode = "immediate" => "set_schedule_datetime" \notin ToSet(todo)

\* What a workflow starts with.
LEMMA WorkflowIsInOrder ==
  ASSUME job \in Jobs
  PROVE  /\ InOrder(WorkflowSteps) /\ WorkflowSteps # << >> /\ Head(WorkflowSteps) = "preflight"
         /\ job.mode = "immediate" =>
              job.account = "showcase" /\ "set_schedule_datetime" \notin ToSet(WorkflowSteps)
         /\ job.mode = "scheduled" \/ job.mode = "immediate"
         /\ job.account = "showcase" \/ job.account = "marketing"
         /\ "push_video" \in ToSet(WorkflowSteps)
         /\ job.account = "showcase" =>
              DOMAIN Undoing \ {"verify_schedule_configured"} \subseteq ToSet(WorkflowSteps)
         /\ job.mode = "scheduled" => "verify_schedule_configured" \in ToSet(WorkflowSteps)
<1>1. /\ job.mode \in {"scheduled", "immediate"} /\ job.account \in {"showcase", "marketing"}
      /\ job.account = "marketing" => job.mode = "scheduled"
  BY PublishPhoneAssumption DEF JobOptions
<1>2. CASE job.account = "marketing"
  BY <1>1, <1>2, StepOrderAssumption DEF WorkflowSteps
<1>3. CASE job.account = "showcase"
  <2>1. WorkflowSteps = ShowcaseSteps(job.mode)
    BY <1>3 DEF WorkflowSteps
  <2>2. "push_video" \in DOMAIN Undoing \ {"verify_schedule_configured"}
    BY DEF Undoing
  <2> QED BY <1>1, <1>3, <2>1, <2>2, StepOrderAssumption
<1> QED BY <1>1, <1>2, <1>3

\* A list in order stays in order without its first step.
LEMMA TailInOrder ==
  ASSUME NEW steps \in Seq(STRING), steps # << >>, InOrder(steps)
  PROVE  InOrder(Tail(steps))
<1>1. /\ Len(steps) \in Nat \ {0} /\ DOMAIN steps = 1..Len(steps)
      /\ DOMAIN Tail(steps) = 1..Len(steps) - 1
      /\ \A i \in 1..Len(steps) - 1 : Tail(steps)[i] = steps[i + 1]
  BY HeadTailProperties, EmptySeq
<1>2. \A i \in DOMAIN Tail(steps) : i \in Nat /\ i + 1 \in DOMAIN steps /\ Tail(steps)[i] = steps[i + 1]
  BY <1>1
<1>3. ASSUME NEW early, NEW late, Precedes(steps, early, late)
      PROVE  Precedes(Tail(steps), early, late)
  <2> SUFFICES ASSUME NEW i \in DOMAIN Tail(steps), NEW j \in DOMAIN Tail(steps),
                      Tail(steps)[i] \in early, Tail(steps)[j] \in late
               PROVE  i < j
    BY DEF Precedes
  <2>1. /\ i \in Nat /\ i + 1 \in DOMAIN steps /\ steps[i + 1] \in early
        /\ j \in Nat /\ j + 1 \in DOMAIN steps /\ steps[j + 1] \in late
    BY <1>2
  <2>2. i + 1 < j + 1
    BY <1>3, <2>1 DEF Precedes
  <2> QED BY <2>1, <2>2
<1>4. ASSUME NEW i \in DOMAIN Tail(steps), Tail(steps)[i] = "assert_product_link_attached", i # 1
      PROVE  Tail(steps)[i - 1] = "wait_return_to_publish_preset"
  <2>1. /\ i + 1 \in DOMAIN steps /\ steps[i + 1] = "assert_product_link_attached"
        /\ i \in 1..Len(steps) - 1 /\ i + 1 # 1
    BY <1>1, <1>2, <1>4
  <2>2. steps[(i + 1) - 1] = "wait_return_to_publish_preset"
    BY <2>1 DEF InOrder
  <2>3. i - 1 \in 1..Len(steps) - 1 /\ Tail(steps)[i - 1] = steps[(i - 1) + 1]
        /\ (i + 1) - 1 = i /\ (i - 1) + 1 = i
    BY <1>1, <1>4, <2>1
  <2> QED BY <2>2, <2>3
<1> QED BY <1>3, <1>4 DEF InOrder

\* A script that takes its first step away goes on in order; the steps that
\* could undo what this one has seen are behind it, and at the final tap all
\* those that look are.
LEMMA StepsInOrder ==
  ASSUME todo \in Seq(STRING), InOrder(todo), todo # << >>
  PROVE  /\ Step = Head(todo) /\ Step \in ToSet(todo)
         /\ \A s \in DOMAIN Undoing :
              /\ Step = s => Undoing[s] \cap ToSet(todo) = {}
              /\ Step \in FINAL_PUBLISH_STEP_IDS => s \notin ToSet(todo)
              /\ s \in ToSet(todo) /\ s \notin ToSet(Tail(todo)) => Step = s
         /\ Step = "select_first_video" => "push_video" \notin ToSet(todo)
         /\ Tail(todo) # << >> /\ Head(Tail(todo)) = "assert_product_link_attached" =>
              Step = "wait_return_to_publish_preset"
<1>1. /\ Len(todo) \in Nat \ {0} /\ DOMAIN todo = 1..Len(todo) /\ Head(todo) = todo[1]
      /\ Tail(todo) \in Seq(STRING)
      /\ DOMAIN Tail(todo) = 1..Len(todo) - 1
      /\ \A i \in 1..Len(todo) - 1 : Tail(todo)[i] = todo[i + 1]
  BY HeadTailProperties, EmptySeq
<1>2. 1 \in DOMAIN todo /\ Step = todo[1] /\ Step = Head(todo)
  BY <1>1 DEF Step
<1>3. \A early, late : Precedes(todo, early, late) /\ Step \in late => early \cap ToSet(todo) = {}
  <2> SUFFICES ASSUME NEW early, NEW late, Precedes(todo, early, late), Step \in late,
                      NEW i \in DOMAIN todo, todo[i] \in early
               PROVE  FALSE
    BY DEF ToSet
  <2>1. i < 1
    BY <1>2 DEF Precedes
  <2> QED BY <1>1, <2>1
<1>4. \A s \in DOMAIN Undoing :
        /\ Step = s => Undoing[s] \cap ToSet(todo) = {}
        /\ Step \in FINAL_PUBLISH_STEP_IDS => s \notin ToSet(todo)
  <2> TAKE s \in DOMAIN Undoing
  <2>1. Precedes(todo, Undoing[s], {s}) /\ Precedes(todo, {s}, FINAL_PUBLISH_STEP_IDS)
    BY DEF InOrder
  <2>2. Step = s => Undoing[s] \cap ToSet(todo) = {}
    BY <1>3, <2>1
  <2>3. Step \in FINAL_PUBLISH_STEP_IDS => {s} \cap ToSet(todo) = {}
    BY <1>3, <2>1
  <2> QED BY <2>2, <2>3
<1>5. \A s : s \in ToSet(todo) /\ s \notin ToSet(Tail(todo)) => Step = s
  <2> SUFFICES ASSUME NEW i \in DOMAIN todo, todo[i] \notin ToSet(Tail(todo))
               PROVE  Step = todo[i]
    BY DEF ToSet
  <2>1. i = 1 \/ (i - 1 \in 1..Len(todo) - 1 /\ Tail(todo)[i - 1] = todo[(i - 1) + 1])
    BY <1>1
  <2>2. (i - 1) + 1 = i
    BY <1>1
  <2>3. i = 1
    BY <1>1, <2>1, <2>2 DEF ToSet
  <2> QED BY <1>2, <2>3
<1>6. Step = "select_first_video" => "push_video" \notin ToSet(todo)
  <2>1. Precedes(todo, {"push_video"}, {"select_first_video"})
    BY DEF InOrder
  <2> QED BY <1>3, <2>1
<1>7. Tail(todo) # << >> /\ Head(Tail(todo)) = "assert_product_link_attached" =>
        Step = "wait_return_to_publish_preset"
  <2> SUFFICES ASSUME Tail(todo) # << >>, Head(Tail(todo)) = "assert_product_link_attached"
               PROVE  Step = "wait_return_to_publish_preset"
    OBVIOUS
  <2>1. Len(Tail(todo)) \in Nat \ {0} /\ DOMAIN Tail(todo) = 1..Len(Tail(todo))
        /\ Head(Tail(todo)) = Tail(todo)[1]
    BY <1>1, HeadTailProperties, EmptySeq
  <2>2. 1 \in DOMAIN Tail(todo) /\ 1 \in 1..Len(todo) - 1
    BY <1>1, <2>1
  <2>3. todo[2] = "assert_product_link_attached" /\ 2 \in DOMAIN todo
    BY <1>1, <2>1, <2>2
  <2>4. todo[2 - 1] = "wait_return_to_publish_preset"
    BY <2>3 DEF InOrder
  <2> QED BY <1>2, <2>4
<1>8. Step \in ToSet(todo)
  BY <1>2 DEF ToSet
<1> QED BY <1>2, <1>4, <1>5, <1>6, <1>7, <1>8


\* Every step but those of the scripts leaves phone, gallery and posts alone,
\* and the run as well, unless it claims a new one.
LEMMA OtherSteps ==
  ASSUME [Next]_vars, ~PipelineStep
  PROVE  /\ UNCHANGED <<job, phone, gallery, posts>>
         /\ \/ claim_and_prepare
            \/ UNCHANGED <<todo, state, attempt, postsBefore>>
BY DEF Next, vars, run_once_refused, claim_and_prepare, run_plan_timeout, judge, Elapse, Settle,
       Fail, runVars, mediaVars, taskVars

\* What a script does to the list of its steps.
LEMMA ScriptAdvances ==
  ASSUME PipelineStep
  PROVE  todo' = todo \/ Advances \/ (Step \in FINAL_PUBLISH_STEP_IDS /\ todo' = << >>)
BY ScriptStep, TapGoesOn DEF Quiet, PermittedTap, ScriptGoesOn, Advances

\* What is still to do stays in order: no step is left behind one that it undoes.
LEMMA OrderStep ==
  ASSUME FormInv, OrderInv, [Next]_vars
  PROVE  OrderInv'
<1> USE DEF OrderInv
<1>0. job' = job /\ job \in Jobs /\ todo \in Seq(STRING) /\ attempt \in Nat
  BY OtherSteps DEF FormInv, TypedInv, PipelineStep
<1>1. CASE claim_and_prepare
  <2>1. todo' = WorkflowSteps /\ attempt' = attempt + 1
    BY <1>1 DEF claim_and_prepare
  <2>2. InOrder(todo')
    BY <1>0, <2>1, WorkflowIsInOrder
  <2> QED BY <1>0, <2>1, <2>2, WorkflowIsInOrder DEF InOrder
<1>2. CASE UNCHANGED <<todo, attempt>>
  BY <1>0, <1>2 DEF InOrder
<1>3. CASE PipelineStep
  <2>1. attempt' = attempt
    BY <1>3 DEF PipelineStep, taskVars
  <2>2. CASE todo' = todo
    BY <1>2, <2>1, <2>2
  <2>3. CASE Advances
    <3>1. InOrder(todo')
      BY <1>0, <2>3, TailInOrder DEF Advances
    <3>2. ToSet(todo') \subseteq ToSet(todo)
      BY <1>0, <2>3, ScriptShortens DEF Advances, ScriptGoesOn
    <3> QED BY <1>0, <2>1, <2>3, <3>1, <3>2 DEF Advances, InOrder
  <2>4. CASE todo' = << >>
    <3>1. InOrder(<< >>) /\ ToSet(<< >>) = {}
      BY DEF InOrder, Precedes, ToSet
    <3> QED BY <1>0, <2>1, <2>4, <3>1 DEF InOrder
  <2> QED BY <1>3, <2>2, <2>3, <2>4, ScriptAdvances
<1> QED BY <1>1, <1>2, <1>3, OtherSteps

\* The steps of a run are in order for good.
LEMMA OrderHolds == Spec => []OrderInv
<1>1. Init => OrderInv
  BY DEF Init, OrderInv, InOrder, Precedes, ToSet
<1>2. FormInv /\ OrderInv /\ [Next]_vars => OrderInv'
  BY OrderStep
<1> QED BY <1>1, <1>2, FormHolds, PTL DEF Spec

\* Of the steps that could undo what a step has seen, none is left.
Past(s) == Undoing[s] \cap ToSet(todo) = {}

\* A step that looks leaves the list only when it has looked; then, and from
\* then on, no step that could undo what it saw is left.
LEMMA MilestoneStep ==
  ASSUME FormInv, OrderInv, PipelineStep, NEW s \in DOMAIN Undoing
  PROVE  /\ \/ s \in ToSet(todo) /\ s \in ToSet(todo')
            \/ Step = s /\ Advances
            \/ s \notin ToSet(todo) /\ s \notin ToSet(todo')
         /\ Past(s) => Step \notin Undoing[s] /\ Past(s)'
         /\ Step = s => Past(s)
<1>0. todo \in Seq(STRING) /\ InOrder(todo)
  BY DEF FormInv, TypedInv, OrderInv
<1>1. CASE todo = << >>
  <2>1. Step = "end" /\ "end" \notin Undoing[s] /\ "end" # s
    BY <1>1 DEF Step, Undoing
  <2>2. todo' = << >> /\ ToSet(<< >>) = {}
    BY <1>1, ScriptAdvances DEF Advances, ToSet
  <2> QED BY <1>1, <2>1, <2>2 DEF Past
<1>2. CASE todo # << >>
  <2>0. ToSet(todo') \subseteq ToSet(todo)
    BY <1>0, ScriptAdvances, ScriptShortens DEF Advances, ScriptGoesOn
  <2>1. /\ Step \in ToSet(todo)
        /\ Step = s => Undoing[s] \cap ToSet(todo) = {}
        /\ Step \in FINAL_PUBLISH_STEP_IDS => s \notin ToSet(todo)
        /\ s \in ToSet(todo) /\ s \notin ToSet(Tail(todo)) => Step = s
    BY <1>0, <1>2, StepsInOrder
  <2>2. /\ Past(s) => Step \notin Undoing[s] /\ Past(s)'
        /\ Step = s => Past(s)
    BY <2>0, <2>1 DEF Past
  <2>3. CASE s \notin ToSet(todo)
    BY <2>0, <2>2, <2>3
  <2>4. CASE s \in ToSet(todo)
    BY <2>1, <2>2, <2>4, ScriptAdvances DEF Advances
  <2> QED BY <2>3, <2>4
<1> QED BY <1>1, <1>2

-----------------------------------------------------------------------------
(* The schedule. *)

\* A configured target is near the time asked for.
ConfiguredInv == state.configured => state.target \in job.time .. job.time + 2 * Extension

\* A verified schedule is the draft's, and nothing that is left changes either.
VerifiedInv ==
  state.verified => /\ phone.draft.schedule # NoTime
                    /\ WithinTolerance(phone.draft.schedule, state.target)
                    /\ state.configured
                    /\ Past("verify_schedule_configured")

\* A scheduled run is verified before its final tap, an immediate one has no time.
ScheduledInv ==
  /\ job.mode = "scheduled" /\ attempt > 0 =>
       "verify_schedule_configured" \in ToSet(todo) \/ state.verified
  /\ job.mode = "immediate" => phone.draft.schedule = NoTime

ScheduleInv == ConfiguredInv /\ VerifiedInv /\ ScheduledInv

\* A requested time is set and verified before the draft is posted, and kept.
LEMMA ScheduleStep ==
  ASSUME FormInv, OrderInv, ScheduleInv, [Next]_vars
  PROVE  ScheduleInv'
<1> USE DEF ScheduleInv
<1>0. job' = job /\ job \in Jobs /\ attempt \in Nat
  BY OtherSteps DEF FormInv, TypedInv, PipelineStep
<1>1. CASE claim_and_prepare
  <2>1. /\ todo' = WorkflowSteps /\ state' = NewState /\ phone' = phone
    BY <1>1 DEF claim_and_prepare
  <2>2. ~state'.configured /\ ~state'.verified
    BY <2>1 DEF NewState
  <2> QED BY <1>0, <2>1, <2>2, WorkflowIsInOrder DEF ConfiguredInv, VerifiedInv, ScheduledInv
<1>2. CASE UNCHANGED <<todo, state, phone, attempt>>
  BY <1>0, <1>2 DEF ConfiguredInv, VerifiedInv, ScheduledInv, WithinTolerance, Past
<1>3. CASE PipelineStep
  <2>0. attempt' = attempt
    BY <1>3 DEF PipelineStep, taskVars
  <2>1. PhoneEffect /\ RunEffect /\ SeenEffect
    BY <1>3, ScriptEffects DEF ScriptEffect
  <2>2. "verify_schedule_configured" \in DOMAIN Undoing
        /\ Undoing["verify_schedule_configured"] =
             {"open_tiktok", "open_target_app", "set_schedule_datetime"}
    BY DEF Undoing
  <2>3. /\ \/ "verify_schedule_configured" \in ToSet(todo')
           \/ Step = "verify_schedule_configured" /\ Advances
           \/ "verify_schedule_configured" \notin ToSet(todo)
        /\ Past("verify_schedule_configured") =>
             /\ Step \notin Undoing["verify_schedule_configured"]
             /\ Past("verify_schedule_configured")'
        /\ Step = "verify_schedule_configured" => Past("verify_schedule_configured")
    BY <1>3, <2>2, MilestoneStep
  <2>4. ConfiguredInv'
    BY <1>0, <2>1 DEF ConfiguredInv, RunEffect, ConfiguredEffect
  <2>5. VerifiedInv'
    <3> SUFFICES ASSUME state'.verified PROVE VerifiedInv'
      BY DEF VerifiedInv
    <3>1. CASE /\ state'.verified = state.verified /\ state'.target = state.target
               /\ state'.configured = state.configured
      <4>1. /\ phone.draft.schedule # NoTime
            /\ WithinTolerance(phone.draft.schedule, state.target)
            /\ state.configured /\ Past("verify_schedule_configured")
        BY <3>1 DEF VerifiedInv
      <4>2. Step \notin Undoing["verify_schedule_configured"] /\ Past("verify_schedule_configured")'
        BY <2>3, <4>1 DEF Past
      <4>3. phone'.draft.schedule = phone.draft.schedule
        BY <2>1, <2>2, <4>2 DEF PhoneEffect, ScheduleEffect
      <4> QED BY <1>0, <3>1, <4>1, <4>2, <4>3 DEF VerifiedInv, WithinTolerance
    <3>2. CASE /\ Step = "verify_schedule_configured" /\ Advances
               /\ state.configured /\ state'.configured /\ state'.target = state.target
               /\ phone.draft.schedule # NoTime
               /\ WithinTolerance(phone.draft.schedule, state.target)
      <4>1. Past("verify_schedule_configured")'
        BY <2>3, <3>2
      <4>2. phone'.draft.schedule = phone.draft.schedule
        BY <2>1, <3>2 DEF PhoneEffect, ScheduleEffect
      <4> QED BY <1>0, <3>2, <4>1, <4>2 DEF VerifiedInv, WithinTolerance
    <3>3. CASE Step = "set_schedule_datetime"
      BY <2>1, <2>2, <2>3, <3>3 DEF VerifiedInv, RunEffect, VerifiedEffect
    <3> QED BY <2>1, <3>1, <3>2, <3>3 DEF RunEffect, VerifiedEffect
  <2>6. ASSUME job.mode = "scheduled", attempt > 0
        PROVE  "verify_schedule_configured" \in ToSet(todo') \/ state'.verified
    <3>1. CASE Step = "verify_schedule_configured" /\ Advances
      BY <2>1, <3>1 DEF SeenEffect
    <3>2. CASE "verify_schedule_configured" \notin ToSet(todo)
      <4>1. state.verified /\ Step # "set_schedule_datetime"
        BY <2>2, <2>3, <2>6, <3>2 DEF ScheduledInv, VerifiedInv
      <4>2. state'.verified = state.verified \/ (Step = "verify_schedule_configured" /\ Advances)
        BY <2>1, <4>1 DEF RunEffect, VerifiedEffect
      <4> QED BY <3>1, <4>1, <4>2
    <3> QED BY <2>3, <3>1, <3>2
  <2>7. ASSUME job.mode = "immediate" PROVE phone'.draft.schedule = NoTime
    <3>1. Step # "set_schedule_datetime"
      <4>1. CASE todo = << >>
        BY <4>1 DEF Step
      <4>2. CASE todo # << >>
        BY <2>7, <4>2, StepsInOrder DEF OrderInv, FormInv, TypedInv
      <4> QED BY <4>1, <4>2
    <3> QED BY <2>1, <2>7, <3>1 DEF PhoneEffect, ScheduleEffect, ScheduledInv
  <2>8. ScheduledInv'
    BY <1>0, <2>0, <2>6, <2>7 DEF ScheduledInv
  <2> QED BY <2>4, <2>5, <2>8
<1> QED BY <1>1, <1>2, <1>3, OtherSteps

\* What is known of the schedule holds of every state.
LEMMA ScheduleHolds == Spec => []ScheduleInv
<1>1. Init => ScheduleInv
  <2>1. ~NewState.configured /\ ~NewState.verified /\ EmptyDraft.schedule = NoTime
    BY DEF NewState, EmptyDraft
  <2> QED BY <2>1 DEF Init, ScheduleInv, ConfiguredInv, VerifiedInv, ScheduledInv
<1>2. FormInv /\ OrderInv /\ ScheduleInv /\ [Next]_vars => ScheduleInv'
  BY ScheduleStep
<1> QED BY <1>1, <1>2, FormHolds, OrderHolds, PTL DEF Spec

\* Once the state file says that the schedule is verified, the draft on the
\* phone has a time within tolerance of the recorded target, until the next
\* attempt begins: no later step of either script touches either of the two.
THEOREM VerifiedDraftHasTargetTimeHolds == Spec => []VerifiedDraftHasTargetTime
<1>1. ScheduleInv => VerifiedDraftHasTargetTime
  BY DEF ScheduleInv, VerifiedInv, VerifiedDraftHasTargetTime
<1> QED BY <1>1, ScheduleHolds, PTL


-----------------------------------------------------------------------------
(* What is posted. *)

\* A post is made of the draft of a publish page, after all steps that look.
FinalTapped ==
  /\ posts' = Append(posts, Posted)
  /\ phone.page = "preset" /\ attempt > 0
  /\ DOMAIN Undoing \cap ToSet(todo) = {}
  /\ job.account = "showcase" => ~job.stop /\ ~job.dry

\* Only the tap of the publish button posts.
LEMMA PostsGrow ==
  ASSUME FormInv, OrderInv, [Next]_vars
  PROVE  posts' = posts \/ FinalTapped
<1>1. CASE ~PipelineStep
  BY <1>1, OtherSteps
<1>2. CASE PipelineStep /\ Quiet
  BY <1>2 DEF Quiet
<1>3. CASE PipelineStep /\ PermittedTap
  <2>1. /\ posts' = Append(posts, Posted) /\ phone.page = "preset"
        /\ Step \in FINAL_PUBLISH_STEP_IDS
        /\ job.account = "showcase" => ~job.stop /\ ~job.dry
    BY <1>3 DEF PermittedTap, TapPublishes
  <2>2. todo # << >>
    BY <2>1 DEF Step, FINAL_PUBLISH_STEP_IDS
  <2>3. attempt > 0 /\ \A s \in DOMAIN Undoing : s \notin ToSet(todo)
    BY <2>1, <2>2, StepsInOrder DEF OrderInv, FormInv, TypedInv
  <2> QED BY <2>1, <2>3 DEF FinalTapped
<1> QED BY <1>1, <1>2, <1>3, ScriptStep

\* The posts after a tap are the earlier ones and the new one.
LEMMA NewPosts ==
  ASSUME posts \in Seq(PostType), phone \in PhoneType, posts' = Append(posts, Posted)
  PROVE  \A i \in DOMAIN posts' :
           posts'[i] = Posted \/ (i \in DOMAIN posts /\ posts'[i] = posts[i])
BY PostIsTyped, AppendProperties

\* A verified time is near the one asked for.
LEMMA VerifiedIsNear ==
  ASSUME FormInv, ScheduleInv, state.verified
  PROVE  /\ phone.draft.schedule >= job.time - Tolerance
         /\ phone.draft.schedule <= job.time + 2 * Extension + Tolerance
<1>1. /\ phone.draft.schedule \in Int /\ state.target \in Int /\ job.time \in Nat
      /\ Tolerance \in Int /\ Extension \in Nat
  BY FormIsTyped, NativeScheduleAssumption
     DEF RunTyped, PhoneType, DraftType, StateType, NoTime, Tolerance, ShowcaseTolerance,
         MarketingTolerance
<1>2. /\ WithinTolerance(phone.draft.schedule, state.target)
      /\ state.target \in job.time .. job.time + 2 * Extension
  BY DEF ScheduleInv, VerifiedInv, ConfiguredInv
<1>3. \/ schedule_time_tolerance_match(phone.draft.schedule, state.target, Tolerance)
      \/ verify_showcase_schedule_configured(phone.draft.schedule, state.target, Tolerance)
  BY <1>2 DEF WithinTolerance, Tolerance
<1>4. phone.draft.schedule \in state.target - Tolerance .. state.target + Tolerance
  BY <1>1, <1>3, ToleranceIsDistance
<1> QED BY <1>1, <1>2, <1>4

\* A scheduled post is never published at once, and its time is at least the
\* one asked for and at most two extensions later, each within the tolerance,
\* whatever swipes were lost and however the clock went on; an immediate post
\* has no time.
THEOREM PostNearRequestedTimeHolds == Spec => []PostNearRequestedTime
<1>1. Init => PostNearRequestedTime
  BY DEF Init, PostNearRequestedTime
<1>2. ASSUME FormInv, OrderInv, ScheduleInv, PostNearRequestedTime, [Next]_vars
      PROVE  PostNearRequestedTime'
  <2>0. job' = job /\ job \in Jobs /\ posts \in Seq(PostType) /\ phone \in PhoneType
    BY <1>2, OtherSteps DEF FormInv, TypedInv, PipelineStep
  <2>1. Tolerance' = Tolerance
    BY <2>0 DEF Tolerance
  <2>2. CASE posts' = posts
    BY <1>2, <2>0, <2>1, <2>2 DEF PostNearRequestedTime
  <2>3. CASE FinalTapped
    <3>1. Posted.schedule = phone.draft.schedule
      BY DEF Posted
    <3>2. CASE job.mode = "immediate"
      <4>1. Posted.schedule = NoTime
        BY <1>2, <3>1, <3>2 DEF ScheduleInv, ScheduledInv
      <4> QED BY <1>2, <2>0, <2>3, <3>2, <4>1, NewPosts DEF FinalTapped, PostNearRequestedTime
    <3>3. CASE job.mode # "immediate"
      <4>1. job.mode = "scheduled"
        BY <2>0, <3>3, WorkflowIsInOrder
      <4>2. "verify_schedule_configured" \notin ToSet(todo) /\ attempt > 0
        BY <2>3 DEF FinalTapped, Undoing
      <4>3. state.verified
        BY <1>2, <4>1, <4>2 DEF ScheduleInv, ScheduledInv
      <4>4. /\ Posted.schedule >= job.time - Tolerance
            /\ Posted.schedule <= job.time + 2 * Extension + Tolerance
        BY <1>2, <3>1, <4>3, VerifiedIsNear
      <4> QED BY <1>2, <2>0, <2>1, <2>3, <3>3, <4>4, NewPosts
              DEF FinalTapped, PostNearRequestedTime
    <3> QED BY <3>2, <3>3
  <2> QED BY <1>2, <2>2, <2>3, PostsGrow
<1> QED BY <1>1, <1>2, FormHolds, OrderHolds, ScheduleHolds, PTL DEF Spec

-----------------------------------------------------------------------------
(* The caption. *)

\* A showcase run has pasted the caption, and seen it, or is still to do so.
CaptionInv ==
  job.account = "showcase" /\ attempt > 0 =>
    \/ "paste_caption" \in ToSet(todo)
    \/ (phone.draft.caption \/ job.dry) /\ Past("paste_caption")

\* The steps that drop the caption come before the one that pastes it.
LEMMA CaptionStep ==
  ASSUME FormInv, OrderInv, CaptionInv, [Next]_vars
  PROVE  CaptionInv'
<1>0. job' = job /\ job \in Jobs
  BY OtherSteps DEF FormInv, TypedInv, PipelineStep
<1>1. "paste_caption" \in DOMAIN Undoing
      /\ Undoing["paste_caption"] = {"open_tiktok", "open_target_app"}
  BY DEF Undoing
<1>2. CASE claim_and_prepare
  <2>1. todo' = WorkflowSteps
    BY <1>2 DEF claim_and_prepare
  <2>2. job.account = "showcase" => "paste_caption" \in ToSet(WorkflowSteps)
    BY <1>0, <1>1, WorkflowIsInOrder
  <2> QED BY <1>0, <2>1, <2>2 DEF CaptionInv
<1>3. CASE UNCHANGED <<todo, phone, attempt>>
  BY <1>0, <1>3 DEF CaptionInv, Past
<1>4. CASE PipelineStep
  <2>0. attempt' = attempt
    BY <1>4 DEF PipelineStep, taskVars
  <2>1. PhoneEffect /\ SeenEffect
    BY <1>4, ScriptEffects DEF ScriptEffect
  <2>2. /\ \/ "paste_caption" \in ToSet(todo')
           \/ Step = "paste_caption" /\ Advances
           \/ "paste_caption" \notin ToSet(todo)
        /\ Past("paste_caption") => /\ Step \notin Undoing["paste_caption"]
                                    /\ Past("paste_caption")'
        /\ Step = "paste_caption" => Past("paste_caption")
    BY <1>1, <1>4, MilestoneStep
  <2> SUFFICES ASSUME job.account = "showcase", attempt > 0,
                      "paste_caption" \notin ToSet(todo')
               PROVE  (phone'.draft.caption \/ job.dry) /\ Past("paste_caption")'
    BY <1>0, <2>0 DEF CaptionInv
  <2>3. CASE Step = "paste_caption" /\ Advances
    BY <2>1, <2>2, <2>3 DEF SeenEffect
  <2>4. CASE "paste_caption" \notin ToSet(todo)
    BY <1>1, <2>1, <2>2, <2>4 DEF CaptionInv, PhoneEffect, CaptionEffect
  <2> QED BY <2>2, <2>3, <2>4
<1> QED BY <1>2, <1>3, <1>4, OtherSteps DEF PipelineStep, taskVars

\* So a draft that is past paste_caption has its caption, in every run.
LEMMA CaptionHolds == Spec => []CaptionInv
<1>1. Init => CaptionInv
  BY DEF Init, CaptionInv
<1>2. FormInv /\ OrderInv /\ CaptionInv /\ [Next]_vars => CaptionInv'
  BY CaptionStep
<1> QED BY <1>1, <1>2, FormHolds, OrderHolds, PTL DEF Spec

\* Every showcase post has the task's caption: nothing between the step that
\* has seen it and the final tap can lose it.
THEOREM PostHasCaptionHolds == Spec => []PostHasCaption
<1>1. Init => PostHasCaption
  BY DEF Init, PostHasCaption
<1>2. ASSUME FormInv, OrderInv, CaptionInv, PostHasCaption, [Next]_vars
      PROVE  PostHasCaption'
  <2>0. job' = job /\ posts \in Seq(PostType) /\ phone \in PhoneType
    BY <1>2, OtherSteps DEF FormInv, TypedInv, PipelineStep
  <2>1. CASE posts' = posts
    BY <1>2, <2>0, <2>1 DEF PostHasCaption
  <2>2. CASE FinalTapped
    <3> SUFFICES ASSUME job.account = "showcase", NEW i \in DOMAIN posts'
                 PROVE  posts'[i].caption
      BY <2>0 DEF PostHasCaption
    <3>1. "paste_caption" \notin ToSet(todo) /\ attempt > 0 /\ ~job.dry
      BY <2>2 DEF FinalTapped, Undoing
    <3>2. Posted.caption
      BY <1>2, <3>1 DEF CaptionInv, Posted
    <3>3. posts'[i] = Posted \/ (i \in DOMAIN posts /\ posts'[i] = posts[i])
      BY <2>0, <2>2, NewPosts DEF FinalTapped
    <3> QED BY <1>2, <3>2, <3>3 DEF PostHasCaption
  <2> QED BY <1>2, <2>1, <2>2, PostsGrow
<1> QED BY <1>1, <1>2, FormHolds, OrderHolds, CaptionHolds, PTL DEF Spec


-----------------------------------------------------------------------------
(* The video. *)

\* A step that is not listed is not the one that is carried out.
LEMMA UnlistedStep ==
  ASSUME FormInv, OrderInv, NEW s \in DOMAIN Undoing, s \notin ToSet(todo)
  PROVE  Step # s
<1>1. CASE todo = << >>
  BY <1>1 DEF Step, Undoing
<1>2. CASE todo # << >>
  BY <1>2, StepsInOrder DEF FormInv, TypedInv, OrderInv
<1> QED BY <1>1, <1>2

\* A showcase script does not wait for the media index.
VideoKnown == job.account = "marketing" \/ ~job.indexLags

\* Once pushed, the task's video stays in the index.
PushedInv ==
  VideoKnown /\ attempt > 0 =>
    \/ "push_video" \in ToSet(todo)
    \/ "task" \in gallery.index /\ Past("push_video")

\* The cleanup that takes the video of the task away comes before its push.
LEMMA PushedStep ==
  ASSUME FormInv, OrderInv, PushedInv, [Next]_vars
  PROVE  PushedInv'
<1>0. job' = job /\ job \in Jobs
  BY OtherSteps DEF FormInv, TypedInv, PipelineStep
<1>1. "push_video" \in DOMAIN Undoing /\ Undoing["push_video"] = {"pre_push_gallery_cleanup"}
  BY DEF Undoing
<1>2. CASE claim_and_prepare
  <2>1. todo' = WorkflowSteps
    BY <1>2 DEF claim_and_prepare
  <2> QED BY <1>0, <2>1, WorkflowIsInOrder DEF PushedInv
<1>3. CASE UNCHANGED <<todo, gallery, attempt>>
  BY <1>0, <1>3 DEF PushedInv, VideoKnown, Past
<1>4. CASE PipelineStep
  <2>0. attempt' = attempt
    BY <1>4 DEF PipelineStep, taskVars
  <2>1. GalleryEffect /\ SeenEffect
    BY <1>4, ScriptEffects DEF ScriptEffect
  <2>2. /\ \/ "push_video" \in ToSet(todo) /\ "push_video" \in ToSet(todo')
           \/ Step = "push_video" /\ Advances
           \/ "push_video" \notin ToSet(todo) /\ "push_video" \notin ToSet(todo')
        /\ Past("push_video") => Step \notin Undoing["push_video"] /\ Past("push_video")'
        /\ Step = "push_video" => Past("push_video")
    BY <1>1, <1>4, MilestoneStep
  <2> SUFFICES ASSUME VideoKnown, attempt > 0, "push_video" \notin ToSet(todo')
               PROVE  "task" \in gallery'.index /\ Past("push_video")'
    BY <1>0, <2>0 DEF PushedInv, VideoKnown
  <2>3. CASE Step = "push_video" /\ Advances
    BY <2>1, <2>2, <2>3 DEF SeenEffect, VideoKnown
  <2>4. CASE "push_video" \notin ToSet(todo)
    <3>1. Step # "push_video"
      BY <1>1, <2>4, UnlistedStep
    <3>2. "task" \in gallery.index /\ Past("push_video")
      BY <2>4 DEF PushedInv
    <3> QED BY <1>1, <2>1, <2>2, <3>1, <3>2 DEF GalleryEffect
  <2> QED BY <2>2, <2>3, <2>4
<1> QED BY <1>2, <1>3, <1>4, OtherSteps

\* A draft has no video or the task's, and one on any later page has it.
VideoInv ==
  VideoKnown => /\ phone.draft.video \in {NoVideo, "task"}
                /\ phone.page \notin EarlyPages => phone.draft.video = "task"

\* What a draft shows was in the gallery, so it is the video of the task.
LEMMA VideoStep ==
  ASSUME FormInv, OrderInv, PushedInv, VideoInv, [Next]_vars
  PROVE  VideoInv'
<1>0. job' = job
  BY OtherSteps DEF PipelineStep
<1>1. CASE ~PipelineStep
  BY <1>0, <1>1, OtherSteps DEF VideoInv, VideoKnown
<1>2. CASE PipelineStep
  <2> SUFFICES ASSUME VideoKnown
               PROVE  /\ phone'.draft.video \in {NoVideo, "task"}
                      /\ phone'.page \notin EarlyPages => phone'.draft.video = "task"
    BY <1>0 DEF VideoInv, VideoKnown
  <2>1. PhoneEffect
    BY <1>2, ScriptEffects
  <2>2. Step = "select_first_video" => FirstListed(gallery.index) = {"task"}
    <3> SUFFICES ASSUME Step = "select_first_video" PROVE FirstListed(gallery.index) = {"task"}
      OBVIOUS
    <3>1. todo # << >>
      BY DEF Step
    <3>2. "push_video" \notin ToSet(todo) /\ attempt > 0
      BY <3>1, StepsInOrder DEF FormInv, TypedInv, OrderInv
    <3> QED BY <3>2 DEF PushedInv, FirstListed
  <2>3. phone'.draft.video \in {NoVideo, "task"}
    BY <2>1, <2>2 DEF VideoInv, PhoneEffect, VideoEffect
  <2>4. phone'.page \notin EarlyPages => phone'.draft.video = "task"
    BY <2>1, <2>3 DEF VideoInv, PhoneEffect, PageEffect
  <2> QED BY <2>3, <2>4
<1> QED BY <1>1, <1>2

\* So no draft shows the video of another task, in every run.
LEMMA VideoHolds == Spec => [](PushedInv /\ VideoInv)
<1>1. Init => PushedInv /\ VideoInv
  BY DEF Init, PushedInv, VideoInv, EmptyDraft, EarlyPages
<1>2. FormInv /\ OrderInv /\ PushedInv /\ VideoInv /\ [Next]_vars => PushedInv' /\ VideoInv'
  BY PushedStep, VideoStep
<1> QED BY <1>1, <1>2, FormHolds, OrderHolds, PTL DEF Spec

\* What is published is the task's video: on the way to the publish page no
\* other is first in the picker, whatever lay on the phone before and whatever
\* an earlier attempt left there.
THEOREM PostShowsTaskVideoHolds == Spec => []PostShowsTaskVideo
<1>1. Init => PostShowsTaskVideo
  BY DEF Init, PostShowsTaskVideo
<1>2. ASSUME FormInv, OrderInv, VideoInv, PostShowsTaskVideo, [Next]_vars
      PROVE  PostShowsTaskVideo'
  <2>0. job' = job /\ posts \in Seq(PostType) /\ phone \in PhoneType
    BY <1>2, OtherSteps DEF FormInv, TypedInv, PipelineStep
  <2>1. CASE posts' = posts
    BY <1>2, <2>0, <2>1 DEF PostShowsTaskVideo
  <2>2. CASE FinalTapped
    <3> SUFFICES ASSUME job.account = "marketing" \/ ~job.indexLags, NEW i \in DOMAIN posts'
                 PROVE  posts'[i].video = "task"
      BY <2>0 DEF PostShowsTaskVideo
    <3>1. phone.page \notin EarlyPages
      BY <2>2 DEF FinalTapped, EarlyPages
    <3>2. Posted.video = "task"
      BY <1>2, <3>1 DEF VideoInv, VideoKnown, Posted
    <3>3. posts'[i] = Posted \/ (i \in DOMAIN posts /\ posts'[i] = posts[i])
      BY <2>0, <2>2, NewPosts DEF FinalTapped
    <3> QED BY <1>2, <3>2, <3>3 DEF PostShowsTaskVideo
  <2> QED BY <1>2, <2>1, <2>2, PostsGrow
<1> QED BY <1>1, <1>2, FormHolds, OrderHolds, VideoHolds, PTL DEF Spec


-----------------------------------------------------------------------------
(* The product. *)

\* Whatever the draft links to, or is about to, looks like the target.
LinkInv == ~job.addTextElsewhere => /\ phone.draft.pick \in Lookalikes \cup {NoProduct}
                                    /\ phone.draft.link \in Lookalikes \cup {NoProduct}

\* The product is looked for right after the publish page was awaited.
AwaitedInv == Step = "assert_product_link_attached" => phone.page = "preset"

\* A showcase run has seen the product on the publish page, or is still to look.
LinkedInv ==
  job.account = "showcase" /\ ~job.captionNamesProduct /\ attempt > 0 =>
    \/ "assert_product_link_attached" \in ToSet(todo)
    \/ phone.draft.link # NoProduct /\ Past("assert_product_link_attached")

\* Only what the lists show under the target's name is picked or linked.
LEMMA LinkStep ==
  ASSUME FormInv, OrderInv, LinkInv, [Next]_vars
  PROVE  LinkInv'
<1>1. CASE ~PipelineStep
  BY <1>1, OtherSteps DEF LinkInv
<1>2. CASE PipelineStep
  BY <1>2, ScriptEffects DEF LinkInv, PhoneEffect, PickEffect, LinkEffect, PipelineStep
<1> QED BY <1>1, <1>2

\* The wait for the publish page leaves the phone on it for the next step.
LEMMA AwaitedStep ==
  ASSUME FormInv, OrderInv, AwaitedInv, [Next]_vars
  PROVE  AwaitedInv'
<1>0. job \in Jobs /\ todo \in Seq(STRING) /\ InOrder(todo)
  BY DEF FormInv, TypedInv, OrderInv
<1>1. CASE claim_and_prepare
  <2>1. todo' = WorkflowSteps
    BY <1>1 DEF claim_and_prepare
  <2>2. Step' = "preflight"
    BY <1>0, <2>1, WorkflowIsInOrder DEF Step
  <2> QED BY <2>2 DEF AwaitedInv
<1>2. CASE UNCHANGED <<todo, phone>>
  BY <1>2 DEF AwaitedInv, Step
<1>3. CASE PipelineStep
  <2>1. SeenEffect
    BY <1>3, ScriptEffects DEF ScriptEffect
  <2>2. CASE todo' = todo
    BY <2>1, <2>2 DEF AwaitedInv, SeenEffect, Step
  <2>3. CASE Advances
    <3> SUFFICES ASSUME Step' = "assert_product_link_attached"
                 PROVE  phone'.page = "preset"
      BY DEF AwaitedInv
    <3>1. Tail(todo) # << >> /\ Head(Tail(todo)) = "assert_product_link_attached"
      BY <2>3 DEF Advances, Step
    <3>2. Step = "wait_return_to_publish_preset"
      BY <1>0, <2>3, <3>1, StepsInOrder DEF Advances
    <3> QED BY <2>1, <2>3, <3>2 DEF SeenEffect
  <2>4. CASE todo' = << >>
    BY <2>4 DEF AwaitedInv, Step
  <2> QED BY <1>3, <2>2, <2>3, <2>4, ScriptAdvances
<1> QED BY <1>1, <1>2, <1>3, OtherSteps

\* The steps that take the product off the draft come before the one that checks it.
LEMMA LinkedStep ==
  ASSUME FormInv, OrderInv, AwaitedInv, LinkedInv, [Next]_vars
  PROVE  LinkedInv'
<1>0. job' = job /\ job \in Jobs
  BY OtherSteps DEF FormInv, TypedInv, PipelineStep
<1>1. "assert_product_link_attached" \in DOMAIN Undoing
      /\ Undoing["assert_product_link_attached"] =
           {"open_tiktok", "open_target_app", "ensure_showcase_product_attached", "tap_product_final_add"}
  BY DEF Undoing
<1>2. CASE claim_and_prepare
  <2>1. todo' = WorkflowSteps
    BY <1>2 DEF claim_and_prepare
  <2>2. job.account = "showcase" => "assert_product_link_attached" \in ToSet(WorkflowSteps)
    BY <1>0, <1>1, WorkflowIsInOrder
  <2> QED BY <1>0, <2>1, <2>2 DEF LinkedInv
<1>3. CASE UNCHANGED <<todo, phone, attempt>>
  BY <1>0, <1>3 DEF LinkedInv, Past
<1>4. CASE PipelineStep
  <2>0. attempt' = attempt
    BY <1>4 DEF PipelineStep, taskVars
  <2>1. PhoneEffect /\ SeenEffect
    BY <1>4, ScriptEffects DEF ScriptEffect
  <2>2. /\ \/ /\ "assert_product_link_attached" \in ToSet(todo)
              /\ "assert_product_link_attached" \in ToSet(todo')
           \/ Step = "assert_product_link_attached" /\ Advances
           \/ /\ "assert_product_link_attached" \notin ToSet(todo)
              /\ "assert_product_link_attached" \notin ToSet(todo')
        /\ Past("assert_product_link_attached") =>
             /\ Step \notin Undoing["assert_product_link_attached"]
             /\ Past("assert_product_link_attached")'
        /\ Step = "assert_product_link_attached" => Past("assert_product_link_attached")
    BY <1>1, <1>4, MilestoneStep
  <2> SUFFICES ASSUME job.account = "showcase", ~job.captionNamesProduct, attempt > 0,
                      "assert_product_link_attached" \notin ToSet(todo')
               PROVE  phone'.draft.link # NoProduct /\ Past("assert_product_link_attached")'
    BY <1>0, <2>0 DEF LinkedInv
  <2>3. CASE Step = "assert_product_link_attached" /\ Advances
    <3>1. phone' = phone /\ first_product_link_match /\ phone.page = "preset"
      BY <2>1, <2>3 DEF SeenEffect, AwaitedInv
    <3>2. phone.draft.link # NoProduct
      BY <3>1 DEF first_product_link_match
    <3> QED BY <2>2, <2>3, <3>1, <3>2
  <2>4. CASE "assert_product_link_attached" \notin ToSet(todo)
    <3>1. phone.draft.link # NoProduct /\ Past("assert_product_link_attached")
      BY <2>4 DEF LinkedInv
    <3>2. phone'.draft.link = phone.draft.link
      BY <1>1, <2>1, <2>2, <3>1 DEF PhoneEffect, LinkEffect
    <3> QED BY <2>2, <3>1, <3>2
  <2> QED BY <2>2, <2>3, <2>4
<1> QED BY <1>2, <1>3, <1>4, OtherSteps

ProductInv == LinkInv /\ AwaitedInv /\ LinkedInv

\* So a showcase draft past the assertion has a product linked, in every run.
LEMMA ProductHolds == Spec => []ProductInv
<1> USE DEF ProductInv
<1>1. Init => ProductInv
  BY DEF Init, LinkInv, AwaitedInv, LinkedInv, EmptyDraft, Step
<1>2. FormInv /\ OrderInv /\ ProductInv /\ [Next]_vars => ProductInv'
  BY LinkStep, AwaitedStep, LinkedStep
<1> QED BY <1>1, <1>2, FormHolds, OrderHolds, PTL DEF Spec

\* A draft whose link is not missing has one that looks like the target's.
LEMMA LinkLooksLikeTarget ==
  ASSUME ProductInv, job.account = "showcase", ~job.captionNamesProduct, ~job.addTextElsewhere,
         attempt > 0,
         "assert_product_link_attached" \notin ToSet(todo)
  PROVE  phone.draft.link \in Lookalikes
BY DEF ProductInv, LinkInv, LinkedInv

\* A showcase post carries the task's product, or one whose title reads the
\* same where it is compared, unless the caption names the product too:
\* whatever the search found or missed, the final tap is reached only with a
\* link in the draft, and every link came from a card that matched.
THEOREM PostCarriesTargetProductHolds == Spec => []PostCarriesTargetProduct
<1>1. Init => PostCarriesTargetProduct
  BY DEF Init, PostCarriesTargetProduct
<1>2. ASSUME FormInv, OrderInv, ProductInv, PostCarriesTargetProduct, [Next]_vars
      PROVE  PostCarriesTargetProduct'
  <2>0. job' = job /\ posts \in Seq(PostType) /\ phone \in PhoneType
    BY <1>2, OtherSteps DEF FormInv, TypedInv, PipelineStep
  <2>1. CASE posts' = posts
    BY <1>2, <2>0, <2>1 DEF PostCarriesTargetProduct
  <2>2. CASE FinalTapped
    <3> SUFFICES ASSUME job.account = "showcase", ~job.captionNamesProduct, ~job.addTextElsewhere,
                        NEW i \in DOMAIN posts'
                 PROVE  posts'[i].link \in Lookalikes
      BY <2>0 DEF PostCarriesTargetProduct
    <3>1. "assert_product_link_attached" \notin ToSet(todo) /\ attempt > 0
      BY <2>2 DEF FinalTapped, Undoing
    <3>2. Posted.link \in Lookalikes
      BY <1>2, <3>1, LinkLooksLikeTarget DEF Posted
    <3>3. posts'[i] = Posted \/ (i \in DOMAIN posts /\ posts'[i] = posts[i])
      BY <2>0, <2>2, NewPosts DEF FinalTapped
    <3> QED BY <1>2, <3>2, <3>3 DEF PostCarriesTargetProduct
  <2> QED BY <1>2, <2>1, <2>2, PostsGrow
<1> QED BY <1>1, <1>2, FormHolds, OrderHolds, ProductHolds, PTL DEF Spec

-----------------------------------------------------------------------------
(* The draft that is left for an operator. *)

\* A showcase run has been on the publish page with the task's video.
NextInv ==
  job.account = "showcase" /\ VideoKnown /\ attempt > 0 =>
    \/ "tap_next_until_publish_preset" \in ToSet(todo)
    \/ phone.draft.video = "task" /\ Past("tap_next_until_publish_preset")

\* The steps that take the video off the draft come before the one that checks it.
LEMMA NextStep ==
  ASSUME FormInv, OrderInv, VideoInv, VideoInv', NextInv, [Next]_vars
  PROVE  NextInv'
<1>0. job' = job /\ job \in Jobs
  BY OtherSteps DEF FormInv, TypedInv, PipelineStep
<1>1. "tap_next_until_publish_preset" \in DOMAIN Undoing
      /\ Undoing["tap_next_until_publish_preset"] =
           {"open_tiktok", "open_target_app", "select_first_video"}
  BY DEF Undoing
<1>2. CASE claim_and_prepare
  <2>1. todo' = WorkflowSteps
    BY <1>2 DEF claim_and_prepare
  <2>2. job.account = "showcase" => "tap_next_until_publish_preset" \in ToSet(WorkflowSteps)
    BY <1>0, <1>1, WorkflowIsInOrder
  <2> QED BY <1>0, <2>1, <2>2 DEF NextInv
<1>3. CASE UNCHANGED <<todo, phone, attempt>>
  BY <1>0, <1>3 DEF NextInv, VideoKnown, Past
<1>4. CASE PipelineStep
  <2>0. attempt' = attempt
    BY <1>4 DEF PipelineStep, taskVars
  <2>1. PhoneEffect /\ SeenEffect
    BY <1>4, ScriptEffects DEF ScriptEffect
  <2>2. /\ \/ /\ "tap_next_until_publish_preset" \in ToSet(todo)
              /\ "tap_next_until_publish_preset" \in ToSet(todo')
           \/ Step = "tap_next_until_publish_preset" /\ Advances
           \/ /\ "tap_next_until_publish_preset" \notin ToSet(todo)
              /\ "tap_next_until_publish_preset" \notin ToSet(todo')
        /\ Past("tap_next_until_publish_preset") =>
             /\ Step \notin Undoing["tap_next_until_publish_preset"]
             /\ Past("tap_next_until_publish_preset")'
        /\ Step = "tap_next_until_publish_preset" => Past("tap_next_until_publish_preset")
    BY <1>1, <1>4, MilestoneStep
  <2> SUFFICES ASSUME job.account = "showcase", VideoKnown, attempt > 0,
                      "tap_next_until_publish_preset" \notin ToSet(todo')
               PROVE  phone'.draft.video = "task" /\ Past("tap_next_until_publish_preset")'
    BY <1>0, <2>0 DEF NextInv, VideoKnown
  <2>3. CASE Step = "tap_next_until_publish_preset" /\ Advances
    BY <1>0, <2>1, <2>2, <2>3 DEF SeenEffect, VideoInv, VideoKnown
  <2>4. CASE "tap_next_until_publish_preset" \notin ToSet(todo)
    <3>1. phone.draft.video = "task" /\ Past("tap_next_until_publish_preset")
      BY <2>4 DEF NextInv
    <3>2. phone'.draft.video = phone.draft.video
      BY <1>1, <2>1, <2>2, <3>1 DEF PhoneEffect, VideoEffect
    <3> QED BY <2>2, <3>1, <3>2
  <2> QED BY <2>2, <2>3, <2>4
<1> QED BY <1>2, <1>3, <1>4, OtherSteps

\* A script runs, and stops before its final tap, only in an attempt; what is
\* left as debug_ready was stopped so, with nothing published before.
StopInv ==
  /\ outcome # "idle" => attempt > 0
  /\ state.stopped => todo = << >> /\ attempt > 0
  /\ verdict = "debug_ready" => /\ outcome = "idle" /\ state.stopped
                                /\ job.account = "showcase" /\ job.stop
  /\ job.account = "showcase" /\ job.stop => posts = << >> /\ postsBefore = 0

\* A run that is told to stop before the final tap has posted nothing.
LEMMA StopStep ==
  ASSUME FormInv, OrderInv, StopInv, [Next]_vars
  PROVE  StopInv'
<1> USE DEF StopInv
<1>0. job' = job /\ attempt \in Nat
  BY OtherSteps DEF FormInv, TypedInv, PipelineStep
<1>1. CASE claim_and_prepare
  BY <1>0, <1>1 DEF claim_and_prepare, NewState, mediaVars
<1>2. CASE judge
  BY <1>0, <1>2 DEF judge, pipeline_stopped_before_final_publish, mediaVars
<1>3. CASE PipelineStep
  <2>1. /\ outcome = "running" /\ UNCHANGED <<attempt, verdict, postsBefore>>
    BY <1>3 DEF PipelineStep, Running, taskVars
  <2>2. RunEffect
    BY <1>3, ScriptEffects DEF ScriptEffect
  <2>3. todo = << >> => todo' = << >>
    BY <1>3, ScriptAdvances DEF Advances
  <2>4. job.account = "showcase" /\ job.stop => posts' = posts
    BY PostsGrow DEF FinalTapped
  <2> QED BY <1>0, <2>1, <2>2, <2>3, <2>4 DEF RunEffect
<1>4. CASE run_once_refused \/ run_plan_timeout \/ Elapse \/ Settle \/ UNCHANGED vars
  BY <1>0, <1>4 DEF run_once_refused, run_plan_timeout, Elapse, Settle, vars, Fail, Running,
                    runVars, mediaVars, taskVars
<1> QED BY <1>1, <1>2, <1>3, <1>4 DEF Next

\* So it holds in every run that a stopped pipeline leaves a complete draft.
LEMMA StopHolds == Spec => [](NextInv /\ StopInv)
<1>1. Init => NextInv /\ StopInv
  BY DEF Init, NextInv, StopInv, NewState
<1>2. FormInv /\ OrderInv /\ VideoInv /\ VideoInv' /\ NextInv /\ StopInv /\ [Next]_vars =>
        NextInv' /\ StopInv'
  BY NextStep, StopStep
<1> QED BY <1>1, <1>2, FormHolds, OrderHolds, VideoHolds, PTL DEF Spec

\* What an operator finds as debug_ready is a draft that has published nothing
\* and is complete: the task's video, a product that looks like the task's,
\* and a time within tolerance of the target.
THEOREM DebugReadyDraftIsCompleteHolds == Spec => []DebugReadyDraftIsComplete
<1>1. ASSUME FormInv, ScheduleInv, ProductInv, NextInv, StopInv
      PROVE  DebugReadyDraftIsComplete
  <2> SUFFICES ASSUME verdict = "debug_ready"
               PROVE  /\ Len(posts) = postsBefore
                      /\ ~job.indexLags => phone.draft.video = "task"
                      /\ ~job.captionNamesProduct /\ ~job.addTextElsewhere => phone.draft.link \in Lookalikes
                      /\ job.mode = "scheduled" =>
                           WithinTolerance(phone.draft.schedule, state.target)
    BY DEF DebugReadyDraftIsComplete
  <2>1. /\ todo = << >> /\ attempt > 0 /\ job.account = "showcase"
        /\ posts = << >> /\ postsBefore = 0
    BY <1>1 DEF StopInv
  <2>2. ToSet(todo) = {}
    BY <2>1 DEF ToSet
  <2>3. ~job.indexLags => phone.draft.video = "task"
    BY <1>1, <2>1, <2>2 DEF NextInv, VideoKnown
  <2>4. ~job.captionNamesProduct /\ ~job.addTextElsewhere => phone.draft.link \in Lookalikes
    BY <1>1, <2>1, <2>2, LinkLooksLikeTarget
  <2>5. job.mode = "scheduled" => WithinTolerance(phone.draft.schedule, state.target)
    BY <1>1, <2>1, <2>2 DEF ScheduleInv, ScheduledInv, VerifiedInv
  <2> QED BY <2>1, <2>3, <2>4, <2>5
<1> QED BY <1>1, FormHolds, ScheduleHolds, ProductHolds, StopHolds, PTL

=============================================================================
