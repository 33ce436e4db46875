---------------------------- MODULE Publication ----------------------------
(* One task on one phone, from the claim to the verdict: the pipeline adapter*)
(* prepares an attempt, one of the two workflow scripts carries it out, and  *)
(* the queue service judges what the script left in its state file; a        *)
(* failure that may be repeated is tried again on whatever the phone shows.  *)
EXTENDS ShowcaseWorkflow, MarketingWorkflow

CONSTANTS
  MaxAttempts,   \* attempts of the task considered (max_retries and the first)
  Pauses,        \* minutes that may pass between two steps
  MaxElapsed     \* minutes the clock advances in all

ASSUME PublicationAssumption ==
  MaxAttempts \in Nat \ {0} /\ Pauses \subseteq Nat \ {0} /\ MaxElapsed \in Nat

VARIABLES
  attempt,    \* attempts claimed so far
  verdict,    \* how the queue judged the last attempt
  postsBefore \* how many posts there were when the attempt was claimed

vars == <<job, todo, outcome, state, scan, phone, gallery, posts, now,
          attempt, verdict, postsBefore>>

taskVars == <<attempt, verdict, postsBefore>>

Verdicts == {"none", "refused", "published", "debug_ready", "dry_run", "retryable", "failed"}

Init ==
  /\ job \in Jobs
  /\ phone \in [page : {"launcher"}, offset : {0}, showcase : Showcases, shop : Shops,
                draft : {EmptyDraft}]
  /\ gallery \in { [files |-> g, index |-> g] : g \in Galleries }
  /\ todo = <<>> /\ outcome = "idle" /\ state = NewState /\ scan = NoScan
  /\ posts = <<>> /\ now = StartTime
  /\ attempt = 0 /\ verdict = "none" /\ postsBefore = 0

-----------------------------------------------------------------------------
(* Claiming and preparing. *)

(* run_once without permission for anything real claims nothing.             *)
run_once_refused ==
  /\ verdict = "none" /\ attempt = 0 /\ outcome = "idle"
  /\ ~job.dry /\ ~job.allow /\ ~job.stop
  /\ verdict' = "refused"
  /\ UNCHANGED <<job, runVars, scan, phone, mediaVars, now, attempt, postsBefore>>

\* A faulty variant: the gate is never closed.
GateAlwaysOpen == TRUE

(* A profile whose calibration is outstanding publishes nothing for real;    *)
(* but a run that is to stop before the final tap is not asked.              *)
validate_profile_publish_gate ==
  job.allow /\ ~job.dry /\ ~job.stop => job.calibrated

WorkflowSteps ==
  IF job.account = "showcase" THEN ShowcaseSteps(job.mode) ELSE MarketingSteps

(* No list of steps taps a publish button twice.                             *)
PublishesOnce(steps) ==
  \A i, j \in DOMAIN steps :
    steps[i] \in FINAL_PUBLISH_STEP_IDS /\ steps[j] \in FINAL_PUBLISH_STEP_IDS => i = j

ASSUME PublishStepsAssumption ==
  \A steps \in {ShowcaseSteps("scheduled"), ShowcaseSteps("immediate"), MarketingSteps} :
    steps \in Seq(STRING) /\ PublishesOnce(steps)

(* The steps that look at what is to be published, each with those that      *)
(* could undo what it has seen.                                              *)
Undoing ==
  [push_video                    |-> {"pre_push_gallery_cleanup"},
   tap_next_until_publish_preset |-> {"open_tiktok", "open_target_app", "select_first_video"},
   paste_caption                 |-> {"open_tiktok", "open_target_app"},
   assert_product_link_attached  |-> {"open_tiktok", "open_target_app", "ensure_showcase_product_attached",
                                     "tap_product_final_add"},
   verify_schedule_configured    |-> {"open_tiktok", "open_target_app", "set_schedule_datetime"}]

Precedes(steps, early, late) ==
  \A i, j \in DOMAIN steps : steps[i] \in early /\ steps[j] \in late => i < j

(* They come after these and before the final tap; the video is pushed       *)
(* before one is selected, and the page of the draft is awaited right before *)
(* its product is looked for.                                                *)
InOrder(steps) ==
  /\ \A s \in DOMAIN Undoing : /\ Precedes(steps, Undoing[s], {s})
                               /\ Precedes(steps, {s}, FINAL_PUBLISH_STEP_IDS)
  /\ Precedes(steps, {"push_video"}, {"select_first_video"})
  /\ \A i \in DOMAIN steps : steps[i] = "assert_product_link_attached" /\ i # 1 =>
                              steps[i - 1] = "wait_return_to_publish_preset"

ASSUME StepOrderAssumption ==
  /\ \A steps \in {ShowcaseSteps("scheduled"), ShowcaseSteps("immediate"), MarketingSteps} :
       InOrder(steps) /\ steps # <<>> /\ Head(steps) = "preflight"
  /\ \A mode \in {"scheduled", "immediate"} :
       DOMAIN Undoing \ {"verify_schedule_configured"} \subseteq ToSet(ShowcaseSteps(mode))
  /\ "verify_schedule_configured" \in ToSet(ShowcaseSteps("scheduled"))
  /\ "set_schedule_datetime" \notin ToSet(ShowcaseSteps("immediate"))
  /\ {"push_video", "verify_schedule_configured"} \subseteq ToSet(MarketingSteps)

(* A claim with a new state file.  The preparation or the phone's health may *)
(* end the attempt before the script is started, and so may an invalid       *)
(* payload of the task, for good.                                            *)
claim_and_prepare ==
  /\ outcome = "idle" /\ verdict \in {"none", "retryable"} /\ attempt < MaxAttempts
  /\ job.dry \/ job.allow \/ job.stop
  /\ attempt' = attempt + 1 /\ verdict' = "none" /\ postsBefore' = Len(posts)
  /\ todo' = WorkflowSteps /\ state' = NewState /\ scan' = NoScan
  /\ outcome' \in IF ~validate_profile_publish_gate THEN {"retryable"}
                  ELSE IF job.account = "showcase" /\ ~job.ocr THEN {"retryable"}
                  ELSE {"running", "retryable", "final"}
  /\ UNCHANGED <<job, phone, mediaVars, now>>

(* run_plan kills a script that takes more than two hours.                   *)
run_plan_timeout ==
  /\ Running
  /\ Fail("retryable") /\ scan' = NoScan
  /\ UNCHANGED <<job, phone, mediaVars, now, taskVars>>

-----------------------------------------------------------------------------
(* The verdict. *)

pipeline_stopped_before_final_publish ==
  job.account = "showcase" /\ job.stop /\ state.stopped

RequiredSteps ==
  IF job.account = "marketing"
    THEN {"push_video", "wait_schedule_picker_open", "set_schedule_datetime",
          "verify_schedule_configured", "tap_scheduled_publish", "minimize_tiktok_studio"}
    ELSE {"push_video", "tap_product_final_add", "minimize_tiktok_app"} \cup
         IF job.mode = "scheduled"
           THEN {"set_schedule_datetime", "verify_schedule_configured", "tap_scheduled_publish"}
           ELSE {"tap_publish"}

validate_pipeline_success ==
  /\ ~job.dry /\ job.allow
  /\ job.account = "marketing" \/ job.mode = "scheduled" => state.verified
  /\ RequiredSteps \subseteq state.done

judge ==
  /\ outcome \in {"finished", "retryable", "final"}
  /\ verdict' = IF outcome = "final" THEN "failed"
                ELSE IF outcome = "retryable" THEN "retryable"
                ELSE IF job.dry THEN "dry_run"
                ELSE IF pipeline_stopped_before_final_publish THEN "debug_ready"
                ELSE IF validate_pipeline_success THEN "published"
                ELSE "retryable"
  /\ outcome' = "idle"
  /\ UNCHANGED <<job, todo, state, scan, phone, mediaVars, now, attempt, postsBefore>>

-----------------------------------------------------------------------------
PipelineStep == /\ Running
                /\ ShowcaseStep \/ MarketingStep
                /\ UNCHANGED <<job, now, taskVars>>

(* Time passes.                                                              *)
Elapse == /\ \E d \in Pauses :
               now + d <= StartTime + MaxElapsed /\ now' = now + d
          /\ Running \/ (outcome = "idle" /\ verdict = "retryable" /\ attempt < MaxAttempts)
          /\ UNCHANGED <<job, runVars, scan, phone, mediaVars, taskVars>>

(* The task has its final status, or no attempt is left for it.              *)
Settle == /\ outcome = "idle"
          /\ verdict \notin {"none", "retryable"} \/ (verdict = "retryable" /\ attempt = MaxAttempts)
          /\ UNCHANGED vars

Next == \/ run_once_refused \/ claim_and_prepare \/ run_plan_timeout
        \/ PipelineStep \/ judge \/ Elapse \/ Settle

(* A script that runs goes on, and the service waits for it and judges it.   *)
Spec == Init /\ [][Next]_vars /\ WF_vars(PipelineStep) /\ WF_vars(judge)
-----------------------------------------------------------------------------
(* What a publication promises. *)

(* Type invariant.                                                           *)
TypeOK ==
  /\ job \in Jobs /\ todo \in Seq(STRING) /\ outcome \in Outcomes
  /\ state.configured \in BOOLEAN /\ state.verified \in BOOLEAN /\ state.stopped \in BOOLEAN
  /\ state.done \subseteq ToSet(WorkflowSteps)
  /\ state.target \in Nat \cup {NoTime} /\ state.initial \in Nat \cup {NoTime}
  /\ scan.area \in Areas \cup {"none"} /\ scan.result \in Results \cup {"none"}
  /\ scan.swipes \in 0..MaxListSwipes /\ scan.same \in 0..SameScreenLimit
  /\ phone.page \in Pages /\ phone.offset \in Nat
  /\ phone.draft.pick \in Products \cup {NoProduct} /\ phone.draft.link \in Products \cup {NoProduct}
  /\ gallery.index \subseteq Videos /\ gallery.files \subseteq Videos
  /\ now \in Nat /\ attempt \in 0..MaxAttempts /\ verdict \in Verdicts /\ postsBefore \in Nat

WithinTolerance(shown, target) ==
  IF job.account = "showcase"
    THEN verify_showcase_schedule_configured(shown, target, ShowcaseTolerance)
    ELSE schedule_time_tolerance_match(shown, target, MarketingTolerance)

Tolerance == IF job.account = "showcase" THEN ShowcaseTolerance ELSE MarketingTolerance

(* A showcase post carries the product of the task, or one whose title reads *)
(* the same in its first 25 characters, however the product was found, added *)
(* or missed on the way (ensure_showcase_product_attached and                *)
(* assert_product_link_attached), unless the caption names the product too,  *)
(* or a page other than the dialog shows a text the confirmation looks for.  *)
PostCarriesTargetProduct ==
  job.account = "showcase" /\ ~job.captionNamesProduct /\ ~job.addTextElsewhere =>
    \A i \in DOMAIN posts : posts[i].link \in Lookalikes

(* What is published is the video of the task, not one that lay on the phone *)
(* before it or that an earlier attempt left there, unless the media index   *)
(* lags behind a showcase push, whose script does not wait for it.           *)
PostShowsTaskVideo ==
  job.account = "marketing" \/ ~job.indexLags =>
    \A i \in DOMAIN posts : posts[i].video = "task"

(* A showcase post has the task's caption: verify_caption_pasted_or_raise    *)
(* has seen it before the workflow went on.                                  *)
PostHasCaption ==
  job.account = "showcase" => \A i \in DOMAIN posts : posts[i].caption

(* Nothing is published in a dry run, without permission, or in a showcase   *)
(* run that is to stop before the final tap; and with a profile that is not  *)
(* calibrated only where the gate was not asked.                             *)
PostedOnlyWithPermission ==
  posts # <<>> => /\ job.allow /\ ~job.dry
                  /\ job.stop => job.account = "marketing"
                  /\ job.calibrated \/ job.stop

(* A scheduled post is published as scheduled, never at once; its time is at *)
(* least the one asked for and at most two extensions later, each within the *)
(* tolerance of the check that read the form, though swipes were lost and    *)
(* the clock went on between resolving, turning and checking.                *)
PostNearRequestedTime ==
  \A i \in DOMAIN posts :
    IF job.mode = "immediate" THEN posts[i].schedule = NoTime
    ELSE /\ posts[i].schedule >= job.time - Tolerance
         /\ posts[i].schedule <= job.time + 2 * Extension + Tolerance

(* What the state file says of the schedule is true of the draft: once it is *)
(* recorded as verified, the draft on the phone has a time within tolerance  *)
(* of the recorded target until the attempt is over.                         *)
VerifiedDraftHasTargetTime ==
  state.verified => /\ phone.draft.schedule # NoTime
                    /\ WithinTolerance(phone.draft.schedule, state.target)

(* A task is left as debug_ready only with nothing published by the attempt  *)
(* and a draft on the phone that an operator can publish: the task's video   *)
(* (where the index keeps up), its product and its time.                     *)
DebugReadyDraftIsComplete ==
  verdict = "debug_ready" =>
    /\ Len(posts) = postsBefore
    /\ ~job.indexLags => phone.draft.video = "task"
    /\ ~job.captionNamesProduct /\ ~job.addTextElsewhere => phone.draft.link \in Lookalikes
    /\ job.mode = "scheduled" => WithinTolerance(phone.draft.schedule, state.target)

(* An attempt publishes at most once, and with its last tap: none of the     *)
(* steps that tap the publish button is still to come.                       *)
OnePostPerAttempt ==
  /\ Len(posts) <= postsBefore + 1
  /\ Running /\ Len(posts) > postsBefore => ToSet(todo) \cap FINAL_PUBLISH_STEP_IDS = {}

(* Permission given together with the order to stop still publishes nothing: *)
(* "Run live steps until the final publish tap, then stop as debug_ready."   *)
StopMeansNoPost == job.stop => posts = <<>>

(* Every attempt is judged in the end: no search of a product list and no    *)
(* step keeps the phone's worker busy for ever.                              *)
AttemptIsJudged == (outcome # "idle") ~> (outcome = "idle")
=============================================================================
