------------------------ MODULE NativeScheduleProofs ------------------------
(* Theorems about the arithmetic of NativeSchedule, for every time.          *)
EXTENDS NativeSchedule, TLAPS

\* A time is its date, hour and minute.
LEMMA TimeSplits ==
  ASSUME NEW t \in Int
  PROVE  /\ Date(t) \in Int /\ Hour(t) \in Int /\ Minute(t) \in Int
         /\ Hour(t) \in 0..23 /\ Minute(t) \in 0..59
         /\ t = (Date(t) * 24 + Hour(t)) * 60 + Minute(t)
<1>1. /\ Hours(t) \in Int /\ Minute(t) \in Int /\ Minute(t) \in 0..59
      /\ t = Hours(t) * 60 + Minute(t)
  BY DEF Hours, Minute, MinutesPerHour
<1>2. /\ Date(t) \in Int /\ Hour(t) \in Int /\ Hour(t) \in 0..23
      /\ Hours(t) = Date(t) * 24 + Hour(t)
  BY <1>1 DEF Date, Hour, HoursPerDay
<1> QED BY <1>1, <1>2

\* Three differences, each added to its own part, make up the target.
LEMMA PartsAddUp ==
  ASSUME NEW d \in Int, NEW h \in Int, NEW m \in Int,
         NEW d2 \in Int, NEW h2 \in Int, NEW m2 \in Int
  PROVE  ((d + (d2 - d)) * 24 + h + (h2 - h)) * 60 + m + (m2 - m) = (d2 * 24 + h2) * 60 + m2
OBVIOUS

\* Wheels that turn by compute_wheel_deltas from the time the picker opened at
\* come to rest at the target, also backwards and across hours and days: no
\* carry is lost between the three wheels.
THEOREM WheelsReachTarget ==
  ASSUME NEW current \in Int, NEW target \in Int
  PROVE  scroll_wheel(current, compute_wheel_deltas(current, target)) = target
<1>1. /\ Date(current) \in Int /\ Hour(current) \in Int /\ Minute(current) \in Int
      /\ Date(target) \in Int /\ Hour(target) \in Int /\ Minute(target) \in Int
  BY TimeSplits
<1>2. scroll_wheel(current, compute_wheel_deltas(current, target))
        = ((Date(current) + (Date(target) - Date(current))) * 24
             + Hour(current) + (Hour(target) - Hour(current))) * 60
            + Minute(current) + (Minute(target) - Minute(current))
  BY DEF scroll_wheel, compute_wheel_deltas, HoursPerDay, MinutesPerHour
<1>3. @ = (Date(target) * 24 + Hour(target)) * 60 + Minute(target)
  BY <1>1, PartsAddUp
<1>4. @ = target
  BY TimeSplits
<1> QED BY <1>2, <1>3, <1>4

\* What either script accepts on the form is at most the tolerance away from
\* the target, the date included.
LEMMA ToleranceIsDistance ==
  ASSUME NEW shown \in Int, NEW target \in Int, NEW tolerance \in Int,
         \/ schedule_time_tolerance_match(shown, target, tolerance)
         \/ verify_showcase_schedule_configured(shown, target, tolerance)
  PROVE  shown \in target - tolerance .. target + tolerance
BY DEF schedule_time_tolerance_match, verify_showcase_schedule_configured, Distance

\* The two extensions of a run: a target that was resolved by one clock and
\* tested again by a later one lies between the requested time and two
\* extensions after it, and a resolvable one lies in the future.
THEOREM TargetNearRequest ==
  ASSUME NEW requested \in Int, NEW t1 \in Int, NEW t2 \in Int
  PROVE  /\ apply_schedule_lead_window(resolve_publish_schedule(requested, t1), t2)
              \in requested .. requested + 2 * Extension
         /\ Resolvable(requested, t1) => resolve_publish_schedule(requested, t1) > t1
BY NativeScheduleAssumption
   DEF apply_schedule_lead_window, resolve_publish_schedule, Resolvable,
       extend_target_if_within_lead_window

\* Whatever became of the swipes, a time that a script accepts for the target
\* of its run is at most the tolerance before the time asked for and at most
\* two extensions and the tolerance after it.
THEOREM AcceptedTimeNearRequest ==
  ASSUME NEW requested \in Int, NEW t1 \in Int, NEW t2 \in Int,
         NEW shown \in Int, NEW tolerance \in Nat,
         NEW target \in { resolve_publish_schedule(requested, t1),
               apply_schedule_lead_window(resolve_publish_schedule(requested, t1), t2) },
         \/ schedule_time_tolerance_match(shown, target, tolerance)
         \/ verify_showcase_schedule_configured(shown, target, tolerance)
  PROVE  shown \in requested - tolerance .. requested + 2 * Extension + tolerance
<1>1. target \in requested .. requested + 2 * Extension
  BY NativeScheduleAssumption
     DEF resolve_publish_schedule, apply_schedule_lead_window, extend_target_if_within_lead_window
<1>2. shown \in target - tolerance .. target + tolerance
  BY <1>1, ToleranceIsDistance, NativeScheduleAssumption
<1> QED BY <1>1, <1>2, NativeScheduleAssumption
=============================================================================
