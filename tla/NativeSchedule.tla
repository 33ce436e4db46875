--------------------------- MODULE NativeSchedule ---------------------------
(* The arithmetic of a scheduled publication: which time is asked for, where *)
(* TikTok's picker starts, how far its three wheels are turned, and when the *)
(* time a page shows counts as the one asked for.  A time is a number of     *)
(* minutes; the scheduler's clock and the phone's show the same.             *)
EXTENDS Integers

CONSTANTS
  LeadWindow,      \* auto_extend_if_within_minutes
  Extension,       \* auto_extend_by_minutes
  MinLead,         \* min_lead_minutes
  MaxFutureDays,   \* max_future_days
  InitialOffset    \* initial_offset_minutes: where the picker opens

ASSUME NativeScheduleAssumption ==
  {LeadWindow, Extension, MinLead, MaxFutureDays, InitialOffset} \subseteq Nat

MinutesPerHour == 60
HoursPerDay == 24

Hours(t) == t \div MinutesPerHour
Date(t) == Hours(t) \div HoursPerDay
Hour(t) == Hours(t) % HoursPerDay
Minute(t) == t % MinutesPerHour

Distance(s, t) == IF s <= t THEN t - s ELSE s - t

(* A target too close to the clock is moved on, once, by a fixed amount.     *)
extend_target_if_within_lead_window(target, now) ==
  IF LeadWindow > 0 /\ Extension > 0 /\ target - now <= LeadWindow
    THEN target + Extension
    ELSE target

(* resolve_publish_schedule refuses what is not in the future after that, or *)
(* lies beyond the days TikTok offers.                                       *)
resolve_publish_schedule(requested, now) == extend_target_if_within_lead_window(requested, now)

Resolvable(requested, now) ==
  LET target == resolve_publish_schedule(requested, now)
  IN  target > now + MinLead /\ Date(target) <= Date(now) + MaxFutureDays

(* Before the wheels are turned, a run that has no picker time on record     *)
(* reads the phone's clock and tests the distance again.                     *)
apply_schedule_lead_window(target, now) == extend_target_if_within_lead_window(target, now)

infer_native_schedule_initial_from_phone_clock(now) == now + InitialOffset

(* The wheels do not wrap into each other: date, hour and minute are turned  *)
(* separately, each by its own difference, backwards where it is negative.   *)
compute_wheel_deltas(current, target) ==
  [date |-> Date(target) - Date(current),
   hour |-> Hour(target) - Hour(current),
   minute |-> Minute(target) - Minute(current)]

scroll_wheel(current, deltas) ==
  ((Date(current) + deltas.date) * HoursPerDay + Hour(current) + deltas.hour) * MinutesPerHour
    + Minute(current) + deltas.minute

(* The picker refuses times before the one it opened at; a swipe of 150 ms   *)
(* may be lost on any of the three wheels.                                   *)
Settled(opened, time) == IF time < opened THEN opened ELSE time

LostSwipes(deltas) ==
  { [deltas EXCEPT !.date = 0], [deltas EXCEPT !.hour = 0], [deltas EXCEPT !.minute = 0] }

apply_wheel_adjustment(opened, initial, target) ==
  LET deltas == compute_wheel_deltas(initial, target)
  IN  { Settled(opened, scroll_wheel(opened, d)) : d \in {deltas} \cup LostSwipes(deltas) }

\* A faulty variant: the times of day are compared, not the dates.
SameTimeOfDay(shown, target, tolerance) ==
  Distance(shown % (HoursPerDay * MinutesPerHour), target % (HoursPerDay * MinutesPerHour))
    <= tolerance

(* A date and time found on the page, compared with the target: the showcase *)
(* script compares instants, the marketing step the time of the same date.   *)
verify_showcase_schedule_configured(shown, target, tolerance) ==
  Distance(shown, target) <= tolerance

schedule_time_tolerance_match(shown, target, tolerance) ==
  /\ Date(shown) = Date(target)
  /\ Distance(shown, target) <= tolerance
=============================================================================
