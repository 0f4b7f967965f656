----------------------------- MODULE Recurring -----------------------------
(***************************************************************************)
(* Recurring captures (src/crates/amber-core/src/recurring.rs): captures   *)
(* on the boundaries start, start + interval, ... of a wall clock.  Time   *)
(* passes in any step, by any amount; the clock does not go back.          *)
(*                                                                         *)
(* A definition whose name starts with Bug is a seeded defect the model    *)
(* checker must detect; no specification uses it.                          *)
(***************************************************************************)
EXTENDS Naturals, Sequences

CONSTANTS
  Start,     \* start_epoch_secs
  Every,     \* the interval given to Cadence::new, in whole seconds
  RunLimit,  \* max_runs
  EndOfTime  \* bound on the clock

ASSUME RecurringAssumption == Start \in Nat /\ Every \in Nat /\ RunLimit \in Nat /\ EndOfTime \in Nat

\* Cadence::new.
Interval == IF Every < 1 THEN 1 ELSE Every

BugNextRun(t) ==   \* rounds down
  IF t <= Start THEN Start ELSE Start + ((t - Start) \div Interval) * Interval

\* Cadence::next_run, with div_ceil.
NextRun(t) ==
  IF t <= Start THEN Start
  ELSE Start + ((t - Start + Interval - 1) \div Interval) * Interval

VARIABLES
  clock,    \* epoch_now, in seconds
  progress,       \* where run_schedule_with is
  target,   \* the boundary to wait for
  wake,     \* when the sleep ends
  ran,      \* history: the boundaries captured for, with the time of each capture
  since     \* history: the time the schedule began

recurringVars == <<clock, progress, target, wake, ran, since>>

RecurringInit ==
  /\ clock \in 0..(Start + Interval + 1)
  /\ progress = "begin" /\ target = 0 /\ wake = 0 /\ ran = <<>> /\ since = 0

Tick ==
  /\ clock < EndOfTime
  /\ clock' \in (clock + 1)..EndOfTime
  /\ UNCHANGED <<progress, target, wake, ran, since>>

Begin ==
  /\ progress = "begin"
  /\ target' = NextRun(clock)
  /\ since' = clock
  /\ progress' = "loop"
  /\ UNCHANGED <<clock, wake, ran>>

\* When the sleep ends that begins at t.
SleepUntil(t) == IF t < target THEN t + (target - t) ELSE t

Wait ==
  /\ progress = "loop" /\ Len(ran) < RunLimit
  /\ wake' = SleepUntil(clock)
  /\ progress' = "sleeping"
  /\ UNCHANGED <<clock, target, ran, since>>

Advance == NextRun(target + 1)

CaptureDue ==
  /\ progress = "sleeping" /\ clock >= wake
  /\ ran' = Append(ran, [boundary |-> target, at |-> clock])
  /\ target' = Advance
  /\ progress' = "loop"
  /\ UNCHANGED <<clock, wake, since>>

Return ==
  /\ progress = "loop" /\ Len(ran) >= RunLimit
  /\ progress' = "returned"
  /\ UNCHANGED <<clock, target, wake, ran, since>>

RecurringStep == Begin \/ Wait \/ CaptureDue \/ Return
RecurringNext == Tick \/ RecurringStep

RecurringSpec == RecurringInit /\ [][RecurringNext]_recurringVars

-----------------------------------------------------------------------------

RecurringTypeOK ==
  /\ clock \in 0..EndOfTime /\ target \in Nat /\ wake \in Nat /\ since \in 0..EndOfTime
  /\ progress \in {"begin", "loop", "sleeping", "returned"}
  /\ ran \in Seq([boundary : Nat, at : Nat]) /\ Len(ran) <= RunLimit

\* Boundaries are captured for one after another from the first one that is not
\* over when the schedule begins, none twice and, however long a capture takes,
\* none left out.
EveryBoundaryOnce ==
  \A k \in DOMAIN ran :
    LET b == ran[k].boundary IN
    /\ b >= Start /\ (b - Start) % Interval = 0
    /\ IF k = 1 THEN b >= since /\ (b = Start \/ b < since + Interval)
       ELSE b = ran[k - 1].boundary + Interval

\* No capture is made before its boundary.
NeverEarly == \A k \in DOMAIN ran : ran[k].at >= ran[k].boundary

\* A schedule captures once for each boundary, at it or after it.
ScheduleExact == EveryBoundaryOnce /\ NeverEarly

\* If the clock goes on for long enough, a schedule that has begun makes all its
\* captures and returns.
ScheduleReturns == progress = "loop" ~> (progress = "returned" \/ target > EndOfTime)

=============================================================================
