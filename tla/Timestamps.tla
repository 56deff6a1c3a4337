----------------------------- MODULE Timestamps -----------------------------
(***************************************************************************)
(* Timestamps of packets and timestamp bounds of streams                   *)
(* (mediapipe/framework/timestamp.{h,cc}).  The 64-bit range values are    *)
(* abstracted to 1 .. Latest; the special values keep their order around it. *)
(***************************************************************************)
EXTENDS Integers

CONSTANT Latest    \* bound: the number of range values

ASSUME LatestAssumption == Latest \in Nat \ {0}

Unset == -2
Unstarted == -1
PreStream == 0
MinTs == 1
MaxTs == Latest
PostStream == Latest + 1
OneOverPostStream == Latest + 2
Done == Latest + 3

Timestamp == Unset .. Done

IsRangeValue(t) == MinTs <= t /\ t <= MaxTs
IsAllowedInStream(t) == PreStream <= t /\ t <= PostStream

\* operator+(TimestampDiff), on range values only: the sum is clamped.
Plus(t, offset) ==
  LET sum == t + offset IN
  IF sum >= MaxTs THEN MaxTs ELSE IF sum <= MinTs THEN MinTs ELSE sum

NextAllowedInStream(t) ==
  IF t >= MaxTs \/ t = PreStream THEN OneOverPostStream
  ELSE IF t < MinTs THEN MinTs ELSE t + 1

PreviousAllowedInStream(t) ==
  IF t <= MinTs \/ t = PostStream THEN Unstarted
  ELSE IF t > MaxTs THEN MaxTs ELSE t - 1
=============================================================================
