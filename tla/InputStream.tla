---------------------------- MODULE InputStream -----------------------------
(***************************************************************************)
(* The operations of one input stream                                      *)
(* (mediapipe/framework/input_stream_manager.{h,cc}) as functions on       *)
(* stream records: each is one critical section of stream_mutex_.  The     *)
(* packets are their timestamps.  AddPackets and SetNextTimestampBound     *)
(* also say whether the caller is to notify the consumer and whether the   *)
(* update was refused.  Queue limits are in module Throttling.             *)
(***************************************************************************)
EXTENDS Timestamps, Sequences, FiniteSets

Stream == [queue : Seq(PreStream .. PostStream),
           bound : PreStream .. Done,       \* next_timestamp_bound_
           selected : Unstarted .. Done,    \* last_select_timestamp_
           added : BOOLEAN,                 \* num_packets_added_ > 0
           closed : BOOLEAN]

\* PrepareForRun
FreshStream == [queue |-> <<>>, bound |-> PreStream, selected |-> Unstarted,
                added |-> FALSE, closed |-> FALSE]

MinTimestampOrBound(s) == IF s.queue = <<>> THEN s.bound ELSE Head(s.queue)

IsDone(s) == s.queue = <<>> /\ s.bound = Done

\* The timestamps of a queue, and whether they come in the order of time.
Values(q) == {q[i] : i \in 1 .. Len(q)}
Increasing(q) == \A i, j \in 1 .. Len(q) : i < j => q[i] < q[j]

\* May packet i of ps follow the packets before it?
Accepts(s, ps, i) ==
  /\ IsAllowedInStream(ps[i])
  /\ ~(ps[i] = PostStream /\ (s.added \/ i > 1))
  /\ ps[i] >= IF i = 1 THEN s.bound ELSE NextAllowedInStream(ps[i - 1])

\* AddPackets and MovePackets: the packets before the first one refused stay
\* in the queue, without a notification.
AddPackets(s, ps) ==
  LET n == CHOOSE k \in 0 .. Len(ps) :
             /\ \A i \in 1 .. k : Accepts(s, ps, i)
             /\ k = Len(ps) \/ ~Accepts(s, ps, k + 1)
  IN IF s.closed \/ n = 0
     THEN [stream |-> s, notify |-> FALSE, refused |-> ~s.closed /\ ps # <<>>]
     ELSE [stream |-> [s EXCEPT !.queue = @ \o SubSeq(ps, 1, n),
                                !.bound = NextAllowedInStream(ps[n]),
                                !.added = TRUE],
           notify |-> n = Len(ps) /\ s.queue = <<>>,
           refused |-> n < Len(ps)]

SetNextTimestampBound(s, b) ==
  [stream |-> IF ~s.closed /\ b > s.bound THEN [s EXCEPT !.bound = b] ELSE s,
   notify |-> ~s.closed /\ b > s.bound /\ s.queue = <<>>,
   refused |-> ~s.closed /\ b < s.bound]

\* PopPacketAtTimestamp pops packets from the front while they are at t or
\* before: the stream without them, and whether the last of them is at t.
PopAt(s, t) ==
  LET n == CHOOSE k \in 0 .. Len(s.queue) :
             /\ \A i \in 1 .. k : s.queue[i] <= t
             /\ k = Len(s.queue) \/ s.queue[k + 1] > t
      at == n > 0 /\ s.queue[n] = t
  IN [stream |-> [s EXCEPT !.queue = SubSeq(@, n + 1, Len(@)), !.selected = t,
                           !.bound = IF @ <= t THEN NextAllowedInStream(t)
                                     ELSE @],
      packet |-> at,
      dropped |-> IF at THEN n - 1 ELSE n]

CloseStream(s) ==
  [s EXCEPT !.bound = Done, !.selected = Done, !.closed = TRUE]
=============================================================================
