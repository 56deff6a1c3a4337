--------------------------- MODULE SequentialNode ---------------------------
(***************************************************************************)
(* What a calculator node promises its downstream, however many of its     *)
(* invocations run at the same time (calculator.proto, max_in_flight;      *)
(* stream_handler/in_order_output_stream_handler.h): its input packets are *)
(* answered one by one in the order of their timestamps, and the timestamp *)
(* bound never passes an input that was not answered.                      *)
(***************************************************************************)
EXTENDS Timestamps, Sequences

VARIABLES
  todo,     \* the input packets not yet answered
  out,      \* the packets sent downstream
  outBound  \* the bound downstream

svars == <<todo, out, outBound>>

Init == todo = <<>> /\ out = <<>> /\ outBound = PreStream

\* A packet arrives.
Accept(ts) ==
  /\ \A i \in 1 .. Len(todo) : todo[i] < ts
  /\ todo' = Append(todo, ts)
  /\ UNCHANGED <<out, outBound>>

\* How far the bound may go while q is unanswered.
Ceiling(q) == IF q = <<>> THEN Done ELSE Head(q)

\* The first input is answered, by a packet or by a bound.
Answer ==
  /\ todo # <<>>
  /\ todo' = Tail(todo)
  /\ \/ /\ outBound' \in outBound .. Ceiling(Tail(todo))
        /\ UNCHANGED out
     \/ /\ out' = Append(out, Head(todo))
        /\ outBound <= Head(todo)
        /\ outBound' = NextAllowedInStream(Head(todo))

\* The bound grows.
RaiseBound ==
  /\ outBound' \in outBound + 1 .. Ceiling(todo)
  /\ UNCHANGED <<todo, out>>

\* Close sends its last packet.
LastPacket ==
  /\ todo = <<>>
  /\ \E ts \in outBound .. PostStream :
       /\ out' = Append(out, ts)
       /\ outBound' = NextAllowedInStream(ts)
  /\ UNCHANGED todo

Next == (\E ts \in PreStream .. PostStream : Accept(ts))
        \/ Answer \/ RaiseBound \/ LastPacket

Spec == Init /\ [][Next]_svars
=============================================================================
