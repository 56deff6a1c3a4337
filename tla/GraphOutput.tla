---------------------------- MODULE GraphOutput -----------------------------
(***************************************************************************)
(* What an application sees of a stream of the graph                       *)
(* (mediapipe/framework/graph_output_stream.{h,cc}): an observer, whose    *)
(* callback runs in the threads that update the stream, and a poller,      *)
(* whose Next blocks.  Each is a mirror of the output stream, with an      *)
(* input stream of its own that OutputStreamManager fills, notifying it    *)
(* when the change can be seen.  A behaviour is about one of them.         *)
(*                                                                         *)
(* An action is one critical section of mutex_ or of stream_mutex_, or one *)
(* end of the callback, which the application may let fail.  The updates   *)
(* of a stream come one after the other, except that the close of a node   *)
(* with parallel invocations may start during the last update of the bound *)
(* (module ParallelNode); Overlap says whether that is considered.         *)
(***************************************************************************)
EXTENDS InputStream

CONSTANTS
  Thread,       \* threads that update the output stream
  Overlap,      \* may Close overlap with an update of the bound?
  MaxPackets,   \* bound: packets in one run of the graph
  MaxRuns       \* bound: runs of the graph

ASSUME GraphOutputAssumption ==
  /\ IsFiniteSet(Thread)
  /\ Overlap \in BOOLEAN
  /\ MaxPackets \in Nat /\ MaxRuns \in Nat \ {0}

VARIABLES
  kind,          \* "observer" or "poller"
  stream,        \* its InputStreamManager
  pc,            \* pc[t]: where t is in PropagateUpdatesToMirrors or Notify
  job,           \* job[t]: the packets and the bound of t's update, and the
                 \* part of the update to come next
  seen,          \* seen[t]: min_timestamp of t's Notify, and whether a packet
                 \* was popped there
  outBound,      \* next_timestamp_bound_ of the output stream
  sent,          \* the packets of this run, in the order they were given
  carries,       \* has the last update packets?
  bounds,        \* observe_timestamp_bounds_ (ProcessTimestampBounds())
  notifying,     \* notifying_
  lastProcessed, \* last_processed_ts_
  observed,      \* what the callback was given: packets and settled bounds
  pollPc,        \* where the application is in OutputStreamPollerImpl::Next
  outputTs,      \* output_timestamp_
  polled,        \* what Next returned
  hasError,      \* CalculatorGraph::has_error_ and, set together with it, the
                 \* poller's graph_has_error_
  overlapped,    \* Close overlapped with an update in this run
  failed,        \* the callback has failed, in this run or an earlier one
  run            \* number of the run

source == <<outBound, sent, carries, overlapped, run>>
observer == <<notifying, lastProcessed, observed, seen, failed>>
poller == <<pollPc, outputTs, polled>>
options == <<kind, bounds>>
vars == <<stream, pc, job, source, options, observer, poller, hasError>>

NoJob == [packets |-> <<>>, bound |-> Unset, part |-> "none"]
Event == [ts : Timestamp, packet : BOOLEAN]

TypeOK ==
  /\ kind \in {"observer", "poller"}
  /\ stream \in Stream
  /\ pc \in [Thread -> {"idle", "update", "enter", "look", "callback",
                        "recheck", "failed", "signal"}]
  /\ \A t \in Thread : /\ job[t].packets \in Seq(PreStream .. PostStream)
                       /\ job[t].bound \in Timestamp
                       /\ job[t].part \in {"none", "add", "bound"}
  /\ seen \in [Thread -> Event]
  /\ outBound \in PreStream .. Done
  /\ sent \in Seq(PreStream .. PostStream)
  /\ bounds \in BOOLEAN /\ notifying \in BOOLEAN
  /\ {lastProcessed, outputTs} \subseteq Unstarted .. PostStream
  /\ observed \in Seq(Event) /\ polled \in Seq(Event)
  /\ pollPc \in {"idle", "check", "wait", "take", "end"}
  /\ {carries, hasError, overlapped, failed} \subseteq BOOLEAN
  /\ run \in 1 .. MaxRuns

Init ==
  /\ kind \in {"observer", "poller"}
  /\ stream = FreshStream
  /\ pc = [t \in Thread |-> "idle"]
  /\ job = [t \in Thread |-> NoJob]
  /\ seen = [t \in Thread |-> [ts |-> Unset, packet |-> FALSE]]
  /\ outBound = PreStream
  /\ sent = <<>>
  /\ bounds \in BOOLEAN
  /\ notifying = FALSE
  /\ lastProcessed = Unstarted
  /\ observed = <<>> /\ polled = <<>>
  /\ pollPc = "idle"
  /\ outputTs = MinTs
  /\ carries = FALSE /\ hasError = FALSE
  /\ overlapped = FALSE /\ failed = FALSE
  /\ run = 1

-----------------------------------------------------------------------------
\* The producer: OutputStreamManager::PropagateUpdatesToMirrors.

LastOf(ps) == ps[Len(ps)]

\* set_bound: the packets do not imply the bound.
SetsBound(j) ==
  j.packets = <<>> \/ NextAllowedInStream(LastOf(j.packets)) # j.bound

\* The part of the update after the present one.
Advance(j) ==
  IF j.part = "add" /\ SetsBound(j) THEN [j EXCEPT !.part = "bound"]
  ELSE NoJob

\* Where a thread goes on when the present part is over.
Onward(j) == IF j = NoJob THEN "idle" ELSE "update"

\* Only Close may start while another update is under way, and only while
\* that one propagates a bound (see ParallelNode).
MayStart(t, b) ==
  /\ pc[t] = "idle"
  /\ \A u \in Thread \ {t} :
       pc[u] = "idle" \/ (Overlap /\ b = Done /\ ~carries)

\* The packets of an invocation or of Close, and the new bound; a faulty
\* calculator may send a packet below the bound.
StartUpdate(t, ps, b) ==
  /\ MayStart(t, b)
  /\ outBound # Done
  /\ b > outBound
  /\ ps # <<>> => b >= NextAllowedInStream(LastOf(ps))
  /\ Len(sent) + Len(ps) <= MaxPackets
  /\ job' = [job EXCEPT ![t] = [packets |-> ps, bound |-> b,
                               part |-> IF ps # <<>> THEN "add" ELSE "bound"]]
  /\ pc' = [pc EXCEPT ![t] = "update"]
  /\ outBound' = b
  /\ sent' = sent \o ps
  /\ carries' = (ps # <<>>)
  /\ overlapped' = (overlapped \/ \E u \in Thread : pc[u] # "idle")
  /\ UNCHANGED <<stream, run, options, observer, poller, hasError>>

\* AddPackets or SetNextTimestampBound on the mirror, and what follows it:
\* RecordError when it was refused, or the notification it asks for.
UpdateMirror(t) ==
  LET j == job[t]
      done == IF j.part = "add" THEN AddPackets(stream, j.packets)
              ELSE SetNextTimestampBound(stream, j.bound)
  IN
  /\ pc[t] = "update"
  /\ stream' = done.stream
  /\ job' = [job EXCEPT ![t] = Advance(j)]
  /\ pc' = [pc EXCEPT ![t] =
              IF done.refused THEN "failed"
              ELSE IF ~done.notify THEN Onward(Advance(j))
              ELSE IF kind = "observer" THEN "enter" ELSE "signal"]
  /\ UNCHANGED <<source, options, observer, poller, hasError>>

Woken_Lost == pollPc

\* A thread that waits in Next is woken and looks again.
Woken == IF pollPc = "wait" THEN "check" ELSE pollPc

\* CalculatorGraph::RecordError, which tells the poller too.
RecordError(t) ==
  /\ pc[t] = "failed"
  /\ hasError' = TRUE
  /\ pollPc' = Woken
  /\ pc' = [pc EXCEPT ![t] = Onward(job[t])]
  /\ UNCHANGED <<stream, job, source, options, observer, outputTs, polled>>

\* The same for an error elsewhere in the graph.
GraphFails ==
  /\ ~hasError
  /\ hasError' = TRUE
  /\ pollPc' = Woken
  /\ UNCHANGED <<stream, pc, job, source, options, observer, outputTs, polled>>

-----------------------------------------------------------------------------
\* OutputStreamObserver::Notify.

Enter_NoCheck(t) ==
  /\ pc[t] = "enter"
  /\ notifying' = TRUE
  /\ pc' = [pc EXCEPT ![t] = "look"]
  /\ UNCHANGED <<stream, job, source, options, lastProcessed, observed, seen,
                 failed, poller, hasError>>

Enter(t) ==
  /\ pc[t] = "enter"
  /\ notifying' = TRUE
  /\ pc' = [pc EXCEPT ![t] = IF notifying THEN Onward(job[t]) ELSE "look"]
  /\ UNCHANGED <<stream, job, source, options, lastProcessed, observed, seen,
                 failed, poller, hasError>>

Settled_Bound(min) == min

\* The timestamp of the empty packet that says min is the bound.
Settled(min) ==
  IF min = PostStream THEN PostStream ELSE PreviousAllowedInStream(min)

ReportsBound_BeforePostStream(min) ==
  bounds /\ min < PostStream /\ lastProcessed < Settled(min)

ReportsBound(min) ==
  bounds /\ min < Done /\ lastProcessed < Settled(min)

\* MinTimestampOrBound and, when there is a packet, PopPacketAtTimestamp:
\* nobody else pops, so that nothing can come between that matters.
Look(t) ==
  LET min == MinTimestampOrBound(stream)
      empty == stream.queue = <<>>
  IN
  /\ pc[t] = "look"
  /\ seen' = [seen EXCEPT ![t] = [ts |-> min, packet |-> ~empty]]
  /\ stream' = IF empty THEN stream ELSE PopAt(stream, min).stream
  /\ pc' = [pc EXCEPT ![t] = IF empty /\ ~ReportsBound(min) THEN "recheck"
                             ELSE "callback"]
  /\ UNCHANGED <<job, source, options, notifying, lastProcessed, observed,
                 failed, poller, hasError>>

Told(t) == [seen[t] EXCEPT !.ts = IF seen[t].packet THEN @ ELSE Settled(@)]

\* packet_callback_ returns.
CallbackReturns(t) ==
  /\ pc[t] = "callback"
  /\ observed' = Append(observed, Told(t))
  /\ lastProcessed' = Told(t).ts
  /\ pc' = [pc EXCEPT ![t] = IF seen[t].packet THEN "look" ELSE "recheck"]
  /\ UNCHANGED <<stream, job, source, options, notifying, seen, failed, poller,
                 hasError>>

\* packet_callback_ returns an error, and so does Notify: notifying_ stays.
CallbackFails(t) ==
  /\ pc[t] = "callback"
  /\ observed' = Append(observed, Told(t))
  /\ failed' = TRUE
  /\ pc' = [pc EXCEPT ![t] = "failed"]
  /\ UNCHANGED <<stream, job, source, options, notifying, lastProcessed, seen,
                 poller, hasError>>

Recheck_Leaves(t) ==
  /\ pc[t] = "recheck"
  /\ notifying' = FALSE
  /\ pc' = [pc EXCEPT ![t] = Onward(job[t])]
  /\ UNCHANGED <<stream, job, source, options, lastProcessed, observed, seen,
                 failed, poller, hasError>>

\* The last check under mutex_: the timestamp alone is compared.
Recheck(t) ==
  LET changed == MinTimestampOrBound(stream) # seen[t].ts IN
  /\ pc[t] = "recheck"
  /\ notifying' = changed
  /\ pc' = [pc EXCEPT ![t] = IF changed THEN "look" ELSE Onward(job[t])]
  /\ UNCHANGED <<stream, job, source, options, lastProcessed, observed, seen,
                 failed, poller, hasError>>

-----------------------------------------------------------------------------
\* OutputStreamPollerImpl.

\* Notify: handler_condvar_.Signal() with mutex_ held.
Signal(t) ==
  /\ pc[t] = "signal"
  /\ pollPc' = Woken
  /\ pc' = [pc EXCEPT ![t] = Onward(job[t])]
  /\ UNCHANGED <<stream, job, source, options, observer, outputTs, polled,
                 hasError>>

CallNext ==
  /\ kind = "poller" /\ pollPc = "idle"
  /\ pollPc' = "check"
  /\ UNCHANGED <<stream, pc, job, source, options, observer, outputTs, polled,
                 hasError>>

StreamEnded_Bound == stream.bound = Done

\* Done() is the bound and no packet is left.
StreamEnded == MinTimestampOrBound(stream) = Done

\* Next with mutex_ held: look, and wait or decide what to return.
CheckStream ==
  LET min == MinTimestampOrBound(stream)
      previous == PreviousAllowedInStream(min)
      empty == stream.queue = <<>>
      changed == empty /\ bounds /\ outputTs < previous
  IN
  /\ pollPc = "check"
  /\ \/ /\ ~hasError /\ empty /\ ~changed /\ ~StreamEnded
        /\ pollPc' = "wait"
        /\ UNCHANGED <<outputTs, polled>>
     \/ /\ hasError /\ empty
        /\ pollPc' = "end"
        /\ UNCHANGED <<outputTs, polled>>
     \/ /\ ~empty
        /\ pollPc' = "take"
        /\ outputTs' = min
        /\ UNCHANGED polled
     \/ /\ ~hasError /\ StreamEnded
        /\ pollPc' = "end"
        /\ outputTs' = previous
        /\ UNCHANGED polled
     \/ /\ ~hasError /\ changed /\ ~StreamEnded
        /\ pollPc' = "idle"
        /\ outputTs' = previous
        /\ polled' = Append(polled, [ts |-> previous, packet |-> FALSE])
  /\ UNCHANGED <<stream, pc, job, source, options, observer, hasError>>

\* The rest of Next, with mutex_ released: PopPacketAtTimestamp.
TakePacket ==
  /\ pollPc = "take"
  /\ pollPc' = "idle"
  /\ stream' = PopAt(stream, outputTs).stream
  /\ polled' = Append(polled, [ts |-> outputTs, packet |-> TRUE])
  /\ UNCHANGED <<pc, job, source, options, observer, outputTs, hasError>>

-----------------------------------------------------------------------------
Quiet == \A t \in Thread : pc[t] = "idle"

\* The next run of the graph: PrepareForRun resets the streams and the error,
\* and neither notifying_, last_processed_ts_ nor output_timestamp_.
PrepareForRun ==
  /\ run < MaxRuns
  /\ Quiet /\ (kind = "poller" => pollPc = "end")
  /\ outBound = Done \/ hasError
  /\ run' = run + 1
  /\ stream' = FreshStream
  /\ outBound' = PreStream
  /\ sent' = <<>> /\ carries' = FALSE /\ observed' = <<>> /\ polled' = <<>>
  /\ pollPc' = "idle"
  /\ hasError' = FALSE /\ overlapped' = FALSE
  /\ seen' = [t \in Thread |-> [ts |-> Unset, packet |-> FALSE]]
  /\ UNCHANGED <<pc, job, options, notifying, lastProcessed, failed,
                 outputTs>>

Updates ==
  {<<>>} \cup {<<p>> : p \in PreStream .. PostStream}

Next ==
  \/ \E t \in Thread, ps \in Updates, b \in MinTs .. Done :
       StartUpdate(t, ps, b)
  \/ \E t \in Thread : UpdateMirror(t)
  \/ \E t \in Thread : RecordError(t)
  \/ GraphFails
  \/ \E t \in Thread : Enter(t)
  \/ \E t \in Thread : Look(t)
  \/ \E t \in Thread : CallbackReturns(t)
  \/ \E t \in Thread : CallbackFails(t)
  \/ \E t \in Thread : Recheck(t)
  \/ \E t \in Thread : Signal(t)
  \/ CallNext
  \/ CheckStream
  \/ TakePacket
  \/ PrepareForRun

Spec == Init /\ [][Next]_vars

\* The steps of a thread inside an update.
Continue(t) ==
  \/ UpdateMirror(t) \/ RecordError(t)
  \/ Enter(t) \/ Look(t) \/ Recheck(t) \/ Signal(t)
  \/ CallbackReturns(t) \/ CallbackFails(t)

\* An update once begun goes on, callbacks return, and the application calls
\* Next until it returns false.  Nothing makes the graph send anything.
FairSpec ==
  /\ Spec
  /\ \A t \in Thread : WF_vars(Continue(t))
  /\ WF_vars(CallNext) /\ WF_vars(CheckStream) /\ WF_vars(TakePacket)

-----------------------------------------------------------------------------
\* Inside the loop of Notify.
Notifiers == {t \in Thread : pc[t] \in {"look", "callback", "recheck"}}

\* The callback is never entered by two threads at once, and notifying_ is
\* left set by nobody but a callback that failed (graph_output_stream.cc:88).
OneNotifier ==
  /\ Cardinality(Notifiers) <= 1
  /\ notifying <=> Notifiers # {} \/ failed

\* When no update is under way every packet has been observed.  The exception
\* is the comparison of Recheck, which takes a packet at the very bound that
\* was seen for no change: then, and only when Close overlapped with another
\* update, a packet stays behind for ever (graph_output_stream.cc:119).
PacketsObserved ==
  LET left == stream.queue IN
  kind = "observer" /\ Quiet /\ left # <<>> /\ ~failed =>
    overlapped /\ \E t \in Thread : seen[t] = [ts |-> Head(left),
                                              packet |-> FALSE]

\* The observer of a first run that asked for bounds has been told of the
\* bound the stream has reached, or of a later packet.
BoundsObserved ==
  LET settled == Settled(stream.bound) IN
  /\ kind = "observer" /\ Quiet /\ bounds /\ ~failed /\ run = 1
  /\ stream.queue = <<>> /\ stream.bound # Done
  => \/ settled = Unstarted
     \/ \E i \in 1 .. Len(observed) : observed[i].ts >= settled

\* Events come in the order of time, each timestamp once; what was reported
\* as settled gets no packet later.  PostStream is reported as settled while
\* its packet may still come (graph_output_stream.cc:107).
InOrder(events) ==
  \A i, j \in 1 .. Len(events) : i < j =>
    \/ events[i].ts < events[j].ts
    \/ events[i] = [ts |-> PostStream, packet |-> FALSE]
       /\ events[j] = [ts |-> PostStream, packet |-> TRUE]

EventsInOrder == TypeOK /\ InOrder(observed) /\ InOrder(polled)

\* The packets that Next has returned in this run.
Returned == {polled[i].ts : i \in {j \in 1 .. Len(polled) : polled[j].packet}}

\* Next returns false only when every packet of the run was returned, unless
\* the graph has an error; and in the order in which they were given, because
\* that is the order of time on both sides (EventsInOrder).
EverythingPolled ==
  pollPc = "end" /\ ~hasError => Returned = Values(sent) /\ Increasing(sent)

\* Once the stream is closed, or the graph has an error, the application does
\* not wait in Next for ever.
PollerEnds ==
  (kind = "poller" /\ (outBound = Done \/ hasError)) ~> (pollPc = "end")
=============================================================================
