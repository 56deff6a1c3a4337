---------------------------- MODULE ParallelNode ----------------------------
(***************************************************************************)
(* A calculator node whose invocations run in parallel: the scheduling of  *)
(* CalculatorNode (calculator_node.cc), InputStreamHandler::               *)
(* ScheduleInvocations, the calculator contexts                            *)
(* (calculator_context_manager.cc), and the InOrderOutputStreamHandler     *)
(* with its base class and the OutputStreamManager, which put the outputs  *)
(* back into the order of the inputs.                                      *)
(*                                                                         *)
(* The node has one input and one output stream.  An action is a critical  *)
(* section of status_mutex_, of timestamp_mutex_ or of a stream; the       *)
(* propagating thread works with timestamp_mutex_ released.                *)
(***************************************************************************)
EXTENDS InputStream

CONSTANTS
  Worker,       \* executor threads
  Upstream,     \* the thread of the node before this one
  MaxInFlight   \* max_in_flight_

ASSUME ParallelNodeAssumption ==
  /\ IsFiniteSet(Worker) /\ Upstream \notin Worker
  /\ MaxInFlight \in Nat \ {0, 1}

Thread == Worker \cup {Upstream}

VARIABLES
  pc,            \* pc[t]: where thread t is
  in,            \* the input stream
  status,        \* status_: "opened" or "closed"
  schedState,    \* scheduling_state_
  inFlight,      \* current_in_flight_
  allowance,     \* invocations the scheduling thread may still schedule
  inputBound,    \* last_timestamp_bound_
  contexts,      \* active_contexts_, by timestamp
  prepared,      \* prepared_context_for_close_
  scheduled,     \* invocations in the scheduler queue
  work,          \* work[w]: the timestamp w runs, Done for Close
  output,        \* timestamps whose invocation sent a packet
  completed,     \* completed_input_timestamps_
  taskBound,     \* task_timestamp_bound_
  propState,     \* propagation_state_
  carried,       \* the context or bound being propagated
  manager,       \* OutputStreamManager: next_timestamp_bound_ and closed_
  mirror,        \* the input stream downstream
  offsetEnabled, \* does the output stream have an offset (of 0)?
  hasError       \* the mirror has refused an update

scheduling == <<status, schedState, inFlight, allowance, inputBound>>
invocations == <<contexts, prepared, scheduled, work, output>>
propagation == <<completed, taskBound, propState, carried>>
downstream == <<manager, mirror, hasError>>
vars == <<pc, in, scheduling, invocations, propagation, downstream,
          offsetEnabled>>

TypeOK ==
  /\ pc \in [Thread -> {"idle", "check", "loop", "schedule", "bound",
               "loopEnd", "process", "end", "send", "recycle",
               "sent", "tryBound", "raise", "tried", "close",
               "closeSend", "closeBound", "closeOutput", "closed"}]
  /\ in \in Stream /\ mirror \in Stream
  /\ status \in {"opened", "closed"}
  /\ schedState \in {"Idle", "Scheduling", "Pending"}
  /\ inFlight \in 0 .. MaxInFlight /\ allowance \in 0 .. MaxInFlight
  /\ inputBound \in Timestamp
  /\ contexts \subseteq PreStream .. PostStream
  /\ prepared \in BOOLEAN
  /\ scheduled \subseteq (PreStream .. PostStream) \cup {Done}
  /\ work \in [Worker -> Timestamp]
  /\ output \subseteq PreStream .. PostStream
  /\ completed \subseteq contexts \cup {carried}
  /\ taskBound \in Timestamp /\ carried \in Timestamp
  /\ propState \in {"Idle", "Packets", "Bound", "Pending"}
  /\ manager \in [bound : Timestamp, closed : BOOLEAN]
  /\ offsetEnabled \in BOOLEAN /\ hasError \in BOOLEAN

\* The node has been opened, and NodeOpened is about to look for its input.
Init ==
  /\ pc = [t \in Thread |-> IF t = Upstream THEN "check" ELSE "idle"]
  /\ in = FreshStream /\ mirror = FreshStream
  /\ status = "opened" /\ schedState = "Idle"
  /\ inFlight = 0 /\ allowance = 0 /\ inputBound = Unset
  /\ contexts = {} /\ prepared = FALSE /\ scheduled = {}
  /\ work = [w \in Worker |-> Unset]
  /\ output = {} /\ completed = {}
  /\ taskBound = Unset /\ propState = "Idle" /\ carried = Unset
  /\ manager = [bound |-> PreStream, closed |-> FALSE]
  /\ offsetEnabled \in BOOLEAN
  /\ hasError = FALSE

Least(S) == CHOOSE x \in S : \A y \in S : x <= y

Go(t, where) == pc' = [pc EXCEPT ![t] = where]

-----------------------------------------------------------------------------
\* The node before this one adds a packet or raises the bound, and notifies.
Receive(done) ==
  /\ pc[Upstream] = "idle" /\ ~done.refused /\ done.stream # in
  /\ in' = done.stream
  /\ Go(Upstream, IF done.notify THEN "check" ELSE "idle")
  /\ UNCHANGED <<scheduling, invocations, propagation, downstream,
                 offsetEnabled>>

ReceivePacket(ts) == Receive(AddPackets(in, <<ts>>))
ReceiveBound(b) == Receive(SetNextTimestampBound(in, b))

\* CheckIfBecameReady
CheckIfBecameReady(t) ==
  LET begins == schedState = "Idle" /\ inFlight < MaxInFlight IN
  /\ pc[t] = "check"
  /\ schedState' = IF status # "opened" THEN schedState
                   ELSE IF begins THEN "Scheduling"
                   ELSE IF schedState = "Scheduling" THEN "Pending"
                   ELSE schedState
  /\ Go(t, IF status = "opened" /\ begins THEN "loop" ELSE "idle")
  /\ UNCHANGED <<in, status, inFlight, allowance, inputBound, invocations,
                 propagation, downstream, offsetEnabled>>

\* SchedulingLoop, up to its loop.
SchedulingLoop(t) ==
  /\ pc[t] = "loop"
  /\ \/ /\ status = "closed"
        /\ schedState' = "Idle"
        /\ Go(t, "idle")
        /\ UNCHANGED <<allowance, inputBound>>
     \/ /\ status = "opened"
        /\ allowance' = MaxInFlight - inFlight
        /\ inputBound' = Unset
        /\ Go(t, "schedule")
        /\ UNCHANGED schedState
  /\ UNCHANGED <<in, status, inFlight, invocations, propagation, downstream,
                 offsetEnabled>>

\* ScheduleInvocations: what to do when the allowance is used up or there is
\* nothing more to schedule.
AfterScheduling(t, bound) ==
  /\ inputBound' = bound
  /\ Go(t, IF bound = Unset THEN "loopEnd" ELSE "bound")

\* SyncSet::GetReadiness, of the one stream: no more packets can come.
ReadyForClose == in.queue = <<>> /\ in.bound >= OneOverPostStream

\* kReadyForClose, with no invocation in progress and none prepared for Close.
CloseDue == ReadyForClose /\ contexts = {} /\ ~prepared

\* One iteration of ScheduleInvocations: GetNodeReadiness, the context and
\* its input, and TryToBeginScheduling in the schedule callback.
ScheduleInvocation(t) ==
  /\ pc[t] = "schedule"
  /\ \/ /\ allowance = 0
        /\ AfterScheduling(t, Unset)
        /\ UNCHANGED <<in, inFlight, allowance, contexts, prepared, scheduled>>
     \/ /\ allowance > 0 /\ in.queue = <<>> /\ ~ReadyForClose
        /\ AfterScheduling(t, in.bound)
        /\ UNCHANGED <<in, inFlight, allowance, contexts, prepared, scheduled>>
     \/ /\ allowance > 0 /\ in.queue # <<>>
        /\ contexts' = contexts \cup {Head(in.queue)}
        /\ scheduled' = scheduled \cup {Head(in.queue)}
        /\ in' = PopAt(in, Head(in.queue)).stream
        /\ allowance' = allowance - 1 /\ inFlight' = inFlight + 1
        /\ UNCHANGED <<pc, inputBound, prepared>>
     \/ /\ allowance > 0 /\ ReadyForClose /\ ~CloseDue
        /\ AfterScheduling(t, Unset)
        /\ UNCHANGED <<in, inFlight, allowance, contexts, prepared, scheduled>>
     \/ /\ allowance > 0 /\ CloseDue
        /\ scheduled' = scheduled \cup {Done}
        /\ inFlight' = inFlight + 1
        /\ prepared' = TRUE
        /\ AfterScheduling(t, Unset)
        /\ UNCHANGED <<in, allowance, contexts>>
  /\ UNCHANGED <<status, schedState, work, output, propagation, downstream,
                 offsetEnabled>>

EndOfLoop_NotPending(t) ==
  /\ pc[t] = "loopEnd"
  /\ schedState' = "Idle" /\ allowance' = 0 /\ inputBound' = Unset
  /\ Go(t, "idle")
  /\ UNCHANGED <<in, status, inFlight, invocations, propagation, downstream,
                 offsetEnabled>>

\* The end of an iteration of SchedulingLoop.
EndOfLoop(t) ==
  LET again == schedState = "Pending" /\ inFlight < MaxInFlight IN
  /\ pc[t] = "loopEnd"
  /\ schedState' = IF again THEN "Scheduling" ELSE "Idle"
  /\ allowance' = IF again THEN MaxInFlight - inFlight ELSE 0
  /\ inputBound' = Unset
  /\ Go(t, IF again THEN "schedule" ELSE "idle")
  /\ UNCHANGED <<in, status, inFlight, invocations, propagation, downstream,
                 offsetEnabled>>

EndScheduling_StillInFlight(t) ==
  LET begins == status = "opened" /\ schedState = "Idle" IN
  /\ pc[t] = "end"
  /\ schedState' = IF begins THEN "Scheduling" ELSE schedState
  /\ Go(t, IF begins THEN "loop" ELSE "idle")
  /\ work' = [work EXCEPT ![t] = Unset]
  /\ UNCHANGED <<in, status, inFlight, allowance, inputBound, contexts,
                 prepared, scheduled, output, propagation, downstream,
                 offsetEnabled>>

\* EndScheduling
EndScheduling(t) ==
  LET open == status = "opened" IN
  /\ pc[t] = "end"
  /\ inFlight' = IF open THEN inFlight - 1 ELSE inFlight
  /\ schedState' = IF ~open THEN schedState
                   ELSE IF schedState = "Idle" THEN "Scheduling" ELSE "Pending"
  /\ Go(t, IF open /\ schedState = "Idle" THEN "loop" ELSE "idle")
  /\ work' = [work EXCEPT ![t] = Unset]
  /\ UNCHANGED <<in, status, allowance, inputBound, contexts, prepared,
                 scheduled, output, propagation, downstream, offsetEnabled>>

-----------------------------------------------------------------------------
\* The propagation of outputs and of the bound.

\* The propagation thread is done: on to EndScheduling after PostProcess, to
\* the end of the loop after UpdateTaskTimestampBound.
Home(t) == IF t \in Worker /\ work[t] # Unset THEN "end" ELSE "loopEnd"

GoIdle(t) ==
  /\ propState' = "Idle"
  /\ Go(t, Home(t))
  /\ UNCHANGED carried

Propagate(t, state, what) ==
  /\ propState' = state
  /\ carried' = what
  /\ Go(t, IF state = "Packets" THEN "send" ELSE "tryBound")

\* Is the earliest context among the completed ones?
FrontIn(done) == contexts # {} /\ done # {} /\ Least(contexts) = Least(done)

PropagationLoop_AnyOrder(t, done, bound) ==
  IF contexts = {} THEN Propagate(t, "Bound", bound)
  ELSE IF done # {} THEN Propagate(t, "Packets", Least(done))
  ELSE GoIdle(t)

\* PropagationLoop, up to its loop.
PropagationLoop(t, done, bound) ==
  IF contexts = {} THEN Propagate(t, "Bound", bound)
  ELSE IF FrontIn(done) THEN Propagate(t, "Packets", Least(contexts))
  ELSE GoIdle(t)

StartPropagation_Always(t, done, bound) == PropagationLoop(t, done, bound)

\* What UpdateTaskTimestampBound and PostProcess do about the propagation:
\* leave it to the thread that is at it, or begin.
StartPropagation(t, done, bound) ==
  IF propState = "Idle" THEN PropagationLoop(t, done, bound)
  ELSE /\ propState' = IF propState = "Bound" THEN "Pending" ELSE propState
       /\ Go(t, Home(t))
       /\ UNCHANGED carried

\* UpdateTaskTimestampBound
UpdateTaskTimestampBound(t) ==
  /\ pc[t] = "bound"
  /\ taskBound' = inputBound
  /\ IF taskBound = inputBound
     THEN Go(t, "loopEnd") /\ UNCHANGED <<propState, carried>>
     ELSE StartPropagation(t, completed, inputBound)
  /\ UNCHANGED <<in, scheduling, invocations, completed, downstream,
                 offsetEnabled>>

\* An executor thread takes an invocation.
Begin(w) ==
  /\ pc[w] = "idle"
  /\ \E ts \in scheduled :
       /\ scheduled' = scheduled \ {ts}
       /\ work' = [work EXCEPT ![w] = ts]
       /\ Go(w, IF ts = Done THEN "close" ELSE "process")
  /\ UNCHANGED <<in, scheduling, contexts, prepared, output, propagation,
                 downstream, offsetEnabled>>

\* Process, with or without a packet at its timestamp, and PostProcess.
ProcessNode(w) ==
  /\ pc[w] = "process"
  /\ output' \in {output, output \cup {work[w]}}
  /\ completed' = completed \cup {work[w]}
  /\ StartPropagation(w, completed', taskBound)
  /\ UNCHANGED <<in, scheduling, contexts, prepared, scheduled, work,
                 taskBound, downstream, offsetEnabled>>

\* The bound that follows from the input timestamp when the offset is 0.
InputBound(ts) ==
  IF ts = PreStream THEN MinTs ELSE IF ts = MaxTs THEN PostStream
  ELSE NextAllowedInStream(ts)

\* ComputeOutputTimestampBound: a packet at ts implies its own bound.
OutputTimestampBound(ts) ==
  IF ts \in output THEN NextAllowedInStream(ts)
  ELSE IF offsetEnabled THEN InputBound(ts) ELSE Unset

\* The mirror after the update of one invocation.
Update(ts) ==
  IF ts \in output THEN AddPackets(mirror, <<ts>>)
  ELSE SetNextTimestampBound(mirror, IF offsetEnabled THEN InputBound(ts)
                                     ELSE mirror.bound)

\* PropagateOutputPackets for the front context, timestamp_mutex_ released.
PropagateOutputPackets(t) ==
  LET bound == OutputTimestampBound(carried) IN
  /\ pc[t] = "send"
  /\ IF manager.closed THEN UNCHANGED downstream
     ELSE /\ manager' = IF bound = Unset THEN manager
                        ELSE [manager EXCEPT !.bound = bound]
          /\ mirror' = Update(carried).stream
          /\ hasError' = (hasError \/ Update(carried).refused)
  /\ Go(t, "recycle")
  /\ UNCHANGED <<in, scheduling, invocations, propagation, offsetEnabled>>

\* RecycleCalculatorContext: from here on the node may seem idle.
RecycleCalculatorContext(t) ==
  /\ pc[t] = "recycle"
  /\ contexts' = contexts \ {Least(contexts)}
  /\ Go(t, "sent")
  /\ UNCHANGED <<in, scheduling, prepared, scheduled, work, output,
                 propagation, downstream, offsetEnabled>>

\* The rest of PropagatePackets, timestamp_mutex_ held again.
PacketsPropagated(t) ==
  LET rest == completed \ {Least(completed)} IN
  /\ pc[t] = "sent"
  /\ completed' = rest
  /\ IF rest = {} /\ contexts = {}
     THEN IF taskBound <= NextAllowedInStream(carried) THEN GoIdle(t)
          ELSE Propagate(t, "Bound", taskBound)
     ELSE IF FrontIn(rest) THEN Propagate(t, "Packets", Least(contexts))
          ELSE GoIdle(t)
  /\ UNCHANGED <<in, scheduling, invocations, taskBound, downstream,
                 offsetEnabled>>

\* TryPropagateTimestampBound: the checks ...
TryPropagateTimestampBound(t) ==
  LET due == /\ IsRangeValue(carried) /\ offsetEnabled
             /\ ~manager.closed /\ carried > manager.bound
  IN
  /\ pc[t] = "tryBound"
  /\ Go(t, IF due THEN "raise" ELSE "tried")
  /\ UNCHANGED <<in, scheduling, invocations, propagation, downstream,
                 offsetEnabled>>

\* ... and, with no lock in between, PropagateUpdatesToMirrors.
RaiseMirrorBound(t) ==
  LET done == SetNextTimestampBound(mirror, carried) IN
  /\ pc[t] = "raise"
  /\ manager' = [manager EXCEPT !.bound = carried]
  /\ mirror' = done.stream
  /\ hasError' = (hasError \/ done.refused)
  /\ Go(t, "tried")
  /\ UNCHANGED <<in, scheduling, invocations, propagation, offsetEnabled>>

\* The rest of PropagationBound, timestamp_mutex_ held again.
BoundPropagated(t) ==
  /\ pc[t] = "tried"
  /\ IF propState = "Bound" THEN GoIdle(t)
     ELSE IF contexts = {} THEN Propagate(t, "Bound", taskBound)
     ELSE IF FrontIn(completed) THEN Propagate(t, "Packets", Least(contexts))
     ELSE GoIdle(t)
  /\ UNCHANGED <<in, scheduling, invocations, completed, taskBound,
                 downstream, offsetEnabled>>

-----------------------------------------------------------------------------
\* CloseNode: the input streams first ...
CloseInputStreams(w) ==
  /\ pc[w] = "close"
  /\ in' = CloseStream(in)
  /\ Go(w, "closeSend")
  /\ UNCHANGED <<scheduling, invocations, propagation, downstream,
                 offsetEnabled>>

\* ... Close of the calculator, which may send a last packet when it has not
\* promised to send at the timestamps of its input ...
CloseCalculator(w) ==
  /\ pc[w] = "closeSend"
  /\ \/ UNCHANGED mirror
     \/ /\ ~offsetEnabled
        /\ \E ts \in manager.bound .. PostStream :
             /\ ~AddPackets(mirror, <<ts>>).refused
             /\ mirror' = AddPackets(mirror, <<ts>>).stream
  /\ manager' = [manager EXCEPT !.bound = Done]
  /\ Go(w, "closeBound")
  /\ UNCHANGED <<in, scheduling, invocations, propagation, hasError,
                 offsetEnabled>>

\* ... the end of the stream, in OutputStreamHandler::Close ...
CloseMirror(w) ==
  /\ pc[w] = "closeBound"
  /\ mirror' = SetNextTimestampBound(mirror, Done).stream
  /\ Go(w, "closeOutput")
  /\ UNCHANGED <<in, scheduling, invocations, propagation, manager, hasError,
                 offsetEnabled>>

CloseManager(w) ==
  /\ pc[w] = "closeOutput"
  /\ manager' = [bound |-> Done, closed |-> TRUE]
  /\ Go(w, "closed")
  /\ UNCHANGED <<in, scheduling, invocations, propagation, mirror, hasError,
                 offsetEnabled>>

\* ... and the status of the node.
SetClosed(w) ==
  /\ pc[w] = "closed"
  /\ status' = "closed"
  /\ Go(w, "end")
  /\ UNCHANGED <<in, schedState, inFlight, allowance, inputBound, invocations,
                 propagation, downstream, offsetEnabled>>

-----------------------------------------------------------------------------
Continue(t) ==
  \/ CheckIfBecameReady(t) \/ SchedulingLoop(t) \/ ScheduleInvocation(t)
  \/ UpdateTaskTimestampBound(t) \/ EndOfLoop(t)
  \/ PropagateOutputPackets(t) \/ RecycleCalculatorContext(t)
  \/ PacketsPropagated(t) \/ TryPropagateTimestampBound(t)
  \/ RaiseMirrorBound(t) \/ BoundPropagated(t)

Run(w) ==
  \/ Begin(w) \/ ProcessNode(w) \/ EndScheduling(w)
  \/ CloseInputStreams(w) \/ CloseCalculator(w) \/ CloseMirror(w)
  \/ CloseManager(w) \/ SetClosed(w)

Next ==
  \/ \E ts \in PreStream .. PostStream : ReceivePacket(ts)
  \/ \E b \in MinTs .. Done : ReceiveBound(b)
  \/ \E t \in Thread : Continue(t)
  \/ \E w \in Worker : Run(w)

Spec == Init /\ [][Next]_vars

\* Threads run; the upstream node owes nothing.
FairSpec ==
  /\ Spec
  /\ \A t \in Thread : WF_vars(Continue(t))
  /\ \A w \in Worker : WF_vars(Run(w))

-----------------------------------------------------------------------------
Propagators ==
  {t \in Thread : pc[t] \in {"send", "recycle", "sent", "tryBound", "raise",
                            "tried"}}

\* The contexts whose outputs have not left: the front one has when its
\* thread is about to recycle it.
Unsent ==
  IF \E t \in Thread : pc[t] = "recycle" THEN contexts \ {Least(contexts)}
  ELSE contexts

\* There is one propagation thread while propagation_state_ is not kIdle, and
\* none when it is (output_stream_handler.h:176); and the ABSL_CHECKs of
\* in_order_output_stream_handler.cc:38, 109 and 114 and of
\* output_stream_handler.cc:88 hold.
OnePropagator ==
  /\ TypeOK
  /\ Cardinality(Propagators) = IF propState = "Idle" THEN 0 ELSE 1
  /\ contexts # {} /\ completed # {} /\ propState = "Idle" =>
       Least(contexts) < Least(completed)
  /\ \A t \in Thread :
       /\ pc[t] = "tried" => propState \in {"Bound", "Pending"}
       /\ pc[t] = "tried" /\ propState = "Pending" /\ contexts = {} =>
            carried < taskBound
       /\ pc[t] = "bound" => inputBound >= taskBound

\* When no thread is in the node nothing waits: every input was answered, the
\* bound of the input is the one downstream when the output follows it, and
\* at the end of the input the node is closed (output_stream_handler.cc:78,
\* calculator_node.cc:775).
NothingForgotten ==
  (\A t \in Thread : pc[t] = "idle") /\ scheduled = {} =>
    /\ in.queue = <<>> /\ contexts = {} /\ completed = {}
    /\ offsetEnabled /\ IsRangeValue(in.bound) => mirror.bound >= in.bound
    /\ in.bound >= OneOverPostStream => status = "closed" /\ mirror.bound = Done

\* The end of the input reaches the next node.
Ends == in.bound >= OneOverPostStream ~> status = "closed" /\ mirror.bound = Done

\* The packets wait in the order of their timestamps, those of the contexts
\* before those of the input stream.
InOrder(S) ==
  CHOOSE q \in [1 .. Cardinality(S) -> S] : Increasing(q) /\ Values(q) = S

\* Parallel invocations look from outside like invocations one by one, and the
\* bound downstream never passes an invocation whose outputs have not left,
\* although both are sent without a common lock.
Sequential ==
  INSTANCE SequentialNode WITH todo <- InOrder(Unsent) \o in.queue,
                               out <- mirror.queue, outBound <- mirror.bound
NodeIsSequential == Sequential!Spec

\* input_stream_handler.cc:260 "If any parallel invocations are in progress
\* [...] we shouldn't prepare another calculator context for Close()": the
\* propagation of an invocation never meets the stream closed.
BoundsAccepted == ~hasError
=============================================================================
