----------------------------- MODULE Throttling -----------------------------
(***************************************************************************)
(* How full input streams hold back the sources and graph inputs that feed *)
(* them (mediapipe/framework/calculator_graph.cc, with the callbacks of    *)
(* input_stream_manager.cc and the waiting and HandleIdle of scheduler.cc).*)
(*                                                                         *)
(* A stream finds out under its own lock that it became full or non-full,  *)
(* and calls UpdateThrottledNodes after it: the callbacks of the thread    *)
(* that adds, of the one that takes and of the one that changes the limit  *)
(* come in any order.  When nothing runs, HandleIdle makes the full        *)
(* streams larger, one lock at a time, while the application goes on.      *)
(*                                                                         *)
(* The k-th packets of the streams of a node make its k-th input set, so   *)
(* that a stream is a number of packets; a node answers a set with a       *)
(* packet on each of its streams.  A thread is named for what it does: App *)
(* uses the graph inputs, Poller reads the polled graph outputs, Handler   *)
(* is whoever is inside HandleIdle, and a node or source names the worker  *)
(* that runs it.                                                           *)
(***************************************************************************)
EXTENDS Integers, FiniteSets

CONSTANTS
  Input, Source, Node,     \* graph input streams, source nodes, other nodes
  Stream, From, To,        \* the input streams, and what each connects
  Ancestors,               \* AncestorSources() of every node
  App, Poller, Handler, None,
  MaxQueueSize,            \* the max_queue_size_ of the graph
  PollerSize,              \* the limit the application sets for polled streams
  MaxPackets               \* bound: MaxPackets[f] packets of feeder f

NoLimit == -1
Feeder == Input \cup Source
Runner == Source \cup Node
Request == {"check", "add", "close"}
Thread == Runner \cup {App, Poller, Handler}

\* UpdateThrottledNodes: the feeders that stream e holds back.
Upstream(e) == IF From[e] \in Feeder THEN {From[e]} ELSE Ancestors[From[e]]

Polled == {e \in Stream : To[e] = Poller}
Into(n) == {e \in Stream : To[e] = n}
OutOf(n) == {e \in Stream : From[e] = n}

ASSUME ThrottlingAssumption ==
  /\ Input \cap Source = {} /\ Feeder \cap Node = {}
  /\ {App, Poller, Handler} \cap (Feeder \cup Node) = {}
  /\ App # Poller /\ App # Handler /\ Poller # Handler
  /\ IsFiniteSet(Stream) /\ IsFiniteSet(Feeder) /\ IsFiniteSet(Node)
  /\ From \in [Stream -> Feeder \cup Node] /\ To \in [Stream -> Node \cup {Poller}]
  /\ Ancestors \in [Node -> SUBSET Feeder]
  /\ \A n \in Node : Ancestors[n] = UNION {Upstream(e) : e \in Into(n)}
  /\ MaxQueueSize \in Nat \cup {NoLimit}
  /\ PollerSize \in Nat \cup {NoLimit}
  /\ MaxPackets \in [Feeder -> Nat]

VARIABLES
  queue,       \* packets in each stream
  limit,       \* max_queue_size_ of each stream
  closed,      \* streams whose producer is closed
  reported,    \* last_reported_stream_full_
  full,        \* full_input_streams_: the full streams that hold back a feeder
  throttled,   \* throttled_graph_input_stream_count_
  owes,        \* streams whose queue-size callback a thread has to make
  frees,       \* sources a thread has to add to the scheduler queue
  sends,       \* streams a thread has to update: with a packet, or closing them
  checks,      \* nodes a thread has to check for readiness, and then to add
  takes,       \* streams a thread has to read into the set it prepares
  status,      \* nodes and sources: not in flight, prepared, queued, running
  tail,        \* runners whose worker is in its scheduling loop, and where
  tasks,       \* tasks that are not complete
  ending,      \* workers of sources that have only to complete their task
  ticks,       \* packets each feeder has still to emit
  stage,       \* where HandleIdle is
  again,       \* handling_idle_ > 1
  toGrow,      \* full_streams of UnthrottleSources
  growing,     \* the stream that is being grown, with new_size; or nothing
  did,         \* UnthrottleSources returns true
  hasError, inputsClosed, terminated,
  pc, at,      \* the call App is in, and its graph input stream
  woken        \* unthrottle_seq_num_ has changed since App read it

streamVars == <<queue, limit, closed, reported>>
tableVars == <<full, throttled, woken>>
workVars == <<owes, frees, sends, checks, takes>>
taskVars == <<status, tail, tasks, ending>>
idleVars == <<stage, again, toGrow, growing, did>>
flags == <<hasError, inputsClosed, terminated>>
appVars == <<pc, at>>
vars == <<streamVars, tableVars, workVars, taskVars, ticks, idleVars, flags,
          appVars>>

TypeOK ==
  /\ queue \in [Stream -> Nat] /\ limit \in [Stream -> Nat \cup {NoLimit}]
  /\ closed \subseteq Stream /\ reported \subseteq Stream
  /\ full \in [Feeder -> SUBSET Stream]
  /\ throttled \in 0 .. Cardinality(Input)
  /\ owes \in [Thread -> SUBSET Stream] /\ frees \in [Thread -> SUBSET Source]
  /\ sends \in [Thread -> SUBSET (Stream \X {"packet", "close"})]
  /\ checks \in [Thread -> SUBSET (Request \X Node)] /\ takes \in [Thread -> SUBSET Stream]
  /\ status \in [Runner -> {"open", "prepared", "queued", "toClose", "running",
                            "closing", "closed"}]
  /\ tail \subseteq Runner \X {"check", "add"} /\ tasks \in Nat /\ ending \in 0 .. tasks
  /\ \A f \in Feeder : ticks[f] \in 0 .. MaxPackets[f]
  /\ stage \in {"none", "loop", "snapshot", "grow", "relock"}
  /\ toGrow \subseteq Stream /\ growing \in {<<>>} \cup (Stream \X Nat)
  /\ {again, did, hasError, inputsClosed, terminated, woken} \subseteq BOOLEAN
  /\ pc \in {"none", "wait", "add", "sending", "closing", "handling"}
  /\ at \in Input \cup {None}

FullAt(e, n, max) == max # NoLimit /\ n >= max
Full(e) == FullAt(e, queue[e], limit[e])

\* Whether a source is held back: never in a graph that sets no limit, though
\* its full_input_streams_ may hold a stream with a limit of its own.
IsNodeThrottled(f) == MaxQueueSize # NoLimit /\ full[f] # {}

\* StartRun has given every stream its limit, with the callbacks of those that
\* are full when empty, and activated the sources; Start is in HandleIdle.
Init ==
  /\ queue = [e \in Stream |-> 0]
  /\ limit = [e \in Stream |-> IF e \in Polled THEN PollerSize ELSE MaxQueueSize]
  /\ closed = {}
  /\ reported = {e \in Stream : Full(e)}
  /\ full = [f \in Feeder |-> {e \in reported : f \in Upstream(e)}]
  /\ throttled = Cardinality({i \in Input : full[i] # {}})
  /\ owes = [t \in Thread |-> {}] /\ frees = [t \in Thread |-> {}]
  /\ sends = [t \in Thread |-> {}] /\ checks = [t \in Thread |-> {}]
  /\ takes = [t \in Thread |-> {}]
  /\ status = [n \in Runner |-> IF n \in Source /\ ~IsNodeThrottled(n)
                                THEN "queued" ELSE "open"]
  /\ tail = {} /\ tasks = Cardinality({n \in Runner : status[n] = "queued"})
  /\ ending = 0
  /\ ticks = MaxPackets
  /\ stage = "loop" /\ again = FALSE /\ toGrow = {} /\ growing = <<>> /\ did = FALSE
  /\ hasError = FALSE /\ inputsClosed = (Input = {}) /\ terminated = FALSE
  /\ pc = "none" /\ at = None /\ woken = FALSE

-----------------------------------------------------------------------------
(* The queue-size callbacks. *)

Quiet(t) ==
  /\ owes[t] = {} /\ frees[t] = {} /\ sends[t] = {} /\ checks[t] = {}
CalledBack(t) == owes[t] = {} /\ frees[t] = {}

\* becomes_full_callback_ or becomes_not_full_callback_ is due when the stream
\* was full before and is not after, or the reverse.
Owe(t, e, n, max) ==
  owes' = [owes EXCEPT ![t] = IF FullAt(e, n, max) # Full(e) THEN {e} ELSE {}]

\* UnthrottledGraphInputStream for the inputs of freed: the sequence number
\* changes, which wakes all who wait.
Wakes_LastOne(freed) == freed \cap Input # {} /\ throttled = 0
Wakes(freed) == freed \cap Input # {}

\* UpdateThrottledNodes, under full_input_streams_mutex_: the stream is asked
\* again whether it is full.
UpdateThrottledNodes(t, e) ==
  LET now == IF Full(e) THEN [f \in Upstream(e) |-> full[f] \cup {e}]
             ELSE [f \in Upstream(e) |-> full[f] \ {e}]
      changed == Full(e) # (e \in reported)
      started == {f \in Upstream(e) : full[f] = {}}
      freed == {f \in Upstream(e) : now[f] = {}}
  IN
  /\ e \in owes[t]
  /\ owes' = [owes EXCEPT ![t] = {}]
  /\ IF changed
     THEN /\ full' = [f \in Feeder |-> IF f \in Upstream(e) THEN now[f] ELSE full[f]]
          /\ throttled' = throttled - Cardinality(freed \cap Input) +
                  (IF Full(e) THEN Cardinality(started \cap Input) ELSE 0)
          /\ woken' = (woken \/ Wakes(freed))
          /\ frees' = [frees EXCEPT ![t] =
                         {s \in freed \cap Source : status[s] # "closed"}]
     ELSE UNCHANGED <<tableVars, frees>>
  /\ reported' = IF Full(e) THEN reported \cup {e} ELSE reported \ {e}
  /\ UNCHANGED <<queue, limit, closed, sends, checks, takes, taskVars, ticks,
                 idleVars, flags, appVars>>

\* SchedulerQueue::AddNode: nothing after an error, nor for a source in flight.
AddNode(n, as) ==
  IF hasError \/ (n \in Source /\ status[n] # "open")
  THEN /\ status' = [status EXCEPT ![n] = IF n \in Node THEN "open" ELSE @]
       /\ UNCHANGED tasks
  ELSE status' = [status EXCEPT ![n] = as] /\ tasks' = tasks + 1

\* ScheduleUnthrottledReadyNodes.
ScheduleUnthrottled(t, s) ==
  /\ s \in frees[t]
  /\ frees' = [frees EXCEPT ![t] = @ \ {s}]
  /\ AddNode(s, "queued")
  /\ UNCHANGED <<streamVars, tableVars, owes, sends, checks, takes, tail, ending,
                 ticks, idleVars, flags, appVars>>

-----------------------------------------------------------------------------
(* Streams and nodes. *)

\* A mirror gets a packet, and the callback is made before the node is told,
\* which happens only when the queue was empty.
AddPacketTo(t, e) ==
  /\ <<e, "packet">> \in sends[t] /\ CalledBack(t) /\ checks[t] = {}
  /\ sends' = [sends EXCEPT ![t] = @ \ {<<e, "packet">>}]
  /\ queue' = [queue EXCEPT ![e] = @ + 1]
  /\ Owe(t, e, queue[e] + 1, limit[e])
  /\ checks' = [checks EXCEPT ![t] = IF queue[e] = 0 /\ e \notin Polled
                                     THEN {<<"check", To[e]>>} ELSE {}]
  /\ UNCHANGED <<limit, closed, reported, tableVars, frees, takes, taskVars,
                 ticks, idleVars, flags, appVars>>

CloseStream(t, e) ==
  /\ <<e, "close">> \in sends[t] /\ CalledBack(t) /\ checks[t] = {}
  /\ sends' = [sends EXCEPT ![t] = @ \ {<<e, "close">>}]
  /\ closed' = closed \cup {e}
  /\ checks' = [checks EXCEPT ![t] = IF queue[e] = 0 /\ e \notin Polled
                                     THEN {<<"check", To[e]>>} ELSE {}]
  /\ UNCHANGED <<queue, limit, reported, tableVars, owes, frees, takes, taskVars,
                 ticks, idleVars, flags, appVars>>

Filled(n) == {e \in Into(n) : queue[e] > 0}
ReadyForProcess(n) == Filled(n) # {} /\ Into(n) \ Filled(n) \subseteq closed
ReadyForClose(n) == Filled(n) = {} /\ Into(n) \subseteq closed

\* CheckIfBecameReady and EndScheduling, for a node.
CheckNode(t, n) ==
  LET ready == status[n] = "open" IN
  /\ <<"check", n>> \in checks[t] /\ CalledBack(t)
  /\ \/ /\ ready /\ ReadyForProcess(n)
        /\ takes' = [takes EXCEPT ![t] = Filled(n)]
        /\ checks' = [checks EXCEPT ![t] = {<<"add", n>>}]
        /\ status' = [status EXCEPT ![n] = "prepared"]
     \/ /\ ready /\ ReadyForClose(n)
        /\ checks' = [checks EXCEPT ![t] = {<<"close", n>>}]
        /\ status' = [status EXCEPT ![n] = "prepared"]
        /\ UNCHANGED takes
     \/ /\ ~ready \/ ~(ReadyForProcess(n) \/ ReadyForClose(n))
        /\ checks' = [checks EXCEPT ![t] = {}]
        /\ UNCHANGED <<takes, status>>
  /\ UNCHANGED <<streamVars, tableVars, owes, frees, sends, tail, tasks, ending,
                 ticks, idleVars, flags, appVars>>

TakePacket_NoCallback(t, e) ==
  /\ e \in takes[t] /\ CalledBack(t)
  /\ takes' = [takes EXCEPT ![t] = @ \ {e}]
  /\ queue' = [queue EXCEPT ![e] = @ - 1]
  /\ UNCHANGED <<limit, closed, reported, tableVars, owes, frees, sends, checks,
                 taskVars, ticks, idleVars, flags, appVars>>

\* PopPacketAtTimestamp, for one stream of the set.
TakePacket(t, e) ==
  /\ e \in takes[t] /\ CalledBack(t)
  /\ takes' = [takes EXCEPT ![t] = @ \ {e}]
  /\ queue' = [queue EXCEPT ![e] = @ - 1]
  /\ Owe(t, e, queue[e] - 1, limit[e])
  /\ UNCHANGED <<limit, closed, reported, tableVars, frees, sends, checks,
                 taskVars, ticks, idleVars, flags, appVars>>

AddReadyNode(t, n) ==
  /\ CalledBack(t) /\ takes[t] = {}
  /\ \/ <<"add", n>> \in checks[t] /\ AddNode(n, "queued")
     \/ <<"close", n>> \in checks[t] /\ AddNode(n, "toClose")
  /\ checks' = [checks EXCEPT ![t] = {}]
  /\ UNCHANGED <<streamVars, tableVars, owes, frees, sends, takes, tail, ending,
                 ticks, idleVars, flags, appVars>>

\* RunCalculatorNode: a packet on every output stream; or the end of a source,
\* or of a node whose inputs are done.
Run(n) ==
  LET emits == status[n] = "queued" /\ (n \in Source => ticks[n] > 0) IN
  /\ status[n] \in {"queued", "toClose"} /\ Quiet(n)
  /\ n \in Source \/ <<n, "check">> \notin tail
  /\ IF emits
     THEN /\ status' = [status EXCEPT ![n] = "running"]
          /\ sends' = [sends EXCEPT ![n] = OutOf(n) \X {"packet"}]
          /\ ticks' = IF n \in Source THEN [ticks EXCEPT ![n] = @ - 1] ELSE ticks
     ELSE /\ status' = [status EXCEPT ![n] = "closing"]
          /\ sends' = [sends EXCEPT ![n] = OutOf(n) \X {"close"}]
          /\ UNCHANGED ticks
  /\ UNCHANGED <<streamVars, tableVars, owes, frees, checks, takes, tail, tasks,
                 ending, idleVars, flags, appVars>>

\* With state_mutex_ held; `from' is the call of App that enters.
EnterHandleIdle(from) ==
  /\ IF stage = "none" THEN stage' = "loop" /\ UNCHANGED again
                       ELSE again' = TRUE /\ UNCHANGED stage
  /\ pc' = IF from = "none" THEN pc
           ELSE IF stage = "none" THEN "handling" ELSE "none"

LeaveHandleIdle ==
  /\ stage' = "none" /\ again' = FALSE
  /\ pc' = IF pc = "handling" THEN "none" ELSE pc

\* FinishTask, and QueueIdleStateChanged when the queue became idle.
FinishTask ==
  /\ tasks' = tasks - 1
  /\ IF tasks = 1 THEN EnterHandleIdle("none") ELSE UNCHANGED <<stage, again, pc>>

EndRun_NoLoop(n) ==
  /\ status[n] = "running" /\ Quiet(n)
  /\ status' = [status EXCEPT ![n] = "open"]
  /\ IF n \in Source
     THEN ending' = ending + 1 /\ UNCHANGED <<tail, checks>>
     ELSE /\ tail' = tail \cup {<<n, "check">>}
          /\ checks' = [checks EXCEPT ![n] = {<<"check", n>>}]
          /\ UNCHANGED ending
  /\ UNCHANGED <<streamVars, tableVars, owes, frees, sends, takes, tasks, ticks,
                 idleVars, flags, appVars>>

\* EndScheduling: out of flight, then the scheduling loop, unless the worker of
\* an earlier run is still in it.
EndRun(n) ==
  /\ status[n] = "running" /\ Quiet(n)
  /\ status' = [status EXCEPT ![n] = "open"]
  /\ IF \E w \in {"check", "add"} : <<n, w>> \in tail
     THEN ending' = ending + 1 /\ UNCHANGED <<tail, checks>>
     ELSE /\ tail' = tail \cup {<<n, "check">>}
          /\ checks' = [checks EXCEPT ![n] = IF n \in Node
                                            THEN {<<"check", n>>} ELSE {}]
          /\ UNCHANGED ending
  /\ UNCHANGED <<streamVars, tableVars, owes, frees, sends, takes, tasks, ticks,
                 idleVars, flags, appVars>>

\* A closed node stays in flight; its task is complete.
EndClose(n) ==
  /\ status[n] = "closing" /\ Quiet(n)
  /\ status' = [status EXCEPT ![n] = "closed"]
  /\ FinishTask
  /\ UNCHANGED <<streamVars, tableVars, workVars, tail, ending, ticks, toGrow,
                 growing, did, flags, at>>

\* ScheduleNodeIfNotThrottled, for a source in its scheduling loop.
CheckThrottled(s) ==
  /\ s \in Source /\ <<s, "check">> \in tail
  /\ IF IsNodeThrottled(s)
     THEN tail' = tail \ {<<s, "check">>} /\ ending' = ending + 1
     ELSE /\ tail' = (tail \ {<<s, "check">>}) \cup {<<s, "add">>}
          /\ UNCHANGED ending
  /\ UNCHANGED <<streamVars, tableVars, workVars, status, tasks, ticks, idleVars,
                 flags, appVars>>

AddSource(s) ==
  /\ <<s, "add">> \in tail
  /\ tail' = tail \ {<<s, "add">>} /\ ending' = ending + 1
  /\ AddNode(s, "queued")
  /\ UNCHANGED <<streamVars, tableVars, workVars, ticks, idleVars, flags, appVars>>

\* The end of the loop, for a node and for a source.
EndLoop(n) ==
  /\ \/ /\ n \in Node /\ <<n, "check">> \in tail /\ Quiet(n)
        /\ tail' = tail \ {<<n, "check">>} /\ UNCHANGED ending
     \/ /\ n \in Source /\ ending > 0
        /\ ending' = ending - 1 /\ UNCHANGED tail
  /\ FinishTask
  /\ UNCHANGED <<streamVars, tableVars, workVars, status, ticks, toGrow, growing,
                 did, flags, at>>

-----------------------------------------------------------------------------
(* HandleIdle. *)

ActiveSources == {s \in Source : status[s] # "closed"}
UnthrottleDue == ActiveSources # {} \/ throttled > 0

\* One round of the loop, up to the unlock of state_mutex_ for UnthrottleSources.
HandleIdle ==
  /\ stage = "loop"
  /\ \/ /\ tasks > 0 \/ terminated
        /\ LeaveHandleIdle
        /\ UNCHANGED terminated
     \/ /\ tasks = 0 /\ ~terminated
        /\ hasError \/ (ActiveSources = {} /\ inputsClosed)
        /\ terminated' = TRUE
        /\ LeaveHandleIdle
     \/ /\ tasks = 0 /\ ~terminated
        /\ ~hasError /\ ~(ActiveSources = {} /\ inputsClosed)
        /\ IF UnthrottleDue
           THEN stage' = "snapshot" /\ UNCHANGED <<again, pc>>
           ELSE LeaveHandleIdle
        /\ UNCHANGED terminated
  /\ UNCHANGED <<streamVars, tableVars, workVars, taskVars, ticks, toGrow, growing,
                 did, hasError, inputsClosed, at>>

\* UnthrottleSources: the full streams that are not polled ...
FindFullStreams ==
  /\ stage = "snapshot"
  /\ toGrow' = UNION {full[f] : f \in Feeder} \ Polled
  /\ did' = (toGrow' # {})
  /\ stage' = "grow"
  /\ UNCHANGED <<streamVars, tableVars, workVars, taskVars, ticks, again, growing,
                 flags, appVars>>

\* ... the size of one ...
ReadQueueSize(e) ==
  /\ stage = "grow" /\ e \in toGrow /\ growing = <<>> /\ CalledBack(Handler)
  /\ growing' = <<e, queue[e] + 1>>
  /\ toGrow' = toGrow \ {e}
  /\ UNCHANGED <<streamVars, tableVars, workVars, taskVars, ticks, stage, again,
                 did, flags, appVars>>

\* ... and its new limit (SetMaxQueueSize).
GrowStream ==
  /\ growing # <<>>
  /\ limit' = [limit EXCEPT ![growing[1]] = growing[2]]
  /\ Owe(Handler, growing[1], queue[growing[1]], growing[2])
  /\ growing' = <<>>
  /\ UNCHANGED <<queue, closed, reported, tableVars, frees, sends, checks, takes,
                 taskVars, ticks, stage, again, toGrow, did, flags, appVars>>

\* Lock state_mutex_ again: go on after a success, or when HandleIdle was
\* called in the meantime.
Relock ==
  /\ stage = "grow" /\ toGrow = {} /\ growing = <<>> /\ CalledBack(Handler)
  /\ \/ /\ did \/ again
        /\ stage' = "loop" /\ again' = (again /\ did) /\ UNCHANGED pc
     \/ /\ ~did /\ ~again
        /\ LeaveHandleIdle
  /\ UNCHANGED <<streamVars, tableVars, workVars, taskVars, ticks, toGrow, growing,
                 did, flags, at>>

-----------------------------------------------------------------------------
(* The application. *)

Calls(p) == pc = p /\ Quiet(App)

\* The look at the table, under full_input_streams_mutex_, in either mode.  App
\* reads unthrottle_seq_num_ before it gives up that mutex.
Look(i) ==
  \/ hasError /\ pc' = "none" /\ UNCHANGED woken
  \/ ~hasError /\ full[i] = {} /\ pc' = "add" /\ UNCHANGED woken
  \/ /\ ~hasError /\ full[i] # {}
     /\ \/ pc' = "none" /\ UNCHANGED woken        \* ADD_IF_NOT_FULL
        \/ pc' = "wait" /\ woken' = FALSE         \* WAIT_TILL_NOT_FULL

\* AddPacketToInputStream.
BeginAdd(i) ==
  /\ Calls("none") /\ ticks[i] > 0 /\ ~(OutOf(i) \subseteq closed)
  /\ at' = i /\ Look(i)
  /\ UNCHANGED <<streamVars, full, throttled, workVars, taskVars, ticks, idleVars,
                 flags>>

\* WaitUntilGraphInputStreamUnthrottled is over.
EndWait ==
  /\ Calls("wait") /\ (woken \/ terminated)
  /\ Look(at)
  /\ UNCHANGED <<streamVars, full, throttled, workVars, taskVars, ticks, idleVars,
                 flags, at>>

\* The packet is accepted; or it is not, and the scheduler is not told.
AddPacket ==
  /\ Calls("add")
  /\ \/ /\ hasError
        /\ pc' = "none" /\ UNCHANGED <<sends, ticks, hasError>>
     \/ /\ ~hasError
        /\ hasError' = TRUE /\ pc' = "none" /\ UNCHANGED <<sends, ticks>>
     \/ /\ ~hasError
        /\ ticks' = [ticks EXCEPT ![at] = @ - 1]
        /\ sends' = [sends EXCEPT ![App] = OutOf(at) \X {"packet"}]
        /\ pc' = "sending" /\ UNCHANGED hasError
  /\ UNCHANGED <<streamVars, tableVars, owes, frees, checks, takes, taskVars,
                 idleVars, inputsClosed, terminated, at>>

\* AddedPacketToGraphInputStream.
AddedPacket ==
  /\ Calls("sending")
  /\ IF terminated THEN pc' = "none" /\ UNCHANGED <<stage, again>>
     ELSE EnterHandleIdle("sending")
  /\ UNCHANGED <<streamVars, tableVars, workVars, taskVars, ticks, toGrow, growing,
                 did, flags, at>>

\* CloseInputStream, and ClosedAllGraphInputStreams after the last one; a bound:
\* after the last packet of the input.
CloseInput(i) ==
  /\ Calls("none") /\ ticks[i] = 0 /\ ~(OutOf(i) \subseteq closed)
  /\ sends' = [sends EXCEPT ![App] = OutOf(i) \X {"close"}]
  /\ pc' = "closing" /\ at' = i
  /\ UNCHANGED <<streamVars, tableVars, owes, frees, checks, takes, taskVars,
                 ticks, idleVars, flags>>

ClosedInput ==
  LET all == \A i \in Input : OutOf(i) \subseteq closed IN
  /\ Calls("closing")
  /\ inputsClosed' = all
  /\ IF all THEN EnterHandleIdle("closing")
     ELSE pc' = "none" /\ UNCHANGED <<stage, again>>
  /\ UNCHANGED <<streamVars, tableVars, workVars, taskVars, ticks, toGrow, growing,
                 did, hasError, terminated, at>>

\* Cancel, by another thread of the application; a bound: while App waits.
Cancel ==
  /\ ~terminated /\ ~hasError /\ pc = "wait"
  /\ hasError' = TRUE
  /\ EnterHandleIdle("none")
  /\ UNCHANGED <<streamVars, tableVars, workVars, taskVars, ticks, toGrow, growing,
                 did, inputsClosed, terminated, at>>

\* OutputStreamPoller::Next.
Poll(e) ==
  /\ e \in Polled /\ queue[e] > 0 /\ CalledBack(Poller)
  /\ queue' = [queue EXCEPT ![e] = @ - 1]
  /\ Owe(Poller, e, queue[e] - 1, limit[e])
  /\ UNCHANGED <<limit, closed, reported, tableVars, frees, sends, checks, takes,
                 taskVars, ticks, idleVars, flags, appVars>>

-----------------------------------------------------------------------------
Handle == HandleIdle \/ FindFullStreams \/ GrowStream \/ Relock
            \/ \E e \in Stream : ReadQueueSize(e)

Continue(t) ==
  \/ \E e \in Stream : \/ UpdateThrottledNodes(t, e) \/ AddPacketTo(t, e)
                       \/ CloseStream(t, e) \/ TakePacket(t, e)
  \/ \E s \in Source : ScheduleUnthrottled(t, s)
  \/ \E n \in Node : CheckNode(t, n) \/ AddReadyNode(t, n)

RunTask(n) ==
  \/ Run(n) \/ EndRun(n) \/ EndClose(n)
  \/ CheckThrottled(n) \/ AddSource(n) \/ EndLoop(n)

ContinueCall == EndWait \/ AddPacket \/ AddedPacket \/ ClosedInput

\* A thread that has begun goes on, a task is executed, a polled packet is read.
Work ==
  \/ ContinueCall
  \/ \E t \in Thread : Continue(t)
  \/ \E n \in Runner : RunTask(n)
  \/ \E e \in Stream : Poll(e)

Next ==
  \/ Handle \/ Work \/ Cancel
  \/ \E i \in Input : BeginAdd(i) \/ CloseInput(i)

Spec == Init /\ [][Next]_vars

\* As long as a thread outside HandleIdle can go on, one does, which one is left
\* open; so does the thread inside, which may go round in its loop until the
\* others let it out.  Nothing obliges the application to add packets, to close
\* or to cancel.
FairSpec == Spec /\ WF_vars(Work) /\ WF_vars(Handle)

-----------------------------------------------------------------------------
\* However the callbacks are ordered, the table holds the streams last reported
\* full, under the feeders they hold back ("ABSL_DCHECK_EQ(count(stream), ...)"),
\* the scheduler counts the graph inputs with an entry, and a report that is out
\* of date has a callback on its way.
ThrottlingIsCurrent ==
  /\ \A f \in Feeder : full[f] = {e \in reported : f \in Upstream(e)}
  /\ throttled = Cardinality({i \in Input : full[i] # {}})
  /\ \A e \in Stream : Full(e) # (e \in reported) => \E t \in Thread : e \in owes[t]

\* Nobody is left behind.  A source that is not throttled is queued or running,
\* or a thread is about to add it, although its worker and the callback that
\* frees it look at different things at different times; and no wake-up of the
\* application is lost between its look at the table and its wait ("If an
\* unthrottle event occurred after that point, the sequence number will differ").
NobodyForgotten ==
  /\ TypeOK
  /\ \A s \in Source :
       status[s] = "open" /\ full[s] = {} /\ ~hasError
         => \/ \E t \in Thread : s \in frees[t]
            \/ {<<s, "check">>, <<s, "add">>} \cap tail # {}
  /\ pc = "wait" /\ ~woken => full[at] # {}

\* AddPacketToInputStream returns, whatever the limits: a full stream is read,
\* or HandleIdle makes it larger, or the run ends.
CallReturns == pc # "none" ~> pc = "none"
==============================================================================
