----------------------------- MODULE Scheduler ------------------------------
(***************************************************************************)
(* The scheduler of a calculator graph (mediapipe/framework/scheduler.cc)  *)
(* running over its queues (module SchedulerQueue) and a small graph:      *)
(* source nodes in layers, and nodes that join the streams of some sources *)
(* and of the one graph input stream.                                      *)
(*                                                                         *)
(* An action is one critical section of state_mutex_ or of a queue's       *)
(* mutex_, or one stretch of code outside them.  HandleIdle holds          *)
(* state_mutex_ while it decides and releases it while it activates or     *)
(* unthrottles sources; the thread inside it is `handler'.                 *)
(*                                                                         *)
(* Streams carry consecutive timestamps, so that a set of inputs is        *)
(* complete when every stream has a packet or is closed.  Whether a source *)
(* is throttled is read off the streams it feeds.                          *)
(***************************************************************************)
EXTENDS Integers, FiniteSets

CONSTANTS
  Queue, Worker, App, None,   \* as in SchedulerQueue
  Main,           \* the application thread that starts and cleans up the run
  Feeder,         \* the application thread that uses the graph input stream
  Source,         \* source nodes
  Join,           \* the other nodes
  Input,          \* the graph input stream
  QueueOf,        \* QueueOf[n]: the queue of node n
  Layer,          \* Layer[s]: source_layer of source s
  Feeds,          \* Feeds[n]: the sources, and perhaps Input, that n reads
  Late,           \* sources that wait for a side packet made by Process()
  Calls,          \* which of "pause", "cancel", "stop", "error" may occur
  MaxTicks,       \* bound: packets a source emits before it stops
  MaxPackets,     \* bound: packets added to the graph input stream
  MaxQueueSize    \* max_queue_size_ at the start of the run

Thread == Worker \cup App
Node == Source \cup Join
Stream == {e \in (Source \cup {Input}) \X Join : e[1] \in Feeds[e[2]]}
Item == {"open", "run", "close"} \X Node
Request == {"open", "check", "activate", "unthrottled", "run", "close"} \X Node

ASSUME SchedulerAssumption ==
  /\ IsFiniteSet(Queue) /\ IsFiniteSet(Worker) /\ IsFiniteSet(App)
  /\ Worker \cap App = {} /\ None \notin Queue \cup Thread \cup Item
  /\ IsFiniteSet(Source) /\ IsFiniteSet(Join) /\ Source \cap Join = {}
  /\ Input \notin Node
  /\ Main \in App /\ Feeder \in App
  /\ QueueOf \in [Node -> Queue]
  /\ Layer \in [Source -> Nat]
  /\ Feeds \in [Join -> (SUBSET (Source \cup {Input})) \ {{}}]
  /\ Late \subseteq Source
  /\ MaxTicks \in Nat /\ MaxPackets \in Nat /\ MaxQueueSize \in Nat \ {0}

VARIABLES
  items,        \* what queue_ holds, over all queues
  toAdd, pending, running, executor, inHand, work,
  owesActive, owesIdle, nonIdle,               \* as in SchedulerQueue
  state,        \* state_
  smutex,       \* the thread that holds state_mutex_ between two actions
  handler,      \* the thread inside HandleIdle: handling_idle_ > 0
  again,        \* handling_idle_ > 1
  stage,        \* where the handler is
  owesSubmit,   \* threads that call SubmitWaitingTasksOnQueues after HandleIdle
  submit,       \* submit[t]: queues t has still to submit
  hasError, stopping, inputsClosed,            \* flags of the same names
  todo,         \* todo[t]: requests to schedule a node that t has still to make
  item, phase,  \* the item a worker has popped, how far it is
  status,       \* status_ of each node
  flight,       \* nodes with current_in_flight_ = max_in_flight_ (= 1)
  inbox,        \* packets waiting in each stream
  limit,        \* max_queue_size of each stream
  inputOpen,    \* the graph input stream is not closed
  ticks,        \* packets each source has still to emit
  packets,      \* packets the application has still to add
  call,         \* the call an application thread is in
  toClean       \* queues that Scheduler::CleanupAfterRun has not reached

queueVars == <<items, toAdd, pending, running, executor, inHand, work,
               owesActive, owesIdle, nonIdle>>
idleVars == <<smutex, handler, again, stage>>
nodeVars == <<status, flight, inbox, limit, ticks>>
appVars == <<inputOpen, packets, call, toClean>>
flags == <<hasError, stopping, inputsClosed>>
workVars == <<todo, item, phase>>
submitVars == <<owesSubmit, submit>>
vars == <<queueVars, state, idleVars, submitVars, flags, workVars, nodeVars,
          appVars>>

ItemsOf(q) == {i \in items : QueueOf[i[2]] = q}

\* The queues below, as SchedulerQueue sees them.
Queues == INSTANCE SchedulerQueue WITH
            queue <- [q \in Queue |-> Cardinality(ItemsOf(q))],
            MaxItems <- 2 * Cardinality(Node),
            MinRunning <- -1

Returned(t) == Queues!Returned(t)

TypeOK ==
  /\ items \subseteq Item
  /\ state \in {"NOT_STARTED", "RUNNING", "PAUSED", "CANCELLING", "TERMINATED"}
  /\ smutex \in Thread \cup {None} /\ handler \in Thread \cup {None}
  /\ again \in BOOLEAN
  /\ stage \in {"none", "loop", "stop", "add", "submit", "unthrottle",
                "unthrottled", "nothing"}
  /\ owesSubmit \subseteq Thread /\ submit \in [Thread -> SUBSET Queue]
  /\ {hasError, stopping, inputsClosed, inputOpen} \subseteq BOOLEAN
  /\ todo \in [Thread -> SUBSET Request]
  /\ item \in [Thread -> Item \cup {None}]
  /\ phase \in [Thread -> {"none", "popped", "processed", "ended"}]
  /\ status \in [Node -> {"waiting", "prepared", "opened", "chosen", "active",
                          "closed"}]
  /\ flight \subseteq Node
  /\ inbox \in [Stream -> Nat] /\ limit \in [Stream -> Nat]
  /\ ticks \in [Source -> 0 .. MaxTicks] /\ packets \in 0 .. MaxPackets
  /\ call \in [App -> {"none", "add", "close", "cleanup"}]
  /\ toClean \subseteq Queue
  /\ Queues!TypeOK

\* PrepareForRun has requested OpenNode for every node but the late sources.
Init ==
  /\ items = {}
  /\ Queues!Init
  /\ state = "NOT_STARTED"
  /\ smutex = None /\ handler = None /\ again = FALSE /\ stage = "none"
  /\ owesSubmit = {} /\ submit = [t \in Thread |-> {}]
  /\ hasError = FALSE /\ stopping = FALSE
  /\ inputOpen = (\E n \in Join : Input \in Feeds[n])
  /\ inputsClosed = ~inputOpen
  /\ todo = [t \in Thread |->
               IF t = Main THEN {"open"} \X (Node \ Late) ELSE {}]
  /\ item = [t \in Thread |-> None] /\ phase = [t \in Thread |-> "none"]
  /\ status = [n \in Node |-> IF n \in Late THEN "waiting" ELSE "prepared"]
  /\ flight = {}
  /\ inbox = [e \in Stream |-> 0] /\ limit = [e \in Stream |-> MaxQueueSize]
  /\ ticks = [s \in Source |-> MaxTicks] /\ packets = MaxPackets
  /\ call = [a \in App |-> "none"] /\ toClean = {}

-----------------------------------------------------------------------------
(* Nodes and streams. *)

Full(e) == inbox[e] >= limit[e]
Throttled(f) == \E e \in Stream : e[1] = f /\ Full(e)

Done(f) == IF f = Input THEN ~inputOpen ELSE status[f] = "closed"

\* The readiness of the default input policy for node n.
ReadyForProcess(n) ==
  /\ \E f \in Feeds[n] : inbox[<<f, n>>] > 0
  /\ \A f \in Feeds[n] : inbox[<<f, n>>] > 0 \/ Done(f)
ReadyForClose(n) == \A f \in Feeds[n] : inbox[<<f, n>>] = 0 /\ Done(f)

\* What reading one set of inputs leaves in the streams of n, and the sources
\* which that frees and UpdateThrottledNodes schedules.
InboxAfter(n) ==
  [e \in Stream |-> IF e[2] = n /\ inbox[e] > 0 THEN inbox[e] - 1 ELSE inbox[e]]
Freed(newInbox, newLimit) ==
  {s \in Source :
     /\ status[s] = "active"
     /\ \E e \in Stream : e[1] = s /\ Full(e)
     /\ \A e \in Stream : e[1] = s => newInbox[e] < newLimit[e]}

\* A packet in every stream of f; the joins it reaches are then checked.
InboxWith(f) ==
  [e \in Stream |-> IF e[1] = f THEN inbox[e] + 1 ELSE inbox[e]]
Reached(f) == {"check"} \X {n \in Join : f \in Feeds[n]}

\* The requests of UnthrottleSources and of the activation of a source layer.
Handled == {"activate", "unthrottled"} \X Source

\* The thread inside HandleIdle has scheduled what it had to.
Scheduled(t) == Returned(t) /\ todo[t] \cap Handled = {} /\ smutex # t

\* A free thread: in no call into a queue or the scheduler.
Settled(t) == Returned(t) /\ todo[t] = {} /\ smutex # t
Free(t) == Settled(t) /\ handler # t /\ t \notin owesSubmit /\ submit[t] = {}

-----------------------------------------------------------------------------
(* HandleIdle. *)

\* Enter HandleIdle with state_mutex_ held: "if (++handling_idle_ > 1)".
EnterHandleIdle(t) ==
  IF handler = None
  THEN smutex' = t /\ handler' = t /\ stage' = "loop" /\ UNCHANGED again
  ELSE again' = TRUE /\ UNCHANGED <<smutex, handler, stage>>

LeaveHandleIdle ==
  /\ smutex' = None /\ handler' = None /\ stage' = "none" /\ again' = FALSE

AllIdle == nonIdle = 0
Active == {s \in Source : status[s] \in {"chosen", "active"}}
SourcesQueue == {s \in Source : status[s] = "opened"}
Unopened == {s \in Source : status[s] \in {"waiting", "prepared"}}
Lowest(S) == {s \in S : \A r \in S : Layer[s] <= Layer[r]}
LowerUnopened == \E u \in Unopened : \A s \in SourcesQueue : Layer[u] < Layer[s]

InLoop(t) == smutex = t /\ handler = t /\ stage = "loop"
Working_NotIdle == state \in {"RUNNING", "CANCELLING"}
Working == AllIdle /\ state \in {"RUNNING", "CANCELLING"}
QuitDue_InputsOpen == hasError \/ (Active = {} /\ SourcesQueue = {})
QuitDue == hasError \/ (Active = {} /\ SourcesQueue = {} /\ inputsClosed)

\* The while condition fails.
StopHandling(t) ==
  /\ InLoop(t) /\ ~Working
  /\ LeaveHandleIdle
  /\ UNCHANGED <<queueVars, state, submitVars, flags, workVars, nodeVars, appVars>>

\* Quit.
Quit(t) ==
  /\ InLoop(t) /\ Working /\ QuitDue
  /\ state' = "TERMINATED"
  /\ UNCHANGED items /\ Queues!SetRunning(Queue, FALSE)
  /\ LeaveHandleIdle
  /\ UNCHANGED <<submitVars, flags, workVars, nodeVars, appVars>>

\* TryToScheduleNextSourceLayer finds that a source of a lower layer is not
\* open.  With the graph inputs closed that is an error; with an input open it
\* returns false and HandleIdle continues its loop, state_mutex_ still held.
ReportSourceDeadlock(t) ==
  /\ InLoop(t) /\ Working /\ ~QuitDue
  /\ Active = {} /\ SourcesQueue # {} /\ LowerUnopened
  /\ hasError' = inputsClosed
  /\ UNCHANGED <<queueVars, state, idleVars, submitVars, stopping, inputsClosed,
                 workVars, nodeVars, appVars>>

\* Otherwise it takes the lowest layer and unlocks state_mutex_.
ChooseSources(t) ==
  /\ InLoop(t) /\ Working /\ ~QuitDue
  /\ Active = {} /\ SourcesQueue # {} /\ ~LowerUnopened
  /\ status' = [s \in Node |-> IF s \in Lowest(SourcesQueue)
                               THEN "chosen" ELSE status[s]]
  /\ smutex' = None /\ stage' = "stop"
  /\ UNCHANGED <<queueVars, state, handler, again, submitVars, flags, workVars,
                 flight, inbox, limit, ticks, appVars>>

\* SetQueuesRunning(false), then ActivateNode and ScheduleNodeIfNotThrottled
\* for each source of the layer.
StopQueues(t) ==
  /\ handler = t /\ stage = "stop"
  /\ UNCHANGED items /\ Queues!SetRunning(Queue, FALSE)
  /\ todo' = [todo EXCEPT ![t] = @ \cup ({"activate"} \X
                {s \in Source : status[s] = "chosen"})]
  /\ stage' = "add"
  /\ UNCHANGED <<state, smutex, handler, again, submitVars, flags, item,
                 phase, nodeVars, appVars>>

RestartQueues_NoSubmit(t) ==
  /\ handler = t /\ stage = "add" /\ Scheduled(t)
  /\ UNCHANGED items /\ Queues!SetRunning(Queue, TRUE)
  /\ stage' = "submit"
  /\ UNCHANGED <<state, smutex, handler, again, submitVars, flags, workVars,
                 nodeVars, appVars>>

RestartQueues(t) ==
  /\ handler = t /\ stage = "add" /\ Scheduled(t)
  /\ UNCHANGED items /\ Queues!SetRunning(Queue, TRUE)
  /\ submit' = [submit EXCEPT ![t] = Queue]
  /\ stage' = "submit"
  /\ UNCHANGED <<state, smutex, handler, again, owesSubmit, flags,
                 workVars, nodeVars, appVars>>

\* Nothing to activate: unlock and try to unthrottle, or leave.
TryToUnthrottle(t) ==
  /\ InLoop(t) /\ Working /\ ~QuitDue
  /\ Active # {} \/ (SourcesQueue = {} /\ Throttled(Input))
  /\ smutex' = None /\ stage' = "unthrottle"
  /\ UNCHANGED <<queueVars, state, handler, again, submitVars, flags, workVars,
                 nodeVars, appVars>>

NothingLeft(t) ==
  /\ InLoop(t) /\ Working /\ ~QuitDue
  /\ Active = {} /\ SourcesQueue = {} /\ ~Throttled(Input)
  /\ LeaveHandleIdle
  /\ UNCHANGED <<queueVars, state, submitVars, flags, workVars, nodeVars, appVars>>

\* UnthrottleSources: grow every full stream by one packet.
UnthrottleSources(t) ==
  /\ handler = t /\ stage = "unthrottle"
  /\ LET grown == [e \in Stream |-> IF Full(e) THEN inbox[e] + 1 ELSE limit[e]]
     IN /\ limit' = grown
        /\ todo' = [todo EXCEPT ![t] = @ \cup ({"unthrottled"} \X Freed(inbox, grown))]
        /\ stage' = IF grown # limit THEN "unthrottled" ELSE "nothing"
  /\ UNCHANGED <<queueVars, state, smutex, handler, again, submitVars, flags,
                 item, phase, status, flight, inbox, ticks, appVars>>

Relock_NoSecondLook(t) ==
  /\ handler = t /\ stage \in {"submit", "unthrottled", "nothing"}
  /\ Scheduled(t) /\ submit[t] = {} /\ smutex = None
  /\ LeaveHandleIdle
  /\ UNCHANGED <<queueVars, state, submitVars, flags, workVars, nodeVars, appVars>>

\* Lock state_mutex_ again.  Without success, and unless HandleIdle was called
\* in the meantime, there is nothing left to do.
Relock(t) ==
  /\ handler = t /\ stage \in {"submit", "unthrottled", "nothing"}
  /\ Scheduled(t) /\ submit[t] = {}
  /\ smutex = None
  /\ IF stage = "nothing" /\ ~again
     THEN LeaveHandleIdle
     ELSE /\ smutex' = t /\ stage' = "loop" /\ UNCHANGED handler
          /\ again' = (again /\ stage # "nothing")
  /\ UNCHANGED <<queueVars, state, submitVars, flags, workVars, nodeVars, appVars>>

-----------------------------------------------------------------------------
(* The queues' callbacks and tasks. *)

\* QueueIdleStateChanged.
BecomeActive(t) ==
  /\ smutex = None
  /\ UNCHANGED items /\ Queues!BecomeActive(t)
  /\ IF nonIdle' = 0 THEN EnterHandleIdle(t) ELSE UNCHANGED idleVars
  /\ UNCHANGED <<state, submitVars, flags, workVars, nodeVars, appVars>>

BecomeIdle(t) ==
  /\ smutex = None
  /\ UNCHANGED items /\ Queues!BecomeIdle(t)
  /\ IF nonIdle' = 0 THEN EnterHandleIdle(t) ELSE UNCHANGED idleVars
  /\ UNCHANGED <<state, submitVars, flags, workVars, nodeVars, appVars>>

AddTask(t, q) ==
  /\ UNCHANGED items /\ Queues!AddTask(t, q)
  /\ UNCHANGED <<state, idleVars, submitVars, flags, workVars, nodeVars,
                 appVars>>

\* One queue of SubmitWaitingTasksOnQueues.
SubmitWaitingTasks(t, q) ==
  /\ q \in submit[t] /\ smutex # t
  /\ UNCHANGED items /\ Queues!SubmitWaitingTasks(t, q)
  /\ submit' = [submit EXCEPT ![t] = @ \ {q}]
  /\ UNCHANGED <<state, idleVars, owesSubmit, flags, workVars, nodeVars,
                 appVars>>

\* Start, Resume and Cancel submit after HandleIdle has returned.
SubmitAfterHandling(t) ==
  /\ t \in owesSubmit /\ handler # t
  /\ owesSubmit' = owesSubmit \ {t}
  /\ submit' = [submit EXCEPT ![t] = Queue]
  /\ UNCHANGED <<queueVars, state, idleVars, flags, workVars, nodeVars, appVars>>

-----------------------------------------------------------------------------
(* Scheduling a node. *)

Push(t, i) ==
  /\ items' = items \cup {i}
  /\ Queues!AddItemToQueue(t, QueueOf[i[2]])

\* Inside HandleIdle a thread makes its requests there only; those of the call
\* it came from wait until it has left.
Makes(t, r) ==
  r \in todo[t] /\ Returned(t) /\ smutex # t /\ (handler = t => r \in Handled)

Forget(t, r, more) ==
  todo' = [todo EXCEPT ![t] = (@ \ {r}) \cup more]

\* AddNodeForOpen.
ScheduleForOpen(t, n) ==
  /\ Makes(t, <<"open", n>>)
  /\ Forget(t, <<"open", n>>, {})
  /\ IF hasError THEN UNCHANGED queueVars ELSE Push(t, <<"open", n>>)
  /\ UNCHANGED <<state, idleVars, submitVars, flags, item, phase, nodeVars,
                 appVars>>

\* ScheduleNodeIfNotThrottled ("check", "activate") or, for sources that were
\* unthrottled, SchedulerQueue::AddNode at once.
ScheduleSource(t, r) ==
  LET s == r[2] IN
  /\ Makes(t, r)
  /\ r[1] # "open" /\ s \in Source
  /\ Forget(t, r, {})
  /\ status' = [status EXCEPT ![s] = IF r[1] = "activate" THEN "active" ELSE @]
  /\ IF hasError \/ s \in flight \/ (r[1] # "unthrottled" /\ Throttled(s))
     THEN UNCHANGED <<queueVars, flight>>
     ELSE Push(t, <<"run", s>>) /\ flight' = flight \cup {s}
  /\ UNCHANGED <<state, idleVars, submitVars, flags, item, phase, inbox, limit,
                 ticks, appVars>>

\* CheckIfBecameReady for a join: read one set of inputs, which may unthrottle
\* sources, or decide to close; the node is added afterwards.
CheckJoin(t, n) ==
  LET r == <<"check", n>>
      ready == status[n] = "opened" /\ n \notin flight
  IN
  /\ Makes(t, r) /\ n \in Join
  /\ \/ /\ ready /\ ReadyForProcess(n)
        /\ inbox' = InboxAfter(n)
        /\ Forget(t, r, {<<"run", n>>} \cup
                        ({"unthrottled"} \X Freed(InboxAfter(n), limit)))
        /\ flight' = flight \cup {n}
     \/ /\ ready /\ ReadyForClose(n)
        /\ Forget(t, r, {<<"close", n>>})
        /\ flight' = flight \cup {n}
        /\ UNCHANGED inbox
     \/ /\ ~ready \/ ~(ReadyForProcess(n) \/ ReadyForClose(n))
        /\ Forget(t, r, {})
        /\ UNCHANGED <<flight, inbox>>
  /\ UNCHANGED <<queueVars, state, idleVars, submitVars, flags, item, phase,
                 status, limit, ticks, appVars>>

\* AddNode for a join that is ready; after an error it is not added.
AddJoin(t, i) ==
  /\ Makes(t, i) /\ i \in {"run", "close"} \X Join
  /\ \A s \in Source : <<"unthrottled", s>> \notin todo[t]
  /\ Forget(t, i, {})
  /\ IF hasError THEN flight' = flight \ {i[2]} /\ UNCHANGED queueVars
     ELSE Push(t, i) /\ UNCHANGED flight
  /\ UNCHANGED <<state, idleVars, submitVars, flags, item, phase, status, inbox,
                 limit, ticks, appVars>>

-----------------------------------------------------------------------------
(* Running a task. *)

\* Item::operator<: OpenNode first, then joins, then sources of lower layers.
RunsBefore(i, j) ==
  \/ i[1] = "open" /\ j[1] # "open"
  \/ /\ i[1] # "open" /\ j[1] # "open"
     /\ \/ i[2] \in Join /\ j[2] \in Source
        \/ i[2] \in Source /\ j[2] \in Source /\ Layer[i[2]] < Layer[j[2]]

\* RunNextTask pops a top item.
RunNextTask(t, q) ==
  \E i \in ItemsOf(q) :
    /\ Free(t)
    /\ \A j \in ItemsOf(q) : ~RunsBefore(j, i)
    /\ items' = items \ {i}
    /\ Queues!RunNextTask(t, q)
    /\ item' = [item EXCEPT ![t] = i]
    /\ phase' = [phase EXCEPT ![t] = "popped"]
    /\ UNCHANGED <<state, idleVars, submitVars, flags, todo, nodeVars, appVars>>

Popped(t, kind, n) == phase[t] = "popped" /\ item[t] = <<kind, n>>

\* OpenCalculatorNode, and NodeOpened: a source goes to sources_queue_, a join
\* checks whether it became ready.
OpenNode(t, n) ==
  /\ Popped(t, "open", n)
  /\ n \in Source => smutex = None
  /\ status' = [status EXCEPT ![n] = "opened"]
  /\ todo' = [todo EXCEPT ![t] = IF n \in Join THEN {<<"check", n>>} ELSE {}]
  /\ phase' = [phase EXCEPT ![t] = "ended"]
  /\ UNCHANGED <<queueVars, state, idleVars, submitVars, flags, item, flight,
                 inbox, limit, ticks, appVars>>

\* RunCalculatorNode for a source: emit a packet, or close when it has no more
\* or the graph is stopping.
RunSource(t, s) ==
  /\ Popped(t, "run", s) /\ s \in Source
  /\ IF stopping \/ ticks[s] = 0
     THEN status' = [status EXCEPT ![s] = "closed"] /\ UNCHANGED <<inbox, ticks>>
     ELSE /\ inbox' = InboxWith(s)
          /\ ticks' = [ticks EXCEPT ![s] = @ - 1]
          /\ UNCHANGED status
  /\ todo' = [todo EXCEPT ![t] = Reached(s)]
  /\ phase' = [phase EXCEPT ![t] = "processed"]
  /\ UNCHANGED <<queueVars, state, idleVars, submitVars, flags, item, flight,
                 limit, appVars>>

\* ... for a join: Process() succeeds, and may have made the side packet a late
\* source waits for; or it fails; or it returns StatusStop.
RunJoin(t, n) ==
  /\ Popped(t, "run", n) /\ n \in Join
  /\ \/ /\ status' = [s \in Node |-> IF s \in Late /\ status[s] = "waiting"
                                     THEN "prepared" ELSE status[s]]
        /\ todo' = [todo EXCEPT ![t] = {"open"} \X
                      {s \in Late : status[s] = "waiting"}]
        /\ UNCHANGED <<hasError, stopping>>
     \/ "error" \in Calls /\ hasError' = TRUE /\ UNCHANGED <<stopping, status, todo>>
     \/ "stop" \in Calls /\ stopping' = TRUE /\ UNCHANGED <<hasError, status, todo>>
  /\ phase' = [phase EXCEPT ![t] = "processed"]
  /\ UNCHANGED <<queueVars, state, idleVars, submitVars, inputsClosed, item,
                 flight, inbox, limit, ticks, appVars>>

CloseJoin(t, n) ==
  /\ Popped(t, "close", n)
  /\ status' = [status EXCEPT ![n] = "closed"]
  /\ phase' = [phase EXCEPT ![t] = "processed"]
  /\ UNCHANGED <<queueVars, state, idleVars, submitVars, flags, todo, item,
                 flight, inbox, limit, ticks, appVars>>

EndScheduling_NoCheck(t) ==
  LET n == item[t][2] IN
  /\ phase[t] = "processed" /\ Settled(t) /\ handler # t
  /\ flight' = IF status[n] \in {"opened", "active"} THEN flight \ {n} ELSE flight
  /\ phase' = [phase EXCEPT ![t] = "ended"]
  /\ UNCHANGED <<queueVars, state, idleVars, submitVars, flags, todo, item,
                 status, inbox, limit, ticks, appVars>>

EndScheduling_EvenClosed(t) ==
  LET n == item[t][2] IN
  /\ phase[t] = "processed" /\ Settled(t) /\ handler # t
  /\ flight' = flight \ {n}
  /\ todo' = [todo EXCEPT ![t] = IF status[n] = "closed" THEN {}
                                 ELSE {<<"check", n>>}]
  /\ phase' = [phase EXCEPT ![t] = "ended"]
  /\ UNCHANGED <<queueVars, state, idleVars, submitVars, flags, item, status,
                 inbox, limit, ticks, appVars>>

\* EndScheduling: a closed node keeps its place in flight, so that nothing can
\* schedule it again; an open one is checked again.
EndScheduling(t) ==
  LET n == item[t][2] IN
  /\ phase[t] = "processed" /\ Settled(t) /\ handler # t
  /\ IF status[n] \in {"opened", "active"}
     THEN /\ flight' = flight \ {n}
          /\ todo' = [todo EXCEPT ![t] = {<<"check", n>>}]
     ELSE UNCHANGED <<flight, todo>>
  /\ phase' = [phase EXCEPT ![t] = "ended"]
  /\ UNCHANGED <<queueVars, state, idleVars, submitVars, flags, item, status,
                 inbox, limit, ticks, appVars>>

FinishTask(t, q) ==
  /\ phase[t] = "ended" /\ Settled(t) /\ handler # t
  /\ UNCHANGED items /\ Queues!FinishTask(t, q)
  /\ item' = [item EXCEPT ![t] = None]
  /\ phase' = [phase EXCEPT ![t] = "none"]
  /\ UNCHANGED <<state, idleVars, submitVars, flags, todo, nodeVars,
                 appVars>>

-----------------------------------------------------------------------------
(* Application threads. *)

Begin(a) == call[a] = "none" /\ Free(a)

\* Start, Resume, Cancel: change state_ and the queues under state_mutex_, enter
\* HandleIdle, and submit the waiting tasks afterwards.
Start ==
  /\ Begin(Main) /\ smutex = None
  /\ state = "NOT_STARTED" /\ state' = "RUNNING"
  /\ UNCHANGED items /\ Queues!SetRunning(Queue, TRUE)
  /\ EnterHandleIdle(Main)
  /\ owesSubmit' = owesSubmit \cup {Main}
  /\ UNCHANGED <<submit, flags, workVars, nodeVars, appVars>>

Pause(a) ==
  /\ "pause" \in Calls /\ Begin(a) /\ smutex = None
  /\ state = "RUNNING" /\ state' = "PAUSED"
  /\ UNCHANGED items /\ Queues!SetRunning(Queue, FALSE)
  /\ UNCHANGED <<idleVars, submitVars, flags, workVars, nodeVars, appVars>>

Resume_Always(a) ==
  /\ Begin(a) /\ smutex = None
  /\ state \in {"PAUSED", "RUNNING"} /\ state' = "RUNNING"
  /\ UNCHANGED items /\ Queues!SetRunning(Queue, TRUE)
  /\ EnterHandleIdle(a)
  /\ owesSubmit' = owesSubmit \cup {a}
  /\ UNCHANGED <<submit, flags, workVars, nodeVars, appVars>>

Resume(a) ==
  /\ Begin(a) /\ smutex = None
  /\ state = "PAUSED" /\ state' = "RUNNING"
  /\ UNCHANGED items /\ Queues!SetRunning(Queue, TRUE)
  /\ EnterHandleIdle(a)
  /\ owesSubmit' = owesSubmit \cup {a}
  /\ UNCHANGED <<submit, flags, workVars, nodeVars, appVars>>

Cancel_QueuesStayStopped(a) ==
  /\ "cancel" \in Calls /\ Begin(a) /\ smutex = None
  /\ state \in {"RUNNING", "PAUSED"} /\ state' = "CANCELLING"
  /\ hasError' = TRUE
  /\ UNCHANGED queueVars
  /\ EnterHandleIdle(a)
  /\ owesSubmit' = owesSubmit \cup {a}
  /\ UNCHANGED <<submit, stopping, inputsClosed, workVars, nodeVars, appVars>>

Cancel(a) ==
  /\ "cancel" \in Calls /\ Begin(a) /\ smutex = None
  /\ state \in {"RUNNING", "PAUSED"} /\ state' = "CANCELLING"
  /\ hasError' = TRUE
  /\ IF state = "PAUSED" THEN UNCHANGED items /\ Queues!SetRunning(Queue, TRUE)
     ELSE UNCHANGED queueVars
  /\ EnterHandleIdle(a)
  /\ owesSubmit' = owesSubmit \cup {a}
  /\ UNCHANGED <<submit, stopping, inputsClosed, workVars, nodeVars,
                 appVars>>

\* AddPacketToInputStream, up to the propagation of the packet.
AddPacket(a) ==
  /\ a = Feeder /\ Begin(a)
  /\ state # "NOT_STARTED" /\ toClean = {} /\ call[Main] # "cleanup"
  /\ inputOpen /\ packets > 0
  /\ ~hasError /\ ~Throttled(Input)
  /\ packets' = packets - 1
  /\ inbox' = InboxWith(Input)
  /\ todo' = [todo EXCEPT ![a] = Reached(Input)]
  /\ call' = [call EXCEPT ![a] = "add"]
  /\ UNCHANGED <<queueVars, state, idleVars, submitVars, flags, item, phase,
                 status, flight, limit, ticks, inputOpen, toClean>>

\* AddedPacketToGraphInputStream.
AddedPacket(a) ==
  /\ call[a] = "add" /\ Settled(a) /\ handler # a
  /\ IF state = "TERMINATED" THEN UNCHANGED idleVars
     ELSE smutex = None /\ EnterHandleIdle(a)
  /\ call' = [call EXCEPT ![a] = "none"]
  /\ UNCHANGED <<queueVars, state, submitVars, flags, workVars, nodeVars,
                 inputOpen, packets, toClean>>

\* CloseInputStream: close the stream, then ClosedAllGraphInputStreams.
CloseInput(a) ==
  /\ a = Feeder /\ Begin(a)
  /\ state # "NOT_STARTED" /\ inputOpen
  /\ inputOpen' = FALSE
  /\ todo' = [todo EXCEPT ![a] = Reached(Input)]
  /\ call' = [call EXCEPT ![a] = "close"]
  /\ UNCHANGED <<queueVars, state, idleVars, submitVars, flags, item, phase,
                 nodeVars, packets, toClean>>

ClosedAllInputs_NoHandleIdle(a) ==
  /\ call[a] = "close" /\ Settled(a) /\ handler # a
  /\ smutex = None
  /\ inputsClosed' = TRUE
  /\ call' = [call EXCEPT ![a] = "none"]
  /\ UNCHANGED <<queueVars, state, idleVars, submitVars, hasError, stopping,
                 workVars, nodeVars, inputOpen, packets, toClean>>

ClosedAllInputs(a) ==
  /\ call[a] = "close" /\ Settled(a) /\ handler # a
  /\ smutex = None
  /\ inputsClosed' = TRUE
  /\ EnterHandleIdle(a)
  /\ call' = [call EXCEPT ![a] = "none"]
  /\ UNCHANGED <<queueVars, state, submitVars, hasError, stopping, workVars,
                 nodeVars, inputOpen, packets, toClean>>

\* WaitUntilDone has returned: clean up the sources, then every queue.
StartCleanup ==
  /\ Begin(Main) /\ smutex = None /\ state = "TERMINATED"
  /\ status' = [n \in Node |-> "closed"]
  /\ call' = [call EXCEPT ![Main] = "cleanup"]
  /\ toClean' = Queue
  /\ UNCHANGED <<queueVars, state, idleVars, submitVars, flags, workVars, flight,
                 inbox, limit, ticks, inputOpen, packets>>

CleanupQueue(q) ==
  /\ call[Main] = "cleanup" /\ Settled(Main) /\ handler # Main
  /\ q \in toClean
  /\ toClean' = toClean \ {q}
  /\ items' = items \ ItemsOf(q)
  /\ Queues!CleanupAfterRun(Main, q)
  /\ UNCHANGED <<state, idleVars, submitVars, flags, workVars, nodeVars,
                 inputOpen, packets, call>>

-----------------------------------------------------------------------------
\* What a thread does once a call or a task has begun.
Handling(t) ==
  \/ StopHandling(t) \/ Quit(t) \/ ReportSourceDeadlock(t) \/ ChooseSources(t)
  \/ StopQueues(t) \/ RestartQueues(t) \/ TryToUnthrottle(t) \/ NothingLeft(t)
  \/ UnthrottleSources(t) \/ Relock(t)

Scheduling(t) ==
  \/ BecomeActive(t) \/ BecomeIdle(t) \/ SubmitAfterHandling(t)
  \/ \E q \in Queue : AddTask(t, q) \/ SubmitWaitingTasks(t, q)
  \/ \E n \in Node : ScheduleForOpen(t, n)
  \/ \E r \in todo[t] : ScheduleSource(t, r) \/ AddJoin(t, r)
  \/ \E n \in Join : CheckJoin(t, n)

Running(t) ==
  \/ \E q \in Queue : RunNextTask(t, q) \/ FinishTask(t, q)
  \/ \E n \in Node : OpenNode(t, n)
  \/ \E s \in Source : RunSource(t, s)
  \/ \E n \in Join : RunJoin(t, n) \/ CloseJoin(t, n)
  \/ EndScheduling(t)

Continue(t) == Handling(t) \/ Scheduling(t) \/ (t \in Worker /\ Running(t))
Finish(a) == AddedPacket(a) \/ ClosedAllInputs(a)

Next ==
  \/ \E t \in Thread : Continue(t)
  \/ \E a \in App : Finish(a)
  \/ Start \/ StartCleanup \/ \E q \in Queue : CleanupQueue(q)
  \/ \E a \in App : \/ Pause(a) \/ Resume(a) \/ Cancel(a)
                    \/ AddPacket(a) \/ CloseInput(a)

Spec == Init /\ [][Next]_vars

\* Threads are scheduled: a call or task that has begun is carried on, an
\* executor runs its tasks, and the application starts the run and waits for
\* it.  Nothing obliges the application to add packets, pause or close.
FairSpec ==
  /\ Spec
  /\ \A t \in Thread : WF_vars(Continue(t))
  /\ \A a \in App : WF_vars(Finish(a))
  /\ WF_vars(Start)

-----------------------------------------------------------------------------
\* The queues implement SchedulerQueue.
QueuesImplemented == Queues!Spec

\* SetQueuesRunning is called from Start, Pause, Resume, Cancel, Quit and, with
\* state_mutex_ released, from the activation of a source layer.  However they
\* interleave, the count is what state_ says, less one while sources are added
\* ("Invariant: running_count_ <= 1").
RunningCountMatchesState ==
  /\ TypeOK
  /\ LET up == IF state \in {"RUNNING", "CANCELLING"} THEN 1 ELSE 0
         held == IF stage = "add" THEN 1 ELSE 0
     IN \A q \in Queue : running[q] = up - held

\* A task that waits in a running queue is not forgotten: a thread is about to
\* call SubmitWaitingTasksToExecutor on that queue.
NoStrandedTask ==
  \A q \in Queue :
    running[q] > 0 /\ toAdd[q] > 0
      => \E t \in Thread : q \in submit[t] \/ t \in owesSubmit

\* "Scheduled a node that was closed. This should not happen." (RunNextTask):
\* a source that is unthrottled while it closes is not scheduled again.
NoClosedNodeScheduled ==
  call[Main] # "cleanup" => \A i \in items : status[i[2]] # "closed"

\* No thread is in the middle of anything.
Quiescent ==
  /\ \A t \in Thread : Free(t) /\ work[t] = None
  /\ \A a \in App : call[a] = "none"
  /\ \A q \in Queue : executor[q] = 0

\* A run that has come to rest has missed neither its end, nor a source layer to
\* activate, nor a source to unthrottle: the call of HandleIdle that saw the last
\* change was not swallowed by one in progress.
NothingMissed ==
  Quiescent /\ state = "RUNNING" => ~QuitDue /\ Active = {} /\ SourcesQueue = {}

\* Quit: "All calls to Calculator::Process() have returned", and the scheduler
\* "may be destructed": no executor thread will access a queue or the scheduler.
ExecutorsDone ==
  state = "TERMINATED" =>
    /\ \A q \in Queue : pending[q] = 0
    /\ owesIdle \cap Worker = {}

\* A run that ends without an error has processed every packet and closed every
\* node.
EverythingProcessed ==
  state = "TERMINATED" /\ ~hasError /\ call[Main] # "cleanup" =>
    /\ \A e \in Stream : inbox[e] = 0
    /\ \A n \in Node : status[n] = "closed"
    /\ items = {}

\* WaitUntilIdle, called by the thread that feeds the graph when its sources are
\* done and no node failed: "nothing can be scheduled and nothing is running in
\* the worker threads".
IdleIsQuiet ==
  /\ \A s \in Source : status[s] = "closed"
  /\ state = "RUNNING" /\ AllIdle /\ ~hasError
  /\ \A a \in App : Begin(a)
  =>
    /\ items = {} /\ \A t \in Worker : work[t] = None
    /\ \A n \in Join : status[n] = "opened" =>
         ~ReadyForProcess(n) /\ ~ReadyForClose(n)

\* Once the inputs are closed, the run ends, unless the application leaves it
\* paused.
Terminates == inputsClosed ~> state \in {"TERMINATED", "PAUSED"}
=============================================================================
