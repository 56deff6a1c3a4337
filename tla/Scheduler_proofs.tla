-------------------------- MODULE Scheduler_proofs --------------------------
(***************************************************************************)
(* The scheduler for every graph and any number of threads.  First its     *)
(* types, its queues, which implement SchedulerQueue, and the tasks that   *)
(* wait in them; then the nodes it runs: a node is claimed once and by the *)
(* thread that may run it, a closed node is never scheduled, and a run at  *)
(* rest has missed nothing.  Last the end of a run that nothing disturbs:  *)
(* no task is left, nothing is left to process, and idle means quiet.      *)
(***************************************************************************)
EXTENDS Scheduler, FiniteSetTheorems, TLAPS

\* SchedulerQueue with the counters of the scheduler, in the module that holds
\* its invariant.
Proved == INSTANCE SchedulerQueue_proofs WITH
            queue <- [q \in Queue |-> Cardinality(ItemsOf(q))],
            MaxItems <- 2 * Cardinality(Node),
            MinRunning <- -1

\* The finite sets the sizes of the queues are counted in.
LEMMA NodeFinite ==
  /\ IsFiniteSet(Node) /\ IsFiniteSet(Item)
  /\ Cardinality(Node) \in Nat
<1>1. IsFiniteSet({"open", "run", "close"})
  <2>1. IsFiniteSet({"open"}) /\ IsFiniteSet({"run"}) /\ IsFiniteSet({"close"})
    BY FS_Singleton
  <2>2. IsFiniteSet({"open"} \cup {"run"})
    BY <2>1, FS_Union
  <2>3. IsFiniteSet(({"open"} \cup {"run"}) \cup {"close"})
    BY <2>1, <2>2, FS_Union
  <2>4. {"open", "run", "close"} = ({"open"} \cup {"run"}) \cup {"close"}
    OBVIOUS
  <2> QED
    BY <2>3, <2>4
<1>2. IsFiniteSet(Node)
  BY SchedulerAssumption, FS_Union DEF Node
<1> QED
  BY <1>1, <1>2, FS_Product, FS_CardinalityType DEF Item

\* What SchedulerQueue assumes of its constants holds of those it gets here.
LEMMA QueueConstantsHold == Proved!QueueConstants
<1>1. \A S : IsFiniteSet(S) => Proved!IsFiniteSet(S)
  BY DEF IsFiniteSet, Proved!IsFiniteSet
<1> QED
  BY <1>1, SchedulerAssumption, NodeFinite DEF Proved!QueueConstants

\* The instance counts as this module does.
LEMMA QueuesCardinality == \A S : Proved!Cardinality(S) = Cardinality(S)
BY Zenon DEF Cardinality, Proved!Cardinality, IsFiniteSet, Proved!IsFiniteSet

LEMMA EmptyCardinality == Proved!Cardinality({}) = 0
BY QueueConstantsHold, Proved!FS_EmptySet

\* The queues' actions are those of the instance the proofs are about.
LEMMA SameQueues ==
  /\ Queues!TypeOK <=> Proved!TypeOK
  /\ Queues!Init <=> Proved!Init
  /\ Queues!Next <=> Proved!Next
<1>1. \A t : /\ Queues!Returned(t) <=> Proved!Returned(t)
             /\ Queues!BecomeActive(t) <=> Proved!BecomeActive(t)
             /\ Queues!BecomeIdle(t) <=> Proved!BecomeIdle(t)
  BY
     DEF Queues!Returned, Proved!Returned, Queues!BecomeActive,
         Proved!BecomeActive,
         Queues!BecomeIdle, Proved!BecomeIdle
<1>2. \A t, q : /\ Queues!AddItemToQueue(t, q) <=> Proved!AddItemToQueue(t, q)
                /\ Queues!SubmitWaitingTasks(t, q) <=> Proved!SubmitWaitingTasks(t, q)
  BY Zenon
     DEF Queues!AddItemToQueue, Proved!AddItemToQueue,
         Queues!SubmitWaitingTasks,
         Proved!SubmitWaitingTasks, Queues!TakeTasks, Proved!TakeTasks,
         Queues!Returned, Proved!Returned, Queues!IsIdle, Proved!IsIdle
<1>3. \A t, q : /\ Queues!AddTask(t, q) <=> Proved!AddTask(t, q)
                /\ Queues!RunNextTask(t, q) <=> Proved!RunNextTask(t, q)
                /\ Queues!FinishTask(t, q) <=> Proved!FinishTask(t, q)
                /\ Queues!CleanupAfterRun(t, q) <=> Proved!CleanupAfterRun(t, q)
  BY Zenon
     DEF Queues!AddTask, Proved!AddTask, Queues!RunNextTask, Proved!RunNextTask,
         Queues!FinishTask, Proved!FinishTask,
         Queues!CleanupAfterRun, Proved!CleanupAfterRun,
         Queues!Returned, Proved!Returned, Queues!IsIdle, Proved!IsIdle
<1>4. \A Q, up : Queues!SetRunning(Q, up) <=> Proved!SetRunning(Q, up)
  BY DEF Queues!SetRunning, Proved!SetRunning
<1>5. Queues!TypeOK <=> Proved!TypeOK
  BY DEF Queues!TypeOK, Proved!TypeOK, Queues!Thread, Proved!Thread
<1>6. Queues!Init <=> Proved!Init
  BY DEF Queues!Init, Proved!Init, Queues!Thread, Proved!Thread
<1>7. Queues!Next <=> Proved!Next
  BY <1>1, <1>2, <1>3, <1>4, Zenon
     DEF Queues!Next, Proved!Next, Queues!Thread, Proved!Thread
<1> QED
  BY <1>5, <1>6, <1>7

\* The invariant of the queues is kept by every step that is one of theirs.
LEMMA QNext == Proved!IInv /\ [Queues!Next]_(Queues!qvars) => Proved!IInv'
BY QueueConstantsHold, Proved!NextIInv, SameQueues
   DEF Proved!qvars, Queues!qvars

-----------------------------------------------------------------------------
\* What every other invariant rests on: the types, running_count_ as state_
\* says, handling_idle_ with the place in HandleIdle, and the invariant of the
\* queues.
BaseInv ==
  /\ RunningCountMatchesState
  /\ handler = None <=> stage = "none"
  /\ call[Main] = "cleanup" => state = "TERMINATED"
  /\ \A t \in Thread : phase[t] # "none" => item[t] \in Item
  /\ Proved!IInv

\* A step that leaves the queues alone is a stutter of theirs.
LEMMA QueuesStutter ==
  ASSUME UNCHANGED queueVars
  PROVE  UNCHANGED Queues!qvars
<1>1. \A q : ItemsOf(q)' = ItemsOf(q)
  BY DEF ItemsOf, queueVars
<1>2. [q \in Queue |-> Cardinality(ItemsOf(q))]' = [q \in Queue |-> Cardinality(ItemsOf(q))]
  BY <1>1
<1> QED
  BY <1>2 DEF queueVars, Queues!qvars

\* HandleIdle touches the queues through SetQueuesRunning at most, and each
\* place it is called from may: one count up or down in every queue.
LEMMA HandlingImplements ==
  ASSUME BaseInv, NEW t \in Thread, Handling(t)
  PROVE  [Queues!Next]_(Queues!qvars)
<1>1. CASE UNCHANGED queueVars
  BY <1>1, QueuesStutter
<1>2. ASSUME Queues!SetRunning(Queue, TRUE), \A q \in Queue : running[q] < 1
      PROVE  Queues!Next
  BY <1>2 DEF Queues!Next
<1>3. ASSUME Queues!SetRunning(Queue, FALSE), \A q \in Queue : running[q] > -1
      PROVE  Queues!Next
  BY <1>3 DEF Queues!Next
<1>4. CASE Quit(t)
  <2>1. \A q \in Queue : running[q] = 1
    BY <1>4 DEF Quit, InLoop, Working, BaseInv, RunningCountMatchesState
  <2> QED
    BY <1>3, <1>4, <2>1 DEF Quit
<1>5. CASE StopQueues(t)
  <2>1. \A q \in Queue : running[q] \in {0, 1}
    BY <1>5 DEF StopQueues, BaseInv, RunningCountMatchesState
  <2> QED
    BY <1>3, <1>5, <2>1 DEF StopQueues
<1>6. CASE RestartQueues(t)
  <2>1. \A q \in Queue : running[q] \in {-1, 0}
    BY <1>6 DEF RestartQueues, BaseInv, RunningCountMatchesState
  <2> QED
    BY <1>2, <1>6, <2>1 DEF RestartQueues
<1> QED
  BY <1>1, <1>4, <1>5, <1>6
     DEF Handling, StopHandling, ReportSourceDeadlock, ChooseSources,
         TryToUnthrottle, NothingLeft, UnthrottleSources, Relock

LEMMA SchedulingImplements ==
  ASSUME BaseInv, NEW t \in Thread, Scheduling(t)
  PROVE  [Queues!Next]_(Queues!qvars)
<1> USE DEF Queues!Thread, Thread
<1>1. CASE UNCHANGED queueVars
  BY <1>1, QueuesStutter
<1>2. ASSUME NEW i \in Item, Push(t, i)
      PROVE  Queues!Next
  <2>1. QueueOf[i[2]] \in Queue
    BY SchedulerAssumption DEF Item
  <2> QED
    BY <1>2, <2>1 DEF Push, Queues!Next
<1>3. ASSUME NEW q \in Queue, AddTask(t, q) \/ SubmitWaitingTasks(t, q)
      PROVE  Queues!Next
  BY <1>3 DEF AddTask, SubmitWaitingTasks, Queues!Next
<1>4. ASSUME BecomeActive(t) \/ BecomeIdle(t)
      PROVE  Queues!Next
  BY <1>4 DEF BecomeActive, BecomeIdle, Queues!Next
<1>5. ASSUME NEW n \in Node, ScheduleForOpen(t, n)
      PROVE  Queues!Next \/ UNCHANGED queueVars
  BY <1>2, <1>5 DEF ScheduleForOpen, Item
<1>6. ASSUME NEW r \in todo[t], ScheduleSource(t, r)
      PROVE  Queues!Next \/ UNCHANGED queueVars
  BY <1>2, <1>6 DEF ScheduleSource, Item, Node
<1>7. ASSUME NEW r \in todo[t], AddJoin(t, r)
      PROVE  Queues!Next \/ UNCHANGED queueVars
  BY <1>2, <1>7 DEF AddJoin, Item, Node
<1> QED
  BY <1>1, <1>3, <1>4, <1>5, <1>6, <1>7
     DEF Scheduling, SubmitAfterHandling, CheckJoin

LEMMA RunningImplements ==
  ASSUME NEW t \in Worker, Running(t)
  PROVE  [Queues!Next]_(Queues!qvars)
<1>1. CASE UNCHANGED queueVars
  BY <1>1, QueuesStutter
<1>2. ASSUME NEW q \in Queue, RunNextTask(t, q) \/ FinishTask(t, q)
      PROVE  Queues!Next
  BY <1>2 DEF RunNextTask, FinishTask, Queues!Next
<1> QED
  BY <1>1, <1>2
     DEF Running, OpenNode, RunSource, RunJoin, CloseJoin, EndScheduling

LEMMA NextImplements ==
  ASSUME BaseInv, [Next]_vars
  PROVE  [Queues!Next]_(Queues!qvars)
<1> USE SchedulerAssumption DEF BaseInv, RunningCountMatchesState
<1>1. CASE UNCHANGED queueVars
  BY <1>1, QueuesStutter
<1>2. CASE UNCHANGED vars
  BY <1>1, <1>2 DEF vars, queueVars
<1>3. ASSUME Queues!SetRunning(Queue, TRUE), \A q \in Queue : running[q] < 1
      PROVE  Queues!Next
  BY <1>3 DEF Queues!Next
<1>4. ASSUME Queues!SetRunning(Queue, FALSE), \A q \in Queue : running[q] > -1
      PROVE  Queues!Next
  BY <1>4 DEF Queues!Next
<1>5. CASE \E t \in Thread : Continue(t)
  BY <1>5, HandlingImplements, SchedulingImplements, RunningImplements
     DEF Continue
<1>6. CASE Start
  <2>1. \A q \in Queue : running[q] \in {-1, 0}
    BY <1>6 DEF Start
  <2> QED
    BY <1>3, <1>6, <2>1 DEF Start
<1>7. ASSUME NEW q \in Queue, CleanupQueue(q)
      PROVE  Queues!Next
  <2>1. running[q] \in {-1, 0}
    BY <1>7 DEF CleanupQueue
  <2>2. running[q] < 1
    BY <2>1
  <2>3. Queues!CleanupAfterRun(Main, q) /\ Main \in App
    BY <1>7 DEF CleanupQueue
  <2> QED
    BY <2>2, <2>3, Zenon DEF Queues!Next
<1>8. ASSUME NEW a \in App, Pause(a)
      PROVE  Queues!Next
  <2>1. \A q \in Queue : running[q] \in {0, 1}
    BY <1>8 DEF Pause
  <2> QED
    BY <1>4, <1>8, <2>1 DEF Pause
<1>9. ASSUME NEW a \in App, Resume(a) \/ Cancel(a)
      PROVE  Queues!Next \/ UNCHANGED queueVars
  <2>1. state = "PAUSED" => \A q \in Queue : running[q] < 1
    OBVIOUS
  <2>2. \/ state = "PAUSED" /\ Queues!SetRunning(Queue, TRUE)
        \/ UNCHANGED queueVars
    BY <1>9 DEF Resume, Cancel
  <2> QED
    BY <1>3, <2>1, <2>2, Zenon
<1> QED
  BY <1>1, <1>2, <1>5, <1>6, <1>7, <1>8, <1>9
     DEF Next, Finish, AddedPacket, ClosedAllInputs, StartCleanup, AddPacket,
         CloseInput

-----------------------------------------------------------------------------
\* Types, one group of steps after the other.
LEMMA HandlingTypes ==
  ASSUME TypeOK, Queues!TypeOK', NEW t \in Thread, Handling(t)
  PROVE  TypeOK'
<1> USE DEF TypeOK, idleVars, submitVars, flags, workVars, nodeVars, appVars,
            queueVars
<1>1. CASE StopHandling(t) \/ Quit(t) \/ NothingLeft(t)
  BY <1>1 DEF StopHandling, Quit, NothingLeft, LeaveHandleIdle
<1>2. CASE ReportSourceDeadlock(t) \/ TryToUnthrottle(t) \/ RestartQueues(t)
  BY <1>2 DEF ReportSourceDeadlock, TryToUnthrottle, RestartQueues
<1>3. CASE ChooseSources(t)
  BY <1>3 DEF ChooseSources
<1>4. CASE StopQueues(t)
  <2>1. {"activate"} \X {s \in Source : status[s] = "chosen"} \subseteq Request
    BY DEF Request, Node
  <2> QED
    BY <1>4, <2>1 DEF StopQueues
<1>5. CASE UnthrottleSources(t)
  <2>1. \A i, l : {"unthrottled"} \X Freed(i, l) \subseteq Request
    BY DEF Request, Node, Freed
  <2> QED
    BY <1>5, <2>1 DEF UnthrottleSources
<1>6. CASE Relock(t)
  BY <1>6 DEF Relock, LeaveHandleIdle
<1> QED
  BY <1>1, <1>2, <1>3, <1>4, <1>5, <1>6 DEF Handling

LEMMA SchedulingTypes ==
  ASSUME TypeOK, Queues!TypeOK', NEW t \in Thread, Scheduling(t)
  PROVE  TypeOK'
<1> USE DEF TypeOK, idleVars, submitVars, flags, workVars, nodeVars, appVars,
            queueVars
<1>1. CASE BecomeActive(t) \/ BecomeIdle(t)
  BY <1>1 DEF BecomeActive, BecomeIdle, EnterHandleIdle
<1>2. CASE SubmitAfterHandling(t)
  BY <1>2 DEF SubmitAfterHandling
<1>3. ASSUME NEW q \in Queue, AddTask(t, q) \/ SubmitWaitingTasks(t, q)
      PROVE  TypeOK'
  BY <1>3 DEF AddTask, SubmitWaitingTasks
<1>4. \A r, i : Forget(t, r, i) /\ i \subseteq Request
               => todo' \in [Thread -> SUBSET Request]
  BY DEF Forget
<1>5. ASSUME NEW n \in Node, ScheduleForOpen(t, n)
      PROVE  TypeOK'
  <2>1. <<"open", n>> \in Item
    BY DEF Item
  <2>2. items' \subseteq Item
    BY <1>5, <2>1 DEF ScheduleForOpen, Push
  <2> QED
    BY <1>4, <1>5, <2>2 DEF ScheduleForOpen
<1>6. ASSUME NEW r \in todo[t], ScheduleSource(t, r)
      PROVE  TypeOK'
  <2>1. <<"run", r[2]>> \in Item /\ r[2] \in Node
    BY <1>6 DEF ScheduleSource, Item, Node
  <2>2. items' \subseteq Item /\ flight' \subseteq Node
    BY <1>6, <2>1 DEF ScheduleSource, Push
  <2>3. status' \in [Node -> {"waiting", "prepared", "opened", "chosen", "active", "closed"}]
    BY <1>6, <2>1 DEF ScheduleSource
  <2> QED
    BY <1>4, <1>6, <2>2, <2>3 DEF ScheduleSource
<1>7. ASSUME NEW r \in todo[t], AddJoin(t, r)
      PROVE  TypeOK'
  <2>1. r \in Item
    BY <1>7 DEF AddJoin, Item, Node
  <2>2. items' \subseteq Item /\ flight' \subseteq Node
    BY <1>7, <2>1 DEF AddJoin, Push
  <2> QED
    BY <1>4, <1>7, <2>2 DEF AddJoin
<1>8. ASSUME NEW n \in Join, CheckJoin(t, n)
      PROVE  TypeOK'
  <2>1. n \in Node /\ <<"run", n>> \in Request /\ <<"close", n>> \in Request
    BY DEF Node, Request
  <2>2. \A i, l : {"unthrottled"} \X Freed(i, l) \subseteq Request
    BY DEF Request, Node, Freed
  <2>3. inbox' \in [Stream -> Nat]
    BY <1>8 DEF CheckJoin, InboxAfter
  <2>4. todo' \in [Thread -> SUBSET Request]
    BY <1>4, <1>8, <2>1, <2>2 DEF CheckJoin
  <2> QED
    BY <1>8, <2>1, <2>3, <2>4 DEF CheckJoin
<1> QED
  BY <1>1, <1>2, <1>3, <1>5, <1>6, <1>7, <1>8 DEF Scheduling

LEMMA RunningTypes ==
  ASSUME TypeOK, Queues!TypeOK', NEW t \in Worker, Running(t),
         \A u \in Thread : phase[u] # "none" => item[u] \in Item
  PROVE  TypeOK'
<1> USE DEF TypeOK, idleVars, submitVars, flags, workVars, nodeVars, appVars,
            queueVars
<1>0. t \in Thread
  BY DEF Thread
<1>1. ASSUME NEW q \in Queue, RunNextTask(t, q)
      PROVE  TypeOK'
  BY <1>0, <1>1 DEF RunNextTask, ItemsOf
<1>2. ASSUME NEW q \in Queue, FinishTask(t, q)
      PROVE  TypeOK'
  BY <1>0, <1>2 DEF FinishTask
<1>3. ASSUME NEW n \in Node, OpenNode(t, n)
      PROVE  TypeOK'
  <2>1. n \in Join => <<"check", n>> \in Request
    BY DEF Request
  <2> QED
    BY <1>0, <1>3, <2>1 DEF OpenNode
<1>4. ASSUME NEW s \in Source, RunSource(t, s)
      PROVE  TypeOK'
  <2>1. Reached(s) \subseteq Request /\ s \in Node
    BY DEF Request, Node, Reached
  <2>2. InboxWith(s) \in [Stream -> Nat]
    BY DEF InboxWith
  <2>3. \/ status' = [status EXCEPT ![s] = "closed"] /\ UNCHANGED <<inbox, ticks>>
        \/ /\ ticks[s] # 0 /\ inbox' = InboxWith(s)
           /\ ticks' = [ticks EXCEPT ![s] = @ - 1] /\ UNCHANGED status
    BY <1>4 DEF RunSource
  <2>4. ticks[s] # 0 => ticks[s] - 1 \in 0 .. MaxTicks
    BY SchedulerAssumption
  <2>5. /\ status' \in [Node -> {"waiting", "prepared", "opened", "chosen", "active", "closed"}]
        /\ inbox' \in [Stream -> Nat]
        /\ ticks' \in [Source -> 0 .. MaxTicks]
    BY <2>1, <2>2, <2>3, <2>4
  <2> QED
    BY <1>0, <1>4, <2>1, <2>5 DEF RunSource
<1>5. ASSUME NEW n \in Join, RunJoin(t, n)
      PROVE  TypeOK'
  <2>1. {"open"} \X {s \in Late : status[s] = "waiting"} \subseteq Request
    BY SchedulerAssumption DEF Request, Node
  <2>2. todo' \in [Thread -> SUBSET Request]
    BY <1>5, <2>1 DEF RunJoin
  <2>3. status' \in [Node -> {"waiting", "prepared", "opened", "chosen", "active", "closed"}]
    BY <1>5 DEF RunJoin
  <2>4. {hasError, stopping, inputsClosed, inputOpen}' \subseteq BOOLEAN
    BY <1>5 DEF RunJoin
  <2> QED
    BY <1>0, <1>5, <2>2, <2>3, <2>4 DEF RunJoin
<1>6. ASSUME NEW n \in Join, CloseJoin(t, n)
      PROVE  TypeOK'
  BY <1>0, <1>6 DEF CloseJoin
<1>7. CASE EndScheduling(t)
  <2>1. <<"check", item[t][2]>> \in Request
    BY <1>0, <1>7 DEF EndScheduling, Item, Request
  <2> QED
    BY <1>0, <1>7, <2>1 DEF EndScheduling
<1> QED
  BY <1>1, <1>2, <1>3, <1>4, <1>5, <1>6, <1>7 DEF Running

LEMMA TypesStep ==
  ASSUME BaseInv, [Next]_vars, Queues!TypeOK'
  PROVE  TypeOK'
<1> USE DEF BaseInv, RunningCountMatchesState
<1>1. CASE \E t \in Thread : Continue(t)
  BY <1>1, HandlingTypes, SchedulingTypes, RunningTypes DEF Continue
<1> USE SchedulerAssumption
        DEF TypeOK, idleVars, submitVars, flags, workVars, nodeVars, appVars,
            queueVars, Thread
<1>2. CASE UNCHANGED vars
  BY <1>2 DEF vars
<1>3. ASSUME NEW a \in App, AddedPacket(a) \/ ClosedAllInputs(a)
      PROVE  TypeOK'
  BY <1>3 DEF AddedPacket, ClosedAllInputs, EnterHandleIdle
<1>4. CASE Start \/ StartCleanup
  BY <1>4 DEF Start, StartCleanup, EnterHandleIdle
<1>5. ASSUME NEW q \in Queue, CleanupQueue(q)
      PROVE  TypeOK'
  BY <1>5 DEF CleanupQueue
<1>6. ASSUME NEW a \in App, Pause(a) \/ Resume(a)
      PROVE  TypeOK'
  BY <1>6 DEF Pause, Resume, EnterHandleIdle
<1>7. ASSUME NEW a \in App, Cancel(a)
      PROVE  TypeOK'
  <2>1. items' = items
    BY <1>7 DEF Cancel
  <2> QED
    BY <1>7, <2>1 DEF Cancel, EnterHandleIdle
<1>8. ASSUME NEW a \in App, AddPacket(a) \/ CloseInput(a)
      PROVE  TypeOK'
  <2>1. Reached(Input) \subseteq Request
    BY DEF Request, Node, Reached
  <2>2. InboxWith(Input) \in [Stream -> Nat]
    BY DEF InboxWith
  <2>3. packets' \in 0 .. MaxPackets
    BY <1>8 DEF AddPacket, CloseInput
  <2>4. CASE AddPacket(a)
    BY <2>1, <2>2, <2>3, <2>4 DEF AddPacket
  <2>5. CASE CloseInput(a)
    BY <2>1, <2>5 DEF CloseInput
  <2> QED
    BY <1>8, <2>4, <2>5
<1> QED
  BY <1>1, <1>2, <1>3, <1>4, <1>5, <1>6, <1>7, <1>8 DEF Next, Finish

-----------------------------------------------------------------------------
\* state_, the stage of the handler and running_count_ belong together.
Counted ==
  LET up == IF state \in {"RUNNING", "CANCELLING"} THEN 1 ELSE 0
      held == IF stage = "add" THEN 1 ELSE 0
  IN \A q \in Queue : running[q] = up - held

LEMMA SetRunningCounts ==
  /\ Queues!SetRunning(Queue, TRUE) => running' = [q \in Queue |-> running[q] + 1]
  /\ Queues!SetRunning(Queue, FALSE) => running' = [q \in Queue |-> running[q] - 1]
BY DEF Queues!SetRunning

LEMMA HandlingCounts ==
  ASSUME TypeOK, Counted, NEW t \in Thread, Handling(t)
  PROVE  Counted'
<1> USE DEF Counted, queueVars, idleVars
<1>1. CASE StopHandling(t) \/ NothingLeft(t) \/ ReportSourceDeadlock(t)
           \/ TryToUnthrottle(t)
  BY <1>1 DEF StopHandling, NothingLeft, ReportSourceDeadlock, TryToUnthrottle,
              LeaveHandleIdle, InLoop
<1>2. CASE Quit(t)
  BY <1>2, SetRunningCounts DEF Quit, LeaveHandleIdle, InLoop, Working
<1>3. CASE ChooseSources(t)
  BY <1>3 DEF ChooseSources, InLoop
<1>4. CASE StopQueues(t)
  BY <1>4, SetRunningCounts DEF StopQueues
<1>5. CASE RestartQueues(t)
  BY <1>5, SetRunningCounts DEF RestartQueues
<1>6. CASE UnthrottleSources(t) \/ Relock(t)
  BY <1>6 DEF UnthrottleSources, Relock, LeaveHandleIdle
<1> QED
  BY <1>1, <1>2, <1>3, <1>4, <1>5, <1>6 DEF Handling

LEMMA SchedulingCounts ==
  ASSUME Counted, NEW t \in Thread, handler = None <=> stage = "none",
         Scheduling(t)
  PROVE  Counted'
<1>1. UNCHANGED <<running, state>>
  <2> USE DEF queueVars
  <2>1. \A i : Push(t, i) => UNCHANGED running
    BY DEF Push, Queues!AddItemToQueue
  <2>2. CASE BecomeActive(t) \/ BecomeIdle(t) \/ SubmitAfterHandling(t)
    BY <2>2 DEF BecomeActive, BecomeIdle, SubmitAfterHandling,
                Queues!BecomeActive, Queues!BecomeIdle
  <2>3. ASSUME NEW q \in Queue, AddTask(t, q) \/ SubmitWaitingTasks(t, q)
        PROVE  UNCHANGED <<running, state>>
    BY <2>3 DEF AddTask, SubmitWaitingTasks, Queues!AddTask,
                Queues!SubmitWaitingTasks
  <2>4. ASSUME NEW n \in Node, ScheduleForOpen(t, n) \/ CheckJoin(t, n)
        PROVE  UNCHANGED <<running, state>>
    BY <2>1, <2>4 DEF ScheduleForOpen, CheckJoin
  <2>5. ASSUME NEW r \in todo[t], ScheduleSource(t, r) \/ AddJoin(t, r)
        PROVE  UNCHANGED <<running, state>>
    BY <2>1, <2>5 DEF ScheduleSource, AddJoin
  <2> QED
    BY <2>2, <2>3, <2>4, <2>5 DEF Scheduling, Node
<1>2. UNCHANGED stage \/ (stage = "none" /\ stage' = "loop")
  <2> USE DEF idleVars
  <2>1. CASE BecomeActive(t) \/ BecomeIdle(t)
    BY <2>1 DEF BecomeActive, BecomeIdle, EnterHandleIdle
  <2> QED
    BY <2>1 DEF Scheduling, SubmitAfterHandling, AddTask, SubmitWaitingTasks,
         ScheduleForOpen, ScheduleSource, AddJoin, CheckJoin
<1> QED
  BY <1>1, <1>2 DEF Counted

LEMMA RunningCounts ==
  ASSUME Counted, NEW t \in Thread, Running(t)
  PROVE  Counted'
<1>1. UNCHANGED <<running, state, stage>>
  BY DEF queueVars, idleVars, Running, RunNextTask, FinishTask, OpenNode,
         RunSource, RunJoin, CloseJoin, EndScheduling,
         Queues!RunNextTask, Queues!FinishTask
<1> QED
  BY <1>1 DEF Counted

LEMMA CountsStep ==
  ASSUME BaseInv, [Next]_vars
  PROVE  Counted'
<1>0. TypeOK /\ Counted /\ (handler = None <=> stage = "none")
  BY DEF BaseInv, RunningCountMatchesState, Counted
<1> USE <1>0
<1>1. CASE \E t \in Thread : Continue(t)
  BY <1>1, HandlingCounts, SchedulingCounts, RunningCounts DEF Continue
<1> USE DEF Counted, queueVars, idleVars
<1>2. ASSUME UNCHANGED <<state, running>>,
             stage' = stage \/ (stage = "none" /\ stage' = "loop")
      PROVE  Counted'
  BY <1>2
<1>3. CASE UNCHANGED vars
  BY <1>2, <1>3 DEF vars
<1>4. ASSUME NEW a \in App, AddedPacket(a) \/ ClosedAllInputs(a)
      PROVE  Counted'
  BY <1>2, <1>4 DEF AddedPacket, ClosedAllInputs, EnterHandleIdle
<1>5. ASSUME NEW a \in App, AddPacket(a) \/ CloseInput(a)
      PROVE  Counted'
  BY <1>2, <1>5 DEF AddPacket, CloseInput
<1>6. CASE StartCleanup
  BY <1>2, <1>6 DEF StartCleanup
<1>7. ASSUME NEW q \in Queue, CleanupQueue(q)
      PROVE  Counted'
  BY <1>2, <1>7 DEF CleanupQueue, Queues!CleanupAfterRun
<1>8. CASE Start
  BY <1>8, SetRunningCounts DEF Start, EnterHandleIdle
<1>9. ASSUME NEW a \in App, Pause(a)
      PROVE  Counted'
  BY <1>9, SetRunningCounts DEF Pause
<1>10. ASSUME NEW a \in App, Resume(a)
      PROVE  Counted'
  <2>1. stage' = stage \/ (stage = "none" /\ stage' = "loop")
    BY <1>10 DEF Resume, EnterHandleIdle
  <2> QED
    BY <1>10, <2>1, SetRunningCounts DEF Resume
<1>11. ASSUME NEW a \in App, Cancel(a)
      PROVE  Counted'
  <2>1. stage' = stage \/ (stage = "none" /\ stage' = "loop")
    BY <1>11 DEF Cancel, EnterHandleIdle
  <2>2. CASE state = "PAUSED"
    BY <1>11, <2>1, <2>2, SetRunningCounts DEF Cancel
  <2>3. CASE state = "RUNNING"
    BY <1>11, <2>1, <2>3 DEF Cancel
  <2> QED
    BY <1>11, <2>2, <2>3 DEF Cancel
<1> QED
  BY <1>1, <1>3, <1>4, <1>5, <1>6, <1>7, <1>8, <1>9, <1>10, <1>11
     DEF Next, Finish

-----------------------------------------------------------------------------
\* Somebody is inside HandleIdle exactly when there is a place in it.
HandlerMatches == handler = None <=> stage = "none"

LEMMA HandlerStep ==
  ASSUME HandlerMatches, [Next]_vars
  PROVE  HandlerMatches'
<1> USE SchedulerAssumption DEF HandlerMatches, idleVars, Thread
<1>1. CASE UNCHANGED <<handler, stage>>
  BY <1>1
<1>2. ASSUME NEW t \in Thread, UNCHANGED idleVars \/ LeaveHandleIdle \/ EnterHandleIdle(t)
      PROVE  HandlerMatches'
  BY <1>2 DEF LeaveHandleIdle, EnterHandleIdle
<1>3. ASSUME NEW t \in Thread, Handling(t)
      PROVE  HandlerMatches'
  <2>1. CASE StopHandling(t) \/ NothingLeft(t) \/ ReportSourceDeadlock(t) \/ Quit(t)
    BY <1>2, <2>1 DEF StopHandling, NothingLeft, ReportSourceDeadlock, Quit
  <2>2. CASE TryToUnthrottle(t) \/ ChooseSources(t) \/ StopQueues(t)
    BY <2>2 DEF TryToUnthrottle, ChooseSources, StopQueues, InLoop
  <2>3. CASE RestartQueues(t) \/ UnthrottleSources(t) \/ Relock(t)
    BY <2>3 DEF RestartQueues, UnthrottleSources, Relock, LeaveHandleIdle
  <2> QED
    BY <1>3, <2>1, <2>2, <2>3 DEF Handling
<1>4. ASSUME NEW t \in Thread, Scheduling(t)
      PROVE  HandlerMatches'
  BY <1>2, <1>4
     DEF Scheduling, BecomeActive, BecomeIdle, SubmitAfterHandling, AddTask,
         SubmitWaitingTasks,
         ScheduleForOpen, ScheduleSource, AddJoin, CheckJoin
<1>5. ASSUME NEW t \in Thread, Running(t)
      PROVE  HandlerMatches'
  BY <1>1, <1>5 DEF Running, RunNextTask, FinishTask, OpenNode,
         RunSource, RunJoin, CloseJoin, EndScheduling
<1>6. ASSUME NEW a \in App, Finish(a) \/ Pause(a) \/ Resume(a) \/ Cancel(a)
                         \/ AddPacket(a) \/ CloseInput(a)
      PROVE  HandlerMatches'
  BY <1>2, <1>6
     DEF Finish, AddedPacket, ClosedAllInputs, Pause, Resume, Cancel,
         AddPacket, CloseInput
<1>7. ASSUME NEW q \in Queue, Start \/ StartCleanup \/ CleanupQueue(q)
      PROVE  HandlerMatches'
  BY <1>2, <1>7 DEF Start, StartCleanup, CleanupQueue
<1>8. CASE UNCHANGED vars
  BY <1>1, <1>8 DEF vars
<1>9. CASE StartCleanup \/ Start
  BY <1>2, <1>9 DEF Start, StartCleanup
<1> QED
  BY <1>3, <1>4, <1>5, <1>6, <1>7, <1>8, <1>9 DEF Next, Continue

\* CleanupAfterRun comes after WaitUntilDone.
CleanupComesLast == call[Main] = "cleanup" => state = "TERMINATED"

LEMMA CleanupStep ==
  ASSUME TypeOK, CleanupComesLast, [Next]_vars
  PROVE  CleanupComesLast'
<1> USE SchedulerAssumption DEF CleanupComesLast, appVars
<1>1. ASSUME UNCHANGED call, state = "TERMINATED" => state' = "TERMINATED"
      PROVE  CleanupComesLast'
  BY <1>1
<1>2. ASSUME NEW t \in Thread, Handling(t)
      PROVE  CleanupComesLast'
  BY <1>1, <1>2 DEF Handling, StopHandling, NothingLeft, ReportSourceDeadlock,
     Quit, TryToUnthrottle, ChooseSources, StopQueues, RestartQueues,
     UnthrottleSources, Relock
<1>3. ASSUME NEW t \in Thread, Scheduling(t)
      PROVE  CleanupComesLast'
  BY <1>1, <1>3
     DEF Scheduling, BecomeActive, BecomeIdle, SubmitAfterHandling, AddTask,
         SubmitWaitingTasks,
         ScheduleForOpen, ScheduleSource, AddJoin, CheckJoin
<1>4. ASSUME NEW t \in Thread, Running(t)
      PROVE  CleanupComesLast'
  BY <1>1, <1>4 DEF Running, RunNextTask, FinishTask, OpenNode,
         RunSource, RunJoin, CloseJoin, EndScheduling
<1>5. ASSUME NEW a \in App, Finish(a) \/ AddPacket(a) \/ CloseInput(a)
      PROVE  CleanupComesLast'
  BY <1>5
     DEF TypeOK, Finish, AddedPacket, ClosedAllInputs, AddPacket, CloseInput
<1>6. ASSUME NEW a \in App, Pause(a) \/ Resume(a) \/ Cancel(a) \/ Start
      PROVE  CleanupComesLast'
  BY <1>1, <1>6 DEF Pause, Resume, Cancel, Start
<1>7. ASSUME NEW q \in Queue, CleanupQueue(q)
      PROVE  CleanupComesLast'
  BY <1>1, <1>7 DEF CleanupQueue
<1>8. CASE StartCleanup
  BY <1>8 DEF StartCleanup, TypeOK
<1>9. CASE UNCHANGED vars
  BY <1>1, <1>9 DEF vars
<1> QED
  BY <1>2, <1>3, <1>4, <1>5, <1>6, <1>7, <1>8, <1>9 DEF Next, Continue

\* A task that has popped has an item.
TasksHaveItems == \A t \in Thread : phase[t] # "none" => item[t] \in Item

LEMMA ItemsStep ==
  ASSUME TypeOK, TasksHaveItems, [Next]_vars
  PROVE  TasksHaveItems'
<1> USE DEF TasksHaveItems, workVars
<1>1. CASE UNCHANGED <<item, phase>>
  BY <1>1
<1>2. ASSUME NEW t \in Thread, Handling(t)
      PROVE  UNCHANGED <<item, phase>>
  BY <1>2 DEF Handling, StopHandling, NothingLeft, ReportSourceDeadlock,
     Quit, TryToUnthrottle, ChooseSources, StopQueues, RestartQueues,
     UnthrottleSources, Relock
<1>3. ASSUME NEW t \in Thread, Scheduling(t)
      PROVE  UNCHANGED <<item, phase>>
  BY <1>3
     DEF Scheduling, BecomeActive, BecomeIdle, SubmitAfterHandling, AddTask,
         SubmitWaitingTasks,
         ScheduleForOpen, ScheduleSource, AddJoin, CheckJoin
<1>4. ASSUME NEW t \in Thread, Running(t)
      PROVE  TasksHaveItems'
  <2> USE DEF TypeOK
  <2>1. ASSUME NEW q \in Queue, RunNextTask(t, q) \/ FinishTask(t, q)
        PROVE  TasksHaveItems'
    BY <2>1 DEF RunNextTask, FinishTask, ItemsOf
  <2>2. ASSUME phase[t] # "none", UNCHANGED item, \A u \in Thread \ {t} : phase'[u] = phase[u]
        PROVE  TasksHaveItems'
    BY <2>2
  <2>3. ASSUME NEW n \in Node, OpenNode(t, n)
        PROVE  TasksHaveItems'
    BY <2>2, <2>3 DEF OpenNode, Popped
  <2>4. ASSUME NEW s \in Source, RunSource(t, s)
        PROVE  TasksHaveItems'
    BY <2>2, <2>4 DEF RunSource, Popped
  <2>5. ASSUME NEW n \in Join, RunJoin(t, n) \/ CloseJoin(t, n)
        PROVE  TasksHaveItems'
    BY <2>2, <2>5 DEF RunJoin, CloseJoin, Popped
  <2>6. CASE EndScheduling(t)
    BY <2>2, <2>6 DEF EndScheduling
  <2> QED
    BY <1>4, <2>1, <2>3, <2>4, <2>5, <2>6 DEF Running
<1>5. ASSUME NEW a \in App, Finish(a) \/ Pause(a) \/ Resume(a) \/ Cancel(a)
                         \/ AddPacket(a) \/ CloseInput(a) \/ Start \/ StartCleanup
      PROVE  UNCHANGED <<item, phase>>
  BY <1>5
     DEF Finish, AddedPacket, ClosedAllInputs, Pause, Resume, Cancel,
         AddPacket, CloseInput, Start, StartCleanup
<1>6. ASSUME NEW q \in Queue, CleanupQueue(q)
      PROVE  UNCHANGED <<item, phase>>
  BY <1>6 DEF CleanupQueue
<1>7. CASE UNCHANGED vars
  BY <1>1, <1>7 DEF vars
<1>8. CASE Start \/ StartCleanup
  BY <1>1, <1>8 DEF Start, StartCleanup
<1> QED
  BY <1>1, <1>2, <1>3, <1>4, <1>5, <1>6, <1>7, <1>8 DEF Next, Continue

-----------------------------------------------------------------------------
\* The base of the inductive invariant: it holds at the start, ...
LEMMA InitBase == Init => BaseInv
<1> SUFFICES ASSUME Init PROVE BaseInv
  OBVIOUS
<1> USE SchedulerAssumption DEF Init, Thread
<1>1. Proved!IInv
  BY QueueConstantsHold, SameQueues, Proved!InitIInv
<1>2. Queues!TypeOK
  BY <1>1, SameQueues DEF Proved!IInv
<1>3. TypeOK
  <2>1. {"open"} \X (Node \ Late) \subseteq Request
    BY DEF Request
  <2>2. todo \in [Thread -> SUBSET Request]
    BY <2>1
  <2>3. {hasError, stopping, inputsClosed, inputOpen} \subseteq BOOLEAN
    <3>1. inputOpen \in BOOLEAN
      BY Zenon
    <3>2. inputsClosed \in BOOLEAN
      BY Zenon
    <3> QED
      BY <3>1, <3>2
  <2>4. /\ status \in [Node -> {"waiting", "prepared", "opened", "chosen", "active",
                              "closed"}]
        /\ inbox \in [Stream -> Nat] /\ limit \in [Stream -> Nat]
        /\ ticks \in [Source -> 0 .. MaxTicks] /\ packets \in 0 .. MaxPackets
    OBVIOUS
  <2>5. /\ again \in BOOLEAN
        /\ items \subseteq Item
        /\ submit \in [Thread -> SUBSET Queue]
        /\ item \in [Thread -> Item \cup {None}]
        /\ phase \in [Thread -> {"none", "popped", "processed", "ended"}]
        /\ call \in [App -> {"none", "add", "close", "cleanup"}]
    OBVIOUS
  <2> QED
    BY <1>2, <2>2, <2>3, <2>4, <2>5 DEF TypeOK
<1>4. \A q \in Queue : running[q] = 0
  BY DEF Queues!Init
<1> QED
  BY <1>1, <1>3, <1>4 DEF BaseInv, RunningCountMatchesState

\* ... and every step keeps it.
LEMMA BaseStep ==
  ASSUME BaseInv, [Next]_vars
  PROVE  BaseInv'
<1>1. [Queues!Next]_(Queues!qvars)
  BY NextImplements
<1>2. Proved!IInv'
  BY <1>1, QNext DEF BaseInv
<1>3. Queues!TypeOK'
  BY <1>2
     DEF Proved!IInv, Queues!TypeOK, Proved!TypeOK, Queues!Thread, Proved!Thread
<1>4. TypeOK'
  BY <1>3, TypesStep
<1>5. Counted'
  BY CountsStep
<1>6. HandlerMatches'
  BY HandlerStep DEF BaseInv, HandlerMatches
<1>7. CleanupComesLast'
  BY CleanupStep DEF BaseInv, RunningCountMatchesState, CleanupComesLast
<1>8. TasksHaveItems'
  BY ItemsStep DEF BaseInv, RunningCountMatchesState, TasksHaveItems
<1> QED
  BY <1>2, <1>4, <1>5, <1>6, <1>7, <1>8
     DEF BaseInv, RunningCountMatchesState, Counted, HandlerMatches,
         CleanupComesLast, TasksHaveItems

LEMMA BaseInvariant == Spec => []BaseInv
BY InitBase, BaseStep, PTL DEF Spec

\* Type correctness of the scheduler, for every graph and any number of threads.
THEOREM SchedulerTypes == Spec => []TypeOK
<1>1. BaseInv => TypeOK
  BY DEF BaseInv, RunningCountMatchesState
<1> QED
  BY <1>1, BaseInvariant, PTL

\* state_ and running_count_ (SetQueuesRunning): from whichever place Start,
\* Pause, Resume, Cancel, Quit and the activation of a source layer are called,
\* and in whatever order, every queue runs exactly when state_ is RUNNING or
\* CANCELLING, but while HandleIdle adds sources. It includes the type
\* invariant.
THEOREM CountsMatchState == Spec => []RunningCountMatchesState
<1>1. BaseInv => RunningCountMatchesState
  BY DEF BaseInv
<1> QED
  BY <1>1, BaseInvariant, PTL

\* Refinement: every step of the scheduler, with its handler, its nodes and the
\* application, is a step of SchedulerQueue's or leaves the queues alone, so
\* that what is proved of the queues there holds of the scheduler.
THEOREM ImplementsQueues == Spec => QueuesImplemented
<1>1. Init => Queues!Init
  BY DEF Init
<1> QED
  BY <1>1, NextImplements, BaseInvariant, PTL
     DEF Spec, QueuesImplemented, Queues!Spec

-----------------------------------------------------------------------------
\* No queue newly runs with tasks to add, and nobody forgets to submit.
LEMMA KeepSubmitted ==
  ASSUME NoStrandedTask,
         \A q \in Queue : running'[q] > 0 /\ toAdd'[q] > 0
                            => running[q] > 0 /\ toAdd[q] > 0,
         \A t \in Thread : submit[t] \subseteq submit'[t],
         owesSubmit \subseteq owesSubmit'
  PROVE  NoStrandedTask'
BY DEF NoStrandedTask

\* Whoever adds a task, or sets the queues running, leaves with the tasks
\* submitted or with the call of SubmitWaitingTasksToExecutor to make.
LEMMA StrandedStep ==
  ASSUME BaseInv, NoStrandedTask, [Next]_vars
  PROVE  NoStrandedTask'
<1>0. TypeOK /\ Queues!TypeOK /\ Counted
  BY DEF BaseInv, RunningCountMatchesState, Counted, TypeOK
<1> USE <1>0, SchedulerAssumption DEF Thread, queueVars, submitVars, Queues!Thread
<1> DEFINE Kept == \A q \in Queue : running'[q] > 0 /\ toAdd'[q] > 0
                                      => running[q] > 0 /\ toAdd[q] > 0
<1>1. CASE Kept /\ UNCHANGED submitVars
  BY <1>1, KeepSubmitted
<1>2. UNCHANGED <<running, toAdd>> => Kept
  OBVIOUS
<1>3. ASSUME NEW t \in Thread, NEW q \in Queue, NEW n \in Nat,
             Queues!TakeTasks(t, q, n), UNCHANGED running
      PROVE  /\ Kept
             /\ running'[q] > 0 => toAdd'[q] = 0
             /\ \A p \in Queue \ {q} : toAdd'[p] = toAdd[p]
  BY <1>3 DEF Queues!TakeTasks, Queues!TypeOK
<1>4. ASSUME Queues!SetRunning(Queue, FALSE), \A q \in Queue : running[q] \in {0, 1}
      PROVE  Kept
  BY <1>4, SetRunningCounts
<1>5. ASSUME NEW t \in Thread, t \in owesSubmit' \/ submit'[t] = Queue
      PROVE  NoStrandedTask'
  BY <1>5 DEF NoStrandedTask
<1>6. ASSUME NEW t \in Thread, Handling(t)
      PROVE  NoStrandedTask'
  <2>1. CASE Quit(t)
    <3>1. \A q \in Queue : running[q] \in {0, 1}
      BY <2>1 DEF Quit, InLoop, Working, Counted
    <3> QED
      BY <1>1, <1>4, <2>1, <3>1 DEF Quit
  <2>2. CASE StopQueues(t)
    <3>1. \A q \in Queue : running[q] \in {0, 1}
      BY <2>2 DEF StopQueues, Counted
    <3> QED
      BY <1>1, <1>4, <2>2, <3>1 DEF StopQueues
  <2>3. CASE RestartQueues(t)
    BY <1>5, <2>3 DEF RestartQueues, TypeOK
  <2> QED
    BY <1>1, <1>2, <1>6, <2>1, <2>2, <2>3
       DEF Handling, StopHandling, NothingLeft,
       ReportSourceDeadlock, TryToUnthrottle, ChooseSources, UnthrottleSources,
       Relock
<1>7. ASSUME NEW t \in Thread, NEW i, Push(t, i), i[2] \in Node, UNCHANGED submitVars
      PROVE  NoStrandedTask'
  <2>1. PICK q \in Queue : Queues!AddItemToQueue(t, q)
    BY <1>7 DEF Push
  <2>2. /\ Queues!TakeTasks(t, q, toAdd[q] + 1) /\ UNCHANGED running
        /\ toAdd[q] + 1 \in Nat
    BY <2>1 DEF Queues!AddItemToQueue, Queues!TypeOK
  <2> QED
    BY <1>1, <1>3, <1>7, <2>2
<1>8. ASSUME NEW t \in Thread, NEW q \in Queue, SubmitWaitingTasks(t, q)
      PROVE  NoStrandedTask'
  <2>1. /\ Queues!TakeTasks(t, q, toAdd[q]) /\ UNCHANGED <<running, owesSubmit>>
        /\ toAdd[q] \in Nat
        /\ submit' = [submit EXCEPT ![t] = @ \ {q}]
    BY <1>8 DEF SubmitWaitingTasks, Queues!SubmitWaitingTasks, Queues!TypeOK
  <2>2. \A p \in Queue \ {q}, u \in Thread : p \in submit[u] => p \in submit'[u]
    BY <2>1 DEF TypeOK
  <2> QED
    BY <1>3, <2>1, <2>2 DEF NoStrandedTask
<1>9. ASSUME NEW t \in Thread, SubmitAfterHandling(t)
      PROVE  NoStrandedTask'
  BY <1>5, <1>9 DEF SubmitAfterHandling, TypeOK
<1>10. ASSUME NEW t \in Thread, BecomeActive(t) \/ BecomeIdle(t) \/ \E q \in Queue : AddTask(t, q)
       PROVE  NoStrandedTask'
  BY <1>1, <1>2, <1>10
     DEF BecomeActive, BecomeIdle, AddTask, Queues!BecomeActive,
     Queues!BecomeIdle, Queues!AddTask
<1>11. ASSUME NEW t \in Thread, NEW n \in Node, ScheduleForOpen(t, n)
       PROVE  NoStrandedTask'
  BY <1>1, <1>2, <1>7, <1>11 DEF ScheduleForOpen
<1>12. ASSUME NEW t \in Thread, NEW r \in todo[t], ScheduleSource(t, r)
       PROVE  NoStrandedTask'
  BY <1>1, <1>2, <1>7, <1>12 DEF ScheduleSource, Node
<1>13. ASSUME NEW t \in Thread, NEW r \in todo[t], AddJoin(t, r)
       PROVE  NoStrandedTask'
  BY <1>1, <1>2, <1>7, <1>13 DEF AddJoin, Node
<1>14. ASSUME NEW t \in Thread, NEW n \in Join, CheckJoin(t, n)
       PROVE  NoStrandedTask'
  BY <1>1, <1>2, <1>14 DEF CheckJoin
<1>15. ASSUME NEW t \in Thread, Running(t)
       PROVE  NoStrandedTask'
  BY <1>1, <1>2, <1>15
     DEF Running, RunNextTask, FinishTask, OpenNode, RunSource,
     RunJoin, CloseJoin, EndScheduling, Queues!RunNextTask, Queues!FinishTask
<1>16. ASSUME NEW t \in Thread, Continue(t)
       PROVE  NoStrandedTask'
  BY <1>6, <1>8, <1>9, <1>10, <1>11, <1>12, <1>13, <1>14, <1>15, <1>16
     DEF Continue, Scheduling
<1>17. ASSUME NEW a \in App, Finish(a) \/ AddPacket(a) \/ CloseInput(a)
       PROVE  NoStrandedTask'
  BY <1>1, <1>2, <1>17
     DEF Finish, AddedPacket, ClosedAllInputs, AddPacket, CloseInput
<1>18. ASSUME NEW a \in App, Pause(a)
       PROVE  NoStrandedTask'
  <2>1. \A q \in Queue : running[q] \in {0, 1}
    BY <1>18 DEF Pause, Counted
  <2> QED
    BY <1>1, <1>4, <1>18, <2>1 DEF Pause
<1>19. ASSUME NEW a \in App, Resume(a) \/ Cancel(a)
       PROVE  NoStrandedTask'
  BY <1>5, <1>19 DEF Resume, Cancel
<1>20. CASE Start
  BY <1>5, <1>20 DEF Start
<1>21. ASSUME NEW q \in Queue, CleanupQueue(q)
       PROVE  NoStrandedTask'
  <2>1. Kept
    BY <1>21 DEF CleanupQueue, Queues!CleanupAfterRun, Queues!TypeOK
  <2> QED
    BY <1>1, <1>21, <2>1 DEF CleanupQueue
<1>22. CASE StartCleanup \/ UNCHANGED vars
  BY <1>1, <1>2, <1>22 DEF StartCleanup, vars
<1> QED
  BY <1>16, <1>17, <1>18, <1>19, <1>20, <1>21, <1>22 DEF Next

\* SubmitWaitingTasksToExecutor: a task that was added while the queue was held
\* back does not stay in a queue that runs with nobody left to submit it,
\* however the calls of AddItemToQueue and SetRunning interleave.
THEOREM NoTaskStranded == Spec => []NoStrandedTask
<1>1. Init => NoStrandedTask
  BY DEF Init, NoStrandedTask, Queues!Init
<1> QED
  BY <1>1, StrandedStep, BaseInvariant, PTL DEF Spec

-----------------------------------------------------------------------------
\* The nodes.

\* The variables the claims on nodes are made of, which most steps leave alone.
claimVars == <<items, todo, item, phase, status, flight, inbox, limit>>

\* A step of thread t that schedules or runs a node.
NodeStep(t) ==
  \/ ChooseSources(t) \/ StopQueues(t) \/ UnthrottleSources(t)
  \/ \E n \in Node : ScheduleForOpen(t, n)
  \/ \E r \in todo[t] : ScheduleSource(t, r) \/ AddJoin(t, r)
  \/ \E n \in Join : CheckJoin(t, n)
  \/ t \in Worker /\ Running(t)
  \/ t \in App /\ (AddPacket(t) \/ CloseInput(t))

\* ... and which steps do not.
LEMMA StepCases ==
  ASSUME [Next]_vars
  PROVE  \/ UNCHANGED claimVars
         \/ \E t \in Thread : NodeStep(t)
         \/ StartCleanup
         \/ \E q \in Queue : CleanupQueue(q)
<1> USE DEF claimVars
<1>1. CASE UNCHANGED vars
  BY <1>1 DEF vars, workVars, nodeVars, queueVars
<1>2. ASSUME NEW t \in Thread, Handling(t)
      PROVE  UNCHANGED claimVars \/ NodeStep(t)
  BY <1>2
     DEF NodeStep, queueVars, workVars, nodeVars, Handling, StopHandling,
         NothingLeft, ReportSourceDeadlock,
     Quit, TryToUnthrottle, RestartQueues, Relock
<1>3. ASSUME NEW t \in Thread, Scheduling(t)
      PROVE  UNCHANGED claimVars \/ NodeStep(t)
  BY <1>3
     DEF NodeStep, queueVars, workVars, nodeVars, Scheduling, BecomeActive,
         BecomeIdle, SubmitAfterHandling, AddTask, SubmitWaitingTasks
<1>4. ASSUME NEW a \in App, Finish(a) \/ Pause(a) \/ Resume(a) \/ Start
      PROVE  UNCHANGED claimVars
  BY <1>4
     DEF queueVars, workVars, nodeVars, Finish, AddedPacket, ClosedAllInputs,
         Pause, Resume, Start
<1>5. ASSUME NEW a \in App, Cancel(a)
      PROVE  UNCHANGED claimVars
  BY <1>5 DEF queueVars, workVars, nodeVars, Cancel
<1>6. CASE Start
  BY <1>6 DEF queueVars, workVars, nodeVars, Start
<1>7. ASSUME NEW a \in App, AddPacket(a) \/ CloseInput(a)
      PROVE  \E t \in Thread : NodeStep(t)
  BY <1>7 DEF NodeStep, Thread
<1>8. ASSUME NEW t \in Thread, Continue(t)
      PROVE  UNCHANGED claimVars \/ NodeStep(t)
  BY <1>2, <1>3, <1>8 DEF Continue, NodeStep
<1> QED
  BY <1>1, <1>4, <1>5, <1>6, <1>7, <1>8 DEF Next

-----------------------------------------------------------------------------
\* A claim on a node: an item of its queue, a request a thread is to make of it,
\* or the task a thread runs. Each has a place and, but for the item, a thread.
Where == {"queue", "todo", "work"}
Holder == Thread \cup {None}

Holds(k, t, i) ==
  \/ k = "queue" /\ t = None /\ i \in items
  \/ k = "todo" /\ t # None /\ i \in todo[t]
  \/ k = "work" /\ t # None /\ item[t] = i /\ phase[t] \in {"popped", "processed"}

\* OpenNode is a claim of its own; Process and Close share one, for
\* current_in_flight_ counts both.
SameClaim(i, j) == i[2] = j[2] /\ (i[1] = "open" <=> j[1] = "open")

\* A node is claimed once ...
ClaimsUnique ==
  \A k, l \in Where, t, u \in Holder, i, j \in Item :
    Holds(k, t, i) /\ Holds(l, u, j) /\ SameClaim(i, j) => k = l /\ t = u /\ i = j

\* ... and a claim has its mark: current_in_flight_, or the status that says the
\* node is scheduled for open.
ClaimsMarked ==
  \A k \in Where, t \in Holder, i \in Item : Holds(k, t, i) =>
    IF i[1] = "open" THEN status[i[2]] # "waiting" ELSE i[2] \in flight

\* A source closes inside ProcessNode, so only a join is scheduled for Close.
JoinsOnly ==
  /\ \A t \in Thread : \A i \in todo[t] : i[1] \in {"run", "close"} => i[2] \in Join
  /\ \A k \in Where, t \in Holder, i \in Item :
       Holds(k, t, i) /\ i[1] = "close" => i[2] \in Join
  /\ \A t \in Thread : phase[t] = "processed" => item[t][1] # "open"

ClaimInv == ClaimsUnique /\ ClaimsMarked /\ JoinsOnly

\* A step that makes no claim makes none twice; one that makes claim o of thread
\* t must find none like it.
LEMMA KeepUnique ==
  ASSUME ClaimsUnique,
         \A k \in Where, t \in Holder, i \in Item : Holds(k, t, i)' => Holds(k, t, i)
  PROVE  ClaimsUnique'
BY DEF ClaimsUnique

LEMMA AddUnique ==
  ASSUME ClaimsUnique, NEW l \in Where, NEW u \in Holder, NEW j \in Item,
         \A k \in Where, t \in Holder, i \in Item :
           Holds(k, t, i)' => \/ k = l /\ t = u /\ i = j
                              \/ Holds(k, t, i) /\ ~SameClaim(i, j)
  PROVE  ClaimsUnique'
BY DEF ClaimsUnique, SameClaim

\* An item is a pair of its kind and its node.
LEMMA ItemShape ==
  /\ \A i \in Item : i[1] \in {"open", "run", "close"} /\ i[2] \in Node /\ i = <<i[1], i[2]>>
  /\ \A n \in Node : \A k \in {"open", "run", "close"} :
       <<k, n>> \in Item /\ <<k, n>>[1] = k /\ <<k, n>>[2] = n
  /\ \A r \in Request : r[2] \in Node /\ r = <<r[1], r[2]>>
  /\ \A k : k \in {"check", "activate", "unthrottled"} => \A n : <<k, n>> \notin Item
BY DEF Item, Request

-----------------------------------------------------------------------------
\* Nothing new is claimed, and what is claimed keeps its mark.
LEMMA KeepClaims ==
  ASSUME ClaimInv,
         \A k \in Where, t \in Holder, i \in Item : Holds(k, t, i)' => Holds(k, t, i),
         flight' = flight,
         \A n \in Node : status[n] # "waiting" => status'[n] # "waiting"
  PROVE  /\ ClaimsUnique' /\ ClaimsMarked'
         /\ \A k \in Where, t \in Holder, i \in Item :
              Holds(k, t, i)' /\ i[1] = "close" => i[2] \in Join
<1>1. ClaimsUnique'
  BY KeepUnique DEF ClaimInv
<1>2. ClaimsMarked'
  BY ItemShape DEF ClaimInv, ClaimsMarked
<1> QED
  BY <1>1, <1>2 DEF ClaimInv, JoinsOnly

\* The claims, one step of the scheduler after the other.
LEMMA HandlerClaims ==
  ASSUME TypeOK, ClaimInv, NEW t \in Thread,
         ChooseSources(t) \/ StopQueues(t) \/ UnthrottleSources(t)
  PROVE  ClaimInv'
<1> USE SchedulerAssumption DEF Thread, workVars, nodeVars
<1>1. UNCHANGED <<items, item, phase, flight>>
  BY DEF ChooseSources, StopQueues, UnthrottleSources, queueVars
<1>2. \A n \in Node : status[n] # "waiting" => status'[n] # "waiting"
  BY DEF ChooseSources, StopQueues, UnthrottleSources, TypeOK
<1>3. \A u \in Thread : \A r \in todo'[u] :
        r \in todo[u] \/ r[1] \in {"activate", "unthrottled"}
  <2>1. ASSUME NEW k \in {"activate", "unthrottled"}, NEW S,
               todo' = [todo EXCEPT ![t] = @ \cup ({k} \X S)]
        PROVE  \A u \in Thread : \A r \in todo'[u] : r \in todo[u] \/ r[1] = k
    <3>1. \A r \in {k} \X S : r[1] = k
      OBVIOUS
    <3>2. \A u \in Thread : todo'[u] = IF u = t THEN todo[t] \cup ({k} \X S) ELSE todo[u]
      BY <2>1 DEF TypeOK
    <3> QED
      BY <3>1, <3>2
  <2>2. CASE ChooseSources(t)
    BY <2>2 DEF ChooseSources
  <2>3. CASE StopQueues(t)
    BY <2>1, <2>3 DEF StopQueues
  <2>4. CASE UnthrottleSources(t)
    BY <2>1, <2>4 DEF UnthrottleSources
  <2> QED
    BY <2>2, <2>3, <2>4
<1>4. \A k \in Where, u \in Holder, i \in Item : Holds(k, u, i)' => Holds(k, u, i)
  BY <1>1, <1>3, ItemShape DEF Holds, Holder
<1>5. JoinsOnly'
  BY <1>1, <1>2, <1>3, <1>4, KeepClaims DEF ClaimInv, JoinsOnly
<1> QED
  BY <1>1, <1>2, <1>4, <1>5, KeepClaims DEF ClaimInv

LEMMA RequestForgotten ==
  ASSUME TypeOK, NEW t \in Thread, NEW r, NEW more, Forget(t, r, more)
  PROVE  \A u \in Thread : todo'[u] = IF u = t THEN (todo[t] \ {r}) \cup more ELSE todo[u]
BY DEF Forget, TypeOK

LEMMA ScheduleForOpenClaims ==
  ASSUME TypeOK, ClaimInv, NEW t \in Thread, NEW n \in Node, ScheduleForOpen(t, n)
  PROVE  ClaimInv'
<1> USE SchedulerAssumption DEF Thread
<1> DEFINE o == <<"open", n>>
<1>1. /\ o \in todo[t] /\ o \in Item
      /\ UNCHANGED <<item, phase, flight, status>>
      /\ items' \subseteq items \cup {o}
      /\ \A u \in Thread : todo'[u] \subseteq todo[u]
      /\ o \notin todo'[t]
  <2>1. Forget(t, o, {}) /\ o \in todo[t]
    BY DEF ScheduleForOpen, Makes
  <2>2. \A u \in Thread : todo'[u] = IF u = t THEN (todo[t] \ {o}) \cup {} ELSE todo[u]
    BY <2>1, RequestForgotten
  <2>3. o \in Item
    BY ItemShape
  <2>4. items' \subseteq items \cup {o}
    BY DEF ScheduleForOpen, queueVars, Push
  <2>5. UNCHANGED <<item, phase, flight, status>>
    BY DEF ScheduleForOpen, nodeVars
  <2> HIDE DEF o
  <2> QED
    BY <2>1, <2>2, <2>3, <2>4, <2>5
<1>2. Holds("todo", t, o)
  BY <1>1 DEF Holds
<1>3. \A k \in Where, u \in Holder, i \in Item :
        Holds(k, u, i)' => \/ k = "queue" /\ u = None /\ i = o
                           \/ Holds(k, u, i) /\ ~(k = "todo" /\ u = t /\ i = o)
  BY <1>1 DEF Holds, Holder
<1>4. \A k \in Where, u \in Holder, i \in Item :
        Holds(k, u, i) /\ SameClaim(i, o) => k = "todo" /\ u = t /\ i = o
  BY <1>1, <1>2 DEF ClaimInv, ClaimsUnique, Where, Holder
<1>5. ClaimsUnique'
  BY <1>1, <1>3, <1>4, AddUnique DEF ClaimInv, Where, Holder
<1>6. ClaimsMarked'
  BY <1>1, <1>2, <1>3, ItemShape DEF ClaimInv, ClaimsMarked, Where, Holder
<1>7. JoinsOnly'
  BY <1>1, <1>3, ItemShape DEF ClaimInv, JoinsOnly
<1> QED
  BY <1>5, <1>6, <1>7 DEF ClaimInv

LEMMA ScheduleSourceClaims ==
  ASSUME TypeOK, ClaimInv, NEW t \in Thread, NEW r \in todo[t], ScheduleSource(t, r)
  PROVE  ClaimInv'
<1> USE SchedulerAssumption DEF Thread
<1> DEFINE s == r[2]
           o == <<"run", s>>
<1>1. /\ s \in Source /\ s \in Node /\ o \in Item
      /\ UNCHANGED <<item, phase>>
      /\ \A u \in Thread : todo'[u] \subseteq todo[u]
      /\ \A m \in Node : status[m] # "waiting" => status'[m] # "waiting"
  <2>1. Forget(t, r, {}) /\ s \in Source
    BY DEF ScheduleSource
  <2>2. \A u \in Thread : todo'[u] = IF u = t THEN (todo[t] \ {r}) \cup {} ELSE todo[u]
    BY <2>1, RequestForgotten
  <2>3. s \in Node /\ o \in Item
    BY <2>1, ItemShape DEF Node
  <2>4. \A m \in Node : status[m] # "waiting" => status'[m] # "waiting"
    BY DEF ScheduleSource, TypeOK
  <2> QED
    BY <2>1, <2>2, <2>3, <2>4 DEF ScheduleSource
<1>2. CASE UNCHANGED <<items, flight>>
  <2>1. \A k \in Where, u \in Holder, i \in Item : Holds(k, u, i)' => Holds(k, u, i)
    BY <1>1, <1>2 DEF Holds, Holder
  <2>2. JoinsOnly'
    BY <1>1, <1>2, <2>1 DEF ClaimInv, JoinsOnly
  <2> QED
    BY <1>1, <1>2, <2>1, <2>2, KeepClaims DEF ClaimInv
<1>3. CASE s \notin flight /\ flight' = flight \cup {s} /\ items' = items \cup {o}
  <2>1. \A k \in Where, u \in Holder, i \in Item :
          Holds(k, u, i)' => \/ k = "queue" /\ u = None /\ i = o
                             \/ Holds(k, u, i)
    BY <1>1, <1>3 DEF Holds, Holder
  <2>2. \A k \in Where, u \in Holder, i \in Item :
          Holds(k, u, i) => ~SameClaim(i, o)
    BY <1>1, <1>3 DEF ClaimInv, ClaimsMarked, SameClaim
  <2>3. ClaimsUnique'
    BY <1>1, <2>1, <2>2, AddUnique DEF ClaimInv, Where, Holder
  <2>4. ClaimsMarked'
    BY <1>1, <1>3, <2>1, ItemShape DEF ClaimInv, ClaimsMarked
  <2>5. JoinsOnly'
    BY <1>1, <2>1, ItemShape DEF ClaimInv, JoinsOnly
  <2> QED
    BY <2>3, <2>4, <2>5 DEF ClaimInv
<1> QED
  BY <1>2, <1>3 DEF ScheduleSource, Push, queueVars

LEMMA CheckJoinClaims ==
  ASSUME TypeOK, ClaimInv, NEW t \in Thread, NEW n \in Join, CheckJoin(t, n)
  PROVE  ClaimInv'
<1> USE SchedulerAssumption DEF Thread
<1>1. UNCHANGED <<items, item, phase, status>> /\ n \in Node
  BY DEF CheckJoin, queueVars, Node
<1>2. CASE /\ flight' = flight
           /\ \A u \in Thread : todo'[u] \subseteq todo[u]
  <2>1. \A k \in Where, u \in Holder, i \in Item : Holds(k, u, i)' => Holds(k, u, i)
    BY <1>1, <1>2 DEF Holds, Holder
  <2>2. JoinsOnly'
    BY <1>1, <1>2, <2>1 DEF ClaimInv, JoinsOnly
  <2> QED
    BY <1>1, <1>2, <2>1, <2>2, KeepClaims DEF ClaimInv
<1>3. ASSUME NEW kind \in {"run", "close"},
             n \notin flight, flight' = flight \cup {n},
             \A u \in Thread : \A r \in todo'[u] :
               \/ r \in todo[u]
               \/ u = t /\ r = <<kind, n>>
               \/ r[1] = "unthrottled"
      PROVE  ClaimInv'
  <2> DEFINE o == <<kind, n>>
  <2>0. o \in Item /\ o[1] = kind /\ o[2] = n
    BY <1>1, ItemShape
  <2>1. \A k \in Where, u \in Holder, i \in Item :
          Holds(k, u, i)' => \/ k = "todo" /\ u = t /\ i = o
                             \/ Holds(k, u, i)
    BY <1>1, <1>3, ItemShape DEF Holds, Holder
  <2>2. \A k \in Where, u \in Holder, i \in Item :
          Holds(k, u, i) => ~SameClaim(i, o)
    BY <1>1, <1>3, <2>0 DEF ClaimInv, ClaimsMarked, SameClaim
  <2>3. ClaimsUnique'
    BY <2>0, <2>1, <2>2, AddUnique DEF ClaimInv, Where, Holder
  <2>4. ClaimsMarked'
    BY <1>1, <1>3, <2>0, <2>1 DEF ClaimInv, ClaimsMarked
  <2>5. JoinsOnly'
    BY <1>1, <1>3, <2>0, <2>1 DEF ClaimInv, JoinsOnly
  <2> QED
    BY <2>3, <2>4, <2>5 DEF ClaimInv
<1>4. CASE /\ n \notin flight /\ flight' = flight \cup {n}
           /\ Forget(t, <<"check", n>>, {<<"run", n>>} \cup
                        ({"unthrottled"} \X Freed(InboxAfter(n), limit)))
  <2> DEFINE o == <<"run", n>>
             U == {"unthrottled"} \X Freed(InboxAfter(n), limit)
  <2>1. \A u \in Thread : todo'[u] = IF u = t THEN (todo[t] \ {<<"check", n>>}) \cup ({o} \cup U)
                                     ELSE todo[u]
    BY <1>4, RequestForgotten
  <2>2. \A r \in U : r[1] = "unthrottled"
    OBVIOUS
  <2> HIDE DEF U, o
  <2>3. \A u \in Thread : \A r \in todo'[u] :
          r \in todo[u] \/ (u = t /\ r = o) \/ r[1] = "unthrottled"
    BY <2>1, <2>2
  <2> QED
    BY <1>3, <1>4, <2>3 DEF o
<1>5. CASE /\ n \notin flight /\ flight' = flight \cup {n}
           /\ Forget(t, <<"check", n>>, {<<"close", n>>})
  <2> DEFINE o == <<"close", n>>
  <2>1. \A u \in Thread : todo'[u] = IF u = t THEN (todo[t] \ {<<"check", n>>}) \cup {o}
                                     ELSE todo[u]
    BY <1>5, RequestForgotten
  <2> HIDE DEF o
  <2>2. \A u \in Thread : \A r \in todo'[u] : r \in todo[u] \/ (u = t /\ r = o)
    BY <2>1
  <2> QED
    BY <1>3, <1>5, <2>2 DEF o
<1>6. CASE flight' = flight /\ Forget(t, <<"check", n>>, {})
  <2>1. \A u \in Thread : todo'[u] = IF u = t THEN (todo[t] \ {<<"check", n>>}) \cup {}
                                     ELSE todo[u]
    BY <1>6, RequestForgotten
  <2> QED
    BY <1>2, <1>6, <2>1
<1> QED
  BY <1>4, <1>5, <1>6 DEF CheckJoin

LEMMA AddJoinClaims ==
  ASSUME TypeOK, ClaimInv, NEW t \in Thread, NEW o \in todo[t], AddJoin(t, o)
  PROVE  ClaimInv'
<1> USE SchedulerAssumption DEF Thread
<1>1. /\ o[1] \in {"run", "close"} /\ o[2] \in Join /\ o \in Item
      /\ UNCHANGED <<item, phase, status>>
      /\ \A u \in Thread : todo'[u] \subseteq todo[u]
      /\ o \notin todo'[t]
      /\ \/ items' = items /\ flight' = flight \ {o[2]}
         \/ items' = items \cup {o} /\ flight' = flight
  <2>1. Forget(t, o, {}) /\ o \in {"run", "close"} \X Join
    BY DEF AddJoin
  <2>2. \A u \in Thread : todo'[u] = IF u = t THEN (todo[t] \ {o}) \cup {} ELSE todo[u]
    BY <2>1, RequestForgotten
  <2>3. o[1] \in {"run", "close"} /\ o[2] \in Join /\ o \in Item
    BY <2>1 DEF Item, Node
  <2> QED
    BY <2>2, <2>3 DEF AddJoin, queueVars, Push
<1>2. Holds("todo", t, o)
  BY <1>1 DEF Holds
<1>3. \A k \in Where, u \in Holder, i \in Item :
        Holds(k, u, i)' => \/ k = "queue" /\ u = None /\ i = o /\ o \in items'
                           \/ Holds(k, u, i) /\ ~(k = "todo" /\ u = t /\ i = o)
  BY <1>1 DEF Holds, Holder
<1>4. \A k \in Where, u \in Holder, i \in Item :
        Holds(k, u, i) /\ SameClaim(i, o) => k = "todo" /\ u = t /\ i = o
  BY <1>1, <1>2 DEF ClaimInv, ClaimsUnique, Where, Holder
<1>5. ClaimsUnique'
  BY <1>1, <1>3, <1>4, AddUnique DEF ClaimInv, Where, Holder
<1>6. ClaimsMarked'
  <2>1. CASE items' = items \cup {o} /\ flight' = flight
    BY <1>1, <1>2, <1>3, <2>1 DEF ClaimInv, ClaimsMarked, Where, Holder
  <2>2. CASE items' = items /\ flight' = flight \ {o[2]}
    <3>1. \A k \in Where, u \in Holder, i \in Item :
            Holds(k, u, i)' => Holds(k, u, i) /\ ~SameClaim(i, o)
      BY <1>1, <1>3, <1>4, <2>2 DEF Holds
    <3> QED
      BY <1>1, <2>2, <3>1 DEF ClaimInv, ClaimsMarked, SameClaim
  <2> QED
    BY <1>1, <2>1, <2>2
<1>7. JoinsOnly'
  BY <1>1, <1>3 DEF ClaimInv, JoinsOnly
<1> QED
  BY <1>5, <1>6, <1>7 DEF ClaimInv

-----------------------------------------------------------------------------
LEMMA RunNextTaskClaims ==
  ASSUME TypeOK, ClaimInv, NEW t \in Thread, NEW q \in Queue, RunNextTask(t, q)
  PROVE  ClaimInv'
<1> USE SchedulerAssumption DEF Thread
<1>1. PICK o \in items :
        /\ items' = items \ {o}
        /\ item' = [item EXCEPT ![t] = o]
        /\ phase' = [phase EXCEPT ![t] = "popped"]
        /\ UNCHANGED <<todo, status, flight>>
  BY DEF RunNextTask, ItemsOf, nodeVars
<1>2. o \in Item /\ Holds("queue", None, o)
  BY DEF Holds, TypeOK
<1>3. \A k \in Where, u \in Holder, i \in Item :
        Holds(k, u, i)' => \/ k = "work" /\ u = t /\ i = o
                           \/ Holds(k, u, i) /\ ~(k = "queue" /\ u = None /\ i = o)
  BY <1>1 DEF Holds, Holder, TypeOK
<1>4. \A k \in Where, u \in Holder, i \in Item :
        Holds(k, u, i) /\ SameClaim(i, o) => k = "queue" /\ u = None /\ i = o
  BY <1>2 DEF ClaimInv, ClaimsUnique, Where, Holder
<1>5. ClaimsUnique'
  BY <1>2, <1>3, <1>4, AddUnique DEF ClaimInv, Where, Holder
<1>6. ClaimsMarked'
  BY <1>1, <1>2, <1>3 DEF ClaimInv, ClaimsMarked, Where, Holder
<1>7. JoinsOnly'
  BY <1>1, <1>2, <1>3 DEF ClaimInv, JoinsOnly, TypeOK, Where, Holder
<1> QED
  BY <1>5, <1>6, <1>7 DEF ClaimInv

\* A step that drops some requests of t and perhaps ends its claim.
LEMMA DropClaims ==
  ASSUME TypeOK, ClaimInv, NEW t \in Thread,
         UNCHANGED <<items, flight>>,
         \A n \in Node : status[n] # "waiting" => status'[n] # "waiting",
         \A u \in Thread \ {t} : /\ todo'[u] = todo[u]
                                 /\ item'[u] = item[u] /\ phase'[u] = phase[u],
         \A r \in todo'[t] : r \in todo[t] \/ r[1] = "check",
         item'[t] = item[t],
         phase'[t] # "popped",
         phase'[t] = "processed" => phase[t] \in {"popped", "processed"} /\ item[t][1] # "open"
  PROVE  ClaimInv'
<1> USE SchedulerAssumption DEF Thread
<1>1. \A k \in Where, u \in Holder, i \in Item : Holds(k, u, i)' => Holds(k, u, i)
  BY ItemShape DEF Holds, Holder
<1>2. JoinsOnly'
  BY <1>1 DEF ClaimInv, JoinsOnly
<1> QED
  BY <1>1, <1>2, KeepClaims DEF ClaimInv

LEMMA OpenNodeClaims ==
  ASSUME TypeOK, ClaimInv, NEW t \in Thread, NEW n \in Node, OpenNode(t, n)
  PROVE  ClaimInv'
<1>1. /\ UNCHANGED <<items, flight, item>>
      /\ \A m \in Node : status[m] # "waiting" => status'[m] # "waiting"
      /\ \A u \in Thread \ {t} : todo'[u] = todo[u] /\ phase'[u] = phase[u]
      /\ phase'[t] = "ended"
  BY DEF OpenNode, queueVars, TypeOK
<1>2. \A r \in todo'[t] : r[1] = "check"
  BY DEF OpenNode, TypeOK
<1> QED
  BY <1>1, <1>2, DropClaims

LEMMA RunSourceClaims ==
  ASSUME TypeOK, ClaimInv, NEW t \in Thread, NEW s \in Source, RunSource(t, s)
  PROVE  ClaimInv'
<1>1. /\ UNCHANGED <<items, flight, item>>
      /\ \A u \in Thread \ {t} : todo'[u] = todo[u] /\ phase'[u] = phase[u]
      /\ phase'[t] = "processed" /\ phase[t] = "popped" /\ item[t][1] # "open"
  BY DEF RunSource, queueVars, TypeOK, Popped
<1>2. \A m \in Node : status[m] # "waiting" => status'[m] # "waiting"
  BY DEF RunSource, TypeOK
<1>3. \A r \in todo'[t] : r[1] = "check"
  BY DEF RunSource, TypeOK, Reached
<1> QED
  BY <1>1, <1>2, <1>3, DropClaims

LEMMA CloseJoinClaims ==
  ASSUME TypeOK, ClaimInv, NEW t \in Thread, NEW n \in Join, CloseJoin(t, n)
  PROVE  ClaimInv'
<1>1. /\ UNCHANGED <<items, flight, item, todo>>
      /\ \A m \in Node : status[m] # "waiting" => status'[m] # "waiting"
      /\ \A u \in Thread \ {t} : phase'[u] = phase[u]
      /\ phase'[t] = "processed" /\ phase[t] = "popped" /\ item[t][1] # "open"
  BY DEF CloseJoin, queueVars, TypeOK, Popped
<1> QED
  BY <1>1, DropClaims

LEMMA RunJoinClaims ==
  ASSUME TypeOK, ClaimInv, NEW t \in Thread, NEW n \in Join, RunJoin(t, n)
  PROVE  ClaimInv'
<1> USE SchedulerAssumption DEF Thread
<1>1. /\ UNCHANGED <<items, flight, item>>
      /\ \A u \in Thread \ {t} : phase'[u] = phase[u]
      /\ phase'[t] = "processed" /\ phase[t] = "popped" /\ item[t][1] # "open"
  BY DEF RunJoin, queueVars, TypeOK, Popped
<1>2. CASE UNCHANGED <<status, todo>>
  BY <1>1, <1>2, DropClaims
<1>3. CASE /\ status' = [s \in Node |-> IF s \in Late /\ status[s] = "waiting"
                                        THEN "prepared" ELSE status[s]]
           /\ todo' = [todo EXCEPT ![t] = {"open"} \X
                         {s \in Late : status[s] = "waiting"}]
  <2>1. \A i \in Item : i \in todo'[t] => i[1] = "open" /\ i[2] \in Late /\ status[i[2]] = "waiting"
    BY <1>3 DEF TypeOK
  <2>2. \A u \in Thread \ {t} : todo'[u] = todo[u]
    BY <1>3 DEF TypeOK
  <2>3. \A k \in Where, u \in Holder, i \in Item :
          Holds(k, u, i)' => \/ k = "todo" /\ u = t /\ i[1] = "open" /\ status[i[2]] = "waiting"
                             \/ Holds(k, u, i)
    BY <1>1, <2>1, <2>2 DEF Holds, Holder
  <2>4. \A k \in Where, u \in Holder, i \in Item :
          Holds(k, u, i) /\ i[1] = "open" => status[i[2]] # "waiting"
    BY DEF ClaimInv, ClaimsMarked
  <2>5. ClaimsUnique'
    <3> SUFFICES ASSUME NEW k \in Where, NEW l \in Where, NEW u \in Holder,
                        NEW v \in Holder, NEW i \in Item, NEW j \in Item,
                        Holds(k, u, i)', Holds(l, v, j)', SameClaim(i, j)
                 PROVE  k = l /\ u = v /\ i = j
      BY DEF ClaimsUnique, SameClaim
    <3>1. CASE Holds(k, u, i) /\ Holds(l, v, j)
      BY <3>1 DEF ClaimInv, ClaimsUnique
    <3>2. CASE i[1] = "open" /\ status[i[2]] = "waiting"
      BY <2>3, <2>4, <3>2, ItemShape DEF SameClaim
    <3>3. CASE j[1] = "open" /\ status[j[2]] = "waiting"
      BY <2>3, <2>4, <3>3, ItemShape DEF SameClaim
    <3> QED
      BY <2>3, <3>1, <3>2, <3>3
  <2>6. ClaimsMarked'
    <3>1. \A m \in Node : /\ status[m] # "waiting" => status'[m] # "waiting"
                          /\ m \in Late => status'[m] # "waiting"
      BY <1>3 DEF TypeOK
    <3>2. \A k \in Where, u \in Holder, i \in Item :
            Holds(k, u, i)' => Holds(k, u, i) \/ (i[1] = "open" /\ i[2] \in Late)
      BY <1>1, <2>1, <2>2 DEF Holds, Holder
    <3> QED
      BY <1>1, <3>1, <3>2, ItemShape DEF ClaimInv, ClaimsMarked
  <2>7. JoinsOnly'
    <3>1. \A r \in todo'[t] : r[1] = "open"
      BY <1>3 DEF TypeOK
    <3> QED
      BY <1>1, <2>2, <2>3, <3>1 DEF ClaimInv, JoinsOnly
  <2> QED
    BY <2>5, <2>6, <2>7 DEF ClaimInv
<1> QED
  BY <1>2, <1>3 DEF RunJoin

LEMMA EndSchedulingClaims ==
  ASSUME TypeOK, TasksHaveItems, ClaimInv, NEW t \in Thread, EndScheduling(t)
  PROVE  ClaimInv'
<1> USE SchedulerAssumption DEF Thread
<1> DEFINE o == item[t]
<1>1. /\ UNCHANGED <<items, item, status>>
      /\ \A u \in Thread \ {t} : phase'[u] = phase[u]
      /\ phase'[t] = "ended" /\ phase[t] = "processed"
      /\ \A u \in Thread : \A r \in todo'[u] : r \in todo[u] \/ r[1] = "check"
      /\ flight' = flight \/ flight' = flight \ {o[2]}
  BY DEF EndScheduling, queueVars, TypeOK
<1>2. Holds("work", t, o) /\ o \in Item /\ o[1] # "open"
  BY <1>1 DEF Holds, TasksHaveItems, ClaimInv, JoinsOnly
<1>3. \A k \in Where, u \in Holder, i \in Item :
        Holds(k, u, i)' => Holds(k, u, i) /\ ~(k = "work" /\ u = t)
  BY <1>1, ItemShape DEF Holds, Holder
<1>4. \A k \in Where, u \in Holder, i \in Item :
        Holds(k, u, i) /\ SameClaim(i, o) => k = "work" /\ u = t
  BY <1>2 DEF ClaimInv, ClaimsUnique, Where, Holder
<1>5. \A k \in Where, u \in Holder, i \in Item :
        Holds(k, u, i)' => Holds(k, u, i) /\ ~SameClaim(i, o)
  BY <1>3, <1>4
<1>6. ClaimsUnique'
  BY <1>5, KeepUnique DEF ClaimInv
<1>7. ClaimsMarked'
  BY <1>1, <1>2, <1>5 DEF ClaimInv, ClaimsMarked, SameClaim
<1>8. JoinsOnly'
  BY <1>1, <1>5 DEF ClaimInv, JoinsOnly
<1> QED
  BY <1>6, <1>7, <1>8 DEF ClaimInv

LEMMA FinishTaskClaims ==
  ASSUME TypeOK, ClaimInv, NEW t \in Thread, NEW q \in Queue, FinishTask(t, q)
  PROVE  ClaimInv'
<1> USE SchedulerAssumption DEF Thread
<1>1. /\ UNCHANGED <<items, todo, status, flight>>
      /\ \A u \in Thread \ {t} : phase'[u] = phase[u] /\ item'[u] = item[u]
      /\ phase'[t] = "none"
  BY DEF FinishTask, nodeVars, TypeOK
<1>2. \A k \in Where, u \in Holder, i \in Item : Holds(k, u, i)' => Holds(k, u, i)
  BY <1>1 DEF Holds, Holder
<1>3. JoinsOnly'
  BY <1>1, <1>2 DEF ClaimInv, JoinsOnly
<1> QED
  BY <1>1, <1>2, <1>3, KeepClaims DEF ClaimInv

LEMMA AppClaims ==
  ASSUME TypeOK, ClaimInv, NEW a \in App, AddPacket(a) \/ CloseInput(a)
  PROVE  ClaimInv'
<1> USE SchedulerAssumption DEF Thread
<1>1. /\ UNCHANGED <<items, item, phase, status, flight>>
      /\ todo' = [todo EXCEPT ![a] = Reached(Input)]
  BY DEF AddPacket, CloseInput, nodeVars, queueVars
<1>2. \A u \in Thread : \A r \in todo'[u] : r \in todo[u] \/ r[1] = "check"
  BY <1>1 DEF TypeOK, Reached
<1>3. \A k \in Where, u \in Holder, i \in Item : Holds(k, u, i)' => Holds(k, u, i)
  BY <1>1, <1>2, ItemShape DEF Holds, Holder
<1>4. JoinsOnly'
  BY <1>1, <1>2, <1>3 DEF ClaimInv, JoinsOnly
<1> QED
  BY <1>1, <1>3, <1>4, KeepClaims DEF ClaimInv

LEMMA CleanupClaims ==
  ASSUME TypeOK, ClaimInv, StartCleanup \/ \E q \in Queue : CleanupQueue(q)
  PROVE  ClaimInv'
<1> USE SchedulerAssumption DEF Thread
<1>1. /\ UNCHANGED <<item, phase, todo, flight>>
      /\ items' \subseteq items
      /\ \A m \in Node : status[m] # "waiting" => status'[m] # "waiting"
  BY DEF StartCleanup, CleanupQueue, nodeVars, queueVars, workVars
<1>2. \A k \in Where, u \in Holder, i \in Item : Holds(k, u, i)' => Holds(k, u, i)
  BY <1>1 DEF Holds, Holder
<1>3. JoinsOnly'
  BY <1>1, <1>2 DEF ClaimInv, JoinsOnly
<1> QED
  BY <1>1, <1>2, <1>3, KeepClaims DEF ClaimInv

\* Every step keeps the claims.
LEMMA ClaimStep ==
  ASSUME TypeOK, TasksHaveItems, ClaimInv, [Next]_vars
  PROVE  ClaimInv'
<1>1. CASE UNCHANGED claimVars
  BY <1>1 DEF claimVars, ClaimInv, ClaimsUnique, ClaimsMarked, JoinsOnly, Holds
<1>2. ASSUME NEW t \in Thread, Running(t)
      PROVE  ClaimInv'
  BY <1>2, RunNextTaskClaims, OpenNodeClaims, RunSourceClaims, RunJoinClaims,
     CloseJoinClaims, EndSchedulingClaims, FinishTaskClaims DEF Running
<1>3. ASSUME NEW t \in Thread, NodeStep(t)
      PROVE  ClaimInv'
  BY <1>2, <1>3, HandlerClaims, ScheduleForOpenClaims, ScheduleSourceClaims,
     AddJoinClaims, CheckJoinClaims, AppClaims DEF NodeStep
<1> QED
  BY <1>1, <1>3, CleanupClaims, StepCases

-----------------------------------------------------------------------------
\* Only the thread inside HandleIdle activates sources, and only before it
\* restarts the queues.
ActivationInv ==
  \A t \in Thread : \A r \in todo[t] :
    r[1] = "activate" => handler = t /\ stage = "add" /\ r[2] \in Source

\* Where the node of a claim has to be in its life.
Fits(k, t, i) ==
  \/ i[1] = "open" /\ status[i[2]] = "prepared"
  \/ i[1] # "open" /\ i[2] \in Join /\ status[i[2]] = "opened"
  \/ i[1] # "open" /\ i[2] \in Source /\ status[i[2]] = "active"
  \/ i[1] # "open" /\ k = "work" /\ phase[t] = "processed" /\ status[i[2]] = "closed"

\* Every claim fits its node, ...
ClaimsFit == \A k \in Where, t \in Holder, i \in Item : Holds(k, t, i) => Fits(k, t, i)

\* ... as does every request to schedule a source, ...
RequestsFit ==
  \A t \in Thread : \A r \in todo[t] :
    /\ r[1] = "activate" => status[r[2]] = "chosen"
    /\ r[1] \in {"check", "unthrottled"} /\ r[2] \in Source
         => status[r[2]] \in {"active", "closed"}

\* ... and a node that has closed keeps its mark, so that it is never claimed
\* again.
ClosedInFlight ==
  /\ \A n \in Node : status[n] = "closed" => n \in flight
  /\ \A n \in Join : status[n] \in {"prepared", "opened", "closed"}

Statuses == ClaimsFit /\ RequestsFit /\ ClosedInFlight

\* The statuses, one step after the other.
LEMMA HandlerStatuses ==
  ASSUME TypeOK, Statuses, NEW t \in Thread,
         ChooseSources(t) \/ StopQueues(t) \/ UnthrottleSources(t)
  PROVE  Statuses'
<1> USE SchedulerAssumption DEF Thread
<1>1. /\ UNCHANGED <<items, item, phase, flight>>
      /\ \A n \in Node : \/ status'[n] = status[n]
                         \/ n \in Source /\ status[n] = "opened" /\ status'[n] = "chosen"
  BY DEF ChooseSources, StopQueues, UnthrottleSources, queueVars, workVars,
         nodeVars, TypeOK, Lowest, SourcesQueue
<1>2. \A u \in Thread : \A r \in todo'[u] :
        \/ r \in todo[u]
        \/ r[1] = "activate" /\ r[2] \in Source /\ status'[r[2]] = "chosen"
        \/ r[1] = "unthrottled" /\ r[2] \in Source /\ status'[r[2]] = "active"
  <2>1. ASSUME NEW k \in {"activate", "unthrottled"}, NEW S,
               todo' = [todo EXCEPT ![t] = @ \cup ({k} \X S)]
        PROVE  \A u \in Thread : \A r \in todo'[u] :
                 r \in todo[u] \/ (r[1] = k /\ r[2] \in S)
    <3>1. \A r \in {k} \X S : r[1] = k /\ r[2] \in S
      OBVIOUS
    <3>2. \A u \in Thread : todo'[u] = IF u = t THEN todo[t] \cup ({k} \X S) ELSE todo[u]
      BY <2>1 DEF TypeOK
    <3> QED
      BY <3>1, <3>2
  <2>2. CASE ChooseSources(t)
    BY <2>2 DEF ChooseSources, workVars
  <2>3. CASE StopQueues(t)
    BY <2>1, <2>3 DEF StopQueues, nodeVars
  <2>4. CASE UnthrottleSources(t)
    <3>1. \A i, l : \A x \in Freed(i, l) : x \in Source /\ status[x] = "active"
      BY DEF Freed
    <3> DEFINE l == [e \in Stream |-> IF Full(e) THEN inbox[e] + 1 ELSE limit[e]]
    <3>2. todo' = [todo EXCEPT ![t] = @ \cup ({"unthrottled"} \X Freed(inbox, l))]
      BY <2>4 DEF UnthrottleSources
    <3> HIDE DEF l
    <3>3. UNCHANGED status
      BY <2>4 DEF UnthrottleSources
    <3> QED
      BY <2>1, <3>1, <3>2, <3>3
  <2> QED
    BY <2>2, <2>3, <2>4
<1>3. \A k \in Where, u \in Holder, i \in Item : Holds(k, u, i)' => Holds(k, u, i)
  BY <1>1, <1>2, ItemShape DEF Holds, Holder
<1>4. ClaimsFit'
  BY <1>1, <1>3, ItemShape DEF Statuses, ClaimsFit, Fits
<1>5. RequestsFit'
  BY <1>1, <1>2, ItemShape DEF Statuses, RequestsFit, TypeOK
<1>6. ClosedInFlight'
  BY <1>1 DEF Statuses, ClosedInFlight, Node
<1> QED
  BY <1>4, <1>5, <1>6 DEF Statuses

LEMMA ScheduleForOpenStatuses ==
  ASSUME TypeOK, Statuses, NEW t \in Thread, NEW n \in Node, ScheduleForOpen(t, n)
  PROVE  Statuses'
<1> USE SchedulerAssumption DEF Thread
<1> DEFINE o == <<"open", n>>
<1>1. Forget(t, o, {}) /\ o \in todo[t]
  BY DEF ScheduleForOpen, Makes
<1>2. \A u \in Thread : todo'[u] = IF u = t THEN (todo[t] \ {o}) \cup {} ELSE todo[u]
  BY <1>1, RequestForgotten
<1>3. o \in Item
  BY ItemShape
<1>4. items' \subseteq items \cup {o}
  BY DEF ScheduleForOpen, queueVars, Push
<1>5. UNCHANGED <<item, phase, flight, status>>
  BY DEF ScheduleForOpen, nodeVars
<1>6. Fits("todo", t, o) /\ o[1] = "open"
  BY <1>1, <1>3 DEF Statuses, ClaimsFit, Holds, Where, Holder
<1> HIDE DEF o
<1>7. \A k \in Where, u \in Holder, i \in Item :
        Holds(k, u, i)' => i = o \/ Holds(k, u, i)
  BY <1>2, <1>4, <1>5 DEF Holds, Holder
<1>8. ClaimsFit'
  BY <1>5, <1>6, <1>7 DEF Statuses, ClaimsFit, Fits
<1> QED
  BY <1>2, <1>5, <1>8 DEF Statuses, RequestsFit, ClosedInFlight

LEMMA ScheduleSourceStatuses ==
  ASSUME TypeOK, ClaimInv, ActivationInv, Statuses,
         NEW t \in Thread, NEW r \in todo[t], ScheduleSource(t, r)
  PROVE  Statuses'
<1> USE SchedulerAssumption DEF Thread
<1> DEFINE s == r[2]
           o == <<"run", s>>
<1>1. /\ Forget(t, r, {}) /\ s \in Source /\ s \in Node /\ o \in Item
      /\ r[1] \in {"check", "activate", "unthrottled"}
  <2>1. Forget(t, r, {}) /\ s \in Source /\ r[1] # "open"
    BY DEF ScheduleSource
  <2>2. s \in Node /\ o \in Item
    BY <2>1, ItemShape DEF Node
  <2>3. r[1] \in {"run", "close"} => s \in Join
    BY DEF ClaimInv, JoinsOnly
  <2>4. r[1] \in {"open", "check", "activate", "unthrottled", "run", "close"}
    BY DEF TypeOK, Request
  <2>5. s \notin Join
    BY <2>1
  <2> QED
    BY <2>1, <2>2, <2>3, <2>4, <2>5
<1>2. \A u \in Thread : todo'[u] = IF u = t THEN (todo[t] \ {r}) \cup {} ELSE todo[u]
  BY <1>1, RequestForgotten
<1>3. /\ status[s] = "chosen" => r[1] = "activate"
      /\ r[1] = "activate" => status[s] = "chosen"
      /\ r[1] # "activate" => status[s] \in {"active", "closed"}
  BY <1>1 DEF Statuses, RequestsFit
<1>4. /\ \A n \in Node \ {s} : status'[n] = status[n]
      /\ status'[s] = IF r[1] = "activate" THEN "active" ELSE status[s]
      /\ UNCHANGED <<item, phase>>
  <2>1. /\ status' = [status EXCEPT ![s] = IF r[1] = "activate" THEN "active" ELSE @]
        /\ UNCHANGED <<item, phase>>
    BY DEF ScheduleSource
  <2>2. status \in [Node -> {"waiting", "prepared", "opened", "chosen", "active", "closed"}]
    BY DEF TypeOK
  <2> HIDE DEF s
  <2> QED
    BY <1>1, <2>1, <2>2
<1>5. \/ UNCHANGED <<items, flight>>
      \/ s \notin flight /\ flight' = flight \cup {s} /\ items' = items \cup {o}
  BY DEF ScheduleSource, Push, queueVars
<1>6. \A k \in Where, u \in Holder, i \in Item :
        Holds(k, u, i)' => Holds(k, u, i) \/ (i = o /\ s \notin flight)
  BY <1>2, <1>4, <1>5 DEF Holds, Holder
<1>7. s \notin flight => status'[s] = "active"
  BY <1>1, <1>3, <1>4 DEF Statuses, ClosedInFlight
<1>8. ClaimsFit'
  BY <1>1, <1>3, <1>4, <1>6, <1>7, ItemShape DEF Statuses, ClaimsFit, Fits
<1>9. \A u \in Thread : \A x \in todo'[u] : x[1] = "activate" => x[2] # s
  <2> SUFFICES ASSUME NEW u \in Thread, NEW x \in todo'[u], x[1] = "activate", x[2] = s
               PROVE  FALSE
    OBVIOUS
  <2>1. x \in todo[u] /\ x \in Request
    BY <1>2 DEF TypeOK
  <2>2. status[s] = "chosen" /\ handler = u
    BY <2>1 DEF Statuses, RequestsFit, ActivationInv
  <2>3. r[1] = "activate" /\ handler = t
    BY <1>3, <2>2 DEF ActivationInv
  <2>4. x = r
    BY <2>1, <2>3, ItemShape DEF TypeOK
  <2> QED
    BY <1>2, <2>2, <2>3, <2>4
<1>10. RequestsFit'
  <2> SUFFICES ASSUME NEW u \in Thread, NEW x \in todo'[u]
               PROVE  /\ x[1] = "activate" => status'[x[2]] = "chosen"
                      /\ x[1] \in {"check", "unthrottled"} /\ x[2] \in Source
                           => status'[x[2]] \in {"active", "closed"}
    BY DEF RequestsFit
  <2>1. x \in todo[u] /\ x[2] \in Node
    BY <1>2, ItemShape DEF TypeOK
  <2> QED
    BY <1>3, <1>4, <1>9, <2>1 DEF Statuses, RequestsFit
<1>11. ClosedInFlight'
  BY <1>1, <1>4, <1>5 DEF Statuses, ClosedInFlight, Node
<1> QED
  BY <1>8, <1>10, <1>11 DEF Statuses

LEMMA CheckJoinStatuses ==
  ASSUME TypeOK, Statuses, NEW t \in Thread, NEW n \in Join, CheckJoin(t, n)
  PROVE  Statuses'
<1> USE SchedulerAssumption DEF Thread
<1>1. UNCHANGED <<items, item, phase, status>> /\ n \in Node /\ flight \subseteq flight'
  BY DEF CheckJoin, queueVars, Node
<1>2. \A u \in Thread : \A r \in todo'[u] :
        \/ r \in todo[u]
        \/ r \in {<<"run", n>>, <<"close", n>>} /\ status[n] = "opened"
        \/ r[1] = "unthrottled" /\ r[2] \in Source /\ status[r[2]] = "active"
  <2> DEFINE U == {"unthrottled"} \X Freed(InboxAfter(n), limit)
  <2>1. \A r \in U : r[1] = "unthrottled" /\ r[2] \in Source /\ status[r[2]] = "active"
    BY DEF Freed
  <2>2. CASE /\ status[n] = "opened" /\ Forget(t, <<"check", n>>, {<<"run", n>>} \cup U)
    <3>1. \A u \in Thread : todo'[u] = IF u = t THEN (todo[t] \ {<<"check", n>>}) \cup ({<<"run", n>>} \cup U)
                                       ELSE todo[u]
      BY <2>2, RequestForgotten
    <3> HIDE DEF U
    <3> QED
      BY <2>1, <2>2, <3>1
  <2>3. CASE status[n] = "opened" /\ Forget(t, <<"check", n>>, {<<"close", n>>})
    <3>1. \A u \in Thread : todo'[u] = IF u = t THEN (todo[t] \ {<<"check", n>>}) \cup {<<"close", n>>}
                                       ELSE todo[u]
      BY <2>3, RequestForgotten
    <3> QED
      BY <2>3, <3>1
  <2>4. CASE Forget(t, <<"check", n>>, {})
    <3>1. \A u \in Thread : todo'[u] = IF u = t THEN (todo[t] \ {<<"check", n>>}) \cup {}
                                       ELSE todo[u]
      BY <2>4, RequestForgotten
    <3> QED
      BY <3>1
  <2> QED
    BY <2>2, <2>3, <2>4 DEF CheckJoin
<1>3. \A k \in Where, u \in Holder, i \in Item :
        Holds(k, u, i)' => \/ Holds(k, u, i)
                           \/ i[1] # "open" /\ i[2] = n /\ status[n] = "opened"
  BY <1>1, <1>2, ItemShape DEF Holds, Holder
<1>4. ClaimsFit'
  BY <1>1, <1>3 DEF Statuses, ClaimsFit, Fits
<1>5. RequestsFit'
  BY <1>1, <1>2 DEF Statuses, RequestsFit
<1>6. ClosedInFlight'
  BY <1>1 DEF Statuses, ClosedInFlight
<1> QED
  BY <1>4, <1>5, <1>6 DEF Statuses

LEMMA AddJoinStatuses ==
  ASSUME TypeOK, Statuses, NEW t \in Thread, NEW o \in todo[t], AddJoin(t, o)
  PROVE  Statuses'
<1> USE SchedulerAssumption DEF Thread
<1>1. /\ o[1] \in {"run", "close"} /\ o[2] \in Join /\ o \in Item
      /\ UNCHANGED <<item, phase, status>>
      /\ items' \subseteq items \cup {o}
      /\ flight' = flight \/ flight' = flight \ {o[2]}
  BY DEF AddJoin, Item, Node, queueVars, Push
<1>2. Forget(t, o, {})
  BY DEF AddJoin
<1>3. \A u \in Thread : todo'[u] = IF u = t THEN (todo[t] \ {o}) \cup {} ELSE todo[u]
  BY <1>2, RequestForgotten
<1>4. Fits("todo", t, o)
  BY <1>1 DEF Statuses, ClaimsFit, Holds, Where, Holder
<1>5. status[o[2]] = "opened"
  BY <1>1, <1>4 DEF Fits
<1>6. \A k \in Where, u \in Holder, i \in Item :
        Holds(k, u, i)' => i = o \/ Holds(k, u, i)
  BY <1>1, <1>3 DEF Holds, Holder
<1>7. ClaimsFit'
  BY <1>1, <1>5, <1>6 DEF Statuses, ClaimsFit, Fits
<1> QED
  BY <1>1, <1>3, <1>5, <1>7 DEF Statuses, RequestsFit, ClosedInFlight

-----------------------------------------------------------------------------
LEMMA RunNextTaskStatuses ==
  ASSUME TypeOK, Statuses, NEW t \in Thread, NEW q \in Queue, RunNextTask(t, q)
  PROVE  Statuses'
<1> USE SchedulerAssumption DEF Thread
<1>1. PICK o \in items :
        /\ items' = items \ {o}
        /\ item' = [item EXCEPT ![t] = o]
        /\ phase' = [phase EXCEPT ![t] = "popped"]
        /\ UNCHANGED <<todo, status, flight>>
  BY DEF RunNextTask, ItemsOf, nodeVars
<1>2. o \in Item /\ Fits("queue", None, o)
  BY DEF Holds, TypeOK, Where, Holder, Statuses, ClaimsFit
<1>3. \A k \in Where, u \in Holder, i \in Item :
        Holds(k, u, i)' => \/ i = o
                           \/ Holds(k, u, i) /\ ~(k = "work" /\ u = t)
  BY <1>1 DEF Holds, Holder, TypeOK
<1>4. \A u \in Thread \ {t} : phase'[u] = phase[u]
  BY <1>1 DEF TypeOK
<1>5. ClaimsFit'
  BY <1>1, <1>2, <1>3, <1>4 DEF Statuses, ClaimsFit, Fits, Holds, Holder, Where
<1> QED
  BY <1>1, <1>5 DEF Statuses, RequestsFit, ClosedInFlight

LEMMA OpenNodeStatuses ==
  ASSUME TypeOK, ClaimInv, Statuses, NEW t \in Thread, NEW n \in Node, OpenNode(t, n)
  PROVE  Statuses'
<1> USE SchedulerAssumption DEF Thread
<1> DEFINE o == <<"open", n>>
<1>1. /\ UNCHANGED <<items, flight, item>>
      /\ status'[n] = "opened" /\ \A m \in Node \ {n} : status'[m] = status[m]
      /\ \A u \in Thread \ {t} : todo'[u] = todo[u] /\ phase'[u] = phase[u]
      /\ phase'[t] = "ended" /\ phase[t] = "popped" /\ item[t] = o
  BY DEF OpenNode, queueVars, TypeOK, Popped
<1>2. \A r \in todo'[t] : r[1] = "check" /\ r[2] \in Join
  BY DEF OpenNode, TypeOK
<1>3. o \in Item /\ o[1] = "open" /\ o[2] = n
  BY ItemShape
<1>4. Holds("work", t, o)
  BY <1>1 DEF Holds
<1>5. status[n] = "prepared"
  BY <1>1, <1>3, <1>4 DEF Statuses, ClaimsFit, Fits, Where, Holder
<1>6. \A k \in Where, u \in Holder, i \in Item :
        Holds(k, u, i)' => Holds(k, u, i) /\ ~(k = "work" /\ u = t)
  BY <1>1, <1>2, ItemShape DEF Holds, Holder
<1>7. \A k \in Where, u \in Holder, i \in Item :
        Holds(k, u, i)' => i[2] # n
  <2> SUFFICES ASSUME NEW k \in Where, NEW u \in Holder, NEW i \in Item,
                      Holds(k, u, i)', i[2] = n
               PROVE  FALSE
    OBVIOUS
  <2>1. Holds(k, u, i) /\ ~(k = "work" /\ u = t)
    BY <1>6
  <2>2. i[1] # "open"
    BY <1>3, <1>4, <2>1 DEF ClaimInv, ClaimsUnique, SameClaim, Where, Holder
  <2>3. Fits(k, u, i)
    BY <2>1 DEF Statuses, ClaimsFit
  <2> QED
    BY <1>5, <2>2, <2>3 DEF Fits
<1>8. ClaimsFit'
  <2> SUFFICES ASSUME NEW k \in Where, NEW u \in Holder, NEW i \in Item, Holds(k, u, i)'
               PROVE  Fits(k, u, i)'
    BY DEF ClaimsFit
  <2>1. Fits(k, u, i) /\ i[2] \in Node \ {n} /\ ~(k = "work" /\ u = t)
    BY <1>6, <1>7, ItemShape DEF Statuses, ClaimsFit
  <2>2. k = "work" => u \in Thread
    BY <1>6 DEF Holds, Holder
  <2> QED
    BY <1>1, <2>1, <2>2 DEF Fits
<1>9. RequestsFit'
  <2> SUFFICES ASSUME NEW u \in Thread, NEW x \in todo'[u]
               PROVE  /\ x[1] = "activate" => status'[x[2]] = "chosen"
                      /\ x[1] \in {"check", "unthrottled"} /\ x[2] \in Source
                           => status'[x[2]] \in {"active", "closed"}
    BY DEF RequestsFit
  <2>1. CASE u = t
    BY <1>2, <2>1
  <2>2. CASE u # t
    <3>1. x \in todo[u] /\ x[2] \in Node
      BY <1>1, <2>2, ItemShape DEF TypeOK
    <3> QED
      BY <1>1, <1>5, <3>1 DEF Statuses, RequestsFit
  <2> QED
    BY <2>1, <2>2
<1>10. ClosedInFlight'
  BY <1>1 DEF Statuses, ClosedInFlight, Node
<1> QED
  BY <1>8, <1>9, <1>10 DEF Statuses

\* The node that a thread runs is opened or active.
LEMMA PoppedStatus ==
  ASSUME TypeOK, ClaimInv, Statuses
  PROVE  \A t \in Thread, n \in Node, kind \in {"run", "close"} :
           Popped(t, kind, n) =>
             /\ Holds("work", t, <<kind, n>>)
             /\ n \in Join => status[n] = "opened"
             /\ n \notin Join => status[n] = "active"
             /\ n \in flight
<1> USE SchedulerAssumption DEF Thread
<1> TAKE t \in Thread, n \in Node, kind \in {"run", "close"}
<1> HAVE Popped(t, kind, n)
<1> DEFINE o == <<kind, n>>
<1>1. o \in Item /\ o[1] = kind /\ o[2] = n
  BY ItemShape
<1>2. Holds("work", t, o) /\ phase[t] = "popped"
  BY DEF Holds, Popped
<1>3. Fits("work", t, o)
  BY <1>1, <1>2 DEF Statuses, ClaimsFit, Where, Holder
<1>4. n \in flight
  BY <1>1, <1>2 DEF ClaimInv, ClaimsMarked, Where, Holder
<1> QED
  BY <1>1, <1>2, <1>3, <1>4 DEF Fits

\* ... and closes, or is still open, when Process() or Close() has returned.
LEMMA ProcessedStatuses ==
  ASSUME TypeOK, ClaimInv, Statuses, NEW t \in Thread, NEW n \in Node,
         NEW kind \in {"run", "close"}, Popped(t, kind, n),
         UNCHANGED <<items, flight, item>>,
         status'[n] \in {status[n], "closed"},
         \A m \in Node \ {n} : status'[m] = status[m],
         \A u \in Thread \ {t} : todo'[u] = todo[u] /\ phase'[u] = phase[u],
         phase'[t] = "processed",
         \A r \in todo'[t] : r \in todo[t] \/ (r[1] = "check" /\ r[2] \in Join)
  PROVE  Statuses'
<1> DEFINE o == <<kind, n>>
<1>2. /\ Holds("work", t, o)
      /\ n \in Join => status[n] = "opened"
      /\ n \notin Join => status[n] = "active"
      /\ n \in flight
  BY PoppedStatus
<1> USE SchedulerAssumption DEF Thread
<1>1. o \in Item /\ o[1] = kind /\ o[2] = n
  BY ItemShape
<1>3. \A k \in Where, u \in Holder, i \in Item : Holds(k, u, i)' => Holds(k, u, i)
  <2>1. phase[t] = "popped"
    BY DEF Popped
  <2>2. \A u \in Thread : \A i \in Item : i \in todo'[u] => i \in todo[u]
    BY ItemShape
  <2> QED
    BY <2>1, <2>2 DEF Holds, Holder
<1>4. \A k \in Where, u \in Holder, i \in Item :
        Holds(k, u, i)' /\ i[2] = n => k = "work" /\ u = t /\ i = o
  <2> SUFFICES ASSUME NEW k \in Where, NEW u \in Holder, NEW i \in Item,
                      Holds(k, u, i), i[2] = n
               PROVE  k = "work" /\ u = t /\ i = o
    BY <1>3
  <2>1. i[1] # "open"
    BY <1>2 DEF Statuses, ClaimsFit, Fits
  <2> QED
    BY <1>1, <1>2, <2>1 DEF ClaimInv, ClaimsUnique, SameClaim, Where, Holder
<1>5. ClaimsFit'
  <2> SUFFICES ASSUME NEW k \in Where, NEW u \in Holder, NEW i \in Item, Holds(k, u, i)'
               PROVE  Fits(k, u, i)'
    BY DEF ClaimsFit
  <2>1. CASE i[2] = n
    BY <1>1, <1>2, <1>4, <2>1 DEF Fits, Node
  <2>2. CASE i[2] # n
    <3>1. Fits(k, u, i) /\ i[2] \in Node
      BY <1>3, ItemShape DEF Statuses, ClaimsFit
    <3>2. u # t => phase'[u] = phase[u] \/ u = None
      BY DEF Holder
    <3>3. k = "work" => u # None
      BY DEF Holds
    <3> QED
      BY <2>2, <3>1, <3>2, <3>3 DEF Fits
  <2> QED
    BY <2>1, <2>2
<1>6. RequestsFit'
  <2> SUFFICES ASSUME NEW u \in Thread, NEW x \in todo'[u]
               PROVE  /\ x[1] = "activate" => status'[x[2]] = "chosen"
                      /\ x[1] \in {"check", "unthrottled"} /\ x[2] \in Source
                           => status'[x[2]] \in {"active", "closed"}
    BY DEF RequestsFit
  <2>1. CASE x \in todo[u]
    <3>1. x[2] \in Node
      BY <2>1, ItemShape DEF TypeOK
    <3> QED
      BY <1>2, <2>1, <3>1 DEF Statuses, RequestsFit
  <2> QED
    BY <2>1
<1>7. ClosedInFlight'
  BY <1>2 DEF Statuses, ClosedInFlight, Node
<1> QED
  BY <1>5, <1>6, <1>7 DEF Statuses

LEMMA RunSourceStatuses ==
  ASSUME TypeOK, ClaimInv, Statuses, NEW t \in Thread, NEW s \in Source, RunSource(t, s)
  PROVE  Statuses'
<1>1. /\ Popped(t, "run", s) /\ s \in Node
      /\ UNCHANGED <<items, flight, item>>
      /\ \A u \in Thread \ {t} : todo'[u] = todo[u] /\ phase'[u] = phase[u]
      /\ phase'[t] = "processed"
  BY DEF RunSource, queueVars, TypeOK, Node
<1>2. status'[s] \in {status[s], "closed"} /\ \A m \in Node \ {s} : status'[m] = status[m]
  BY <1>1 DEF RunSource, TypeOK
<1>3. \A r \in todo'[t] : r[1] = "check" /\ r[2] \in Join
  BY DEF RunSource, TypeOK, Reached
<1> QED
  BY <1>1, <1>2, <1>3, ProcessedStatuses

LEMMA CloseJoinStatuses ==
  ASSUME TypeOK, ClaimInv, Statuses, NEW t \in Thread, NEW n \in Join, CloseJoin(t, n)
  PROVE  Statuses'
<1>1. /\ Popped(t, "close", n) /\ n \in Node
      /\ UNCHANGED <<items, flight, item, todo>>
      /\ \A u \in Thread \ {t} : phase'[u] = phase[u]
      /\ phase'[t] = "processed"
      /\ status'[n] = "closed" /\ \A m \in Node \ {n} : status'[m] = status[m]
  BY DEF CloseJoin, queueVars, TypeOK, Node
<1> QED
  BY <1>1, ProcessedStatuses

LEMMA RunJoinStatuses ==
  ASSUME TypeOK, ClaimInv, Statuses, NEW t \in Thread, NEW n \in Join, RunJoin(t, n)
  PROVE  Statuses'
<1> USE SchedulerAssumption DEF Thread
<1>1. /\ Popped(t, "run", n) /\ n \in Node
      /\ UNCHANGED <<items, flight, item>>
      /\ \A u \in Thread \ {t} : phase'[u] = phase[u]
      /\ phase'[t] = "processed" /\ phase[t] = "popped"
  BY DEF RunJoin, queueVars, TypeOK, Popped, Node
<1>2. CASE UNCHANGED <<status, todo>>
  BY <1>1, <1>2, ProcessedStatuses
<1>3. CASE /\ status' = [s \in Node |-> IF s \in Late /\ status[s] = "waiting"
                                        THEN "prepared" ELSE status[s]]
           /\ todo' = [todo EXCEPT ![t] = {"open"} \X
                         {s \in Late : status[s] = "waiting"}]
  <2>1. \A r \in todo'[t] : r[1] = "open" /\ r[2] \in Late /\ status[r[2]] = "waiting"
    BY <1>3 DEF TypeOK
  <2>2. \A u \in Thread \ {t} : todo'[u] = todo[u]
    BY <1>3 DEF TypeOK
  <2>3. \A m \in Node : \/ status'[m] = status[m]
                        \/ m \in Late /\ status[m] = "waiting" /\ status'[m] = "prepared"
    BY <1>3 DEF TypeOK
  <2>4. \A s \in Late : status[s] = "waiting" => status'[s] = "prepared"
    BY <1>3 DEF TypeOK, Node
  <2>5. \A k \in Where, u \in Holder, i \in Item :
          Holds(k, u, i)' => \/ i[1] = "open" /\ status'[i[2]] = "prepared"
                             \/ Holds(k, u, i)
    BY <1>1, <2>1, <2>2, <2>4 DEF Holds, Holder
  <2>6. ClaimsFit'
    <3> SUFFICES ASSUME NEW k \in Where, NEW u \in Holder, NEW i \in Item,
                        Holds(k, u, i)', Holds(k, u, i)
                 PROVE  Fits(k, u, i)'
      BY <2>5 DEF ClaimsFit, Fits
    <3>1. Fits(k, u, i) /\ i[2] \in Node
      BY ItemShape DEF Statuses, ClaimsFit
    <3>2. k = "work" => u # None
      BY DEF Holds
    <3> QED
      BY <1>1, <2>3, <3>1, <3>2 DEF Fits, Holder
  <2>7. RequestsFit'
    <3> SUFFICES ASSUME NEW u \in Thread, u # t, NEW x \in todo'[u]
                 PROVE  /\ x[1] = "activate" => status'[x[2]] = "chosen"
                        /\ x[1] \in {"check", "unthrottled"} /\ x[2] \in Source
                             => status'[x[2]] \in {"active", "closed"}
      BY <2>1 DEF RequestsFit
    <3>1. x \in todo[u] /\ x[2] \in Node
      BY <2>2, ItemShape DEF TypeOK
    <3> QED
      BY <2>3, <3>1 DEF Statuses, RequestsFit
  <2>8. ClosedInFlight'
    BY <1>1, <2>3 DEF Statuses, ClosedInFlight, Node
  <2> QED
    BY <2>6, <2>7, <2>8 DEF Statuses
<1> QED
  BY <1>2, <1>3 DEF RunJoin

-----------------------------------------------------------------------------
LEMMA EndSchedulingStatuses ==
  ASSUME TypeOK, TasksHaveItems, ClaimInv, Statuses, NEW t \in Thread, EndScheduling(t)
  PROVE  Statuses'
<1> USE SchedulerAssumption DEF Thread
<1> DEFINE o == item[t]
           n == o[2]
<1>1. /\ UNCHANGED <<items, item, status>>
      /\ \A u \in Thread \ {t} : phase'[u] = phase[u]
      /\ phase'[t] = "ended" /\ phase[t] = "processed"
      /\ \A u \in Thread : \A r \in todo'[u] :
           r \in todo[u] \/ (r = <<"check", n>> /\ status[n] \in {"opened", "active"})
      /\ \/ flight' = flight
         \/ flight' = flight \ {n} /\ status[n] \in {"opened", "active"}
  BY DEF EndScheduling, queueVars, TypeOK
<1>2. Holds("work", t, o) /\ o \in Item /\ o[1] # "open"
  BY <1>1 DEF Holds, TasksHaveItems, ClaimInv, JoinsOnly
<1>3. Fits("work", t, o)
  BY <1>2 DEF Statuses, ClaimsFit, Where, Holder
<1>4. \A k \in Where, u \in Holder, i \in Item :
        Holds(k, u, i)' => Holds(k, u, i) /\ ~(k = "work" /\ u = t)
  BY <1>1, ItemShape DEF Holds, Holder
<1>5. ClaimsFit'
  <2> SUFFICES ASSUME NEW k \in Where, NEW u \in Holder, NEW i \in Item, Holds(k, u, i)'
               PROVE  Fits(k, u, i)'
    BY DEF ClaimsFit
  <2>1. Fits(k, u, i) /\ ~(k = "work" /\ u = t)
    BY <1>4 DEF Statuses, ClaimsFit
  <2>2. k = "work" => u \in Thread
    BY <1>4 DEF Holds, Holder
  <2> QED
    BY <1>1, <2>1, <2>2 DEF Fits
<1>6. RequestsFit'
  <2>1. n \in Source /\ status[n] \in {"opened", "active"} => status[n] = "active"
    BY <1>2, <1>3 DEF Fits
  <2> QED
    BY <1>1, <2>1 DEF Statuses, RequestsFit
<1>7. ClosedInFlight'
  BY <1>1 DEF Statuses, ClosedInFlight
<1> QED
  BY <1>5, <1>6, <1>7 DEF Statuses

LEMMA FinishTaskStatuses ==
  ASSUME TypeOK, Statuses, NEW t \in Thread, NEW q \in Queue, FinishTask(t, q)
  PROVE  Statuses'
<1> USE SchedulerAssumption DEF Thread
<1>1. /\ UNCHANGED <<items, todo, status, flight>>
      /\ \A u \in Thread \ {t} : phase'[u] = phase[u] /\ item'[u] = item[u]
      /\ phase'[t] = "none"
  BY DEF FinishTask, nodeVars, TypeOK
<1>2. \A k \in Where, u \in Holder, i \in Item :
        Holds(k, u, i)' => Holds(k, u, i) /\ ~(k = "work" /\ u = t)
  BY <1>1 DEF Holds, Holder
<1>3. ClaimsFit'
  <2> SUFFICES ASSUME NEW k \in Where, NEW u \in Holder, NEW i \in Item, Holds(k, u, i)'
               PROVE  Fits(k, u, i)'
    BY DEF ClaimsFit
  <2>1. Fits(k, u, i) /\ ~(k = "work" /\ u = t)
    BY <1>2 DEF Statuses, ClaimsFit
  <2>2. k = "work" => u \in Thread
    BY <1>2 DEF Holds, Holder
  <2> QED
    BY <1>1, <2>1, <2>2 DEF Fits
<1> QED
  BY <1>1, <1>3 DEF Statuses, RequestsFit, ClosedInFlight

LEMMA AppStatuses ==
  ASSUME TypeOK, Statuses, NEW a \in App, AddPacket(a) \/ CloseInput(a)
  PROVE  Statuses'
<1> USE SchedulerAssumption DEF Thread
<1>1. /\ UNCHANGED <<items, item, phase, status, flight>>
      /\ todo' = [todo EXCEPT ![a] = Reached(Input)]
  BY DEF AddPacket, CloseInput, nodeVars, queueVars
<1>2. \A u \in Thread : \A r \in todo'[u] : r \in todo[u] \/ (r[1] = "check" /\ r[2] \in Join)
  BY <1>1 DEF TypeOK, Reached
<1>3. \A k \in Where, u \in Holder, i \in Item : Holds(k, u, i)' => Holds(k, u, i)
  BY <1>1, <1>2, ItemShape DEF Holds, Holder
<1> QED
  BY <1>1, <1>2, <1>3 DEF Statuses, ClaimsFit, RequestsFit, ClosedInFlight, Fits

\* CleanupAfterRun closes every source, whatever is scheduled.
StatusInv == call[Main] # "cleanup" => Statuses

\* Cleaning up is never left.
LEMMA CleanupStays ==
  ASSUME TypeOK, [Next]_vars, call'[Main] # "cleanup"
  PROVE  call[Main] # "cleanup" /\ ~StartCleanup
<1> USE SchedulerAssumption DEF appVars
<1>1. CASE UNCHANGED call
  BY <1>1 DEF TypeOK, StartCleanup
<1>2. ASSUME NEW t \in Thread, Continue(t)
      PROVE  UNCHANGED call
  <2>1. CASE Handling(t)
    BY <2>1 DEF Handling, StopHandling, NothingLeft, ReportSourceDeadlock,
       Quit, TryToUnthrottle, ChooseSources, StopQueues, RestartQueues,
       UnthrottleSources, Relock
  <2>2. CASE Scheduling(t)
    BY <2>2 DEF Scheduling, BecomeActive, BecomeIdle, SubmitAfterHandling,
       AddTask, SubmitWaitingTasks, ScheduleForOpen, ScheduleSource, AddJoin,
       CheckJoin
  <2>3. CASE Running(t)
    BY <2>3 DEF Running, RunNextTask, FinishTask, OpenNode, RunSource, RunJoin,
       CloseJoin, EndScheduling
  <2> QED
    BY <1>2, <2>1, <2>2, <2>3 DEF Continue
<1>3. ASSUME NEW a \in App, Finish(a) \/ AddPacket(a) \/ CloseInput(a)
      PROVE  call[Main] # "cleanup" /\ ~StartCleanup
  BY <1>3 DEF TypeOK, StartCleanup, Finish, AddedPacket, ClosedAllInputs,
              AddPacket, CloseInput, Begin
<1>4. ASSUME NEW a \in App, Pause(a) \/ Resume(a) \/ Cancel(a)
      PROVE  UNCHANGED call
  BY <1>4 DEF Pause, Resume, Cancel
<1>5. CASE Start
  BY <1>1, <1>5 DEF Start
<1>6. ASSUME NEW q \in Queue, CleanupQueue(q)
      PROVE  UNCHANGED call
  BY <1>6 DEF CleanupQueue
<1>7. ~StartCleanup
  BY DEF StartCleanup, TypeOK
<1>8. CASE UNCHANGED vars
  BY <1>1, <1>8 DEF vars
<1> QED
  BY <1>1, <1>2, <1>3, <1>4, <1>5, <1>6, <1>7, <1>8 DEF Next

\* Every step keeps the statuses.
LEMMA StatusStep ==
  ASSUME TypeOK, TasksHaveItems, ClaimInv, ActivationInv, StatusInv, [Next]_vars
  PROVE  StatusInv'
<1> SUFFICES ASSUME call'[Main] # "cleanup"
             PROVE  Statuses'
  BY DEF StatusInv
<1>1. call[Main] # "cleanup" /\ ~StartCleanup
  BY CleanupStays
<1>2. Statuses
  BY <1>1 DEF StatusInv
<1>3. CASE UNCHANGED claimVars
  BY <1>2, <1>3 DEF claimVars, Statuses, ClaimsFit, RequestsFit, ClosedInFlight,
                    Holds, Fits
<1>4. ASSUME NEW t \in Thread, Running(t)
      PROVE  Statuses'
  BY <1>2, <1>4, RunNextTaskStatuses, OpenNodeStatuses, RunSourceStatuses,
     RunJoinStatuses, CloseJoinStatuses, EndSchedulingStatuses,
     FinishTaskStatuses DEF Running
<1>5. ASSUME NEW t \in Thread, NodeStep(t)
      PROVE  Statuses'
  BY <1>2, <1>4, <1>5, HandlerStatuses, ScheduleForOpenStatuses,
     ScheduleSourceStatuses, AddJoinStatuses, CheckJoinStatuses, AppStatuses
     DEF NodeStep
<1>6. \A q \in Queue : ~CleanupQueue(q)
  BY <1>1 DEF CleanupQueue
<1> QED
  BY <1>1, <1>3, <1>5, <1>6, StepCases

-----------------------------------------------------------------------------
\* Outside HandleIdle a step enters it at most.
LEMMA HandlerCases ==
  ASSUME [Next]_vars
  PROVE  \/ \E t \in Thread : Handling(t)
         \/ UNCHANGED idleVars
         \/ \E t \in Thread : EnterHandleIdle(t) /\ smutex = None
<1>1. CASE UNCHANGED vars
  BY <1>1 DEF vars
<1>2. ASSUME NEW t \in Thread, Scheduling(t)
      PROVE  UNCHANGED idleVars \/ (EnterHandleIdle(t) /\ smutex = None)
  BY <1>2 DEF Scheduling, BecomeActive, BecomeIdle, SubmitAfterHandling,
       AddTask, SubmitWaitingTasks, ScheduleForOpen, ScheduleSource, AddJoin,
       CheckJoin
<1>3. ASSUME NEW t \in Thread, Running(t)
      PROVE  UNCHANGED idleVars
  BY <1>3 DEF Running, RunNextTask, FinishTask, OpenNode, RunSource, RunJoin,
       CloseJoin, EndScheduling
<1>4. ASSUME NEW a \in App, Finish(a) \/ AddPacket(a) \/ CloseInput(a)
                            \/ Pause(a) \/ Resume(a) \/ Cancel(a)
      PROVE  UNCHANGED idleVars \/ (EnterHandleIdle(a) /\ smutex = None)
  BY <1>4 DEF Finish, AddedPacket, ClosedAllInputs, AddPacket, CloseInput,
              Pause, Resume, Cancel
<1>5. CASE Start
  BY <1>5, SchedulerAssumption DEF Start, Thread
<1>6. ASSUME NEW q \in Queue, CleanupQueue(q) \/ StartCleanup
      PROVE  UNCHANGED idleVars
  BY <1>6 DEF CleanupQueue, StartCleanup
<1>7. CASE StartCleanup
  BY <1>7 DEF StartCleanup
<1>8. App \subseteq Thread
  BY DEF Thread
<1> QED
  BY <1>1, <1>2, <1>3, <1>4, <1>5, <1>6, <1>7, <1>8 DEF Next, Continue

\* Only StopQueues asks for sources to be activated.
LEMMA NoNewActivation ==
  ASSUME TypeOK, [Next]_vars, \A t \in Thread : ~StopQueues(t)
  PROVE  \A u \in Thread : \A r \in todo'[u] : r \in todo[u] \/ r[1] # "activate"
<1> DEFINE Goal == \A u \in Thread : \A r \in todo'[u] : r \in todo[u] \/ r[1] # "activate"
<1>1. ASSUME NEW t \in Thread, NEW S,
             \A r \in S : r \in todo[t] \/ r[1] # "activate",
             todo' = [todo EXCEPT ![t] = S]
      PROVE  Goal
  BY <1>1 DEF TypeOK
<1>2. ASSUME NEW t \in Thread, NEW r, NEW more, \A x \in more : x[1] # "activate",
             Forget(t, r, more)
      PROVE  Goal
  <2>1. \A u \in Thread : todo'[u] = IF u = t THEN (todo[t] \ {r}) \cup more ELSE todo[u]
    BY <1>2, RequestForgotten
  <2> QED
    BY <1>2, <2>1
<1>3. ASSUME NEW t \in Thread, ChooseSources(t) \/ UnthrottleSources(t)
      PROVE  Goal
  <2>1. CASE ChooseSources(t)
    BY <2>1 DEF ChooseSources, workVars
  <2>2. CASE UnthrottleSources(t)
    <3> DEFINE l == [e \in Stream |-> IF Full(e) THEN inbox[e] + 1 ELSE limit[e]]
    <3>1. todo' = [todo EXCEPT ![t] = @ \cup ({"unthrottled"} \X Freed(inbox, l))]
      BY <2>2 DEF UnthrottleSources
    <3> HIDE DEF l
    <3>2. \A r \in {"unthrottled"} \X Freed(inbox, l) : r[1] # "activate"
      OBVIOUS
    <3> QED
      BY <1>1, <3>1, <3>2
  <2> QED
    BY <1>3, <2>1, <2>2
<1>4. ASSUME NEW t \in Thread, NEW n \in Node, ScheduleForOpen(t, n)
      PROVE  Goal
  BY <1>2, <1>4 DEF ScheduleForOpen
<1>5. ASSUME NEW t \in Thread, NEW r \in todo[t], ScheduleSource(t, r) \/ AddJoin(t, r)
      PROVE  Goal
  BY <1>2, <1>5 DEF ScheduleSource, AddJoin
<1>6. ASSUME NEW t \in Thread, NEW n \in Join, CheckJoin(t, n)
      PROVE  Goal
  <2> DEFINE U == {"unthrottled"} \X Freed(InboxAfter(n), limit)
  <2>1. \A x \in U : x[1] # "activate"
    OBVIOUS
  <2>2. \E m \in {{<<"run", n>>} \cup U, {<<"close", n>>}, {}} : Forget(t, <<"check", n>>, m)
    BY <1>6 DEF CheckJoin
  <2>3. <<"run", n>>[1] # "activate" /\ <<"close", n>>[1] # "activate"
    OBVIOUS
  <2> HIDE DEF U
  <2>4. \A m \in {{<<"run", n>>} \cup U, {<<"close", n>>}, {}} : \A x \in m : x[1] # "activate"
    BY <2>1, <2>3
  <2> QED
    BY <1>2, <2>2, <2>4
<1>7. ASSUME NEW t \in Worker, Running(t)
      PROVE  Goal
  <2>0. t \in Thread
    BY DEF Thread
  <2>1. CASE UNCHANGED todo
    BY <2>1
  <2>2. ASSUME NEW n \in Node, OpenNode(t, n)
        PROVE  Goal
    BY <1>1, <2>0, <2>2 DEF OpenNode
  <2>3. ASSUME NEW s \in Source, RunSource(t, s)
        PROVE  Goal
    BY <1>1, <2>0, <2>3 DEF RunSource, Reached
  <2>4. ASSUME NEW n \in Join, RunJoin(t, n)
        PROVE  Goal
    <3> DEFINE S == {"open"} \X {s \in Late : status[s] = "waiting"}
    <3>1. CASE todo' = todo
      BY <3>1
    <3>0. todo' = todo \/ todo' = [todo EXCEPT ![t] = S]
      BY <2>4, Zenon DEF RunJoin
    <3>2. \A r \in S : r[1] # "activate"
      OBVIOUS
    <3> HIDE DEF S
    <3>3. CASE todo' = [todo EXCEPT ![t] = S]
      <4>1. \A r \in S : r \in todo[t] \/ r[1] # "activate"
        BY <3>2
      <4> QED
        BY <1>1, <2>0, <3>3, <4>1
    <3> QED
      BY <3>0, <3>1, <3>3
  <2>5. CASE EndScheduling(t)
    <3> DEFINE S == {<<"check", item[t][2]>>}
    <3>0. UNCHANGED todo \/ todo' = [todo EXCEPT ![t] = S]
      BY <2>5 DEF EndScheduling
    <3>1. CASE UNCHANGED todo
      BY <3>1
    <3>2. \A r \in S : r[1] # "activate"
      OBVIOUS
    <3> HIDE DEF S
    <3>3. CASE todo' = [todo EXCEPT ![t] = S]
      <4>1. \A r \in S : r \in todo[t] \/ r[1] # "activate"
        BY <3>2
      <4> QED
        BY <1>1, <2>0, <3>3, <4>1
    <3> QED
      BY <3>0, <3>1, <3>3
  <2> QED
    BY <1>7, <2>1, <2>2, <2>3, <2>4, <2>5 DEF Running, RunNextTask, FinishTask,
       CloseJoin
<1>8. ASSUME NEW a \in App, AddPacket(a) \/ CloseInput(a)
      PROVE  Goal
  <2>1. a \in Thread
    BY DEF Thread
  <2>2. \A r \in Reached(Input) : r[1] # "activate"
    BY DEF Reached
  <2> QED
    <3>1. todo' = [todo EXCEPT ![a] = Reached(Input)]
      BY <1>8 DEF AddPacket, CloseInput
    <3> QED
      BY <1>1, <2>1, <2>2, <3>1
<1>9. CASE UNCHANGED todo
  BY <1>9
<1>10. ASSUME NEW t \in Thread, NodeStep(t)
       PROVE  Goal
  BY <1>3, <1>4, <1>5, <1>6, <1>7, <1>8, <1>10 DEF NodeStep
<1> QED
  BY <1>9, <1>10, StepCases DEF claimVars, StartCleanup, CleanupQueue, workVars

\* Every step keeps the requests for activation with the handler.
LEMMA ActivationStep ==
  ASSUME TypeOK, HandlerMatches, ActivationInv, [Next]_vars
  PROVE  ActivationInv'
<1> USE SchedulerAssumption DEF ActivationInv, idleVars
<1>1. ASSUME NEW t \in Thread, StopQueues(t)
      PROVE  ActivationInv'
  <2> DEFINE C == {s \in Source : status[s] = "chosen"}
  <2>1. \A u \in Thread : todo'[u] = IF u = t THEN todo[t] \cup ({"activate"} \X C) ELSE todo[u]
    BY <1>1 DEF StopQueues, TypeOK
  <2>2. \A r \in {"activate"} \X C : r[2] \in Source
    OBVIOUS
  <2>3. \A u \in Thread : \A r \in todo[u] : r[1] # "activate"
    BY <1>1 DEF StopQueues
  <2>4. handler' = t /\ stage' = "add"
    BY <1>1 DEF StopQueues
  <2> HIDE DEF C
  <2> QED
    BY <2>1, <2>2, <2>3, <2>4
<1>2. CASE \A t \in Thread : ~StopQueues(t)
  <2>1. \A u \in Thread : \A r \in todo'[u] : r \in todo[u] \/ r[1] # "activate"
    BY <1>2, NoNewActivation
  <2>2. CASE UNCHANGED idleVars
    BY <2>1, <2>2
  <2>3. ASSUME NEW t \in Thread, EnterHandleIdle(t)
        PROVE  ActivationInv'
    BY <2>1, <2>3 DEF EnterHandleIdle, HandlerMatches
  <2>4. ASSUME NEW t \in Thread, RestartQueues(t)
        PROVE  ActivationInv'
    <3>1. \A u \in Thread : \A r \in todo[u] : r[1] # "activate"
      <4> SUFFICES ASSUME NEW u \in Thread, NEW r \in todo[u], r[1] = "activate"
                   PROVE  FALSE
        OBVIOUS
      <4>1. u = t /\ r[2] \in Source
        BY <2>4 DEF RestartQueues
      <4>2. r \in Handled
        BY <4>1, ItemShape DEF Handled, TypeOK
      <4> QED
        BY <2>4, <4>1, <4>2 DEF RestartQueues, Scheduled
    <3> QED
      BY <2>1, <3>1
  <2>5. ASSUME NEW t \in Thread, Handling(t), ~RestartQueues(t)
        PROVE  UNCHANGED <<handler, stage>> \/ stage # "add"
    BY <1>2, <2>5 DEF Handling, StopHandling, NothingLeft, ReportSourceDeadlock,
       Quit, TryToUnthrottle, ChooseSources, UnthrottleSources, Relock, InLoop
  <2>6. ASSUME NEW t \in Thread, Handling(t)
        PROVE  ActivationInv'
    BY <2>1, <2>4, <2>5, <2>6
  <2> QED
    BY <2>2, <2>3, <2>6, HandlerCases
<1> QED
  BY <1>1, <1>2

-----------------------------------------------------------------------------
\* At the start the nodes to open are requests of Start.
LEMMA InitClaims == Init => ClaimInv /\ ActivationInv /\ StatusInv
<1> SUFFICES ASSUME Init PROVE ClaimInv /\ ActivationInv /\ StatusInv
  OBVIOUS
<1> USE SchedulerAssumption DEF Init, Thread
<1>1. \A t \in Thread : \A r \in todo[t] :
        /\ t = Main /\ r[1] = "open" /\ r[2] \in Node \ Late
        /\ status[r[2]] = "prepared" /\ r = <<"open", r[2]>>
  OBVIOUS
<1>2. \A k \in Where, t \in Holder, i \in Item : Holds(k, t, i) =>
        /\ k = "todo" /\ t = Main /\ i[1] = "open" /\ i = <<"open", i[2]>>
        /\ status[i[2]] = "prepared"
  BY <1>1 DEF Holds, Holder, Where
<1> HIDE SchedulerAssumption DEF Init, Thread
<1>3. ClaimsUnique
  BY <1>2 DEF ClaimsUnique, SameClaim
<1> USE SchedulerAssumption DEF Init, Thread
<1>4. ClaimInv
  BY <1>1, <1>2, <1>3 DEF ClaimInv, ClaimsMarked, JoinsOnly
<1>5. ActivationInv
  BY <1>1 DEF ActivationInv
<1>6. Statuses
  BY <1>1, <1>2 DEF Statuses, ClaimsFit, Fits, RequestsFit, ClosedInFlight, Node
<1> QED
  BY <1>4, <1>5, <1>6 DEF StatusInv

\* The invariant of the nodes.
NodesInv == ClaimInv /\ ActivationInv /\ StatusInv

LEMMA NodesInvariant == Spec => []NodesInv
<1>1. Init => NodesInv
  BY InitClaims DEF NodesInv
<1>2. BaseInv /\ NodesInv /\ [Next]_vars => NodesInv'
  <2>1. BaseInv => TypeOK /\ HandlerMatches /\ TasksHaveItems
    BY DEF BaseInv, RunningCountMatchesState, HandlerMatches, TasksHaveItems
  <2> QED
    BY <2>1, ClaimStep, ActivationStep, StatusStep DEF NodesInv
<1> QED
  BY <1>1, <1>2, BaseInvariant, PTL DEF Spec

\* "Scheduled a node that was closed. This should not happen."
\* (SchedulerQueue::RunNextTask): no item of a queue is of a closed node,
\* although a source may close while HandleIdle is about to schedule it again.
THEOREM ClosedNodesStayOut == Spec => []NoClosedNodeScheduled
<1>1. BaseInv /\ NodesInv => NoClosedNodeScheduled
  <2> SUFFICES ASSUME TypeOK, ClaimsFit, NEW i \in items
               PROVE  status[i[2]] # "closed"
    BY DEF NoClosedNodeScheduled, NodesInv, StatusInv, Statuses, BaseInv,
           RunningCountMatchesState
  <2>1. "queue" \in Where /\ None \in Holder /\ i \in Item /\ Holds("queue", None, i)
    BY DEF Where, Holder, Holds, TypeOK
  <2>2. Fits("queue", None, i)
    BY <2>1 DEF ClaimsFit
  <2> QED
    BY <2>2 DEF Fits
<1> QED
  BY <1>1, BaseInvariant, NodesInvariant, PTL

-----------------------------------------------------------------------------
\* HandleIdle holds state_mutex_ exactly while it decides what to do, and
\* handling_idle_ counts above 1 only while somebody is inside.
MutexMatches ==
  /\ stage = "loop" => smutex = handler
  /\ stage # "loop" => smutex = None
  /\ handler = None => ~again

LEMMA MutexStep ==
  ASSUME TypeOK, HandlerMatches, MutexMatches, [Next]_vars
  PROVE  MutexMatches'
<1> USE SchedulerAssumption DEF HandlerMatches, MutexMatches, idleVars, Thread
<1>1. CASE UNCHANGED idleVars
  BY <1>1
<1>2. ASSUME NEW t \in Thread, EnterHandleIdle(t), smutex = None
      PROVE  MutexMatches'
  BY <1>2 DEF EnterHandleIdle
<1>3. CASE LeaveHandleIdle
  BY <1>3 DEF LeaveHandleIdle
<1>4. ASSUME NEW t \in Thread, Handling(t)
      PROVE  MutexMatches'
  <2>1. CASE StopHandling(t) \/ NothingLeft(t) \/ ReportSourceDeadlock(t) \/ Quit(t)
    BY <1>1, <1>3, <2>1
       DEF StopHandling, NothingLeft, ReportSourceDeadlock, Quit
  <2>2. CASE TryToUnthrottle(t) \/ ChooseSources(t) \/ StopQueues(t)
    BY <2>2 DEF TryToUnthrottle, ChooseSources, StopQueues, InLoop
  <2>3. CASE RestartQueues(t) \/ UnthrottleSources(t)
    BY <2>3 DEF RestartQueues, UnthrottleSources
  <2>4. CASE Relock(t)
    BY <1>3, <2>4 DEF Relock
  <2> QED
    BY <1>4, <2>1, <2>2, <2>3, <2>4 DEF Handling
<1> QED
  BY <1>1, <1>2, <1>4, HandlerCases

-----------------------------------------------------------------------------
\* What a step of thread t leaves to the others.
Apart(t) ==
  \A u \in Thread \ {t} : /\ Returned(u) => Returned(u)'
                          /\ todo'[u] = todo[u]
                          /\ phase'[u] = phase[u] /\ work'[u] = work[u]
                          /\ item'[u] = item[u]
                          /\ u \in owesSubmit' => u \in owesSubmit
                          /\ submit'[u] = submit[u]
                          /\ smutex' = u => smutex = u
                          /\ handler' = u => handler = u

\* Thread by thread: the queues, the tasks, the handler, the calls.
LEMMA QueuesApart ==
  ASSUME TypeOK, NEW t \in Thread, NEW q \in Queue,
         \/ Queues!AddItemToQueue(t, q) \/ Queues!SubmitWaitingTasks(t, q)
         \/ Queues!AddTask(t, q) \/ Queues!RunNextTask(t, q)
         \/ Queues!FinishTask(t, q) \/ Queues!CleanupAfterRun(t, q)
         \/ Queues!BecomeActive(t) \/ Queues!BecomeIdle(t)
  PROVE  \A u \in Thread \ {t} : (Returned(u) => Returned(u)') /\ work'[u] = work[u]
<1> USE DEF Returned, Queues!Returned
<1>0. inHand \in [Queue -> [Thread -> Nat]] /\ work \in [Thread -> Queue \cup {None}]
  BY DEF TypeOK, Queues!TypeOK, Queues!Thread, Thread
<1> SUFFICES ASSUME NEW u \in Thread \ {t}
             PROVE  (Returned(u) => Returned(u)') /\ work'[u] = work[u]
  OBVIOUS
<1>1. CASE Queues!AddItemToQueue(t, q) \/ Queues!SubmitWaitingTasks(t, q)
  <2>1. \E n : inHand' = [inHand EXCEPT ![q][t] = n]
    BY <1>1
       DEF Queues!AddItemToQueue, Queues!SubmitWaitingTasks, Queues!TakeTasks
  <2>2. \A p \in Queue : inHand'[p][u] = inHand[p][u]
    BY <1>0, <2>1
  <2> QED
    BY <1>1, <2>2 DEF Queues!AddItemToQueue, Queues!SubmitWaitingTasks
<1>2. CASE Queues!AddTask(t, q)
  <2>2. \A p \in Queue : inHand'[p][u] = inHand[p][u]
    BY <1>0, <1>2 DEF Queues!AddTask
  <2> QED
    BY <1>2, <2>2 DEF Queues!AddTask
<1>3. CASE Queues!RunNextTask(t, q) \/ Queues!FinishTask(t, q)
  BY <1>0, <1>3 DEF Queues!RunNextTask, Queues!FinishTask
<1>4. CASE Queues!CleanupAfterRun(t, q) \/ Queues!BecomeActive(t) \/ Queues!BecomeIdle(t)
  BY <1>4 DEF Queues!CleanupAfterRun, Queues!BecomeActive, Queues!BecomeIdle
<1> QED
  BY <1>1, <1>2, <1>3, <1>4

LEMMA RunningApart ==
  ASSUME \/ Queues!SetRunning(Queue, TRUE) \/ Queues!SetRunning(Queue, FALSE)
         \/ UNCHANGED queueVars
  PROVE  \A u \in Thread : (Returned(u) => Returned(u)') /\ work'[u] = work[u]
BY DEF Queues!SetRunning, queueVars, Returned, Queues!Returned

LEMMA HandlingApart ==
  ASSUME TypeOK, NEW t \in Thread, Handling(t)
  PROVE  Apart(t)
<1>1. \A u \in Thread : (Returned(u) => Returned(u)') /\ work'[u] = work[u]
  <2>1. Queues!SetRunning(Queue, TRUE) \/ Queues!SetRunning(Queue, FALSE) \/ UNCHANGED queueVars
    BY DEF Handling, StopHandling, Quit, ReportSourceDeadlock, ChooseSources,
           StopQueues, RestartQueues, TryToUnthrottle, NothingLeft,
           UnthrottleSources, Relock, queueVars
  <2> QED
    BY <2>1, RunningApart
<1> USE SchedulerAssumption DEF TypeOK, workVars, submitVars, Thread
<1>2. \A u \in Thread \ {t} :
        /\ todo'[u] = todo[u] /\ phase'[u] = phase[u] /\ item'[u] = item[u]
        /\ (u \in owesSubmit' => u \in owesSubmit) /\ submit'[u] = submit[u]
  BY DEF Handling, StopHandling, Quit, ReportSourceDeadlock, ChooseSources,
         StopQueues, RestartQueues, TryToUnthrottle, NothingLeft,
         UnthrottleSources, Relock
<1>3. (smutex' # None => smutex' \in {t, smutex}) /\ (handler' # None => handler' = handler)
  BY DEF Handling, StopHandling, Quit, ReportSourceDeadlock, ChooseSources,
         StopQueues, RestartQueues, TryToUnthrottle, NothingLeft,
         UnthrottleSources, Relock, LeaveHandleIdle, idleVars
<1> QED
  BY <1>1, <1>2, <1>3 DEF Apart

LEMMA EnterApart ==
  ASSUME NEW t \in Thread, EnterHandleIdle(t) \/ UNCHANGED idleVars
  PROVE  \A u \in Thread \ {t} : (smutex' = u => smutex = u) /\ (handler' = u => handler = u)
BY DEF EnterHandleIdle, idleVars

LEMMA SchedulingApart ==
  ASSUME TypeOK, NEW t \in Thread, Scheduling(t)
  PROVE  Apart(t)
<1> DEFINE Q == \A u \in Thread \ {t} : (Returned(u) => Returned(u)') /\ work'[u] = work[u]
           S == \A u \in Thread \ {t} :
                  /\ phase'[u] = phase[u] /\ item'[u] = item[u]
                  /\ (u \in owesSubmit' => u \in owesSubmit) /\ submit'[u] = submit[u]
                  /\ (smutex' = u => smutex = u) /\ (handler' = u => handler = u)
           T == \A u \in Thread \ {t} : todo'[u] = todo[u]
<1>1. UNCHANGED queueVars => Q
  BY RunningApart
<1>2. ASSUME NEW i, i[2] \in Node, Push(t, i)
      PROVE  Q
  <2>1. QueueOf[i[2]] \in Queue
    BY <1>2, SchedulerAssumption
  <2> QED
    BY <1>2, <2>1, QueuesApart DEF Push
<1>3. ASSUME NEW r, NEW more, Forget(t, r, more)
      PROVE  T
  BY <1>3, RequestForgotten
<1>4. UNCHANGED <<item, phase>> /\ UNCHANGED submitVars /\ (EnterHandleIdle(t) \/ UNCHANGED idleVars)
        => S
  BY EnterApart DEF submitVars
<1>5. UNCHANGED todo => T
  OBVIOUS
<1>6. S /\ Q /\ T => Apart(t)
  BY DEF Apart
<1>7. CASE BecomeActive(t) \/ BecomeIdle(t)
  <2>1. \A u \in Thread \ {t} : (Returned(u) => Returned(u)') /\ work'[u] = work[u]
    BY <1>7
       DEF BecomeActive, BecomeIdle, Queues!BecomeActive, Queues!BecomeIdle,
                Returned, Queues!Returned
  <2> QED
    BY <1>4, <1>5, <1>6, <1>7, <2>1 DEF BecomeActive, BecomeIdle, workVars
<1>8. ASSUME NEW q \in Queue, AddTask(t, q)
      PROVE  Apart(t)
  <2>1. Q
    BY <1>8, QueuesApart DEF AddTask
  <2> QED
    BY <1>4, <1>5, <1>6, <1>8, <2>1 DEF AddTask, workVars
<1>9. ASSUME NEW q \in Queue, SubmitWaitingTasks(t, q)
      PROVE  Apart(t)
  <2>1. Q
    BY <1>9, QueuesApart DEF SubmitWaitingTasks
  <2>2. S /\ T
    BY <1>9 DEF SubmitWaitingTasks, workVars, idleVars, TypeOK
  <2> QED
    BY <1>6, <2>1, <2>2
<1>10. CASE SubmitAfterHandling(t)
  <2>1. S /\ T
    BY <1>10 DEF SubmitAfterHandling, workVars, idleVars, TypeOK
  <2> QED
    BY <1>1, <1>6, <1>10, <2>1 DEF SubmitAfterHandling
<1>11. ASSUME NEW n \in Node, ScheduleForOpen(t, n)
       PROVE  Apart(t)
  <2>1. Q
    BY <1>1, <1>2, <1>11 DEF ScheduleForOpen
  <2> QED
    BY <1>3, <1>4, <1>6, <1>11, <2>1 DEF ScheduleForOpen
<1>12. ASSUME NEW r \in todo[t], ScheduleSource(t, r)
       PROVE  Apart(t)
  <2>1. Q
    BY <1>1, <1>2, <1>12 DEF ScheduleSource, Node
  <2> QED
    BY <1>3, <1>4, <1>6, <1>12, <2>1 DEF ScheduleSource
<1>13. ASSUME NEW r \in todo[t], AddJoin(t, r)
       PROVE  Apart(t)
  <2>1. Q
    BY <1>1, <1>2, <1>13 DEF AddJoin, Node
  <2> QED
    BY <1>3, <1>4, <1>6, <1>13, <2>1 DEF AddJoin
<1>14. ASSUME NEW n \in Join, CheckJoin(t, n)
       PROVE  Apart(t)
  BY <1>1, <1>3, <1>4, <1>6, <1>14 DEF CheckJoin
<1> QED
  BY <1>7, <1>8, <1>9, <1>10, <1>11, <1>12, <1>13, <1>14 DEF Scheduling

LEMMA RunningStepApart ==
  ASSUME TypeOK, NEW t \in Thread, Running(t)
  PROVE  Apart(t)
<1> USE DEF TypeOK, workVars, submitVars, idleVars
<1>1. /\ UNCHANGED <<smutex, handler, owesSubmit, submit>>
      /\ \A u \in Thread \ {t} : todo'[u] = todo[u] /\ phase'[u] = phase[u] /\ item'[u] = item[u]
  BY
     DEF Running, RunNextTask, FinishTask, OpenNode, RunSource, RunJoin,
         CloseJoin, EndScheduling
<1>2. UNCHANGED queueVars \/ \E q \in Queue : RunNextTask(t, q) \/ FinishTask(t, q)
  BY DEF Running, OpenNode, RunSource, RunJoin, CloseJoin, EndScheduling
<1>3. CASE UNCHANGED queueVars
  BY <1>1, <1>3, RunningApart DEF Apart
<1>4. ASSUME NEW q \in Queue, RunNextTask(t, q) \/ FinishTask(t, q)
      PROVE  Apart(t)
  <2>1. \A u \in Thread \ {t} : (Returned(u) => Returned(u)') /\ work'[u] = work[u]
    BY <1>4, QueuesApart DEF RunNextTask, FinishTask
  <2> QED
    BY <1>1, <2>1 DEF Apart
<1> QED
  BY <1>2, <1>3, <1>4

LEMMA AppApart ==
  ASSUME TypeOK, NEW a \in App,
         Finish(a) \/ Pause(a) \/ Resume(a) \/ Cancel(a) \/ AddPacket(a) \/ CloseInput(a)
  PROVE  Apart(a)
<1> USE DEF Thread
<1>1. \A u \in Thread : (Returned(u) => Returned(u)') /\ work'[u] = work[u]
  BY RunningApart
     DEF Finish, AddedPacket, ClosedAllInputs, Pause, Resume, Cancel,
     AddPacket, CloseInput
<1>2. EnterHandleIdle(a) \/ UNCHANGED idleVars
  BY
     DEF Finish, AddedPacket, ClosedAllInputs, Pause, Resume, Cancel,
         AddPacket, CloseInput
<1>3. /\ UNCHANGED <<item, phase, submit>> /\ owesSubmit' \subseteq owesSubmit \cup {a}
      /\ \A u \in Thread \ {a} : todo'[u] = todo[u]
  BY
     DEF Finish, AddedPacket, ClosedAllInputs, Pause, Resume, Cancel,
         AddPacket, CloseInput,
         workVars, submitVars, TypeOK
<1> QED
  BY <1>1, <1>2, <1>3, EnterApart DEF Apart

LEMMA MainApart ==
  ASSUME TypeOK, Start \/ StartCleanup \/ \E q \in Queue : CleanupQueue(q)
  PROVE  Apart(Main)
<1> USE SchedulerAssumption DEF Thread, submitVars, workVars
<1>1. CASE Start
  BY <1>1, RunningApart, EnterApart DEF Start, Apart
<1>2. CASE StartCleanup
  BY <1>2, RunningApart DEF StartCleanup, Apart, idleVars
<1>3. ASSUME NEW q \in Queue, CleanupQueue(q)
      PROVE  Apart(Main)
  BY <1>3, QueuesApart DEF CleanupQueue, Apart, idleVars
<1> QED
  BY <1>1, <1>2, <1>3

-----------------------------------------------------------------------------
\* A thread of an executor, and no other, runs a task; it has popped what it
\* runs and does so before it begins anything else.
WorkMatches ==
  /\ \A t \in Thread : work[t] = None <=> phase[t] = "none"
  /\ \A a \in App : phase[a] = "none"

TasksBeginFree == \A t \in Thread : phase[t] = "popped" => Free(t)

WorkInv == WorkMatches /\ TasksBeginFree

\* Every step is made by one thread.
LEMMA ThreadSteps ==
  ASSUME [Next]_vars
  PROVE  \/ UNCHANGED vars
         \/ \E t \in Thread : Handling(t) \/ Scheduling(t)
         \/ \E t \in Worker : Running(t)
         \/ \E a \in App : Finish(a) \/ Pause(a) \/ Resume(a) \/ Cancel(a)
                           \/ AddPacket(a) \/ CloseInput(a)
         \/ Start \/ StartCleanup \/ \E q \in Queue : CleanupQueue(q)
BY DEF Next, Continue

LEMMA SchedulingBusy ==
  ASSUME NEW t \in Thread, Scheduling(t)
  PROVE  ~Free(t) /\ UNCHANGED <<item, phase, work>>
<1>1. ~Free(t)
  <2>1. CASE BecomeActive(t) \/ BecomeIdle(t) \/ \E q \in Queue : AddTask(t, q)
    BY <2>1 DEF BecomeActive, BecomeIdle, AddTask, Free, Settled, Returned,
       Queues!Returned, Queues!BecomeActive, Queues!BecomeIdle, Queues!AddTask
  <2>2. CASE SubmitAfterHandling(t) \/ \E q \in Queue : SubmitWaitingTasks(t, q)
    BY <2>2 DEF SubmitAfterHandling, SubmitWaitingTasks, Free
  <2>3. CASE todo[t] # {}
    BY <2>3 DEF Free, Settled
  <2> QED
    BY <2>1, <2>2, <2>3 DEF Scheduling, ScheduleForOpen, CheckJoin, Makes
<1>2. UNCHANGED <<item, phase>>
  BY DEF Scheduling, BecomeActive, BecomeIdle, SubmitAfterHandling, AddTask,
         SubmitWaitingTasks, ScheduleForOpen, ScheduleSource, AddJoin,
         CheckJoin,
         workVars
<1>3. ASSUME NEW i, Push(t, i)
      PROVE  UNCHANGED work
  BY <1>3 DEF Push, Queues!AddItemToQueue
<1>4. UNCHANGED work
  BY <1>3
     DEF Scheduling, BecomeActive, BecomeIdle, SubmitAfterHandling, AddTask,
         SubmitWaitingTasks, ScheduleForOpen, ScheduleSource, AddJoin,
         CheckJoin,
         queueVars, Queues!BecomeActive, Queues!BecomeIdle, Queues!AddTask,
         Queues!SubmitWaitingTasks
<1> QED
  BY <1>1, <1>2, <1>4

LEMMA HandlingBusy ==
  ASSUME NEW t \in Thread, Handling(t)
  PROVE  handler = t /\ UNCHANGED <<item, phase, work>>
BY DEF Handling, StopHandling, Quit, ReportSourceDeadlock, ChooseSources,
       StopQueues, RestartQueues, TryToUnthrottle, NothingLeft,
       UnthrottleSources, Relock, InLoop, workVars, queueVars, Queues!SetRunning

LEMMA AppIdle ==
  ASSUME \/ \E a \in App : Finish(a) \/ Pause(a) \/ Resume(a) \/ Cancel(a)
                           \/ AddPacket(a) \/ CloseInput(a)
         \/ Start \/ StartCleanup \/ \E q \in Queue : CleanupQueue(q)
  PROVE  UNCHANGED <<item, phase, work>>
<1>1. ASSUME NEW a \in App, Finish(a) \/ Pause(a) \/ Resume(a) \/ Cancel(a)
                            \/ AddPacket(a) \/ CloseInput(a)
      PROVE  UNCHANGED <<item, phase, work>>
  BY <1>1 DEF Finish, AddedPacket, ClosedAllInputs, Pause, Resume, Cancel,
     AddPacket, CloseInput, workVars, queueVars, Queues!SetRunning
<1>2. CASE Start \/ StartCleanup \/ \E q \in Queue : CleanupQueue(q)
  BY <1>2 DEF Start, StartCleanup, CleanupQueue, workVars, queueVars,
     Queues!SetRunning, Queues!CleanupAfterRun
<1> QED
  BY <1>1, <1>2

LEMMA RunNextTaskFree ==
  ASSUME TypeOK, NEW t \in Thread, NEW q \in Queue, RunNextTask(t, q)
  PROVE  /\ Free(t) /\ Free(t)'
         /\ work[t] = None /\ work'[t] = q /\ phase'[t] = "popped"
<1>1. Free(t) /\ Queues!RunNextTask(t, q)
      /\ UNCHANGED <<todo, smutex, handler, owesSubmit, submit>>
      /\ phase'[t] = "popped"
  BY DEF RunNextTask, idleVars, submitVars, TypeOK
<1>2. UNCHANGED <<inHand, owesActive, owesIdle>> /\ work[t] = None /\ work'[t] = q
  BY <1>1 DEF Queues!RunNextTask, TypeOK, Queues!TypeOK, Queues!Thread, Thread
<1> QED
  BY <1>1, <1>2 DEF Free, Settled, Returned, Queues!Returned

\* Every step keeps the tasks with their threads.
LEMMA WorkStep ==
  ASSUME TypeOK, WorkInv, [Next]_vars
  PROVE  WorkInv'
<1> USE DEF WorkInv, WorkMatches, TasksBeginFree
<1>1. ASSUME NEW t \in Thread, Apart(t), ~Free(t) \/ t \in App,
             UNCHANGED <<item, phase, work>>
      PROVE  WorkInv'
  <2>1. phase[t] # "popped"
    BY <1>1
  <2>2. \A u \in Thread \ {t} : Free(u) => Free(u)'
    BY <1>1 DEF Apart, Free, Settled
  <2> QED
    BY <1>1, <2>1, <2>2
<1>2. ASSUME NEW t \in Worker, Running(t)
      PROVE  WorkInv'
  <2>0. t \in Thread \ App /\ None \notin Queue
    BY SchedulerAssumption DEF Thread
  <2>1. Apart(t)
    BY <1>2, <2>0, RunningStepApart
  <2>2. \A u \in Thread \ {t} : Free(u) => Free(u)'
    BY <2>1 DEF Apart, Free, Settled
  <2>3. ASSUME phase'[t] = "popped" => Free(t)', work'[t] = None <=> phase'[t] = "none"
        PROVE  WorkInv'
    <3>1. \A u \in Thread \ {t} : phase'[u] = phase[u] /\ work'[u] = work[u]
      BY <2>1 DEF Apart
    <3>2. WorkMatches'
      BY <2>0, <2>3, <3>1 DEF Thread
    <3>3. TasksBeginFree'
      BY <2>0, <2>2, <2>3, <3>1
    <3> QED
      BY <3>2, <3>3
  <2>4. ASSUME NEW q \in Queue, RunNextTask(t, q)
        PROVE  WorkInv'
    BY <2>0, <2>3, <2>4, RunNextTaskFree
  <2>5. ASSUME NEW q \in Queue, FinishTask(t, q)
        PROVE  WorkInv'
    <3>1. phase'[t] = "none"
      BY <2>0, <2>5 DEF FinishTask, TypeOK
    <3>2. work'[t] = None
      BY <2>0, <2>5
         DEF FinishTask, TypeOK, Queues!FinishTask, Queues!TypeOK,
             Queues!Thread, Thread
    <3> QED
      BY <2>3, <3>1, <3>2
  <2>6. ASSUME phase[t] # "none", phase'[t] \in {"processed", "ended"}, UNCHANGED work
        PROVE  WorkInv'
    BY <2>0, <2>3, <2>6
  <2>7. CASE \/ \E n \in Node : OpenNode(t, n)
             \/ \E s \in Source : RunSource(t, s)
             \/ \E n \in Join : RunJoin(t, n) \/ CloseJoin(t, n)
             \/ EndScheduling(t)
    BY <2>0, <2>6, <2>7 DEF OpenNode, RunSource, RunJoin, CloseJoin,
       EndScheduling, Popped, queueVars, TypeOK
  <2> QED
    BY <1>2, <2>4, <2>5, <2>7 DEF Running
<1>3. ASSUME NEW t \in Thread, Handling(t) \/ Scheduling(t)
      PROVE  WorkInv'
  BY <1>1, <1>3, HandlingApart, HandlingBusy, SchedulingApart, SchedulingBusy
     DEF Free
<1>4. ASSUME NEW a \in App, Finish(a) \/ Pause(a) \/ Resume(a) \/ Cancel(a)
                            \/ AddPacket(a) \/ CloseInput(a)
      PROVE  WorkInv'
  BY <1>1, <1>4, AppApart, AppIdle DEF Thread
<1>5. CASE Start \/ StartCleanup \/ \E q \in Queue : CleanupQueue(q)
  BY <1>1, <1>5, MainApart, AppIdle, SchedulerAssumption DEF Thread
<1>6. CASE UNCHANGED vars
  BY <1>6 DEF vars, queueVars, workVars, idleVars, submitVars, Free, Settled,
     Returned, Queues!Returned
<1> QED
  BY <1>2, <1>3, <1>4, <1>5, <1>6, ThreadSteps

-----------------------------------------------------------------------------
\* Whose requests those of a thread are.
Owned(t) ==
  \/ work[t] # None
  \/ handler = t /\ stage \in {"add", "unthrottled"} /\ todo[t] \subseteq Handled
  \/ t \in App /\ call[t] \in {"add", "close"}
  \/ t = Main /\ state = "NOT_STARTED"

RequestsOwned == \A t \in Thread : todo[t] = {} \/ Owned(t)

\* A thread's requests are not the handler's when another thread steps.
LEMMA OwnedByOthers ==
  ASSUME TypeOK, NEW t \in Thread, Apart(t), NEW u \in Thread \ {t}, Owned(u),
         handler = u => UNCHANGED <<handler, stage>>,
         u \in App => call'[u] = call[u],
         UNCHANGED state \/ u # Main
  PROVE  Owned(u)'
BY DEF Owned, Apart

LEMMA HandlingOwned ==
  ASSUME TypeOK, RequestsOwned, NEW t \in Thread, Handling(t)
  PROVE  RequestsOwned'
<1> USE SchedulerAssumption DEF Thread
<1>1. handler = t /\ UNCHANGED work /\ Apart(t)
  BY HandlingBusy, HandlingApart
<1>2. UNCHANGED call /\ (state = "NOT_STARTED" => state' = state)
  BY DEF Handling, StopHandling, Quit, ReportSourceDeadlock, ChooseSources,
         StopQueues, RestartQueues, TryToUnthrottle, NothingLeft,
         UnthrottleSources, Relock, appVars, Working
<1>3. \A u \in Thread \ {t} : todo'[u] = {} \/ Owned(u)'
  BY <1>1, <1>2 DEF RequestsOwned, Owned, Apart
<1>4. todo'[t] = {} \/ Owned(t)'
  <2> SUFFICES ASSUME todo[t] = {} \/ (stage \in {"add", "unthrottled"} /\ todo[t] \subseteq Handled)
               PROVE  todo'[t] = {} \/ Owned(t)'
    BY <1>1, <1>2 DEF RequestsOwned, Owned
  <2>1. CASE StopQueues(t)
    <3>1. todo[t] = {}
      BY <2>1 DEF StopQueues
    <3>2. todo'[t] \subseteq Handled
      BY <2>1, <3>1 DEF StopQueues, Handled, TypeOK
    <3> QED
      BY <2>1, <3>2 DEF StopQueues, Owned
  <2>2. CASE UnthrottleSources(t)
    <3> DEFINE grown == [e \in Stream |-> IF Full(e) THEN inbox[e] + 1 ELSE limit[e]]
    <3>1. todo[t] = {}
      BY <2>2 DEF UnthrottleSources
    <3>2. todo' = [todo EXCEPT ![t] = @ \cup ({"unthrottled"} \X Freed(inbox, grown))]
      BY <2>2 DEF UnthrottleSources
    <3>3. stage' = (IF grown # limit THEN "unthrottled" ELSE "nothing") /\ handler' = handler
      BY <2>2 DEF UnthrottleSources
    <3>4. Freed(inbox, limit) = {}
      BY DEF Freed, Full, TypeOK, Stream
    <3>5. \A l : Freed(inbox, l) \subseteq Source
      BY DEF Freed
    <3> HIDE DEF grown
    <3>6. todo'[t] = {"unthrottled"} \X Freed(inbox, grown)
      BY <3>1, <3>2 DEF TypeOK
    <3>7. todo'[t] \subseteq Handled
      BY <3>5, <3>6 DEF Handled
    <3>8. CASE grown = limit
      BY <3>4, <3>6, <3>8
    <3>9. CASE grown # limit
      BY <1>1, <3>3, <3>7, <3>9 DEF Owned
    <3> QED
      BY <3>8, <3>9
  <2>3. CASE RestartQueues(t) \/ Relock(t)
    BY <2>3 DEF RestartQueues, Relock, Scheduled, workVars
  <2>4. CASE ReportSourceDeadlock(t) \/ ChooseSources(t) \/ TryToUnthrottle(t) \/ NothingLeft(t)
             \/ StopHandling(t) \/ Quit(t)
    BY <2>4 DEF ReportSourceDeadlock, ChooseSources, TryToUnthrottle,
                NothingLeft, StopHandling, Quit, InLoop, workVars
  <2> QED
    BY <2>1, <2>2, <2>3, <2>4 DEF Handling
<1> QED
  BY <1>3, <1>4 DEF RequestsOwned

LEMMA SchedulingOwned ==
  ASSUME TypeOK, RequestsOwned, NEW t \in Thread, Scheduling(t)
  PROVE  RequestsOwned'
<1>1. UNCHANGED work /\ Apart(t)
  BY SchedulingBusy, SchedulingApart
<1>2. UNCHANGED <<call, state>>
  BY DEF Scheduling, BecomeActive, BecomeIdle, SubmitAfterHandling, AddTask,
         SubmitWaitingTasks, ScheduleForOpen, ScheduleSource, AddJoin,
         CheckJoin, appVars
<1>3. EnterHandleIdle(t) \/ UNCHANGED idleVars
  BY DEF Scheduling, BecomeActive, BecomeIdle, SubmitAfterHandling, AddTask,
         SubmitWaitingTasks, ScheduleForOpen, ScheduleSource, AddJoin, CheckJoin
<1>4. handler # None => UNCHANGED <<handler, stage>>
  BY <1>3 DEF EnterHandleIdle, idleVars
<1>5. \A u \in Thread : Owned(u) /\ (u = t => todo'[u] \subseteq todo[u]) => Owned(u)'
  BY <1>1, <1>2, <1>4, SchedulerAssumption DEF Owned, Apart, Thread
<1>6. CASE todo'[t] \subseteq todo[t]
  BY <1>1, <1>5, <1>6 DEF RequestsOwned, Apart
<1>7. ASSUME NEW n \in Join, CheckJoin(t, n)
      PROVE  RequestsOwned'
  <2>1. handler # t /\ todo[t] # {}
    BY <1>7, ItemShape DEF CheckJoin, Makes, Handled
  <2>2. Owned(t)'
    BY <1>1, <1>2, <2>1 DEF RequestsOwned, Owned
  <2> QED
    BY <1>1, <1>5, <2>2 DEF RequestsOwned, Apart
<1>8. todo'[t] \subseteq todo[t] \/ \E n \in Join : CheckJoin(t, n)
  <2>1. ASSUME NEW r, Forget(t, r, {})
        PROVE  todo'[t] \subseteq todo[t]
    BY <2>1 DEF Forget, TypeOK
  <2> QED
    BY <2>1
       DEF Scheduling, BecomeActive, BecomeIdle, SubmitAfterHandling, AddTask,
       SubmitWaitingTasks, ScheduleForOpen, ScheduleSource, AddJoin, workVars
<1> QED
  BY <1>6, <1>7, <1>8

\* Every step leaves no request behind.
LEMMA OwnedStep ==
  ASSUME TypeOK, WorkInv, RequestsOwned, [Next]_vars
  PROVE  RequestsOwned'
<1> USE SchedulerAssumption DEF Thread
<1>1. ASSUME NEW t \in Thread, Apart(t), todo'[t] = {} \/ Owned(t)',
             UNCHANGED idleVars \/ EnterHandleIdle(t),
             \A a \in App \ {t} : call'[a] = call[a],
             state = "NOT_STARTED" /\ t # Main => state' = state
      PROVE  RequestsOwned'
  <2>1. handler # None => UNCHANGED <<handler, stage>>
    BY <1>1 DEF EnterHandleIdle, idleVars
  <2> QED
    BY <1>1, <2>1 DEF RequestsOwned, Owned, Apart
<1>2. ASSUME NEW t \in Worker, Running(t)
      PROVE  RequestsOwned'
  <2>1. Apart(t)
    BY <1>2, RunningStepApart
  <2>2. UNCHANGED <<idleVars, call, state>>
    BY <1>2 DEF Running, RunNextTask, FinishTask, OpenNode, RunSource, RunJoin,
       CloseJoin, EndScheduling, appVars
  <2>3. CASE \E q \in Queue : RunNextTask(t, q) \/ FinishTask(t, q)
    BY <1>1, <2>1, <2>2, <2>3 DEF RunNextTask, FinishTask, Free, Settled
  <2>4. CASE work[t] # None /\ UNCHANGED work
    BY <1>1, <2>1, <2>2, <2>4 DEF Owned
  <2>5. phase[t] # "none" => work[t] # None
    BY DEF WorkInv, WorkMatches
  <2> QED
    BY <1>2, <2>3, <2>4, <2>5 DEF Running, OpenNode, RunSource, RunJoin,
       CloseJoin, EndScheduling, Popped, queueVars
<1>3. ASSUME NEW a \in App, Finish(a) \/ Pause(a) \/ Resume(a) \/ Cancel(a)
                            \/ AddPacket(a) \/ CloseInput(a)
      PROVE  RequestsOwned'
  <2>1. Apart(a)
    BY <1>3, AppApart
  <2>2. UNCHANGED idleVars \/ EnterHandleIdle(a)
    BY <1>3 DEF Finish, AddedPacket, ClosedAllInputs, Pause, Resume, Cancel,
       AddPacket, CloseInput
  <2>3. /\ \A b \in App \ {a} : call'[b] = call[b]
        /\ state = "NOT_STARTED" => state' = state
    BY <1>3 DEF Finish, AddedPacket, ClosedAllInputs, Pause, Resume, Cancel,
       AddPacket, CloseInput, appVars, TypeOK
  <2>4. todo'[a] = {} \/ Owned(a)'
    BY <1>3 DEF Finish, AddedPacket, ClosedAllInputs, Pause, Resume, Cancel,
       AddPacket, CloseInput, workVars, Begin, Free, Settled, Owned, TypeOK
  <2> QED
    BY <1>1, <2>1, <2>2, <2>3, <2>4
<1>4. CASE Start \/ StartCleanup \/ \E q \in Queue : CleanupQueue(q)
  <2>1. Apart(Main)
    BY <1>4, MainApart
  <2>2. /\ todo'[Main] = {}
        /\ UNCHANGED idleVars \/ EnterHandleIdle(Main)
        /\ \A b \in App \ {Main} : call'[b] = call[b]
    BY <1>4
       DEF Start, StartCleanup, CleanupQueue, Begin, Free, Settled, workVars,
                appVars, TypeOK
  <2> QED
    BY <1>1, <2>1, <2>2
<1>5. CASE UNCHANGED vars
  BY <1>5 DEF vars, queueVars, workVars, idleVars, appVars, RequestsOwned, Owned
<1> QED
  BY <1>2, <1>3, <1>4, <1>5, HandlingOwned, SchedulingOwned, ThreadSteps

-----------------------------------------------------------------------------
\* A run that has an error keeps it (has_error_ is never reset).
LEMMA ErrorStays ==
  ASSUME [Next]_vars, hasError
  PROVE  hasError'
<1> USE DEF flags
<1>1. ASSUME NEW t \in Thread, Handling(t)
      PROVE  hasError'
  <2>1. CASE ReportSourceDeadlock(t)
    BY <2>1 DEF ReportSourceDeadlock, QuitDue
  <2> QED
    BY <1>1, <2>1 DEF Handling, StopHandling, Quit, ChooseSources, StopQueues,
       RestartQueues, TryToUnthrottle, NothingLeft, UnthrottleSources, Relock
<1>2. ASSUME NEW t \in Thread, Scheduling(t)
      PROVE  hasError'
  BY <1>2, Zenon
     DEF Scheduling, BecomeActive, BecomeIdle, SubmitAfterHandling, AddTask,
     SubmitWaitingTasks, ScheduleForOpen, ScheduleSource, AddJoin, CheckJoin
<1>3. ASSUME NEW t \in Worker, Running(t)
      PROVE  hasError'
  <2>1. ASSUME NEW n \in Join, RunJoin(t, n)
        PROVE  hasError'
    BY <2>1, Zenon DEF RunJoin
  <2> QED
    BY <1>3, <2>1, Zenon
       DEF Running, RunNextTask, FinishTask, OpenNode, RunSource,
       CloseJoin, EndScheduling
<1>4. ASSUME NEW a \in App, Finish(a) \/ Pause(a) \/ Resume(a) \/ Cancel(a)
                            \/ AddPacket(a) \/ CloseInput(a)
      PROVE  hasError'
  BY <1>4, Zenon
     DEF Finish, AddedPacket, ClosedAllInputs, Pause, Resume, Cancel,
     AddPacket, CloseInput
<1>5. CASE Start \/ StartCleanup \/ \E q \in Queue : CleanupQueue(q)
  BY <1>5, Zenon DEF Start, StartCleanup, CleanupQueue
<1>6. CASE UNCHANGED vars
  BY <1>6 DEF vars
<1> QED
  BY <1>1, <1>2, <1>3, <1>4, <1>5, <1>6, ThreadSteps

-----------------------------------------------------------------------------
\* A source that was chosen for activation is still to be activated by the
\* thread inside HandleIdle.
Chosen ==
  call[Main] # "cleanup" =>
    \A s \in Source : status[s] = "chosen" =>
      \/ stage = "stop"
      \/ stage = "add" /\ <<"activate", s>> \in todo[handler]

\* Steps that keep the chosen sources with the handler.
LEMMA ChosenKept ==
  ASSUME Chosen, call[Main] # "cleanup",
         \A s \in Source : status'[s] = "chosen" =>
           /\ status[s] = "chosen"
           /\ <<"activate", s>> \in todo[handler] => <<"activate", s>> \in todo'[handler],
         stage \in {"stop", "add"} => UNCHANGED <<handler, stage>>
  PROVE  Chosen'
BY DEF Chosen

LEMMA HandlingChosen ==
  ASSUME TypeOK, Chosen, call[Main] # "cleanup", NEW t \in Thread, Handling(t)
  PROVE  Chosen'
<1>1. CASE ChooseSources(t)
  BY <1>1 DEF ChooseSources, Chosen
<1>2. CASE StopQueues(t)
  <2> DEFINE C == {s \in Source : status[s] = "chosen"}
  <2>1. todo'[t] = todo[t] \cup ({"activate"} \X C)
    BY <1>2 DEF StopQueues, TypeOK
  <2>2. \A s \in C : <<"activate", s>> \in {"activate"} \X C
    OBVIOUS
  <2>3. handler' = t /\ stage' = "add" /\ UNCHANGED status
    BY <1>2 DEF StopQueues, nodeVars
  <2> QED
    BY <2>1, <2>2, <2>3 DEF Chosen
<1>3. CASE RestartQueues(t)
  <2>1. \A s \in Source : <<"activate", s>> \in Handled
    BY DEF Handled
  <2>2. \A s \in Source : status[s] # "chosen"
    BY <1>3, <2>1 DEF RestartQueues, Scheduled, Chosen
  <2> QED
    BY <1>3, <2>2 DEF RestartQueues, nodeVars, Chosen
<1>4. CASE ~ChooseSources(t) /\ ~StopQueues(t) /\ ~RestartQueues(t)
  <2>1. UNCHANGED status /\ stage \notin {"stop", "add"}
    BY <1>4
       DEF Handling, StopHandling, Quit, ReportSourceDeadlock, TryToUnthrottle,
       NothingLeft, UnthrottleSources, Relock, InLoop, nodeVars
  <2> QED
    BY <2>1 DEF Chosen
<1> QED
  BY <1>1, <1>2, <1>3, <1>4

LEMMA SchedulingChosen ==
  ASSUME TypeOK, HandlerMatches, Chosen, call[Main] # "cleanup", NEW t \in Thread, Scheduling(t)
  PROVE  Chosen'
<1>1. EnterHandleIdle(t) \/ UNCHANGED idleVars
  BY DEF Scheduling, BecomeActive, BecomeIdle, SubmitAfterHandling, AddTask,
         SubmitWaitingTasks, ScheduleForOpen, ScheduleSource, AddJoin, CheckJoin
<1>2. stage \in {"stop", "add"} => UNCHANGED <<handler, stage>>
  BY <1>1 DEF EnterHandleIdle, idleVars, HandlerMatches
<1>3. CASE UNCHANGED <<status, todo>>
  BY <1>2, <1>3, ChosenKept
<1>4. ASSUME NEW r, NEW more, Forget(t, r, more),
             \A s \in Source : status'[s] = "chosen" => status[s] = "chosen" /\ r # <<"activate", s>>
      PROVE  Chosen'
  <2>1. \A s \in Source : status'[s] = "chosen" /\ <<"activate", s>> \in todo[handler]
           => <<"activate", s>> \in todo'[handler]
    BY <1>4 DEF Forget, TypeOK
  <2> QED
    BY <1>2, <1>4, <2>1, ChosenKept
<1>5. ASSUME NEW n \in Node, ScheduleForOpen(t, n)
      PROVE  Chosen'
  BY <1>4, <1>5 DEF ScheduleForOpen, nodeVars
<1>6. ASSUME NEW r \in todo[t], ScheduleSource(t, r)
      PROVE  Chosen'
  <2>1. \A s \in Source : status'[s] = "chosen" => status[s] = "chosen" /\ r # <<"activate", s>>
    BY <1>6, SchedulerAssumption DEF ScheduleSource, TypeOK, Node
  <2>2. Forget(t, r, {})
    BY <1>6 DEF ScheduleSource
  <2> QED
    BY <1>4, <2>1, <2>2
<1>7. ASSUME NEW r \in todo[t], AddJoin(t, r)
      PROVE  Chosen'
  <2>1. \A s : r # <<"activate", s>>
    BY <1>7 DEF AddJoin
  <2> QED
    BY <1>4, <1>7, <2>1 DEF AddJoin
<1>8. ASSUME NEW n \in Join, CheckJoin(t, n)
      PROVE  Chosen'
  <2>1. \E more : Forget(t, <<"check", n>>, more)
    BY <1>8 DEF CheckJoin
  <2>2. UNCHANGED status
    BY <1>8 DEF CheckJoin
  <2> QED
    BY <1>4, <2>1, <2>2
<1> QED
  BY <1>3, <1>5, <1>6, <1>7, <1>8
     DEF Scheduling, BecomeActive, BecomeIdle, SubmitAfterHandling, AddTask,
     SubmitWaitingTasks, workVars, nodeVars

\* Every step does.
LEMMA ChosenStep ==
  ASSUME TypeOK, HandlerMatches, WorkInv, Chosen, [Next]_vars
  PROVE  Chosen'
<1> SUFFICES ASSUME call'[Main] # "cleanup"
             PROVE  Chosen'
  BY DEF Chosen
<1>1. call[Main] # "cleanup" /\ ~StartCleanup
  BY CleanupStays
<1>2. ASSUME NEW t \in Worker, Running(t)
      PROVE  Chosen'
  <2>1. t \in Thread
    BY DEF Thread
  <2>2. UNCHANGED idleVars
    BY <1>2 DEF Running, RunNextTask, FinishTask, OpenNode, RunSource, RunJoin,
       CloseJoin, EndScheduling
  <2>3. \A s \in Source : status'[s] = "chosen" => status[s] = "chosen"
    BY <1>2, SchedulerAssumption
       DEF Running, RunNextTask, FinishTask, OpenNode, RunSource, RunJoin,
       CloseJoin, EndScheduling, nodeVars, TypeOK, Node
  <2>4. UNCHANGED todo \/ handler # t
    BY <1>2, <2>1
       DEF Running, RunNextTask, FinishTask, OpenNode, RunSource, RunJoin,
       CloseJoin, EndScheduling, Popped, WorkInv, TasksBeginFree, Free
  <2>5. handler \in Thread => todo'[handler] = todo[handler]
    BY <1>2, <2>1, <2>4, RunningStepApart DEF Apart
  <2>6. stage = "add" => handler \in Thread
    BY DEF HandlerMatches, TypeOK
  <2> QED
    BY <1>1, <2>2, <2>3, <2>5, <2>6 DEF Chosen, idleVars
<1>3. ASSUME NEW a \in App, Finish(a) \/ Pause(a) \/ Resume(a) \/ Cancel(a)
                            \/ AddPacket(a) \/ CloseInput(a)
      PROVE  Chosen'
  <2>1. EnterHandleIdle(a) \/ UNCHANGED idleVars
    BY <1>3
       DEF Finish, AddedPacket, ClosedAllInputs, Pause, Resume, Cancel,
           AddPacket, CloseInput
  <2>2. stage \in {"stop", "add"} => UNCHANGED <<handler, stage>>
    BY <2>1 DEF EnterHandleIdle, idleVars, HandlerMatches
  <2>3. UNCHANGED status
    BY <1>3
       DEF Finish, AddedPacket, ClosedAllInputs, Pause, Resume, Cancel,
           AddPacket, CloseInput, nodeVars
  <2>4. UNCHANGED todo \/ handler # a
    BY <1>3
       DEF Finish, AddedPacket, ClosedAllInputs, Pause, Resume, Cancel,
           AddPacket, CloseInput,
       workVars, Begin, Free
  <2>5. handler \in Thread => todo'[handler] = todo[handler]
    BY <1>3, <2>4, AppApart DEF Apart, Thread
  <2>6. stage = "add" => handler \in Thread
    BY DEF HandlerMatches, TypeOK
  <2> QED
    BY <1>1, <2>2, <2>3, <2>5, <2>6 DEF Chosen
<1>4. CASE Start
  <2>1. EnterHandleIdle(Main) /\ UNCHANGED <<todo, status>>
    BY <1>4 DEF Start, workVars, nodeVars
  <2>2. stage \in {"stop", "add"} => UNCHANGED <<handler, stage>>
    BY <2>1 DEF EnterHandleIdle, HandlerMatches
  <2> QED
    BY <1>1, <2>1, <2>2 DEF Chosen
<1>5. \A q \in Queue : ~CleanupQueue(q)
  BY <1>1 DEF CleanupQueue
<1>6. CASE UNCHANGED vars
  BY <1>1, <1>6 DEF vars, idleVars, workVars, nodeVars, Chosen
<1> QED
  BY <1>1, <1>2, <1>3, <1>4, <1>5, <1>6, ThreadSteps, HandlingChosen,
     SchedulingChosen

-----------------------------------------------------------------------------
\* The task or item that will run source s, and a request to schedule it.
Claimed(s) ==
  \/ <<"run", s>> \in items
  \/ \E t \in Thread : item[t] = <<"run", s>> /\ phase[t] \in {"popped", "processed"}
Asked(s) ==
  \E t \in Thread : <<"check", s>> \in todo[t] \/ <<"unthrottled", s>> \in todo[t]

\* The other way round from ClaimsMarked: a source in flight that is not closed
\* has the claim, ...
FlightClaimed ==
  \A s \in Source : s \in flight => Claimed(s) \/ status[s] = "closed"
\* ... and an active source has somebody to care for it: a full stream that
\* holds it back, a claim, or a request.
ActiveCared ==
  \A s \in Source : status[s] = "active" /\ ~hasError =>
    Throttled(s) \/ Claimed(s) \/ Asked(s)

SourcesCared == FlightClaimed /\ ActiveCared
SourceInv == call[Main] # "cleanup" => SourcesCared

\* What keeps the sources cared for.
LEMMA KeepSources ==
  ASSUME SourcesCared, hasError => hasError',
         \A s \in Source :
           /\ s \in flight' => s \in flight
           /\ Claimed(s) => Claimed(s)'
           /\ status[s] = "closed" => status'[s] = "closed"
           /\ status'[s] = "active" => status[s] = "active"
           /\ Throttled(s) /\ status'[s] = "active" => Throttled(s)' \/ Asked(s)'
           /\ Asked(s) => Asked(s)'
  PROVE  SourcesCared'
BY DEF SourcesCared, FlightClaimed, ActiveCared

\* A packet more throttles nobody less.
LEMMA ThrottledStays ==
  ASSUME TypeOK, UNCHANGED limit,
         inbox' = inbox \/ \E f : inbox' = InboxWith(f)
  PROVE  \A s : Throttled(s) => Throttled(s)'
BY DEF Throttled, Full, InboxWith, TypeOK

\* A source is freed by what leaves none of its streams full.
LEMMA FreedOrThrottled ==
  ASSUME TypeOK, NEW i, NEW l, inbox' = i, limit' = l,
         i \in [Stream -> Nat], l \in [Stream -> Nat],
         NEW s \in Source, Throttled(s), status[s] = "active"
  PROVE  Throttled(s)' \/ s \in Freed(i, l)
BY DEF Throttled, Full, Freed, TypeOK

\* Requests that stay keep the source asked for.
LEMMA AskedGrows ==
  ASSUME \A t \in Thread : \A s \in Source : \A k \in {"check", "unthrottled"} :
           <<k, s>> \in todo[t] => <<k, s>> \in todo'[t]
  PROVE  \A s \in Source : Asked(s) => Asked(s)'
BY DEF Asked

\* The sources, one step after the other.
LEMMA HandlerSources ==
  ASSUME TypeOK, SourcesCared, NEW t \in Thread, [Next]_vars,
         ChooseSources(t) \/ StopQueues(t) \/ UnthrottleSources(t)
  PROVE  SourcesCared'
<1>1. UNCHANGED <<items, item, phase, flight>>
  BY
     DEF ChooseSources, StopQueues, UnthrottleSources, queueVars, workVars,
         nodeVars
<1>2. \A s : Claimed(s) => Claimed(s)'
  BY <1>1 DEF Claimed
<1>3. hasError => hasError'
  BY ErrorStays
<1>4. CASE ChooseSources(t)
  <2>1. UNCHANGED <<todo, inbox, limit>>
    BY <1>4 DEF ChooseSources, workVars
  <2>2. \A s \in Source : /\ Throttled(s) => Throttled(s)'
                          /\ Asked(s) => Asked(s)'
    BY <2>1 DEF Throttled, Full, Asked
  <2>3. \A s \in Source : /\ status[s] = "closed" => status'[s] = "closed"
                          /\ status'[s] = "active" => status[s] = "active"
    BY <1>4 DEF ChooseSources, Lowest, SourcesQueue, Node
  <2> QED
    BY <1>1, <1>2, <1>3, <2>2, <2>3, KeepSources
<1>5. CASE StopQueues(t)
  <2>1. UNCHANGED <<inbox, limit, status>>
    BY <1>5 DEF StopQueues, nodeVars
  <2> DEFINE C == {s \in Source : status[s] = "chosen"}
  <2>2. todo' = [todo EXCEPT ![t] = @ \cup ({"activate"} \X C)]
    BY <1>5 DEF StopQueues
  <2> HIDE DEF C
  <2>3. \A u \in Thread : todo[u] \subseteq todo'[u]
    BY <2>2 DEF TypeOK
  <2>4. \A s \in Source : Asked(s) => Asked(s)'
    BY <2>3 DEF Asked
  <2>5. \A s : Throttled(s) => Throttled(s)'
    BY <2>1 DEF Throttled, Full
  <2> QED
    BY <1>1, <1>2, <1>3, <2>1, <2>4, <2>5, KeepSources
<1>6. CASE UnthrottleSources(t)
  <2> DEFINE grown == [e \in Stream |-> IF Full(e) THEN inbox[e] + 1 ELSE limit[e]]
  <2>1. UNCHANGED <<inbox, status>> /\ limit' = grown
    BY <1>6 DEF UnthrottleSources
  <2>2. todo' = [todo EXCEPT ![t] = @ \cup ({"unthrottled"} \X Freed(inbox, grown))]
    BY <1>6 DEF UnthrottleSources
  <2>3. inbox \in [Stream -> Nat] /\ grown \in [Stream -> Nat]
    BY DEF TypeOK
  <2> HIDE DEF grown
  <2>4. todo'[t] = todo[t] \cup ({"unthrottled"} \X Freed(inbox, grown))
        /\ \A u \in Thread : todo[u] \subseteq todo'[u]
    BY <2>2 DEF TypeOK
  <2>5. \A s \in Source : Asked(s) => Asked(s)'
    BY <2>4 DEF Asked
  <2>6. ASSUME NEW s \in Source, Throttled(s), status[s] = "active"
        PROVE  Throttled(s)' \/ Asked(s)'
    <3>1. CASE s \in Freed(inbox, grown)
      <4>1. <<"unthrottled", s>> \in todo'[t]
        BY <2>4, <3>1
      <4> QED
        BY <4>1 DEF Asked
    <3> QED
      BY <2>1, <2>3, <2>6, <3>1, FreedOrThrottled
  <2> QED
    BY <1>1, <1>2, <1>3, <2>1, <2>5, <2>6, KeepSources
<1> QED
  BY <1>4, <1>5, <1>6

LEMMA ScheduleForOpenSources ==
  ASSUME TypeOK, SourcesCared, NEW t \in Thread, NEW n \in Node, ScheduleForOpen(t, n)
  PROVE  SourcesCared'
<1>1. /\ UNCHANGED <<item, phase, status, flight, inbox, limit, hasError>>
      /\ items \subseteq items'
  BY DEF ScheduleForOpen, Push, queueVars, nodeVars, flags
<1>2. \A u \in Thread : todo'[u] = IF u = t THEN todo[t] \ {<<"open", n>>} ELSE todo[u]
  BY DEF ScheduleForOpen, Forget, TypeOK
<1>3. \A s \in Source : Asked(s) => Asked(s)'
  BY <1>2 DEF Asked
<1>4. \A s : (Claimed(s) => Claimed(s)') /\ (Throttled(s) => Throttled(s)')
  BY <1>1 DEF Claimed, Throttled, Full
<1> QED
  BY <1>1, <1>3, <1>4, KeepSources

LEMMA ScheduleSourceSources ==
  ASSUME TypeOK, RequestsFit, SourcesCared, NEW t \in Thread, NEW r \in todo[t],
         ScheduleSource(t, r)
  PROVE  SourcesCared'
<1> DEFINE s == r[2]
<1>0. /\ s \in Source /\ s \in Node /\ r = <<r[1], s>>
      /\ r[1] \in {"check", "activate", "unthrottled", "run", "close"}
  BY DEF ScheduleSource, Node, TypeOK, Request
<1>1. /\ UNCHANGED <<item, phase, inbox, limit, hasError>>
      /\ items \subseteq items'
      /\ status' = [status EXCEPT ![s] = IF r[1] = "activate" THEN "active" ELSE @]
  BY DEF ScheduleSource, Push, queueVars, flags
<1>2. \A u \in Thread : todo'[u] = IF u = t THEN todo[t] \ {r} ELSE todo[u]
  BY DEF ScheduleSource, Forget, TypeOK
<1>3. \A x : (Claimed(x) => Claimed(x)') /\ (Throttled(x) => Throttled(x)')
  BY <1>1 DEF Claimed, Throttled, Full
<1>4. \A x \in Source \ {s} : /\ Asked(x) => Asked(x)'
                              /\ status'[x] = status[x]
  BY <1>0, <1>1, <1>2 DEF Asked, TypeOK, Node
<1>5. \/ flight' = flight /\ (hasError \/ s \in flight \/ Throttled(s))
      \/ flight' = flight \cup {s} /\ <<"run", s>> \in items'
  BY DEF ScheduleSource, Push
<1>6. /\ r[1] = "activate" => status[s] = "chosen"
      /\ r[1] # "activate" => status'[s] = status[s]
  BY <1>0, <1>1 DEF RequestsFit, TypeOK
<1>7. FlightClaimed'
  <2> SUFFICES ASSUME NEW x \in Source, x \in flight'
               PROVE  Claimed(x)' \/ status'[x] = "closed"
    BY DEF FlightClaimed
  <2>1. CASE x \in flight
    <3>1. Claimed(x) \/ status[x] = "closed"
      BY <2>1 DEF SourcesCared, FlightClaimed
    <3> QED
      BY <1>3, <1>4, <1>6, <3>1
  <2>2. CASE x \notin flight
    BY <1>5, <2>2 DEF Claimed
  <2> QED
    BY <2>1, <2>2
<1>8. ActiveCared'
  <2> SUFFICES ASSUME NEW x \in Source, status'[x] = "active", ~hasError
               PROVE  Throttled(x)' \/ Claimed(x)' \/ Asked(x)'
    BY <1>1 DEF ActiveCared
  <2>1. CASE x # s
    BY <1>3, <1>4, <2>1 DEF SourcesCared, ActiveCared
  <2>2. CASE x = s
    <3>1. s \in flight => Claimed(s)
      BY <1>6, <2>2 DEF SourcesCared, FlightClaimed
    <3> QED
      BY <1>3, <1>5, <2>2, <3>1 DEF Claimed
  <2> QED
    BY <2>1, <2>2
<1> QED
  BY <1>7, <1>8 DEF SourcesCared

LEMMA AddJoinSources ==
  ASSUME TypeOK, SourcesCared, NEW t \in Thread, NEW r \in todo[t], AddJoin(t, r)
  PROVE  SourcesCared'
<1>1. /\ UNCHANGED <<item, phase, status, inbox, limit, hasError>>
      /\ items \subseteq items' /\ flight' \subseteq flight
  BY DEF AddJoin, Push, queueVars, flags
<1>2. \A u \in Thread : todo'[u] = IF u = t THEN todo[t] \ {r} ELSE todo[u]
  BY DEF AddJoin, Forget, TypeOK
<1>3. r[1] \in {"run", "close"}
  BY DEF AddJoin
<1>4. \A s \in Source : Asked(s) => Asked(s)'
  BY <1>2, <1>3 DEF Asked
<1>5. \A s : (Claimed(s) => Claimed(s)') /\ (Throttled(s) => Throttled(s)')
  BY <1>1 DEF Claimed, Throttled, Full
<1> QED
  BY <1>1, <1>4, <1>5, KeepSources

LEMMA CheckJoinSources ==
  ASSUME TypeOK, SourcesCared, NEW t \in Thread, NEW n \in Join, CheckJoin(t, n)
  PROVE  SourcesCared'
<1>0. \A s \in Source : s # n
  BY SchedulerAssumption
<1>1. /\ UNCHANGED <<items, item, phase, status, limit, hasError>>
      /\ flight' \subseteq flight \cup {n}
  BY DEF CheckJoin, queueVars, flags
<1>2. \E m : Forget(t, <<"check", n>>, m)
  BY DEF CheckJoin
<1>3. \A u \in Thread, s \in Source, k \in {"check", "unthrottled"} :
        <<k, s>> \in todo[u] => <<k, s>> \in todo'[u]
  BY <1>0, <1>2 DEF Forget, TypeOK
<1>4. \A s \in Source : Asked(s) => Asked(s)'
  BY <1>3 DEF Asked
<1>5. \A s : Claimed(s) => Claimed(s)'
  BY <1>1 DEF Claimed
<1>6. \A s \in Source : Throttled(s) /\ status[s] = "active" => Throttled(s)' \/ Asked(s)'
  <2>1. CASE UNCHANGED inbox
    BY <1>1, <2>1 DEF Throttled, Full
  <2>2. CASE inbox' = InboxAfter(n) /\ Forget(t, <<"check", n>>, {<<"run", n>>} \cup
                                      ({"unthrottled"} \X Freed(InboxAfter(n), limit)))
    <3> SUFFICES ASSUME NEW s \in Source, Throttled(s), status[s] = "active"
                 PROVE  Throttled(s)' \/ Asked(s)'
      OBVIOUS
    <3> DEFINE after == InboxAfter(n)
               U == {"unthrottled"} \X Freed(after, limit)
    <3>1. after \in [Stream -> Nat] /\ limit \in [Stream -> Nat]
      BY DEF InboxAfter, TypeOK
    <3>2. s \in Freed(after, limit) => <<"unthrottled", s>> \in U
      OBVIOUS
    <3>3. inbox' = after /\ limit' = limit /\ Forget(t, <<"check", n>>, {<<"run", n>>} \cup U)
      BY <1>1, <2>2
    <3> HIDE DEF after, U
    <3>4. U \subseteq todo'[t]
      BY <3>3 DEF Forget, TypeOK
    <3>5. CASE s \in Freed(after, limit)
      BY <3>2, <3>4, <3>5 DEF Asked
    <3> QED
      BY <3>1, <3>3, <3>5, FreedOrThrottled
  <2> QED
    BY <2>1, <2>2 DEF CheckJoin
<1> QED
  BY <1>0, <1>1, <1>4, <1>5, <1>6, KeepSources

-----------------------------------------------------------------------------
LEMMA RunNextTaskSources ==
  ASSUME TypeOK, WorkInv, SourcesCared, NEW t \in Thread, NEW q \in Queue,
         RunNextTask(t, q)
  PROVE  SourcesCared'
<1>1. PICK o \in items :
        /\ items' = items \ {o} /\ item' = [item EXCEPT ![t] = o]
        /\ phase' = [phase EXCEPT ![t] = "popped"] /\ Free(t)
        /\ Queues!RunNextTask(t, q)
        /\ UNCHANGED <<todo, status, flight, inbox, limit, hasError>>
  BY DEF RunNextTask, ItemsOf, nodeVars, flags
<1>2. \A s : (Throttled(s) => Throttled(s)') /\ (Asked(s) => Asked(s)')
  BY <1>1 DEF Throttled, Full, Asked
<1>3. phase[t] \notin {"popped", "processed"} => \A s \in Source : Claimed(s) => Claimed(s)'
  BY <1>1 DEF Claimed, TypeOK
<1>4. phase[t] = "none"
  BY RunNextTaskFree DEF WorkInv, WorkMatches
<1> QED
  BY <1>1, <1>2, <1>3, <1>4, KeepSources

\* A task that goes on: the requests the thread had not made are none.
LEMMA TaskSources ==
  ASSUME TypeOK, SourcesCared, NEW t \in Thread, hasError => hasError',
         UNCHANGED <<items, item, flight, limit>>,
         todo[t] = {} \/ UNCHANGED todo,
         \A u \in Thread \ {t} : todo'[u] = todo[u] /\ phase'[u] = phase[u],
         inbox' = inbox \/ \E f : inbox' = InboxWith(f),
         phase'[t] = "processed" \/ phase[t] \notin {"popped", "processed"}
           \/ \A s \in Source : item[t] # <<"run", s>>,
         \A s \in Source : /\ status[s] = "closed" => status'[s] = "closed"
                           /\ status'[s] = "active" => status[s] = "active"
  PROVE  SourcesCared'
<1>1. \A s : Throttled(s) => Throttled(s)'
  BY ThrottledStays
<1>2. \A s \in Source : Claimed(s) => Claimed(s)'
  BY DEF Claimed
<1>3. \A s \in Source : Asked(s) => Asked(s)'
  BY DEF Asked
<1> QED
  BY <1>1, <1>2, <1>3, KeepSources

LEMMA RunningSources ==
  ASSUME TypeOK, TasksHaveItems, ClaimInv, Statuses, WorkInv, SourcesCared,
         [Next]_vars, NEW t \in Worker, Running(t)
  PROVE  SourcesCared'
<1>0. t \in Thread
  BY DEF Thread
<1>1. hasError => hasError'
  BY ErrorStays
<1>2. \A u \in Thread \ {t} : todo'[u] = todo[u] /\ phase'[u] = phase[u]
  BY <1>0, RunningStepApart DEF Apart
<1>3. phase[t] = "popped" => todo[t] = {}
  BY <1>0 DEF WorkInv, TasksBeginFree, Free, Settled
<1>4. ASSUME NEW n \in Node, OpenNode(t, n)
      PROVE  SourcesCared'
  <2>1. /\ Popped(t, "open", n) /\ UNCHANGED <<items, item, flight, inbox, limit>>
        /\ status' = [status EXCEPT ![n] = "opened"]
    BY <1>4 DEF OpenNode, queueVars
  <2>2. status[n] = "prepared"
    <3>1. "work" \in Where /\ t \in Holder /\ <<"open", n>> \in Item
          /\ Holds("work", t, <<"open", n>>)
      BY <1>0, <2>1, SchedulerAssumption
         DEF Where, Holder, Item, Holds, Popped, Thread
    <3>2. Fits("work", t, <<"open", n>>)
      BY <3>1 DEF Statuses, ClaimsFit
    <3> QED
      BY <3>2 DEF Fits
  <2>3. \A s \in Source : item[t] # <<"run", s>>
    BY <2>1 DEF Popped
  <2>4. \A s \in Source : /\ status[s] = "closed" => status'[s] = "closed"
                          /\ status'[s] = "active" => status[s] = "active"
    BY <2>1, <2>2 DEF TypeOK
  <2> QED
    BY <1>0, <1>1, <1>2, <1>3, <2>1, <2>3, <2>4, TaskSources DEF Popped
<1>5. ASSUME NEW n \in Source, RunSource(t, n)
      PROVE  SourcesCared'
  <2>1. /\ Popped(t, "run", n) /\ UNCHANGED <<items, item, flight, limit>>
        /\ phase'[t] = "processed"
        /\ status' = status \/ status' = [status EXCEPT ![n] = "closed"]
        /\ inbox' = inbox \/ inbox' = InboxWith(n)
    BY <1>0, <1>5 DEF RunSource, queueVars, TypeOK
  <2>2. \A s \in Source : /\ status[s] = "closed" => status'[s] = "closed"
                          /\ status'[s] = "active" => status[s] = "active"
    BY <2>1 DEF TypeOK, Node
  <2> QED
    BY <1>0, <1>1, <1>2, <1>3, <2>1, <2>2, TaskSources DEF Popped
<1>6. ASSUME NEW n \in Join, RunJoin(t, n) \/ CloseJoin(t, n)
      PROVE  SourcesCared'
  <2>1. /\ phase[t] = "popped" /\ UNCHANGED <<items, item, flight, limit, inbox>>
        /\ phase'[t] = "processed"
    BY <1>0, <1>6 DEF RunJoin, CloseJoin, Popped, queueVars, TypeOK
  <2>2. \A s \in Source : /\ status[s] = "closed" => status'[s] = "closed"
                          /\ status'[s] = "active" => status[s] = "active"
    <3>1. CASE RunJoin(t, n)
      BY <3>1 DEF RunJoin, Node
    <3>2. CASE CloseJoin(t, n)
      BY <3>2, SchedulerAssumption DEF CloseJoin, TypeOK, Node
    <3> QED
      BY <1>6, <3>1, <3>2
  <2> QED
    BY <1>0, <1>1, <1>2, <1>3, <2>1, <2>2, TaskSources
<1>7. CASE EndScheduling(t)
  <2> DEFINE n == item[t][2]
  <2>1. /\ UNCHANGED <<items, item, status, inbox, limit, hasError>>
        /\ phase[t] = "processed" /\ phase'[t] = "ended"
    BY <1>0, <1>7 DEF EndScheduling, queueVars, flags, TypeOK
  <2>2. todo[t] = {}
    BY <1>7 DEF EndScheduling, Settled
  <2>3. \/ status[n] \in {"opened", "active"} /\ flight' = flight \ {n}
           /\ todo'[t] = {<<"check", n>>}
        \/ status[n] \notin {"opened", "active"} /\ flight' = flight
    BY <1>0, <1>7 DEF EndScheduling, TypeOK
  <2>4. ASSUME NEW s \in Source, item[t] = <<"run", s>>
        PROVE  n = s /\ status[s] \in {"active", "closed"}
    <3>1. n = s
      BY <2>4
    <3>2. "work" \in Where /\ t \in Holder /\ <<"run", s>> \in Item
          /\ Holds("work", t, <<"run", s>>)
      BY <1>0, <2>1, <2>4, SchedulerAssumption
         DEF Where, Holder, Item, Holds, Thread, Node
    <3>3. Fits("work", t, <<"run", s>>)
      BY <3>2 DEF Statuses, ClaimsFit
    <3> QED
      BY <3>1, <3>3, SchedulerAssumption DEF Fits
  <2>5. \A s \in Source : Asked(s) => Asked(s)'
    BY <1>2, <2>2 DEF Asked
  <2>6. \A s : Throttled(s) => Throttled(s)'
    BY <2>1 DEF Throttled, Full
  <2>7. \A s \in Source : Claimed(s) => Claimed(s)' \/ item[t] = <<"run", s>>
    BY <1>2, <2>1 DEF Claimed
  <2>8. FlightClaimed'
    <3> SUFFICES ASSUME NEW s \in Source, s \in flight'
                 PROVE  Claimed(s)' \/ status[s] = "closed"
      BY <2>1 DEF FlightClaimed
    <3>1. s \in flight /\ (Claimed(s) \/ status[s] = "closed")
      BY <2>3 DEF SourcesCared, FlightClaimed
    <3>2. CASE item[t] = <<"run", s>>
      BY <2>3, <2>4, <3>2
    <3> QED
      BY <2>7, <3>1, <3>2
  <2>9. ActiveCared'
    <3> SUFFICES ASSUME NEW s \in Source, status[s] = "active", ~hasError
                 PROVE  Throttled(s)' \/ Claimed(s)' \/ Asked(s)'
      BY <2>1 DEF ActiveCared
    <3>1. CASE item[t] = <<"run", s>>
      <4>1. <<"check", s>> \in todo'[t]
        BY <2>3, <2>4, <3>1
      <4> QED
        BY <1>0, <4>1 DEF Asked
    <3> QED
      BY <2>5, <2>6, <2>7, <3>1 DEF SourcesCared, ActiveCared
  <2> QED
    BY <2>8, <2>9 DEF SourcesCared
<1>8. ASSUME NEW q \in Queue, FinishTask(t, q)
      PROVE  SourcesCared'
  <2>1. /\ UNCHANGED <<items, todo, status, flight, inbox, limit, hasError>>
        /\ phase[t] = "ended" /\ phase' = [phase EXCEPT ![t] = "none"]
        /\ item' = [item EXCEPT ![t] = None]
    BY <1>8 DEF FinishTask, nodeVars, flags
  <2>2. \A s : (Claimed(s) => Claimed(s)')
    BY <1>0, <2>1 DEF Claimed, TypeOK
  <2>3. \A s : (Throttled(s) => Throttled(s)') /\ (Asked(s) => Asked(s)')
    BY <2>1 DEF Throttled, Full, Asked
  <2> QED
    BY <2>1, <2>2, <2>3, KeepSources
<1>9. ASSUME NEW q \in Queue, RunNextTask(t, q)
      PROVE  SourcesCared'
  BY <1>0, <1>9, RunNextTaskSources
<1> QED
  BY <1>4, <1>5, <1>6, <1>7, <1>8, <1>9 DEF Running

LEMMA AppSources ==
  ASSUME TypeOK, SourcesCared, NEW a \in App, AddPacket(a) \/ CloseInput(a)
  PROVE  SourcesCared'
<1>1. /\ UNCHANGED <<items, item, phase, status, flight, limit, hasError>>
      /\ inbox' = inbox \/ inbox' = InboxWith(Input)
  BY DEF AddPacket, CloseInput, queueVars, flags, nodeVars
<1>2. todo[a] = {} /\ a \in Thread
  BY DEF AddPacket, CloseInput, Begin, Free, Settled, Thread
<1>3. \A u \in Thread \ {a} : todo'[u] = todo[u]
  BY <1>2 DEF AddPacket, CloseInput, TypeOK
<1>4. \A s \in Source : Asked(s) => Asked(s)'
  BY <1>2, <1>3 DEF Asked
<1>5. \A s : Throttled(s) => Throttled(s)'
  BY <1>1, ThrottledStays
<1>6. \A s : Claimed(s) => Claimed(s)'
  BY <1>1 DEF Claimed
<1> QED
  BY <1>1, <1>4, <1>5, <1>6, KeepSources

\* Every step keeps them.
LEMMA SourceStep ==
  ASSUME TypeOK, TasksHaveItems, ClaimInv, StatusInv, WorkInv, SourceInv, [Next]_vars
  PROVE  SourceInv'
<1> SUFFICES ASSUME call'[Main] # "cleanup"
             PROVE  SourcesCared'
  BY DEF SourceInv
<1>1. call[Main] # "cleanup" /\ ~StartCleanup
  BY CleanupStays
<1>2. SourcesCared /\ Statuses /\ RequestsFit
  BY <1>1 DEF SourceInv, StatusInv, Statuses
<1>3. CASE UNCHANGED claimVars
  <2>1. \A s : /\ Claimed(s) => Claimed(s)'
               /\ Throttled(s) => Throttled(s)'
               /\ Asked(s) => Asked(s)'
    BY <1>3 DEF claimVars, Claimed, Throttled, Full, Asked
  <2>2. UNCHANGED <<flight, status>>
    BY <1>3 DEF claimVars
  <2> QED
    BY <1>2, <2>1, <2>2, ErrorStays, KeepSources
<1>4. ASSUME NEW t \in Thread, NodeStep(t)
      PROVE  SourcesCared'
  BY <1>2, <1>4, HandlerSources, ScheduleForOpenSources, ScheduleSourceSources,
     AddJoinSources, CheckJoinSources, RunningSources, AppSources DEF NodeStep
<1>5. \A q \in Queue : ~CleanupQueue(q)
  BY <1>1 DEF CleanupQueue
<1> QED
  BY <1>1, <1>3, <1>4, <1>5, StepCases

-----------------------------------------------------------------------------
\* What the counters of the queues say of the threads and the items.
LEMMA QueueCounts ==
  TypeOK /\ Proved!IInv =>
    /\ \A q \in Queue : \A t \in Thread : work[t] = q => pending[q] > 0
    /\ \A i \in items : i[2] \in Node => ~Queues!IsIdle(QueueOf[i[2]])
    /\ (\A q \in Queue : Queues!IsIdle(q)) /\ owesActive = {} /\ owesIdle = {}
         => nonIdle = 0
    /\ \A q \in Queue :
         executor[q] = 0 /\ (\A t \in Thread : inHand[q][t] = 0 /\ work[t] # q)
           => pending[q] = 0 /\ Cardinality(ItemsOf(q)) = toAdd[q]
    /\ \A q \in Queue : Queues!IsIdle(q) <=> Cardinality(ItemsOf(q)) = 0 /\ pending[q] = 0
<1> SUFFICES ASSUME TypeOK, Proved!IInv
             PROVE  /\ \A q \in Queue : \A t \in Thread : work[t] = q => pending[q] > 0
                    /\ \A i \in items : i[2] \in Node => ~Queues!IsIdle(QueueOf[i[2]])
                    /\ (\A q \in Queue : Queues!IsIdle(q)) /\ owesActive = {} /\ owesIdle = {}
                         => nonIdle = 0
                    /\ \A q \in Queue :
                         executor[q] = 0 /\ (\A t \in Thread : inHand[q][t] = 0 /\ work[t] # q)
                           => pending[q] = 0 /\ Cardinality(ItemsOf(q)) = toAdd[q]
                    /\ \A q \in Queue : Queues!IsIdle(q) <=>
                         Cardinality(ItemsOf(q)) = 0 /\ pending[q] = 0
  OBVIOUS
<1>0. /\ \A q \in Queue : toAdd[q] \in Nat /\ pending[q] \in Nat /\ executor[q] \in Nat
                          /\ Cardinality(ItemsOf(q)) \in Nat
      /\ nonIdle \in Int
      /\ Proved!Thread = Thread
  BY DEF Proved!IInv, Proved!TypeOK, Proved!Thread, Thread
<1>1. \A q \in Queue : Queues!IsIdle(q) <=> Cardinality(ItemsOf(q)) = 0 /\ pending[q] = 0
  BY DEF Queues!IsIdle
<1>2. \A q \in Queue : Proved!Cardinality(Proved!Held(q)) \in Nat
  BY QueueConstantsHold, Proved!HeldFinite
<1>3. \A q \in Queue : Proved!IsFiniteSet(Proved!Running(q)) /\ Proved!Cardinality(Proved!Running(q)) \in Nat
  BY QueueConstantsHold, Proved!RunningFinite
<1>4. \A q \in Queue :
        /\ pending[q] = executor[q] + Proved!Cardinality(Proved!Held(q)) + Proved!Cardinality(Proved!Running(q))
        /\ Cardinality(ItemsOf(q)) = toAdd[q] + executor[q] + Proved!Cardinality(Proved!Held(q))
  BY DEF Proved!IInv, Proved!PendingTasksMatch, Proved!WaitingTasksMatch
<1>5. \A q \in Queue : \A t \in Thread : work[t] = q => pending[q] > 0
  <2> SUFFICES ASSUME NEW q \in Queue, NEW t \in Thread, work[t] = q
               PROVE  pending[q] > 0
    OBVIOUS
  <2>1. Proved!Running(q) # {}
    BY <1>0 DEF Proved!Running
  <2>2. Proved!Cardinality(Proved!Running(q)) # 0
    BY <1>3, <2>1, QueueConstantsHold, Proved!FS_EmptySet
  <2> QED
    BY <1>0, <1>2, <1>3, <1>4, <2>2
<1>6. \A i \in items : i[2] \in Node => ~Queues!IsIdle(QueueOf[i[2]])
  <2> SUFFICES ASSUME NEW i \in items, i[2] \in Node
               PROVE  Cardinality(ItemsOf(QueueOf[i[2]])) # 0
    BY <1>1, SchedulerAssumption
  <2>1. ItemsOf(QueueOf[i[2]]) # {} /\ ItemsOf(QueueOf[i[2]]) \subseteq items
    BY DEF ItemsOf
  <2>2. IsFiniteSet(ItemsOf(QueueOf[i[2]]))
    BY <2>1, NodeFinite, FS_Subset DEF TypeOK
  <2> QED
    BY <2>1, <2>2, FS_EmptySet
<1>7. (\A q \in Queue : Queues!IsIdle(q)) /\ owesActive = {} /\ owesIdle = {} => nonIdle = 0
  <2> SUFFICES ASSUME \A q \in Queue : Queues!IsIdle(q), owesActive = {}, owesIdle = {}
               PROVE  nonIdle = 0
    OBVIOUS
  <2>1. Proved!Busy = {}
    BY DEF Proved!Busy, Proved!IsIdle, Queues!IsIdle
  <2> QED
    BY <1>0, <2>1, EmptyCardinality DEF Proved!IInv, Proved!CallbacksBalance
<1>8. \A q \in Queue :
        executor[q] = 0 /\ (\A t \in Thread : inHand[q][t] = 0 /\ work[t] # q)
           => pending[q] = 0 /\ Cardinality(ItemsOf(q)) = toAdd[q]
  <2> SUFFICES ASSUME NEW q \in Queue, executor[q] = 0,
                      \A t \in Thread : inHand[q][t] = 0 /\ work[t] # q
               PROVE  pending[q] = 0 /\ Cardinality(ItemsOf(q)) = toAdd[q]
    OBVIOUS
  <2>1. Proved!Running(q) = {}
    BY <1>0 DEF Proved!Running
  <2>2. Proved!Held(q) = {}
    <3> SUFFICES ASSUME NEW p \in Thread \X (1 .. 2 * Cardinality(Node)),
                        p[2] <= inHand[q][p[1]]
                 PROVE  FALSE
      BY <1>0 DEF Proved!Held
    <3>1. p[1] \in Thread /\ p[2] \in 1 .. 2 * Cardinality(Node)
      OBVIOUS
    <3>2. inHand[q][p[1]] = 0 /\ p[2] > 0
      BY <3>1, NodeFinite
    <3> QED
      BY <3>1, <3>2, NodeFinite
  <2>3. Proved!Cardinality(Proved!Held(q)) = 0 /\ Proved!Cardinality(Proved!Running(q)) = 0
    BY <2>1, <2>2, EmptyCardinality
  <2>4. /\ pending[q] = executor[q] + Proved!Cardinality(Proved!Held(q)) + Proved!Cardinality(Proved!Running(q))
        /\ Cardinality(ItemsOf(q)) = toAdd[q] + executor[q] + Proved!Cardinality(Proved!Held(q))
    BY <1>4
  <2> QED
    BY <1>0, <2>3, <2>4
<1> QED
  BY <1>1, <1>5, <1>6, <1>7, <1>8

-----------------------------------------------------------------------------
\* Every queue is idle, and no thread still has to tell the scheduler of it or
\* to make the call of HandleIdle that follows what it did.
Calm ==
  /\ \A q \in Queue : Queues!IsIdle(q)
  /\ owesActive = {} /\ owesIdle = {}
  /\ \A a \in App : call[a] \notin {"add", "close"}

\* What HandleIdle has found in a calm moment is still so unless somebody has
\* asked it to look again (handling_idle_ above 1), by the place where it
\* stands.
MissInv ==
  state \in {"RUNNING", "CANCELLING"} /\ Calm /\ ~again =>
    /\ stage \in {"none", "nothing"} => ~QuitDue /\ Active = {} /\ SourcesQueue = {}
    /\ stage = "unthrottle" => ~QuitDue /\ (Active # {} \/ SourcesQueue = {})

\* It says nothing of a moment that is not calm.
LEMMA NoRest ==
  ASSUME \/ state' \notin {"RUNNING", "CANCELLING"} \/ ~Calm' \/ again'
         \/ stage' \notin {"none", "nothing", "unthrottle"}
  PROVE  MissInv'
BY DEF MissInv

\* A step that disturbs nothing keeps it.
LEMMA KeepRest ==
  ASSUME MissInv, Calm' => Calm,
         UNCHANGED <<state, again, stage, status, hasError, inputsClosed>>
  PROVE  MissInv'
<1>1. /\ QuitDue' <=> QuitDue
      /\ Active' = Active /\ SourcesQueue' = SourcesQueue
  BY Zenon DEF QuitDue, Active, SourcesQueue
<1> QED
  BY <1>1 DEF MissInv

\* Calm is a matter of the queues and the calls.
LEMMA SameCalm ==
  ASSUME UNCHANGED queueVars, UNCHANGED call
  PROVE  Calm' <=> Calm
<1>1. \A q : ItemsOf(q)' = ItemsOf(q)
  BY DEF ItemsOf, queueVars
<1> QED
  BY <1>1 DEF Calm, Queues!IsIdle, queueVars

\* QueueCounts after a step.
LEMMA QueueCountsNext ==
  TypeOK' /\ Proved!IInv' =>
    /\ \A q \in Queue : \A t \in Thread : work'[t] = q => pending'[q] > 0
    /\ \A i \in items' : i[2] \in Node => ~Queues!IsIdle(QueueOf[i[2]])'
    /\ (\A q \in Queue : Queues!IsIdle(q)') /\ owesActive' = {} /\ owesIdle' = {}
         => nonIdle' = 0
<1> DEFINE Counts ==
      /\ \A q \in Queue : \A t \in Thread : work[t] = q => pending[q] > 0
      /\ \A i \in items : i[2] \in Node => ~Queues!IsIdle(QueueOf[i[2]])
      /\ (\A q \in Queue : Queues!IsIdle(q)) /\ owesActive = {} /\ owesIdle = {}
           => nonIdle = 0
<1>1. TypeOK /\ Proved!IInv => Counts
  BY QueueCounts
<1>2. TypeOK' /\ Proved!IInv' => Counts'
  <2> HIDE DEF Counts
  <2> QED
    BY <1>1, PTL
<1> QED
  BY <1>2

\* Entering HandleIdle is never too late.
LEMMA EnterRest ==
  ASSUME NEW t \in Thread, EnterHandleIdle(t)
  PROVE  MissInv'
BY NoRest DEF EnterHandleIdle

\* A queue with an item, or a thread with a task, is not idle.
LEMMA PushedRest ==
  ASSUME TypeOK', Proved!IInv', NEW i \in items', i[2] \in Node
  PROVE  MissInv'
<1>1. ~Queues!IsIdle(QueueOf[i[2]])' /\ QueueOf[i[2]] \in Queue
  BY QueueCountsNext, SchedulerAssumption
<1> QED
  BY <1>1, NoRest DEF Calm

\* A thread that runs a task disturbs the calm.
LEMMA WorkingNotCalm ==
  ASSUME TypeOK, Proved!IInv, NEW t \in Thread, work[t] # None
  PROVE  ~Calm
<1>1. work[t] \in Queue
  BY DEF TypeOK, Queues!TypeOK, Queues!Thread, Thread
<1>2. pending[work[t]] > 0
  BY <1>1, QueueCounts
<1>3. ~Queues!IsIdle(work[t])
  BY <1>1, <1>2, QueueCounts
<1> QED
  BY <1>1, <1>3 DEF Calm

\* In a calm moment a source that is open, and not throttled, is not active.
LEMMA CalmSources ==
  ASSUME TypeOK, Proved!IInv, WorkInv, RequestsOwned, Chosen, CleanupComesLast,
         SourceInv, Calm, ~hasError, state \in {"RUNNING", "CANCELLING"},
         stage \in {"unthrottle", "nothing"}, \A s \in Source : ~Throttled(s)
  PROVE  Active = {}
<1> SUFFICES ASSUME NEW s \in Source, status[s] \in {"chosen", "active"}
             PROVE  FALSE
  BY DEF Active
<1>1. call[Main] # "cleanup"
  BY DEF CleanupComesLast
<1>2. status[s] = "active"
  BY <1>1 DEF Chosen
<1>3. \A t \in Thread : work[t] = None /\ phase[t] = "none"
  BY WorkingNotCalm DEF WorkInv, WorkMatches
<1>4. ~Claimed(s)
  <2>1. <<"run", s>> \notin items
    BY QueueCounts, SchedulerAssumption DEF Calm, Node
  <2> QED
    BY <1>3, <2>1 DEF Claimed
<1>5. ~Asked(s)
  BY <1>3 DEF Asked, RequestsOwned, Owned, Calm
<1> QED
  BY <1>1, <1>2, <1>4, <1>5 DEF SourceInv, SourcesCared, ActiveCared

\* The calm moments, one group of steps after the other.
LEMMA HandlingRest ==
  ASSUME TypeOK, Proved!IInv, WorkInv, RequestsOwned, Chosen, CleanupComesLast,
         SourceInv, MissInv, NEW t \in Thread, Handling(t)
  PROVE  MissInv'
<1>1. CASE StopHandling(t)
  <2>1. ~Calm \/ state \notin {"RUNNING", "CANCELLING"}
    BY <1>1, QueueCounts DEF StopHandling, Working, AllIdle, Calm
  <2>2. UNCHANGED <<queueVars, call, state>>
    BY <1>1 DEF StopHandling, appVars
  <2> QED
    BY <2>1, <2>2, SameCalm, NoRest
<1>2. CASE Quit(t)
  BY <1>2, NoRest DEF Quit
<1>3. CASE ReportSourceDeadlock(t) \/ ChooseSources(t) \/ StopQueues(t) \/ RestartQueues(t)
  BY <1>3, NoRest
     DEF ReportSourceDeadlock, ChooseSources, StopQueues, RestartQueues,
     InLoop, idleVars
<1>4. CASE TryToUnthrottle(t) \/ NothingLeft(t)
  <2>1. /\ UNCHANGED <<status, hasError, inputsClosed>>
        /\ ~QuitDue /\ (Active # {} \/ SourcesQueue = {})
        /\ stage' = "none" => Active = {} /\ SourcesQueue = {}
        /\ stage' \in {"none", "unthrottle"}
    BY <1>4 DEF TryToUnthrottle, NothingLeft, LeaveHandleIdle, nodeVars, flags
  <2>2. /\ QuitDue' <=> QuitDue
        /\ Active' = Active /\ SourcesQueue' = SourcesQueue
    BY <2>1, Zenon DEF QuitDue, Active, SourcesQueue
  <2> QED
    BY <2>1, <2>2 DEF MissInv
<1>5. CASE UnthrottleSources(t)
  <2> DEFINE grown == [e \in Stream |-> IF Full(e) THEN inbox[e] + 1 ELSE limit[e]]
  <2>1. /\ UNCHANGED <<queueVars, call, state, again, status, hasError, inputsClosed>>
        /\ stage = "unthrottle"
        /\ stage' = IF grown # limit THEN "unthrottled" ELSE "nothing"
    BY <1>5 DEF UnthrottleSources, appVars, flags
  <2>2. /\ QuitDue' <=> QuitDue
        /\ Active' = Active /\ SourcesQueue' = SourcesQueue
    BY <2>1, Zenon DEF QuitDue, Active, SourcesQueue
  <2>3. Calm' <=> Calm
    BY <2>1, SameCalm
  <2>4. CASE grown = limit
    <3>1. ASSUME NEW e \in Stream, Full(e)
          PROVE  FALSE
      <4>1. grown[e] = inbox[e] + 1
        BY <3>1
      <4>2. limit[e] = inbox[e] + 1
        BY <2>4, <4>1
      <4> QED
        BY <3>1, <4>2 DEF Full, TypeOK
    <3>2. \A s \in Source : ~Throttled(s)
      BY <3>1 DEF Throttled
    <3>3. SUFFICES ASSUME state \in {"RUNNING", "CANCELLING"}, Calm, ~again
                   PROVE  ~QuitDue /\ Active = {} /\ SourcesQueue = {}
      BY <2>1, <2>2, <2>3, <2>4 DEF MissInv
    <3>4. ~QuitDue /\ (Active # {} \/ SourcesQueue = {})
      BY <2>1, <3>3 DEF MissInv
    <3>5. ~hasError
      BY <3>4 DEF QuitDue
    <3>6. Active = {}
      BY <2>1, <3>2, <3>3, <3>5, CalmSources
    <3> QED
      BY <3>4, <3>6
  <2>5. CASE grown # limit
    BY <2>1, <2>5, NoRest
  <2> QED
    BY <2>4, <2>5
<1>6. CASE Relock(t)
  <2>1. CASE stage' = "loop"
    BY <2>1, NoRest
  <2>2. CASE stage' # "loop"
    <3>1. /\ UNCHANGED <<queueVars, call, state, status, hasError, inputsClosed>>
          /\ stage = "nothing" /\ ~again /\ stage' = "none"
      BY <1>6, <2>2 DEF Relock, LeaveHandleIdle, nodeVars, flags, appVars
    <3>2. /\ QuitDue' <=> QuitDue
          /\ Active' = Active /\ SourcesQueue' = SourcesQueue
      BY <3>1, Zenon DEF QuitDue, Active, SourcesQueue
    <3> QED
      BY <3>1, <3>2, SameCalm DEF MissInv
  <2> QED
    BY <2>1, <2>2
<1> QED
  BY <1>1, <1>2, <1>3, <1>4, <1>5, <1>6 DEF Handling

LEMMA SchedulingRest ==
  ASSUME TypeOK, Proved!IInv, TypeOK', Proved!IInv', ActivationInv, MissInv, NEW t \in Thread,
         Scheduling(t)
  PROVE  MissInv'
<1>1. ASSUME NEW i, i[2] \in Node, Push(t, i)
      PROVE  MissInv'
  BY <1>1, PushedRest DEF Push
<1>2. ASSUME UNCHANGED <<queueVars, call, state, idleVars, status, hasError, inputsClosed>>
      PROVE  MissInv'
  BY <1>2, SameCalm, KeepRest DEF idleVars
<1>3. CASE BecomeActive(t) \/ BecomeIdle(t)
  <2>1. CASE nonIdle' = 0
    BY <1>3, <2>1, EnterRest DEF BecomeActive, BecomeIdle
  <2>2. CASE nonIdle' # 0
    BY <2>2, QueueCountsNext, NoRest DEF Calm
  <2> QED
    BY <2>1, <2>2
<1>4. ASSUME NEW q \in Queue, AddTask(t, q)
      PROVE  MissInv'
  <2>1. UNCHANGED <<items, pending, owesActive, owesIdle, call, state, idleVars, status, hasError, inputsClosed>>
    BY <1>4 DEF AddTask, Queues!AddTask, appVars, nodeVars, flags
  <2>2. \A p : ItemsOf(p)' = ItemsOf(p)
    BY <2>1 DEF ItemsOf
  <2>3. Calm' => Calm
    BY <2>1, <2>2 DEF Calm, Queues!IsIdle
  <2> QED
    BY <2>1, <2>3, KeepRest DEF idleVars
<1>5. ASSUME NEW q \in Queue, SubmitWaitingTasks(t, q)
      PROVE  MissInv'
  <2>1. UNCHANGED <<items, owesActive, owesIdle, call, state, idleVars, status, hasError, inputsClosed>>
    BY <1>5
       DEF SubmitWaitingTasks, Queues!SubmitWaitingTasks, appVars, nodeVars,
           flags
  <2>2. \A p : ItemsOf(p)' = ItemsOf(p)
    BY <2>1 DEF ItemsOf
  <2>3. \A p \in Queue : pending'[p] = 0 => pending[p] = 0
    BY <1>5
       DEF SubmitWaitingTasks, Queues!SubmitWaitingTasks, Queues!TakeTasks,
           TypeOK, Queues!TypeOK
  <2>4. Calm' => Calm
    BY <2>1, <2>2, <2>3 DEF Calm, Queues!IsIdle
  <2> QED
    BY <2>1, <2>4, KeepRest DEF idleVars
<1>6. CASE SubmitAfterHandling(t)
  BY <1>2, <1>6 DEF SubmitAfterHandling, appVars, nodeVars, flags
<1>7. ASSUME NEW n \in Node, ScheduleForOpen(t, n)
      PROVE  MissInv'
  <2>1. CASE Push(t, <<"open", n>>)
    BY <1>1, <2>1
  <2>2. CASE UNCHANGED queueVars
    BY <1>2, <1>7, <2>2 DEF ScheduleForOpen, appVars, nodeVars, flags
  <2> QED
    BY <1>7, <2>1, <2>2 DEF ScheduleForOpen
<1>8. ASSUME NEW r \in todo[t], ScheduleSource(t, r)
      PROVE  MissInv'
  <2>1. CASE Push(t, <<"run", r[2]>>)
    BY <1>1, <1>8, <2>1 DEF ScheduleSource, Node
  <2>2. CASE r[1] = "activate"
    <3>1. stage' = "add"
      BY <1>8, <2>2 DEF ActivationInv, ScheduleSource, idleVars
    <3> QED
      BY <3>1, NoRest
  <2>3. CASE UNCHANGED queueVars /\ r[1] # "activate"
    <3>1. UNCHANGED status
      BY <1>8, <2>3 DEF ScheduleSource, TypeOK
    <3> QED
      BY <1>2, <1>8, <2>3, <3>1 DEF ScheduleSource, appVars, flags
  <2> QED
    BY <1>8, <2>1, <2>2, <2>3 DEF ScheduleSource
<1>9. ASSUME NEW r \in todo[t], AddJoin(t, r)
      PROVE  MissInv'
  <2>1. CASE Push(t, r)
    BY <1>1, <1>9, <2>1 DEF AddJoin, Node
  <2>2. CASE UNCHANGED queueVars
    BY <1>2, <1>9, <2>2 DEF AddJoin, appVars, flags
  <2> QED
    BY <1>9, <2>1, <2>2 DEF AddJoin
<1>10. ASSUME NEW n \in Join, CheckJoin(t, n)
       PROVE  MissInv'
  BY <1>2, <1>10 DEF CheckJoin, appVars, flags
<1> QED
  BY <1>3, <1>4, <1>5, <1>6, <1>7, <1>8, <1>9, <1>10 DEF Scheduling

LEMMA RunningRest ==
  ASSUME TypeOK, Proved!IInv, TypeOK', Proved!IInv', WorkInv, NEW t \in Worker, Running(t)
  PROVE  MissInv'
<1>0. t \in Thread
  BY DEF Thread
<1>1. ASSUME NEW q \in Queue, RunNextTask(t, q)
      PROVE  MissInv'
  <2>1. pending'[q] > 0
    BY <1>0, <1>1, RunNextTaskFree, QueueCountsNext
  <2>2. ~Queues!IsIdle(q)'
    BY <2>1 DEF Queues!IsIdle
  <2> QED
    BY <2>2, NoRest DEF Calm
<1>2. ASSUME NEW q \in Queue, FinishTask(t, q)
      PROVE  MissInv'
  <2>1. /\ work[t] = q /\ items' = items
        /\ pending' = [pending EXCEPT ![q] = @ - 1]
        /\ owesIdle' = IF Cardinality(ItemsOf(q)) = 0 /\ pending[q] = 1
                       THEN owesIdle \cup {t} ELSE owesIdle
    BY <1>2 DEF FinishTask, Queues!FinishTask
  <2>2. pending[q] > 0 /\ pending[q] \in Nat
    BY <1>0, <2>1, QueueCounts DEF TypeOK, Queues!TypeOK
  <2>3. ItemsOf(q)' = ItemsOf(q)
    BY <2>1 DEF ItemsOf
  <2>4. pending'[q] = pending[q] - 1
    BY <2>1 DEF TypeOK, Queues!TypeOK
  <2>5. ~Calm'
    <3>1. CASE Cardinality(ItemsOf(q)) = 0 /\ pending[q] = 1
      BY <2>1, <3>1 DEF Calm
    <3>2. CASE Cardinality(ItemsOf(q)) # 0 \/ pending[q] # 1
      BY <2>2, <2>3, <2>4, <3>2 DEF Calm, Queues!IsIdle
    <3> QED
      BY <3>1, <3>2
  <2> QED
    BY <2>5, NoRest
<1>3. CASE phase[t] # "none" /\ UNCHANGED <<queueVars, call>>
  <2>1. ~Calm
    BY <1>0, <1>3, WorkingNotCalm DEF WorkInv, WorkMatches
  <2> QED
    BY <1>3, <2>1, SameCalm, NoRest
<1> QED
  BY <1>1, <1>2, <1>3 DEF Running, OpenNode, RunSource, RunJoin, CloseJoin,
     EndScheduling, Popped, appVars

\* Every step keeps what HandleIdle has found.
LEMMA MissStep ==
  ASSUME BaseInv, BaseInv', ActivationInv, WorkInv, RequestsOwned, Chosen,
         SourceInv, MissInv, [Next]_vars
  PROVE  MissInv'
<1>0. TypeOK /\ Proved!IInv /\ TypeOK' /\ Proved!IInv' /\ CleanupComesLast
  BY DEF BaseInv, RunningCountMatchesState, CleanupComesLast
<1>1. ASSUME NEW a \in App, Finish(a) \/ Resume(a) \/ Cancel(a)
      PROVE  MissInv'
  <2>1. CASE AddedPacket(a) /\ state = "TERMINATED"
    BY <2>1, NoRest DEF AddedPacket
  <2> QED
    BY <1>1, <2>1, EnterRest
       DEF Finish, AddedPacket, ClosedAllInputs, Resume, Cancel, Thread
<1>2. ASSUME NEW a \in App, Pause(a) \/ AddPacket(a) \/ CloseInput(a)
      PROVE  MissInv'
  <2>1. CASE Pause(a)
    BY <2>1, NoRest DEF Pause
  <2>2. CASE AddPacket(a) \/ CloseInput(a)
    <3>1. call'[a] \in {"add", "close"}
      BY <1>0, <2>2 DEF AddPacket, CloseInput, TypeOK
    <3> QED
      BY <3>1, NoRest DEF Calm
  <2> QED
    BY <1>2, <2>1, <2>2
<1>3. CASE Start
  BY <1>3, EnterRest, SchedulerAssumption DEF Start, Thread
<1>4. CASE StartCleanup
  BY <1>4, NoRest DEF StartCleanup
<1>5. ASSUME NEW q \in Queue, CleanupQueue(q)
      PROVE  MissInv'
  BY <1>0, <1>5, NoRest DEF CleanupQueue, CleanupComesLast
<1>6. CASE UNCHANGED vars
  BY <1>6, SameCalm, KeepRest DEF vars, idleVars, nodeVars, flags, appVars
<1> QED
  BY <1>0, <1>1, <1>2, <1>3, <1>4, <1>5, <1>6, ThreadSteps, HandlingRest,
     SchedulingRest, RunningRest

-----------------------------------------------------------------------------
\* The invariant of a run at rest.
MissedInv == /\ MutexMatches /\ WorkInv /\ RequestsOwned /\ Chosen
             /\ SourceInv /\ MissInv

\* It holds before the run starts.
LEMMA InitMissed == Init => MissedInv
<1> SUFFICES ASSUME Init PROVE MissedInv
  OBVIOUS
<1>1. /\ \A t \in Thread : /\ work[t] = None /\ phase[t] = "none"
                           /\ t # Main => todo[t] = {}
      /\ state = "NOT_STARTED" /\ smutex = None /\ stage = "none" /\ ~again
      /\ \A s \in Source : status[s] \notin {"chosen", "active"}
      /\ flight = {}
  BY SchedulerAssumption DEF Init, Queues!Init, Queues!Thread, Thread, Node
<1>2. MutexMatches /\ WorkInv /\ RequestsOwned /\ Chosen
  BY <1>1 DEF MutexMatches, WorkInv, WorkMatches, TasksBeginFree, RequestsOwned,
     Owned, Chosen, Thread
<1>3. SourceInv /\ MissInv
  BY <1>1 DEF SourceInv, SourcesCared, FlightClaimed, ActiveCared, MissInv
<1> QED
  BY <1>2, <1>3 DEF MissedInv

LEMMA MissedInvariant == Spec => []MissedInv
<1>1. BaseInv /\ BaseInv' /\ NodesInv /\ MissedInv /\ [Next]_vars => MissedInv'
  <2> SUFFICES ASSUME BaseInv, BaseInv', NodesInv, MissedInv, [Next]_vars
               PROVE  MissedInv'
    OBVIOUS
  <2>1. TypeOK /\ HandlerMatches /\ TasksHaveItems
    BY DEF BaseInv, RunningCountMatchesState, HandlerMatches, TasksHaveItems
  <2>2. MutexMatches'
    BY <2>1, MutexStep DEF MissedInv
  <2>3. WorkInv' /\ RequestsOwned'
    BY <2>1, WorkStep, OwnedStep DEF MissedInv
  <2>4. Chosen' /\ SourceInv'
    BY <2>1, ChosenStep, SourceStep DEF MissedInv, NodesInv
  <2>5. MissInv'
    BY MissStep DEF MissedInv, NodesInv
  <2> QED
    BY <2>2, <2>3, <2>4, <2>5 DEF MissedInv
<1> QED
  BY <1>1, InitMissed, BaseInvariant, NodesInvariant, PTL DEF Spec

\* handling_idle_ loses no call of HandleIdle: when no thread is in the middle
\* of anything and the scheduler still runs, neither the end of the run, nor the
\* activation of a source layer, nor a source to unthrottle is due.
THEOREM NothingIsMissed == Spec => []NothingMissed
<1>1. BaseInv /\ MissedInv /\ NoStrandedTask => NothingMissed
  <2> SUFFICES ASSUME BaseInv, MissedInv, NoStrandedTask, Quiescent, state = "RUNNING"
               PROVE  ~QuitDue /\ Active = {} /\ SourcesQueue = {}
    BY DEF NothingMissed
  <2>1. TypeOK /\ Proved!IInv /\ HandlerMatches /\ Counted
    BY DEF BaseInv, RunningCountMatchesState, HandlerMatches, Counted
  <2>2. \A t \in Thread : /\ Returned(t) /\ handler # t /\ work[t] = None
                          /\ t \notin owesSubmit /\ submit[t] = {}
    BY DEF Quiescent, Free, Settled
  <2>3. handler = None /\ stage = "none" /\ ~again
    BY <2>1, <2>2 DEF TypeOK, HandlerMatches, MissedInv, MutexMatches
  <2>4. owesActive = {} /\ owesIdle = {}
    BY <2>1, <2>2
       DEF Returned, Queues!Returned, TypeOK, Queues!TypeOK, Queues!Thread,
           Thread
  <2>5. ASSUME NEW q \in Queue
        PROVE  Queues!IsIdle(q)
    <3>1. \A t \in Thread : inHand[q][t] = 0 /\ work[t] # q
      BY <2>2, SchedulerAssumption DEF Returned, Queues!Returned
    <3>2. pending[q] = 0 /\ Cardinality(ItemsOf(q)) = toAdd[q]
      BY <2>1, <3>1, QueueCounts DEF Quiescent
    <3>3. running[q] = 1
      BY <2>1, <2>3 DEF Counted
    <3>4. toAdd[q] = 0
      <4>1. toAdd[q] \in Nat
        BY <2>1 DEF TypeOK, Queues!TypeOK
      <4>2. running[q] > 0
        BY <3>3
      <4>3. ~(toAdd[q] > 0)
        BY <2>2, <4>2 DEF NoStrandedTask
      <4> QED
        BY <4>1, <4>3
    <3> QED
      BY <2>1, <3>2, <3>4, QueueCounts
  <2>6. Calm
    BY <2>4, <2>5 DEF Calm, Quiescent
  <2> QED
    BY <2>3, <2>6 DEF MissedInv, MissInv
<1> QED
  BY <1>1, BaseInvariant, MissedInvariant, NoTaskStranded, PTL
-----------------------------------------------------------------------------
\* The end of a run. The call that tells the scheduler that a queue is active comes
\* after the push, so HandleIdle can see an idle graph that is not: after a pause,
\* in which a task may end before the thread that pushed its item makes that call,
\* and when the input is fed while sources are activated or after an error.
Fed == \E n \in Join : Input \in Feeds[n]
Undisturbed ==
  /\ "pause" \notin Calls
  /\ Fed => Source = {} /\ {"error", "cancel"} \cap Calls = {}

\* Without them sources are activated, and a run ends, only when no call of the
\* application can push anything.
Alone ==
  /\ state # "PAUSED"
  /\ stage \notin {"none", "loop"} => state \in {"RUNNING", "CANCELLING"}
  /\ Fed => ~hasError /\ stage \notin {"stop", "add"}
  /\ ~Fed \/ state = "TERMINATED" => inputsClosed
  /\ inputOpen => ~inputsClosed
  /\ \A a \in App : call[a] \in {"add", "close"} =>
       /\ ~inputsClosed /\ state # "NOT_STARTED" /\ a = Feeder
       /\ call[a] = "close" => ~inputOpen

LEMMA AloneStep ==
  ASSUME Undisturbed, TypeOK, HandlerMatches, MutexMatches, Alone, [Next]_vars
  PROVE  Alone'
<1> USE DEF appVars, flags
<1> DEFINE aloneVars == <<inputOpen, call, state, inputsClosed, hasError>>
<1>0. SourcesQueue # {} => ~Fed
  BY DEF Undisturbed, SourcesQueue
<1>1. ASSUME UNCHANGED aloneVars, stage' \in {stage, "none", "loop"}
      PROVE  Alone'
  BY <1>1 DEF Alone
<1>2. ASSUME NEW t \in Thread, UNCHANGED idleVars \/ EnterHandleIdle(t)
      PROVE  stage' \in {stage, "none", "loop"}
  BY <1>2 DEF EnterHandleIdle, idleVars
<1>3. ASSUME NEW t \in Thread, Handling(t)
      PROVE  Alone'
  <2>1. CASE StopHandling(t) \/ NothingLeft(t) \/ Relock(t)
    <3>1. UNCHANGED aloneVars /\ stage' \in {stage, "none", "loop"}
      BY <2>1 DEF StopHandling, NothingLeft, Relock, LeaveHandleIdle
    <3> QED
      BY <1>1, <3>1
  <2>2. CASE ReportSourceDeadlock(t)
    <3>1. ~Fed /\ UNCHANGED <<inputOpen, call, state, inputsClosed, stage>>
      BY <1>0, <2>2 DEF ReportSourceDeadlock, idleVars
    <3> QED
      BY <3>1 DEF Alone
  <2>3. CASE ChooseSources(t)
    <3>1. ~Fed /\ UNCHANGED aloneVars /\ state \in {"RUNNING", "CANCELLING"}
      BY <1>0, <2>3 DEF ChooseSources, Working
    <3> QED
      BY <3>1 DEF Alone
  <2>4. CASE Quit(t)
    <3>1. UNCHANGED <<inputOpen, call, inputsClosed, hasError>> /\ state' = "TERMINATED"
          /\ stage' = "none" /\ (hasError \/ inputsClosed)
      BY <2>4 DEF Quit, LeaveHandleIdle, QuitDue
    <3> QED
      BY <3>1 DEF Alone
  <2>5. CASE TryToUnthrottle(t)
    BY <2>5 DEF TryToUnthrottle, Working, Alone
  <2>6. CASE StopQueues(t) \/ RestartQueues(t) \/ UnthrottleSources(t)
    <3>1. UNCHANGED aloneVars /\ stage \notin {"none", "loop"}
          /\ (stage' \in {"stop", "add"} => stage \in {"stop", "add"})
      BY <2>6 DEF StopQueues, RestartQueues, UnthrottleSources
    <3> QED
      BY <3>1 DEF Alone
  <2> QED
    BY <1>3, <2>1, <2>2, <2>3, <2>4, <2>5, <2>6 DEF Handling
<1>4. ASSUME NEW t \in Thread, Scheduling(t)
      PROVE  Alone'
  <2>1. UNCHANGED aloneVars /\ (UNCHANGED idleVars \/ EnterHandleIdle(t))
    BY <1>4
       DEF Scheduling, BecomeActive, BecomeIdle, SubmitAfterHandling, AddTask,
           SubmitWaitingTasks, ScheduleForOpen, ScheduleSource, AddJoin,
           CheckJoin
  <2> QED
    BY <1>1, <1>2, <2>1
<1>5. ASSUME NEW t \in Worker, Running(t)
      PROVE  Alone'
  <2>1. UNCHANGED <<inputOpen, call, state, inputsClosed, stage>>
    BY <1>5
       DEF Running, RunNextTask, FinishTask, OpenNode, RunSource, RunJoin,
           CloseJoin, EndScheduling, idleVars
  <2>2. UNCHANGED hasError \/ "error" \in Calls
    BY <1>5, Zenon
       DEF Running, RunNextTask, FinishTask, OpenNode, RunSource, RunJoin,
           CloseJoin, EndScheduling
  <2> QED
    BY <2>1, <2>2 DEF Alone, Undisturbed
<1>6. ASSUME NEW a \in App, Finish(a) \/ AddPacket(a) \/ CloseInput(a)
      PROVE  Alone'
  <2>1. stage' \in {stage, "none", "loop"} /\ UNCHANGED <<state, hasError>>
    BY <1>2, <1>6
       DEF Finish, AddedPacket, ClosedAllInputs, AddPacket, CloseInput, Thread
  <2>2. \A b \in App \ {a} : call'[b] = call[b]
    BY <1>6
       DEF Finish, AddedPacket, ClosedAllInputs, AddPacket, CloseInput, TypeOK
  <2>3. CASE AddedPacket(a)
    BY <2>1, <2>2, <2>3 DEF AddedPacket, Alone, TypeOK
  <2>4. CASE ClosedAllInputs(a)
    BY <2>1, <2>2, <2>4 DEF ClosedAllInputs, Alone, TypeOK
  <2>5. CASE AddPacket(a)
    BY <2>1, <2>2, <2>5 DEF AddPacket, Alone, TypeOK
  <2>6. CASE CloseInput(a)
    BY <2>1, <2>2, <2>6 DEF CloseInput, Alone, TypeOK
  <2> QED
    BY <1>6, <2>3, <2>4, <2>5, <2>6 DEF Finish
<1>7. ASSUME NEW a \in App, Pause(a) \/ Resume(a)
      PROVE  Alone'
  BY <1>7 DEF Undisturbed, Pause, Resume, Alone
<1>8. ASSUME NEW a \in App, Cancel(a)
      PROVE  Alone'
  <2>1. ~Fed /\ UNCHANGED <<inputOpen, call, inputsClosed>> /\ state' = "CANCELLING"
    BY <1>8 DEF Cancel, Undisturbed
  <2> QED
    BY <2>1 DEF Alone
<1>9. CASE Start
  <2>1. /\ stage' \in {stage, "none", "loop"} /\ state = "NOT_STARTED" /\ state' = "RUNNING"
        /\ UNCHANGED <<inputOpen, call, inputsClosed, hasError>>
    BY <1>2, <1>9, SchedulerAssumption DEF Start, Thread
  <2> QED
    BY <2>1 DEF Alone
<1>10. ASSUME NEW q \in Queue, CleanupQueue(q)
       PROVE  Alone'
  BY <1>1, <1>10 DEF CleanupQueue, idleVars
<1>11. CASE StartCleanup
  <2>1. /\ UNCHANGED <<inputOpen, state, inputsClosed, hasError, stage>>
        /\ \A a \in App : call'[a] \in {call[a], "cleanup"}
    BY <1>11 DEF StartCleanup, idleVars, TypeOK
  <2> QED
    BY <2>1 DEF Alone
<1>12. CASE UNCHANGED vars
  BY <1>1, <1>12 DEF vars, idleVars
<1> QED
  BY <1>3, <1>4, <1>5, <1>6, <1>7, <1>8, <1>9, <1>10, <1>11, <1>12, ThreadSteps

-----------------------------------------------------------------------------
\* The queues are empty of tasks before the run, while sources are activated, and
\* when the run has ended.
StillInv ==
  /\ stage \in {"stop", "add"} \/ state \in {"NOT_STARTED", "TERMINATED"} =>
       \A q \in Queue : pending[q] = 0
  /\ stage = "stop" \/ state = "TERMINATED" =>
       owesActive = {} /\ owesIdle = {} /\ \A q \in Queue : Queues!IsIdle(q)

\* A thread that owes a become-active call is inside a task, unthrottles or feeds,
\* and has tasks to hand over; or it has pushed into a stopped queue.
MayOwe(t) ==
  \/ /\ \/ work[t] # None
        \/ handler = t /\ stage = "unthrottled"
        \/ t \in App /\ call[t] \in {"add", "close"}
     /\ \E q \in Queue : inHand[q][t] > 0
  \/ handler = t /\ stage = "add"
  \/ t = Main /\ state = "NOT_STARTED"

OwingInv == \A t \in owesActive : MayOwe(t)

\* What the counters say of one queue.
LEMMA CountersAgree ==
  ASSUME TypeOK, Proved!IInv
  PROVE  /\ \A q \in Queue : pending[q] = 0 => \A t \in Thread : inHand[q][t] = 0 /\ work[t] # q
         /\ \A q \in Queue : executor[q] > 0 => pending[q] > 0
         /\ \A q \in Queue : Queues!IsIdle(q) => toAdd[q] = 0
<1>0. Proved!Thread = Thread
  BY DEF Proved!Thread, Thread
<1>1. \A q \in Queue : pending[q] = 0 => \A t \in Thread : inHand[q][t] = 0 /\ work[t] # q
  BY <1>0, QueueConstantsHold, Proved!IdleUntouched
<1>2. \A q \in Queue :
        /\ pending[q] = executor[q] + Proved!Cardinality(Proved!Held(q)) + Proved!Cardinality(Proved!Running(q))
        /\ Cardinality(ItemsOf(q)) = toAdd[q] + executor[q] + Proved!Cardinality(Proved!Held(q))
        /\ Proved!Cardinality(Proved!Held(q)) \in Nat /\ Proved!Cardinality(Proved!Running(q)) \in Nat
  BY QueueConstantsHold, Proved!HeldFinite, Proved!RunningFinite
     DEF Proved!IInv, Proved!PendingTasksMatch, Proved!WaitingTasksMatch
<1>3. \A q \in Queue : toAdd[q] \in Nat /\ pending[q] \in Nat /\ executor[q] \in Nat
  BY DEF TypeOK, Queues!TypeOK
<1>4. \A q \in Queue : Queues!IsIdle(q) => Cardinality(ItemsOf(q)) = 0 /\ pending[q] = 0
  BY DEF Queues!IsIdle
<1> QED
  BY <1>1, <1>2, <1>3, <1>4

\* A thread that pushes does so from a task, from UnthrottleSources or from a call to
\* feed the graph, with the queues running, or into stopped queues, before the run or as the handler.
Pushes(t) ==
  /\ \/ work[t] # None
     \/ handler = t /\ stage = "unthrottled"
     \/ t \in App /\ call[t] \in {"add", "close"}
  /\ stage \notin {"stop", "add"} /\ state \in {"RUNNING", "CANCELLING"}
  /\ \A q \in Queue : running[q] = 1
Stores(t) ==
  /\ (handler = t /\ stage = "add") \/ (t = Main /\ state = "NOT_STARTED")
  /\ stage # "stop" /\ state # "TERMINATED"
  /\ \A q \in Queue : running[q] <= 0

LEMMA PushCases ==
  ASSUME TypeOK, Proved!IInv, Counted, Alone, RequestsOwned, StillInv,
         NEW t \in Thread, todo[t] # {}
  PROVE  Pushes(t) \/ Stores(t)
<1>1. CASE work[t] # None
  <2>1. work[t] \in Queue
    BY <1>1 DEF TypeOK, Queues!TypeOK, Queues!Thread, Thread
  <2>2. pending[work[t]] # 0
    BY <2>1, CountersAgree
  <2>3. stage \notin {"stop", "add"} /\ state \notin {"NOT_STARTED", "TERMINATED"}
    BY <2>1, <2>2 DEF StillInv
  <2>4. state \in {"RUNNING", "CANCELLING"}
    BY <2>3 DEF TypeOK, Alone
  <2> QED
    BY <1>1, <2>3, <2>4 DEF Pushes, Counted
<1>2. CASE handler = t /\ stage = "unthrottled"
  BY <1>2 DEF Pushes, Alone, Counted
<1>3. CASE handler = t /\ stage = "add"
  BY <1>3 DEF Stores, Alone, Counted
<1>4. CASE t = Main /\ state = "NOT_STARTED"
  BY <1>4 DEF Stores, Alone, Counted
<1>5. CASE t \in App /\ call[t] \in {"add", "close"}
  <2>1. Fed /\ ~inputsClosed /\ state \notin {"NOT_STARTED", "PAUSED", "TERMINATED"}
    BY <1>5 DEF Alone
  <2>2. state \in {"RUNNING", "CANCELLING"}
    BY <2>1 DEF TypeOK
  <2> QED
    BY <1>5, <2>1, <2>2 DEF Pushes, Alone, Counted
<1> QED
  BY <1>1, <1>2, <1>3, <1>4, <1>5 DEF RequestsOwned, Owned

\* Where nothing is stored, nothing is taken.
LEMMA NothingTaken ==
  ASSUME TypeOK, Proved!IInv, Counted, Alone, StillInv, NEW q \in Queue,
         stage \in {"stop", "add"} \/ state \in {"NOT_STARTED", "TERMINATED"}
  PROVE  running[q] <= 0 \/ toAdd[q] = 0
<1>1. CASE stage = "stop"
  BY <1>1, CountersAgree DEF StillInv
<1>2. CASE stage # "stop"
  BY <1>2 DEF Counted, Alone
<1> QED
  BY <1>1, <1>2

-----------------------------------------------------------------------------
\* An idle count of zero is right whenever HandleIdle acts on it.
LEMMA Exact ==
  ASSUME TypeOK, Proved!IInv, Proved!OwnersInv, Alone, OwingInv,
         NEW t \in Thread, InLoop(t), Working, inputsClosed
  PROVE  /\ owesActive = {} /\ owesIdle = {}
         /\ \A q \in Queue : Queues!IsIdle(q)
<1>1. \A u \in owesActive : work[u] # None /\ \E q \in Queue : inHand[q][u] > 0
  BY DEF OwingInv, MayOwe, InLoop, Working, Alone
<1>2. nonIdle = 0
  BY DEF Working, AllIdle
<1>3. Proved!Busy = {} /\ owesActive = {} /\ owesIdle = {}
  BY <1>1, <1>2, QueueConstantsHold, Proved!ZeroMeansNone
<1>4. \A q \in Queue : Queues!IsIdle(q)
  BY <1>3, Zenon DEF Proved!Busy, Proved!IsIdle, Queues!IsIdle
<1> QED
  BY <1>3, <1>4

\* What keeps the queues still, and the callers in their places.
LEMMA StillKept ==
  ASSUME StillInv, UNCHANGED <<items, pending>>,
         owesActive' \subseteq owesActive, owesIdle' \subseteq owesIdle,
         stage' \in {"stop", "add"} => stage' = stage,
         state' \in {"NOT_STARTED", "TERMINATED"} => state' = state
  PROVE  StillInv'
<1>1. \A q : ItemsOf(q)' = ItemsOf(q)
  BY DEF ItemsOf
<1>2. \A q \in Queue : Queues!IsIdle(q) => Queues!IsIdle(q)'
  BY <1>1 DEF Queues!IsIdle
<1> QED
  BY <1>2 DEF StillInv

LEMMA OwingKept ==
  ASSUME TypeOK, OwingInv, NEW t \in Thread,
         owesActive' \subseteq owesActive \cup {t}, t \in owesActive' => MayOwe(t)',
         \A u \in Thread \ {t} : /\ work'[u] = work[u]
                                 /\ \A q \in Queue : inHand'[q][u] = inHand[q][u]
                                 /\ handler = u => UNCHANGED <<handler, stage>>
                                 /\ u \in App => call'[u] = call[u],
         state = "NOT_STARTED" => state' = state \/ t = Main
  PROVE  OwingInv'
<1>1. ASSUME NEW u \in owesActive', u # t
      PROVE  MayOwe(u)'
  <2>1. u \in Thread \ {t} /\ MayOwe(u)
    BY <1>1 DEF OwingInv, TypeOK, Queues!TypeOK, Queues!Thread, Thread
  <2> QED
    BY <2>1 DEF MayOwe
<1> QED
  BY <1>1 DEF OwingInv

\* The tasks in hand of the other threads.
LEMMA InHandApart ==
  ASSUME TypeOK, NEW t \in Thread, NEW q \in Queue,
         \/ Queues!AddItemToQueue(t, q) \/ Queues!SubmitWaitingTasks(t, q) \/ Queues!AddTask(t, q)
  PROVE  /\ \A u \in Thread \ {t}, p \in Queue : inHand'[p][u] = inHand[p][u]
         /\ owesActive' \subseteq owesActive \cup {t} /\ UNCHANGED work
<1>0. inHand \in [Queue -> [Thread -> Nat]]
  BY DEF TypeOK, Queues!TypeOK, Queues!Thread, Thread
<1>1. CASE Queues!AddItemToQueue(t, q) \/ Queues!SubmitWaitingTasks(t, q)
  <2>1. \E n : inHand' = [inHand EXCEPT ![q][t] = n]
    BY <1>1 DEF Queues!AddItemToQueue, Queues!SubmitWaitingTasks, Queues!TakeTasks
  <2> QED
    BY <1>0, <1>1, <2>1 DEF Queues!AddItemToQueue, Queues!SubmitWaitingTasks
<1>2. CASE Queues!AddTask(t, q)
  BY <1>0, <1>2 DEF Queues!AddTask
<1> QED
  BY <1>1, <1>2

\* What the end of a run needs to know of the queues and their callers.
RestInv == Alone /\ StillInv /\ OwingInv

\* A push takes its task at once, or nothing: see PushCases.
LEMMA PushStill ==
  ASSUME TypeOK, Proved!IInv, Counted, RequestsOwned, RestInv,
         NEW t \in Thread, todo[t] # {}, NEW i, i[2] \in Node, Push(t, i),
         UNCHANGED <<state, idleVars, call>>
  PROVE  StillInv' /\ OwingInv'
<1> DEFINE q == QueueOf[i[2]]
<1>1. q \in Queue /\ Queues!AddItemToQueue(t, q)
  BY SchedulerAssumption DEF Push
<1>2. Pushes(t) \/ Stores(t)
  BY PushCases DEF RestInv
<1>3. /\ inHand \in [Queue -> [Thread -> Nat]] /\ pending \in [Queue -> Nat]
      /\ toAdd \in [Queue -> Nat]
  BY DEF TypeOK, Queues!TypeOK, Queues!Thread, Thread
<1>4. /\ pending' = [pending EXCEPT ![q] = @ + (IF running[q] > 0 THEN toAdd[q] + 1 ELSE 0)]
      /\ inHand' = [inHand EXCEPT ![q][t] = IF running[q] > 0 THEN toAdd[q] + 1 ELSE 0]
  BY <1>1 DEF Queues!AddItemToQueue, Queues!TakeTasks
<1> HIDE DEF q
<1>5. MayOwe(t)'
  <2>1. CASE Pushes(t)
    <3>1. inHand'[q][t] > 0
      BY <1>1, <1>3, <1>4, <2>1 DEF Pushes
    <3>2. UNCHANGED <<work, handler, stage>>
      BY <1>1 DEF Queues!AddItemToQueue, idleVars
    <3> QED
      BY <1>1, <2>1, <3>1, <3>2 DEF Pushes, MayOwe
  <2>2. CASE Stores(t)
    BY <2>2 DEF Stores, MayOwe, idleVars
  <2> QED
    BY <1>2, <2>1, <2>2
<1>6. OwingInv'
  BY <1>1, <1>5, InHandApart, OwingKept DEF RestInv, idleVars
<1>7. StillInv'
  <2>1. CASE Pushes(t)
    BY <2>1 DEF Pushes, StillInv, idleVars
  <2>2. CASE Stores(t)
    <3>1. pending' = pending
      <4>1. ~(running[q] > 0)
        BY <1>1, <2>2 DEF Stores, TypeOK, Queues!TypeOK
      <4> QED
        BY <1>1, <1>3, <1>4, <4>1
    <3> QED
      BY <2>2, <3>1 DEF Stores, RestInv, StillInv, idleVars
  <2> QED
    BY <1>2, <2>1, <2>2
<1> QED
  BY <1>6, <1>7

\* HandleIdle: it stops the queues, or the run, only when they are idle.
LEMMA HandlingStill ==
  ASSUME Undisturbed, TypeOK, Proved!IInv, Proved!OwnersInv, RestInv,
         NEW t \in Thread, Handling(t)
  PROVE  StillInv' /\ OwingInv'
<1> USE DEF RestInv
<1>0. handler = t
  BY HandlingBusy
<1>1. CASE StopHandling(t) \/ NothingLeft(t) \/ ReportSourceDeadlock(t) \/ TryToUnthrottle(t)
           \/ UnthrottleSources(t)
  <2>1. /\ UNCHANGED <<queueVars, state, call>> /\ stage \notin {"add", "unthrottled"}
        /\ stage' \notin {"stop", "add"}
    BY <1>1
       DEF StopHandling, NothingLeft, ReportSourceDeadlock, TryToUnthrottle,
           UnthrottleSources, LeaveHandleIdle, InLoop, idleVars, appVars
  <2>2. StillInv'
    BY <2>1, StillKept DEF queueVars
  <2>3. OwingInv'
    <3>1. \A u \in Thread : handler = u => u = t
      BY <1>0
    <3> QED
      BY <2>1, <1>0 DEF OwingInv, MayOwe, queueVars
  <2> QED
    BY <2>2, <2>3
<1>2. CASE Relock(t) \/ RestartQueues(t)
  <2>1. t \notin owesActive /\ stage \in {"submit", "unthrottled", "nothing", "add"}
    BY <1>2 DEF Relock, RestartQueues, Scheduled, Returned, Queues!Returned
  <2>2. /\ UNCHANGED <<items, pending, inHand, work, owesActive, owesIdle, state, call>>
        /\ stage' \in {"none", "loop", "submit"}
    BY <1>2
       DEF Relock, RestartQueues, LeaveHandleIdle, queueVars, appVars,
           Queues!SetRunning
  <2>3. StillInv'
    BY <2>2, StillKept
  <2>4. OwingInv'
    BY <1>0, <2>1, <2>2 DEF OwingInv, MayOwe
  <2> QED
    BY <2>3, <2>4
<1>3. CASE StopQueues(t)
  <2>1. /\ stage = "stop" /\ stage' = "add" /\ UNCHANGED <<pending, owesActive, owesIdle, state>>
    BY <1>3 DEF StopQueues, Queues!SetRunning
  <2>2. owesActive = {} /\ (\A q \in Queue : pending[q] = 0) /\ state # "TERMINATED"
    BY <2>1 DEF StillInv, Alone
  <2> QED
    BY <2>1, <2>2 DEF StillInv, OwingInv
<1>4. CASE ChooseSources(t) \/ Quit(t)
  <2>1. inputsClosed
    <3>1. ~Fed \/ (Quit(t) /\ ~hasError)
      BY <1>4 DEF ChooseSources, Undisturbed, SourcesQueue, Alone
    <3> QED
      BY <3>1 DEF Alone, Quit, QuitDue
  <2>2. /\ owesActive = {} /\ owesIdle = {}
        /\ \A q \in Queue : Queues!IsIdle(q)
    BY <1>4, <2>1, Exact DEF ChooseSources, Quit
  <2>3. UNCHANGED <<items, pending, owesActive, owesIdle>>
    BY <1>4 DEF ChooseSources, Quit, queueVars, Queues!SetRunning
  <2>4. \A q : ItemsOf(q)' = ItemsOf(q)
    BY <2>3 DEF ItemsOf
  <2>5. \A q \in Queue : Queues!IsIdle(q)' /\ pending'[q] = 0
    BY <2>2, <2>3, <2>4 DEF Queues!IsIdle
  <2> QED
    BY <2>2, <2>3, <2>5 DEF StillInv, OwingInv
<1> QED
  BY <1>1, <1>2, <1>3, <1>4 DEF Handling

\* Callbacks and requests.
LEMMA SchedulingStill ==
  ASSUME TypeOK, Proved!IInv, Counted, RequestsOwned, RestInv,
         NEW t \in Thread, Scheduling(t)
  PROVE  StillInv' /\ OwingInv'
<1> USE DEF RestInv
<1>0. /\ UNCHANGED <<work, state, call>>
      /\ EnterHandleIdle(t) \/ UNCHANGED idleVars
  <2>1. UNCHANGED <<state, call>> /\ (EnterHandleIdle(t) \/ UNCHANGED idleVars)
    BY DEF Scheduling, BecomeActive, BecomeIdle, SubmitAfterHandling, AddTask,
           SubmitWaitingTasks, ScheduleForOpen, ScheduleSource, AddJoin,
           CheckJoin, appVars
  <2> QED
    BY <2>1, SchedulingBusy
<1>00. /\ handler # None => UNCHANGED <<handler, stage>>
       /\ stage' \in {"stop", "add"} => stage' = stage
  BY <1>0 DEF EnterHandleIdle, idleVars
<1>1. ASSUME UNCHANGED queueVars
      PROVE  StillInv' /\ OwingInv'
  <2>1. StillInv'
    BY <1>0, <1>00, <1>1, StillKept DEF queueVars
  <2>2. OwingInv'
    <3>1. \A u \in owesActive : u # None
      BY SchedulerAssumption DEF TypeOK, Queues!TypeOK, Queues!Thread, Thread
    <3> QED
      BY <1>0, <1>00, <1>1, <3>1 DEF OwingInv, MayOwe, queueVars
  <2> QED
    BY <2>1, <2>2
<1>2. CASE BecomeActive(t) \/ BecomeIdle(t)
  <2>1. /\ UNCHANGED <<items, pending, inHand>>
        /\ owesActive' \subseteq owesActive /\ owesIdle' \subseteq owesIdle
    BY <1>2 DEF BecomeActive, BecomeIdle, Queues!BecomeActive, Queues!BecomeIdle
  <2>2. StillInv'
    BY <1>0, <1>00, <2>1, StillKept
  <2>3. OwingInv'
    <3>1. \A u \in owesActive : u # None
      BY SchedulerAssumption DEF TypeOK, Queues!TypeOK, Queues!Thread, Thread
    <3> QED
      BY <1>0, <1>00, <2>1, <3>1 DEF OwingInv, MayOwe
  <2> QED
    BY <2>2, <2>3
<1>3. ASSUME NEW q \in Queue, AddTask(t, q)
      PROVE  StillInv' /\ OwingInv'
  <2>1. /\ Queues!AddTask(t, q) /\ t \notin owesActive
        /\ UNCHANGED <<items, pending, owesActive, owesIdle, idleVars>>
    BY <1>3 DEF AddTask, Queues!AddTask
  <2>2. StillInv'
    BY <1>0, <1>00, <2>1, StillKept
  <2>3. OwingInv'
    BY <1>0, <2>1, InHandApart, OwingKept DEF idleVars
  <2> QED
    BY <2>2, <2>3
<1>4. ASSUME NEW q \in Queue, SubmitWaitingTasks(t, q)
      PROVE  StillInv' /\ OwingInv'
  <2>1. /\ Queues!SubmitWaitingTasks(t, q) /\ t \notin owesActive
        /\ UNCHANGED <<items, owesActive, owesIdle, idleVars>>
    BY <1>4
       DEF SubmitWaitingTasks, Queues!SubmitWaitingTasks, Queues!Returned
  <2>2. OwingInv'
    BY <1>0, <2>1, InHandApart, OwingKept DEF idleVars
  <2>3. ASSUME stage \in {"stop", "add"} \/ state \in {"NOT_STARTED", "TERMINATED"}
        PROVE  UNCHANGED pending
    <3>1. running[q] <= 0 \/ toAdd[q] = 0
      BY <2>3, NothingTaken
    <3>2. running[q] \in Int /\ pending \in [Queue -> Nat]
      BY DEF TypeOK, Queues!TypeOK
    <3>3. pending' = [pending EXCEPT ![q] = @ + (IF running[q] > 0 THEN toAdd[q] ELSE 0)]
      BY <2>1 DEF Queues!SubmitWaitingTasks, Queues!TakeTasks
    <3>4. (IF running[q] > 0 THEN toAdd[q] ELSE 0) = 0
      BY <3>1, <3>2
    <3> QED
      BY <3>2, <3>3, <3>4
  <2>4. StillInv'
    <3>1. CASE stage \in {"stop", "add"} \/ state \in {"NOT_STARTED", "TERMINATED"}
      BY <1>0, <1>00, <2>1, <2>3, <3>1, StillKept
    <3>2. CASE ~(stage \in {"stop", "add"} \/ state \in {"NOT_STARTED", "TERMINATED"})
      BY <1>0, <1>00, <3>2 DEF StillInv
    <3> QED
      BY <3>1, <3>2
  <2> QED
    BY <2>2, <2>4
<1>5. ASSUME NEW i, i[2] \in Node, Push(t, i), todo[t] # {}, UNCHANGED idleVars
      PROVE  StillInv' /\ OwingInv'
  BY <1>0, <1>5, PushStill
<1>6. ASSUME NEW n \in Node, ScheduleForOpen(t, n)
      PROVE  StillInv' /\ OwingInv'
  BY <1>1, <1>5, <1>6 DEF ScheduleForOpen, Makes
<1>7. ASSUME NEW r \in todo[t], ScheduleSource(t, r) \/ AddJoin(t, r)
      PROVE  StillInv' /\ OwingInv'
  BY <1>1, <1>5, <1>7 DEF ScheduleSource, AddJoin, Node
<1>8. ASSUME NEW n \in Join, CheckJoin(t, n)
      PROVE  StillInv' /\ OwingInv'
  BY <1>1, <1>8 DEF CheckJoin
<1>9. CASE SubmitAfterHandling(t)
  BY <1>1, <1>9 DEF SubmitAfterHandling
<1> QED
  BY <1>2, <1>3, <1>4, <1>6, <1>7, <1>8, <1>9 DEF Scheduling

\* Tasks run only when the queues are not still.
LEMMA RunningStill ==
  ASSUME TypeOK, Proved!IInv, RestInv, NEW t \in Worker, Running(t)
  PROVE  StillInv' /\ OwingInv'
<1> USE DEF RestInv
<1>0. t \in Thread /\ UNCHANGED <<state, call, idleVars>>
  BY DEF Running, RunNextTask, FinishTask, OpenNode, RunSource, RunJoin,
     CloseJoin, EndScheduling, appVars, Thread
<1>1. CASE UNCHANGED queueVars
  <2>1. StillInv'
    BY <1>0, <1>1, StillKept DEF queueVars, idleVars
  <2>2. OwingInv'
    BY <1>0, <1>1 DEF OwingInv, MayOwe, queueVars, idleVars
  <2> QED
    BY <2>1, <2>2
<1>2. ASSUME NEW q \in Queue, RunNextTask(t, q) \/ FinishTask(t, q)
      PROVE  StillInv' /\ OwingInv'
  <2>1. /\ t \notin owesActive /\ UNCHANGED <<inHand, owesActive>>
        /\ executor[q] > 0 \/ work[t] = q
    BY <1>2
       DEF RunNextTask, FinishTask, Queues!RunNextTask, Queues!FinishTask,
           Queues!Returned
  <2>2. pending[q] # 0
    BY <1>0, <2>1, CountersAgree DEF TypeOK, Queues!TypeOK
  <2>3. StillInv'
    BY <1>0, <2>2 DEF StillInv, idleVars
  <2>4. \A u \in Thread \ {t} : work'[u] = work[u]
    BY <1>0, <1>2, RunningStepApart DEF Apart, Running
  <2>5. OwingInv'
    BY <1>0, <2>1, <2>4, OwingKept DEF idleVars
  <2> QED
    BY <2>3, <2>5
<1> QED
  BY <1>1, <1>2
     DEF Running, OpenNode, RunSource, RunJoin, CloseJoin, EndScheduling

\* The application's calls, and the cleanup.
LEMMA AppStill ==
  ASSUME Undisturbed, TypeOK, RestInv, NEW a \in App,
         Finish(a) \/ Pause(a) \/ Resume(a) \/ Cancel(a) \/ AddPacket(a) \/ CloseInput(a)
  PROVE  StillInv' /\ OwingInv'
<1> USE DEF RestInv
<1>0. a \in Thread /\ a # None
  BY SchedulerAssumption DEF Thread
<1>1. ~Pause(a) /\ ~Resume(a) /\ (Cancel(a) => state = "RUNNING")
  BY DEF Undisturbed, Pause, Resume, Cancel, Alone
<1>2. UNCHANGED queueVars /\ a \notin owesActive
  BY <1>1
     DEF Finish, AddedPacket, ClosedAllInputs, Cancel, AddPacket, CloseInput,
         Begin, Free, Settled, Returned, Queues!Returned
<1>3. UNCHANGED idleVars \/ EnterHandleIdle(a)
  BY <1>1 DEF Finish, AddedPacket, ClosedAllInputs, Cancel, AddPacket, CloseInput
<1>4. /\ handler # None => UNCHANGED <<handler, stage>>
      /\ stage' \in {"stop", "add"} => stage' = stage
  BY <1>3 DEF EnterHandleIdle, idleVars
<1>5. UNCHANGED state \/ (state = "RUNNING" /\ state' = "CANCELLING")
  BY <1>1 DEF Finish, AddedPacket, ClosedAllInputs, Cancel, AddPacket, CloseInput
<1>6. \A b \in App \ {a} : call'[b] = call[b]
  BY <1>1
     DEF Finish, AddedPacket, ClosedAllInputs, Cancel, AddPacket, CloseInput,
         TypeOK, appVars
<1>7. StillInv'
  BY <1>2, <1>4, <1>5, StillKept DEF queueVars
<1>8. OwingInv'
  <2>1. \A u \in Thread : u # None
    BY SchedulerAssumption DEF Thread
  <2> QED
    BY <1>0, <1>2, <1>4, <1>5, <1>6, <2>1, OwingKept DEF queueVars
<1> QED
  BY <1>7, <1>8

LEMMA MainStill ==
  ASSUME TypeOK, CleanupComesLast, RestInv,
         Start \/ StartCleanup \/ \E q \in Queue : CleanupQueue(q)
  PROVE  StillInv' /\ OwingInv'
<1> USE DEF RestInv
<1>0. Main \in App /\ Main \in Thread /\ \A u \in Thread : u # None
  BY SchedulerAssumption DEF Thread
<1>1. CASE Start
  <2>1. /\ UNCHANGED <<items, pending, inHand, work, owesActive, owesIdle, call>>
        /\ Main \notin owesActive
        /\ state' = "RUNNING" /\ EnterHandleIdle(Main) /\ state = "NOT_STARTED"
    BY <1>1
       DEF Start, Queues!SetRunning, Begin, Free, Settled, Returned,
           Queues!Returned, appVars
  <2>2. /\ handler # None => UNCHANGED <<handler, stage>>
        /\ stage' \in {"stop", "add"} => stage' = stage
    BY <2>1 DEF EnterHandleIdle
  <2>3. StillInv'
    BY <2>1, <2>2, StillKept
  <2>4. OwingInv'
    BY <1>0, <2>1, <2>2, OwingKept
  <2> QED
    BY <2>3, <2>4
<1>2. CASE StartCleanup
  <2>1. /\ UNCHANGED <<queueVars, idleVars, state>> /\ Main \notin owesActive
        /\ \A b \in App \ {Main} : call'[b] = call[b]
    BY <1>2
       DEF StartCleanup, Begin, Free, Settled, Returned, Queues!Returned,
           TypeOK
  <2>2. StillInv'
    BY <2>1, StillKept DEF queueVars, idleVars
  <2>3. OwingInv'
    BY <1>0, <2>1, OwingKept DEF queueVars, idleVars
  <2> QED
    BY <2>2, <2>3
<1>3. ASSUME NEW q \in Queue, CleanupQueue(q)
      PROVE  StillInv' /\ OwingInv'
  <2>1. /\ state = "TERMINATED" /\ UNCHANGED <<state, idleVars, pending, owesActive>>
        /\ items' = items \ ItemsOf(q)
        /\ Queues!IsIdle(q) => owesIdle' = owesIdle
    BY <1>3
       DEF CleanupQueue, CleanupComesLast, Queues!CleanupAfterRun,
           Queues!IsIdle
  <2>2. owesActive = {} /\ Queues!IsIdle(q)
    BY <2>1 DEF StillInv
  <2>3. ItemsOf(q) = {}
    <3>1. Cardinality(ItemsOf(q)) = 0
      BY <2>2 DEF Queues!IsIdle
    <3>2. IsFiniteSet(ItemsOf(q))
      BY NodeFinite, FS_Subset DEF TypeOK, ItemsOf
    <3> QED
      BY <3>1, <3>2, FS_EmptySet
  <2>4. StillInv'
    BY <2>1, <2>2, <2>3, StillKept DEF idleVars
  <2> QED
    BY <2>1, <2>2, <2>4 DEF OwingInv
<1> QED
  BY <1>1, <1>2, <1>3

\* Every step keeps the queues still and the late calls in their places.
LEMMA RestStep ==
  ASSUME Undisturbed, BaseInv, MissedInv, Proved!OwnersInv, RestInv, [Next]_vars
  PROVE  RestInv'
<1>0. /\ TypeOK /\ Proved!IInv /\ Counted /\ CleanupComesLast /\ HandlerMatches
      /\ MutexMatches /\ RequestsOwned
  BY DEF BaseInv, RunningCountMatchesState, Counted, CleanupComesLast,
         HandlerMatches, MissedInv
<1>1. Alone'
  BY <1>0, AloneStep DEF RestInv
<1>2. CASE UNCHANGED vars
  <2>1. StillInv'
    BY <1>2, StillKept DEF vars, queueVars, idleVars, RestInv
  <2>2. OwingInv'
    BY <1>2 DEF vars, queueVars, idleVars, appVars, RestInv, OwingInv, MayOwe
  <2> QED
    BY <1>1, <2>1, <2>2 DEF RestInv
<1>3. ASSUME StillInv' /\ OwingInv'
      PROVE  RestInv'
  BY <1>1, <1>3 DEF RestInv
<1> QED
  BY <1>0, <1>2, <1>3, HandlingStill, SchedulingStill, RunningStill, AppStill,
     MainStill, ThreadSteps

LEMMA InitRest == Init => RestInv
<1> SUFFICES ASSUME Init PROVE RestInv
  OBVIOUS
<1>1. Alone
  BY DEF Init, Alone, Fed
<1>2. StillInv /\ OwingInv
  BY DEF Init, Queues!Init, StillInv, OwingInv
<1> QED
  BY <1>1, <1>2 DEF RestInv

LEMMA OwnersInvariant == Spec => []Proved!OwnersInv
<1>1. Init => Proved!OwnersInv
  BY QueueConstantsHold, Proved!InitOwners, SameQueues DEF Init
<1>2. BaseInv /\ Proved!OwnersInv /\ [Next]_vars => Proved!OwnersInv'
  <2> SUFFICES ASSUME BaseInv, Proved!OwnersInv, [Next]_vars
               PROVE  Proved!OwnersInv'
    OBVIOUS
  <2>1. Proved!IInv /\ [Queues!Next]_(Queues!qvars)
    BY NextImplements DEF BaseInv
  <2>2. [Proved!Next]_(Proved!qvars)
    BY <2>1, SameQueues DEF Proved!qvars, Queues!qvars
  <2> QED
    BY <2>1, <2>2, QueueConstantsHold, Proved!OwnersStep
<1> QED
  BY <1>1, <1>2, BaseInvariant, PTL DEF Spec

LEMMA RestInvariant == Spec => [](Undisturbed => RestInv)
<1>1. (Undisturbed' <=> Undisturbed)
  BY DEF Undisturbed, Fed
<1>2. /\ BaseInv /\ MissedInv /\ Proved!OwnersInv /\ (Undisturbed => RestInv) /\ [Next]_vars
         => (Undisturbed => RestInv)'
  BY <1>1, RestStep
<1> QED
  BY <1>2, InitRest, BaseInvariant, MissedInvariant, OwnersInvariant, PTL DEF Spec

\* A run that has ended has left no task behind: none is pending, and no thread
\* of an executor has yet to call the scheduler.
THEOREM QuitsWhenDone == Spec => [](Undisturbed => ExecutorsDone)
<1>1. RestInv => ExecutorsDone
  BY DEF RestInv, StillInv, ExecutorsDone
<1> QED
  BY <1>1, RestInvariant, PTL

-----------------------------------------------------------------------------
\* What becomes of a node: an item, a request or a task for it, ...
Held(i) ==
  \/ i \in items
  \/ \E t \in Thread : i \in todo[t] \/ (item[t] = i /\ phase[t] \in {"popped", "processed"})
Checked(n) == \E t \in Thread : <<"check", n>> \in todo[t]
Ready(n) == ReadyForProcess(n) \/ ReadyForClose(n)

\* ... so that, without an error, a node that is prepared will be opened, and an
\* open join is on its way to Process() or Close(), or will be checked when
\* something has made it ready; and what closes has nothing left to read.
NodeCared(n) ==
  /\ status[n] = "waiting" => n \in Late
  /\ status[n] = "prepared" /\ ~hasError => Held(<<"open", n>>)
  /\ n \in Join =>
       /\ n \in flight => status[n] \in {"opened", "closed"}
       /\ status[n] = "closed" \/ Held(<<"close", n>>) => ReadyForClose(n)
       /\ status[n] = "opened" /\ ~hasError /\ n \in flight =>
            Held(<<"run", n>>) \/ Held(<<"close", n>>)
       /\ status[n] = "opened" /\ ~hasError /\ n \notin flight /\ Ready(n) =>
            Checked(n)

\* What a step that is not about node n does to it.
Spared(n) ==
  /\ status'[n] = status[n]
  /\ Held(<<"open", n>>) => Held(<<"open", n>>)'
  /\ n \in Join =>
       /\ n \in flight' <=> n \in flight
       /\ Held(<<"run", n>>) => Held(<<"run", n>>)'
       /\ Held(<<"close", n>>) <=> Held(<<"close", n>>)'
       /\ Checked(n) => Checked(n)'
       /\ Ready(n)' => Ready(n) \/ Checked(n)'
       /\ ReadyForClose(n) => ReadyForClose(n)'

LEMMA SparedCared ==
  ASSUME NEW n, NodeCared(n), Spared(n), hasError => hasError'
  PROVE  NodeCared(n)'
BY DEF NodeCared, Spared

\* The readiness of a join depends on the streams it reads.
LEMMA SameReady ==
  ASSUME NEW n \in Join,
         \A f \in Feeds[n] : inbox'[<<f, n>>] = inbox[<<f, n>>] /\ (Done(f)' <=> Done(f))
  PROVE  (Ready(n)' <=> Ready(n)) /\ (ReadyForClose(n)' <=> ReadyForClose(n))
BY DEF Ready, ReadyForProcess, ReadyForClose

\* The graph input stream closes once.
LEMMA InputStays ==
  ASSUME [Next]_vars
  PROVE  UNCHANGED inputOpen \/ \E a \in App : CloseInput(a)
<1> USE DEF appVars
<1>1. ASSUME NEW t \in Thread, Handling(t)
      PROVE  UNCHANGED inputOpen
  BY <1>1 DEF Handling, StopHandling, NothingLeft, ReportSourceDeadlock,
     Quit, TryToUnthrottle, ChooseSources, StopQueues, RestartQueues,
     UnthrottleSources, Relock
<1>2. ASSUME NEW t \in Thread, Scheduling(t)
      PROVE  UNCHANGED inputOpen
  BY <1>2 DEF Scheduling, BecomeActive, BecomeIdle, SubmitAfterHandling,
     AddTask, SubmitWaitingTasks, ScheduleForOpen, ScheduleSource, AddJoin,
     CheckJoin
<1>3. ASSUME NEW t \in Worker, Running(t)
      PROVE  UNCHANGED inputOpen
  BY <1>3 DEF Running, RunNextTask, FinishTask, OpenNode, RunSource, RunJoin,
     CloseJoin, EndScheduling
<1>4. ASSUME NEW a \in App, Finish(a) \/ Pause(a) \/ Resume(a) \/ Cancel(a) \/ AddPacket(a)
      PROVE  UNCHANGED inputOpen
  BY <1>4 DEF Finish, AddedPacket, ClosedAllInputs, Pause, Resume, Cancel, AddPacket
<1>5. CASE Start \/ StartCleanup \/ \E q \in Queue : CleanupQueue(q)
  BY <1>5 DEF Start, StartCleanup, CleanupQueue
<1>6. CASE UNCHANGED vars
  BY <1>6 DEF vars
<1> QED
  BY <1>1, <1>2, <1>3, <1>4, <1>5, <1>6, ThreadSteps

\* A step that leaves the streams alone, and the items, tasks and requests for
\* node n but for requests of other kinds.
LEMMA SparedOthers ==
  ASSUME NEW n \in Node,
         UNCHANGED <<inbox, inputOpen>>,
         status'[n] = status[n], n \in flight' <=> n \in flight,
         \A s \in Source : status'[s] = "closed" <=> status[s] = "closed",
         \A c \in {"open", "run", "close"} : Held(<<c, n>>) <=> Held(<<c, n>>)',
         Checked(n) => Checked(n)'
  PROVE  Spared(n)
<1>1. ASSUME n \in Join, NEW f \in Feeds[n]
      PROVE  Done(f)' <=> Done(f)
  BY <1>1, SchedulerAssumption DEF Done
<1>2. n \in Join => (Ready(n)' <=> Ready(n)) /\ (ReadyForClose(n)' <=> ReadyForClose(n))
  BY <1>1, SameReady
<1> QED
  BY <1>2 DEF Spared

NodesCared == \A n \in Node : NodeCared(n)

\* The nodes, one step after the other.
LEMMA HandlerCares ==
  ASSUME TypeOK, NodesCared, [Next]_vars, NEW t \in Thread,
         ChooseSources(t) \/ StopQueues(t) \/ UnthrottleSources(t)
  PROVE  NodesCared'
<1> USE SchedulerAssumption DEF Thread
<1>1. UNCHANGED <<items, item, phase, flight, inbox, inputOpen>>
  BY DEF ChooseSources, StopQueues, UnthrottleSources, queueVars, workVars,
         nodeVars, appVars
<1>2. \A n \in Node : \/ status'[n] = status[n]
                      \/ n \in Source /\ status[n] = "opened" /\ status'[n] = "chosen"
  BY DEF ChooseSources, StopQueues, UnthrottleSources, nodeVars, TypeOK, Lowest,
         SourcesQueue
<1>3. \A u \in Thread : /\ \A r \in todo'[u] :
                             r \in todo[u] \/ r[1] \in {"activate", "unthrottled"}
                        /\ todo[u] \subseteq todo'[u]
  <2>1. ASSUME NEW k \in {"activate", "unthrottled"}, NEW S,
               todo' = [todo EXCEPT ![t] = @ \cup ({k} \X S)]
        PROVE  \A u \in Thread : /\ \A r \in todo'[u] : r \in todo[u] \/ r[1] = k
                                 /\ todo[u] \subseteq todo'[u]
    <3>1. \A r \in {k} \X S : r[1] = k
      OBVIOUS
    <3>2. \A u \in Thread : todo'[u] = IF u = t THEN todo[t] \cup ({k} \X S) ELSE todo[u]
      BY <2>1 DEF TypeOK
    <3> QED
      BY <3>1, <3>2
  <2>2. CASE ChooseSources(t)
    BY <2>2 DEF ChooseSources, workVars
  <2>3. CASE StopQueues(t)
    BY <2>1, <2>3 DEF StopQueues
  <2>4. CASE UnthrottleSources(t)
    BY <2>1, <2>4 DEF UnthrottleSources
  <2> QED
    BY <2>2, <2>3, <2>4
<1> SUFFICES ASSUME NEW n \in Node
             PROVE  NodeCared(n)'
  BY DEF NodesCared
<1>4. NodeCared(n)
  BY DEF NodesCared
<1>5. \A c \in {"open", "run", "close"} : Held(<<c, n>>) <=> Held(<<c, n>>)'
  <2>1. \A c \in {"open", "run", "close"}, u \in Thread :
          <<c, n>> \in todo'[u] <=> <<c, n>> \in todo[u]
    BY <1>3
  <2> QED
    BY <1>1, <2>1 DEF Held
<1>6. Checked(n) => Checked(n)'
  BY <1>3 DEF Checked
<1>7. CASE status'[n] = status[n]
  <2>1. \A s \in Source : status'[s] = "closed" <=> status[s] = "closed"
    BY <1>2 DEF Node
  <2>2. Spared(n)
    BY <1>1, <1>5, <1>6, <1>7, <2>1, SparedOthers
  <2> QED
    BY <1>4, <2>2, SparedCared, ErrorStays
<1>8. CASE n \in Source /\ status'[n] = "chosen"
  BY <1>8 DEF NodeCared
<1> QED
  BY <1>2, <1>7, <1>8

LEMMA ScheduleForOpenCares ==
  ASSUME TypeOK, NodesCared, NEW t \in Thread, NEW m \in Node, ScheduleForOpen(t, m)
  PROVE  NodesCared'
<1> USE SchedulerAssumption DEF Thread
<1> DEFINE o == <<"open", m>>
<1>1. /\ UNCHANGED <<item, phase, status, flight, inbox, inputOpen, hasError>>
      /\ items' = IF hasError THEN items ELSE items \cup {o}
      /\ o \in todo[t]
  BY DEF ScheduleForOpen, Push, Makes, queueVars, nodeVars, appVars, flags
<1>2. \A u \in Thread : todo'[u] = IF u = t THEN todo[t] \ {o} ELSE todo[u]
  BY DEF ScheduleForOpen, Forget, TypeOK
<1> SUFFICES ASSUME NEW n \in Node
             PROVE  NodeCared(n)'
  BY DEF NodesCared
<1>4. NodeCared(n)
  BY DEF NodesCared
<1>5. \A c \in {"open", "run", "close"} :
        <<c, n>> # o => (Held(<<c, n>>) <=> Held(<<c, n>>)')
  <2> SUFFICES ASSUME NEW c \in {"open", "run", "close"}, <<c, n>> # o
               PROVE  Held(<<c, n>>) <=> Held(<<c, n>>)'
    OBVIOUS
  <2>1. <<c, n>> \in items' <=> <<c, n>> \in items
    BY <1>1
  <2>2. \A u \in Thread : <<c, n>> \in todo'[u] <=> <<c, n>> \in todo[u]
    BY <1>2
  <2> QED
    BY <1>1, <2>1, <2>2 DEF Held
<1>6. Checked(n) => Checked(n)'
  BY <1>2 DEF Checked
<1>7. ~hasError => Held(o)'
  BY <1>1 DEF Held
<1>8. CASE n # m \/ ~hasError
  <2>1. \A c \in {"open", "run", "close"} : Held(<<c, n>>) <=> Held(<<c, n>>)'
    <3>1. o \in todo[t] => Held(o)
      BY DEF Held
    <3> QED
      BY <1>1, <1>5, <1>7, <1>8, <3>1
  <2>2. Spared(n)
    BY <1>1, <1>6, <2>1, SparedOthers
  <2> QED
    BY <1>1, <1>4, <2>2, SparedCared
<1>9. CASE n = m /\ hasError
  <2>1. /\ Held(<<"run", n>>) <=> Held(<<"run", n>>)'
        /\ Held(<<"close", n>>) <=> Held(<<"close", n>>)'
    BY <1>5
  <2>2. \A f : Done(f)' <=> Done(f)
    BY <1>1 DEF Done
  <2>3. n \in Join => (ReadyForClose(n)' <=> ReadyForClose(n))
    BY <1>1, <2>2, SameReady
  <2> QED
    BY <1>1, <1>4, <1>9, <2>1, <2>3 DEF NodeCared
<1> QED
  BY <1>8, <1>9

LEMMA ScheduleSourceCares ==
  ASSUME TypeOK, RequestsFit, NodesCared, NEW t \in Thread, NEW r \in todo[t],
         ScheduleSource(t, r)
  PROVE  NodesCared'
<1> USE SchedulerAssumption DEF Thread
<1> DEFINE s == r[2]
<1>0. /\ s \in Source /\ s \in Node /\ r = <<r[1], s>>
      /\ r[1] # "open"
  BY DEF ScheduleSource, Node, TypeOK, Request
<1>1. /\ UNCHANGED <<item, phase, inbox, hasError, inputOpen>>
      /\ items' = items \/ items' = items \cup {<<"run", s>>}
      /\ flight' = flight \/ flight' = flight \cup {s}
      /\ status' = [status EXCEPT ![s] = IF r[1] = "activate" THEN "active" ELSE @]
  BY DEF ScheduleSource, Push, queueVars, flags, appVars
<1>2. \A u \in Thread : todo'[u] = IF u = t THEN todo[t] \ {r} ELSE todo[u]
  BY DEF ScheduleSource, Forget, TypeOK
<1>3. /\ r[1] = "activate" => status[s] = "chosen"
      /\ status'[s] = IF r[1] = "activate" THEN "active" ELSE status[s]
      /\ \A n \in Node \ {s} : status'[n] = status[n]
  BY <1>0, <1>1 DEF RequestsFit, TypeOK
<1> SUFFICES ASSUME NEW n \in Node
             PROVE  NodeCared(n)'
  BY DEF NodesCared
<1>4. NodeCared(n)
  BY DEF NodesCared
<1>5. CASE n # s
  <2>1. \A c \in {"open", "run", "close"} : Held(<<c, n>>) <=> Held(<<c, n>>)'
    <3> SUFFICES ASSUME NEW c \in {"open", "run", "close"}
                 PROVE  Held(<<c, n>>) <=> Held(<<c, n>>)'
      OBVIOUS
    <3>1. <<c, n>> \in items' <=> <<c, n>> \in items
      BY <1>1, <1>5
    <3>2. \A u \in Thread : <<c, n>> \in todo'[u] <=> <<c, n>> \in todo[u]
      BY <1>0, <1>2, <1>5
    <3> QED
      BY <1>1, <3>1, <3>2 DEF Held
  <2>2. Checked(n) => Checked(n)'
    BY <1>0, <1>2, <1>5 DEF Checked
  <2>3. \A x \in Source : status'[x] = "closed" <=> status[x] = "closed"
    BY <1>0, <1>3 DEF Node
  <2>4. n \in flight' <=> n \in flight
    BY <1>1, <1>5
  <2>5. Spared(n)
    BY <1>1, <1>3, <1>5, <2>1, <2>2, <2>3, <2>4, SparedOthers
  <2> QED
    BY <1>1, <1>4, <2>5, SparedCared
<1>6. CASE n = s
  <2>1. n \notin Join
    BY <1>0, <1>6
  <2>2. Held(<<"open", n>>) => Held(<<"open", n>>)'
    BY <1>0, <1>1, <1>2 DEF Held
  <2> QED
    BY <1>1, <1>3, <1>4, <1>6, <2>1, <2>2 DEF NodeCared
<1> QED
  BY <1>5, <1>6

\* The streams of another join, and the sources it reads, are as they were.
LEMMA CheckJoinCares ==
  ASSUME TypeOK, ClaimInv, NodesCared, NEW t \in Thread, NEW m \in Join, CheckJoin(t, m)
  PROVE  NodesCared'
<1> USE SchedulerAssumption DEF Thread
<1> DEFINE r == <<"check", m>>
<1>1. /\ UNCHANGED <<items, item, phase, status, limit, inputOpen, hasError>>
      /\ r \in todo[t]
      /\ \A e \in Stream : e[2] # m => inbox'[e] = inbox[e]
  BY DEF CheckJoin, Makes, queueVars, appVars, flags, InboxAfter, TypeOK
<1>2. PICK more :
        /\ Forget(t, r, more)
        /\ \/ /\ status[m] = "opened" /\ m \notin flight /\ flight' = flight \cup {m}
              /\ \/ <<"run", m>> \in more /\ (\A x \in more : x = <<"run", m>> \/ x[1] = "unthrottled")
                 \/ more = {<<"close", m>>} /\ ReadyForClose(m) /\ UNCHANGED inbox
           \/ /\ more = {} /\ UNCHANGED <<flight, inbox>>
              /\ status[m] # "opened" \/ m \in flight \/ ~Ready(m)
  <2> DEFINE U == {"unthrottled"} \X Freed(InboxAfter(m), limit)
  <2>1. <<"run", m>> \in {<<"run", m>>} \cup U
        /\ \A x \in {<<"run", m>>} \cup U : x = <<"run", m>> \/ x[1] = "unthrottled"
    OBVIOUS
  <2>2. \/ status[m] = "opened" /\ m \notin flight /\ flight' = flight \cup {m}
           /\ Forget(t, r, {<<"run", m>>} \cup U)
        \/ status[m] = "opened" /\ m \notin flight /\ flight' = flight \cup {m}
           /\ Forget(t, r, {<<"close", m>>}) /\ ReadyForClose(m) /\ UNCHANGED inbox
        \/ /\ Forget(t, r, {}) /\ UNCHANGED <<flight, inbox>>
           /\ status[m] # "opened" \/ m \in flight \/ ~Ready(m)
    BY DEF CheckJoin, Ready
  <2> HIDE DEF U
  <2>3. CASE Forget(t, r, {<<"run", m>>} \cup U) /\ status[m] = "opened"
             /\ m \notin flight /\ flight' = flight \cup {m}
    BY <2>1, <2>3
  <2> QED
    BY <2>2, <2>3
<1>3. \A u \in Thread : todo'[u] = IF u = t THEN (todo[t] \ {r}) \cup more ELSE todo[u]
  BY <1>2, RequestForgotten
<1>4. \A u \in Thread : \A x : x[1] # "unthrottled" /\ x # r /\ x # <<"run", m>> /\ x # <<"close", m>> =>
        (x \in todo'[u] <=> x \in todo[u])
  BY <1>2, <1>3
<1> SUFFICES ASSUME NEW n \in Node
             PROVE  NodeCared(n)'
  BY DEF NodesCared
<1>5. NodeCared(n)
  BY DEF NodesCared
<1>6. \A f : Done(f)' <=> Done(f)
  BY <1>1 DEF Done
<1>7. CASE n # m
  <2>1. \A c \in {"open", "run", "close"} : Held(<<c, n>>) <=> Held(<<c, n>>)'
    <3>1. \A c \in {"open", "run", "close"}, u \in Thread :
            <<c, n>> \in todo'[u] <=> <<c, n>> \in todo[u]
      BY <1>4, <1>7
    <3> QED
      BY <1>1, <3>1 DEF Held
  <2>2. Checked(n) => Checked(n)'
    BY <1>3, <1>7 DEF Checked
  <2>3. n \in flight' <=> n \in flight
    BY <1>2, <1>7
  <2>4. n \in Join => (Ready(n)' <=> Ready(n)) /\ (ReadyForClose(n)' <=> ReadyForClose(n))
    <3>1. ASSUME n \in Join, NEW f \in Feeds[n]
          PROVE  inbox'[<<f, n>>] = inbox[<<f, n>>]
      <4>1. <<f, n>> \in Stream /\ <<f, n>>[2] = n
        BY <3>1 DEF Stream
      <4> QED
        BY <1>1, <1>7, <4>1
    <3> QED
      BY <1>6, <3>1, SameReady
  <2>5. Spared(n)
    BY <1>1, <2>1, <2>2, <2>3, <2>4 DEF Spared
  <2> QED
    BY <1>1, <1>5, <2>5, SparedCared
<1>8. CASE n = m
  <2>1. Held(<<"open", n>>) => Held(<<"open", n>>)'
    <3>1. \A u \in Thread : <<"open", n>> \in todo'[u] <=> <<"open", n>> \in todo[u]
      BY <1>4
    <3> QED
      BY <1>1, <3>1 DEF Held
  <2>2. CASE status[m] = "opened" /\ m \notin flight /\ flight' = flight \cup {m}
    <3>1. \A c \in {"run", "close"} : ~Held(<<c, m>>)
      <4>1. ASSUME NEW i \in Item, i[1] # "open", Held(i)
            PROVE  i[2] \in flight
        <5>1. \E k \in Where, u \in Holder : Holds(k, u, i)
          BY <4>1 DEF Held, Holds, Where, Holder
        <5> QED
          BY <4>1, <5>1 DEF ClaimInv, ClaimsMarked
      <4>2. \A c \in {"run", "close"} :
              <<c, m>> \in Item /\ <<c, m>>[1] = c /\ <<c, m>>[2] = m /\ c # "open"
        BY ItemShape DEF Node
      <4> QED
        BY <2>2, <4>1, <4>2
    <3>2. CASE <<"run", m>> \in more /\ (\A x \in more : x = <<"run", m>> \/ x[1] = "unthrottled")
      <4>1. Held(<<"run", m>>)'
        BY <1>3, <3>2 DEF Held
      <4>2. ~Held(<<"close", m>>)'
        <5>1. \A u \in Thread : <<"close", m>> \notin todo'[u]
          BY <1>3, <3>1, <3>2 DEF Held
        <5> QED
          BY <1>1, <3>1, <5>1 DEF Held
      <4> QED
        BY <1>1, <1>5, <1>8, <2>1, <2>2, <4>1, <4>2 DEF NodeCared
    <3>3. CASE more = {<<"close", m>>} /\ ReadyForClose(m) /\ UNCHANGED inbox
      <4>1. Held(<<"close", m>>)'
        BY <1>3, <3>3 DEF Held
      <4>2. ReadyForClose(m)'
        BY <1>6, <3>3, SameReady
      <4> QED
        BY <1>1, <1>5, <1>8, <2>1, <2>2, <4>1, <4>2 DEF NodeCared
    <3> QED
      BY <1>2, <2>2, <3>2, <3>3
  <2>3. CASE more = {} /\ UNCHANGED <<flight, inbox>>
             /\ (status[m] # "opened" \/ m \in flight \/ ~Ready(m))
    <3>1. (Ready(n)' <=> Ready(n)) /\ (ReadyForClose(n)' <=> ReadyForClose(n))
      BY <1>6, <1>8, <2>3, SameReady
    <3>2. \A c \in {"run", "close"} : Held(<<c, n>>) <=> Held(<<c, n>>)'
      <4>1. \A c \in {"run", "close"}, u \in Thread :
              <<c, n>> \in todo'[u] <=> <<c, n>> \in todo[u]
        BY <1>3, <2>3
      <4> QED
        BY <1>1, <4>1 DEF Held
    <3> QED
      BY <1>1, <1>5, <1>8, <2>1, <2>3, <3>1, <3>2 DEF NodeCared
  <2> QED
    BY <1>2, <2>2, <2>3
<1> QED
  BY <1>7, <1>8

LEMMA AddJoinCares ==
  ASSUME TypeOK, NodesCared, NEW t \in Thread, NEW r \in todo[t], AddJoin(t, r)
  PROVE  NodesCared'
<1> USE SchedulerAssumption DEF Thread
<1> DEFINE m == r[2]
<1>0. m \in Join /\ r = <<r[1], m>> /\ r[1] \in {"run", "close"}
  BY DEF AddJoin
<1>1. /\ UNCHANGED <<item, phase, status, inbox, hasError, inputOpen>>
      /\ \/ ~hasError /\ items' = items \cup {r} /\ flight' = flight
         \/ hasError /\ items' = items /\ flight' = flight \ {m}
  BY DEF AddJoin, Push, queueVars, flags, appVars
<1>2. \A u \in Thread : todo'[u] = IF u = t THEN todo[t] \ {r} ELSE todo[u]
  BY DEF AddJoin, Forget, TypeOK
<1> SUFFICES ASSUME NEW n \in Node
             PROVE  NodeCared(n)'
  BY DEF NodesCared
<1>3. NodeCared(n)
  BY DEF NodesCared
<1>4. Checked(n) => Checked(n)'
  BY <1>0, <1>2 DEF Checked
<1>5. ASSUME NEW c \in {"open", "run", "close"}
      PROVE  /\ Held(<<c, n>>)' => Held(<<c, n>>)
             /\ <<c, n>> # r \/ ~hasError => (Held(<<c, n>>) => Held(<<c, n>>)')
  <2>1. <<c, n>> \in items' => <<c, n>> \in items \/ <<c, n>> = r
    BY <1>1
  <2>2. \A u \in Thread : /\ <<c, n>> \in todo'[u] => <<c, n>> \in todo[u]
                          /\ <<c, n>> # r => (<<c, n>> \in todo'[u] <=> <<c, n>> \in todo[u])
    BY <1>2
  <2>3. <<c, n>> \in items => <<c, n>> \in items'
    BY <1>1
  <2>4. ~hasError => r \in items'
    BY <1>1
  <2> QED
    BY <1>1, <2>1, <2>2, <2>3, <2>4 DEF Held
<1>6. \A f : Done(f)' <=> Done(f)
  BY <1>1 DEF Done
<1>7. n \in Join => (Ready(n)' <=> Ready(n)) /\ (ReadyForClose(n)' <=> ReadyForClose(n))
  BY <1>1, <1>6, SameReady
<1>8. Held(<<"open", n>>) => Held(<<"open", n>>)'
  BY <1>0, <1>5
<1>9. CASE ~hasError
  <2>1. /\ Held(<<"run", n>>) <=> Held(<<"run", n>>)'
        /\ Held(<<"close", n>>) <=> Held(<<"close", n>>)'
    BY <1>5, <1>9
  <2> QED
    BY <1>1, <1>3, <1>4, <1>7, <1>8, <1>9, <2>1 DEF NodeCared
<1>10. CASE hasError
  <2>1. Held(<<"close", n>>)' => Held(<<"close", n>>)
    BY <1>5
  <2>2. n \in flight' => n \in flight
    BY <1>1
  <2> QED
    BY <1>1, <1>3, <1>7, <1>10, <2>1, <2>2 DEF NodeCared
<1> QED
  BY <1>9, <1>10

LEMMA RunNextTaskCares ==
  ASSUME TypeOK, WorkInv, NodesCared, NEW t \in Thread, NEW q \in Queue,
         RunNextTask(t, q)
  PROVE  NodesCared'
<1> USE SchedulerAssumption DEF Thread
<1>1. PICK o \in items :
        /\ items' = items \ {o} /\ item' = [item EXCEPT ![t] = o]
        /\ phase' = [phase EXCEPT ![t] = "popped"]
        /\ UNCHANGED <<todo, status, flight, inbox, hasError, inputOpen>>
  BY DEF RunNextTask, ItemsOf, nodeVars, flags, appVars
<1>2. phase[t] = "none"
  BY RunNextTaskFree DEF WorkInv, WorkMatches
<1>3. /\ item'[t] = o /\ phase'[t] = "popped"
      /\ \A u \in Thread \ {t} : item'[u] = item[u] /\ phase'[u] = phase[u]
  BY <1>1 DEF TypeOK
<1>4. \A i : Held(i) <=> Held(i)'
  BY <1>1, <1>2, <1>3 DEF Held
<1> SUFFICES ASSUME NEW n \in Node
             PROVE  NodeCared(n)'
  BY DEF NodesCared
<1>5. NodeCared(n)
  BY DEF NodesCared
<1>6. Checked(n) => Checked(n)'
  BY <1>1 DEF Checked
<1>7. Spared(n)
  BY <1>1, <1>4, <1>6, SparedOthers
<1> QED
  BY <1>1, <1>5, <1>7, SparedCared

\* A thread that goes on with its task claims what it claimed, until the task has
\* ended, and makes other requests.
LEMMA TaskHolds ==
  ASSUME NEW t \in Thread, NEW i,
         UNCHANGED <<items, item>>, todo[t] = {} \/ UNCHANGED todo,
         \A u \in Thread \ {t} : todo'[u] = todo[u] /\ phase'[u] = phase[u],
         phase[t] \in {"popped", "processed"}, phase'[t] \in {"popped", "processed", "ended"}
  PROVE  /\ item[t] # i \/ phase'[t] # "ended" => (Held(i) => Held(i)')
         /\ i \notin todo'[t] \ todo[t] => (Held(i)' => Held(i))
         /\ i \in todo'[t] => Held(i)'
BY DEF Held

\* The requests of a task are others' as they were.
LEMMA TaskChecks ==
  ASSUME NEW t \in Thread, NEW n, todo[t] = {} \/ UNCHANGED todo,
         \A u \in Thread \ {t} : todo'[u] = todo[u]
  PROVE  Checked(n) => Checked(n)'
BY DEF Checked

LEMMA OpenNodeCares ==
  ASSUME TypeOK, ClaimInv, Statuses, NodesCared, NEW t \in Thread, todo[t] = {},
         \A u \in Thread \ {t} : todo'[u] = todo[u] /\ phase'[u] = phase[u],
         NEW m \in Node, OpenNode(t, m)
  PROVE  NodesCared'
<1> USE SchedulerAssumption DEF Thread
<1>1. /\ Popped(t, "open", m) /\ phase'[t] = "ended"
      /\ UNCHANGED <<items, item, flight, inbox, hasError, inputOpen>>
      /\ status'[m] = "opened"
      /\ \A n \in Node \ {m} : status'[n] = status[n]
      /\ todo'[t] = IF m \in Join THEN {<<"check", m>>} ELSE {}
  BY DEF OpenNode, queueVars, flags, appVars, TypeOK, Popped
<1>2. status[m] = "prepared"
  <2>1. "work" \in Where /\ t \in Holder /\ <<"open", m>> \in Item
        /\ Holds("work", t, <<"open", m>>)
    BY <1>1 DEF Where, Holder, Item, Holds, Popped
  <2>2. Fits("work", t, <<"open", m>>)
    BY <2>1 DEF Statuses, ClaimsFit
  <2> QED
    BY <2>2 DEF Fits
<1> SUFFICES ASSUME NEW n \in Node
             PROVE  NodeCared(n)'
  BY DEF NodesCared
<1>3. NodeCared(n)
  BY DEF NodesCared
<1>4. \A i \in Item : /\ item[t] # i => (Held(i) => Held(i)')
                      /\ Held(i)' => Held(i)
  <2> SUFFICES ASSUME NEW i \in Item
               PROVE  /\ item[t] # i => (Held(i) => Held(i)')
                      /\ Held(i)' => Held(i)
    OBVIOUS
  <2>1. i \notin todo'[t]
    BY <1>1, ItemShape
  <2> QED
    BY <1>1, <2>1, TaskHolds DEF Popped
<1>5. \A c \in {"open", "run", "close"} : <<c, n>> \in Item
  BY ItemShape
<1>6. Checked(n) => Checked(n)'
  BY TaskChecks
<1>7. \A s \in Source : status'[s] = "closed" <=> status[s] = "closed"
  BY <1>1, <1>2 DEF Node
<1>8. CASE n # m
  <2>1. \A c \in {"open", "run", "close"} : Held(<<c, n>>) <=> Held(<<c, n>>)'
    BY <1>1, <1>4, <1>5, <1>8 DEF Popped
  <2>2. Spared(n)
    BY <1>1, <1>6, <1>7, <1>8, <2>1, SparedOthers
  <2> QED
    BY <1>1, <1>3, <2>2, SparedCared
<1>9. CASE n = m
  <2>1. n \in Join => Checked(n)' /\ n \notin flight /\ ~Held(<<"close", n>>)'
    <3>1. n \in Join => Checked(n)'
      BY <1>1, <1>9 DEF Checked
    <3>2. n \in Join => n \notin flight
      BY <1>2, <1>3, <1>9 DEF NodeCared
    <3>3. ASSUME NEW i \in Item, i[1] # "open", Held(i)
          PROVE  i[2] \in flight
      <4>1. \E k \in Where, u \in Holder : Holds(k, u, i)
        BY <3>3 DEF Held, Holds, Where, Holder
      <4> QED
        BY <3>3, <4>1 DEF ClaimInv, ClaimsMarked
    <3>4. <<"close", n>> \in Item /\ <<"close", n>>[1] # "open" /\ <<"close", n>>[2] = n
      BY <1>5
    <3> QED
      BY <1>4, <3>1, <3>2, <3>3, <3>4
  <2> QED
    BY <1>1, <1>9, <2>1 DEF NodeCared
<1> QED
  BY <1>8, <1>9

LEMMA RunSourceCares ==
  ASSUME TypeOK, ClaimInv, Statuses, NodesCared, NEW t \in Thread, todo[t] = {},
         \A u \in Thread \ {t} : todo'[u] = todo[u] /\ phase'[u] = phase[u],
         NEW s \in Source, RunSource(t, s)
  PROVE  NodesCared'
<1> USE SchedulerAssumption DEF Thread
<1>0. s \in Node /\ s \notin Join
  BY DEF Node
<1>1. /\ Popped(t, "run", s) /\ phase'[t] = "processed"
      /\ UNCHANGED <<items, item, flight, hasError, inputOpen>>
      /\ \A n \in Node \ {s} : status'[n] = status[n]
      /\ status'[s] \in {status[s], "closed"}
      /\ \A e \in Stream : e[1] # s => inbox'[e] = inbox[e]
      /\ todo'[t] = Reached(s)
  BY <1>0 DEF RunSource, queueVars, flags, appVars, TypeOK, Popped, InboxWith
<1>2. status[s] = "active"
  BY <1>0, <1>1, PoppedStatus
<1> SUFFICES ASSUME NEW n \in Node
             PROVE  NodeCared(n)'
  BY DEF NodesCared
<1>3. NodeCared(n)
  BY DEF NodesCared
<1>4. \A i \in Item : Held(i)' <=> Held(i)
  <2> SUFFICES ASSUME NEW i \in Item
               PROVE  Held(i)' <=> Held(i)
    OBVIOUS
  <2>1. i \notin todo'[t]
    BY <1>1, ItemShape DEF Reached
  <2> QED
    BY <1>1, <2>1, TaskHolds DEF Popped
<1>5. \A c \in {"open", "run", "close"} : Held(<<c, n>>)' <=> Held(<<c, n>>)
  BY <1>4, ItemShape
<1>6. Checked(n) => Checked(n)'
  BY TaskChecks
<1>7. CASE n \in Join /\ s \in Feeds[n]
  <2>1. Checked(n)'
    <3>1. <<"check", n>> \in todo'[t]
      BY <1>1, <1>7 DEF Reached
    <3> QED
      BY <3>1 DEF Checked
  <2>2. ~ReadyForClose(n)
    BY <1>0, <1>2, <1>7 DEF ReadyForClose, Done, Node
  <2>3. Spared(n)
    BY <1>0, <1>1, <1>5, <1>7, <2>1, <2>2 DEF Spared
  <2> QED
    BY <1>1, <1>3, <2>3, SparedCared
<1>8. CASE n \in Join /\ s \notin Feeds[n]
  <2>1. ASSUME NEW f \in Feeds[n]
        PROVE  inbox'[<<f, n>>] = inbox[<<f, n>>] /\ (Done(f)' <=> Done(f))
    <3>1. <<f, n>> \in Stream /\ <<f, n>>[1] # s
      BY <1>8, <2>1 DEF Stream
    <3>2. f = Input \/ f \in Node \ {s}
      BY <1>8, <2>1 DEF Node
    <3> QED
      BY <1>1, <3>1, <3>2 DEF Done
  <2>2. (Ready(n)' <=> Ready(n)) /\ (ReadyForClose(n)' <=> ReadyForClose(n))
    BY <1>8, <2>1, SameReady
  <2>3. Spared(n)
    BY <1>0, <1>1, <1>5, <1>6, <1>8, <2>2 DEF Spared
  <2> QED
    BY <1>1, <1>3, <2>3, SparedCared
<1>9. CASE n \notin Join
  BY <1>1, <1>2, <1>3, <1>5, <1>9 DEF NodeCared
<1> QED
  BY <1>7, <1>8, <1>9

LEMMA RunJoinCares ==
  ASSUME TypeOK, ClaimInv, Statuses, NodesCared, [Next]_vars, NEW t \in Thread, todo[t] = {},
         \A u \in Thread \ {t} : todo'[u] = todo[u] /\ phase'[u] = phase[u],
         NEW m \in Join, RunJoin(t, m)
  PROVE  NodesCared'
<1> USE SchedulerAssumption DEF Thread
<1> DEFINE W == {s \in Late : status[s] = "waiting"}
<1>1. /\ Popped(t, "run", m) /\ phase'[t] = "processed"
      /\ UNCHANGED <<items, item, flight, inbox, inputOpen>>
  BY DEF RunJoin, queueVars, appVars, TypeOK, Popped
<1>2. \/ /\ status' = [s \in Node |-> IF s \in W THEN "prepared" ELSE status[s]]
         /\ todo'[t] = {"open"} \X W
      \/ UNCHANGED <<status, todo>>
  <2>1. \/ /\ status' = [s \in Node |-> IF s \in Late /\ status[s] = "waiting"
                                     THEN "prepared" ELSE status[s]]
           /\ todo' = [todo EXCEPT ![t] = {"open"} \X W]
        \/ UNCHANGED <<status, todo>>
    BY DEF RunJoin
  <2>2. todo' = [todo EXCEPT ![t] = {"open"} \X W] => todo'[t] = {"open"} \X W
    BY DEF TypeOK
  <2>3. \A s : (s \in Late /\ status[s] = "waiting") <=> s \in W
    OBVIOUS
  <2> QED
    BY <2>1, <2>2, <2>3
<1> SUFFICES ASSUME NEW n \in Node
             PROVE  NodeCared(n)'
  BY DEF NodesCared
<1>3. NodeCared(n) /\ (hasError => hasError')
  BY ErrorStays DEF NodesCared
<1>4. ASSUME NEW i \in Item
      PROVE  /\ Held(i) => Held(i)'
             /\ i[1] # "open" => (Held(i)' => Held(i))
  <2>1. i[1] # "open" => i \notin todo'[t] \ todo[t]
    BY <1>2
  <2> QED
    BY <1>1, <2>1, TaskHolds DEF Popped
<1>5. /\ Held(<<"open", n>>) => Held(<<"open", n>>)'
      /\ Held(<<"run", n>>) => Held(<<"run", n>>)'
      /\ Held(<<"close", n>>)' <=> Held(<<"close", n>>)
  <2>1. \A c \in {"open", "run", "close"} : <<c, n>> \in Item /\ <<c, n>>[1] = c
    BY ItemShape
  <2> QED
    BY <1>4, <2>1
<1>6. Checked(n) => Checked(n)'
  BY TaskChecks
<1>7. CASE status'[n] = status[n]
  <2>1. \A f \in Source \cup {Input} : Done(f)' <=> Done(f)
    <3>1. \A f \in Node : status'[f] = "closed" <=> status[f] = "closed"
      BY <1>2
    <3> QED
      BY <1>1, <3>1 DEF Done, Node
  <2>2. n \in Join => (Ready(n)' <=> Ready(n)) /\ (ReadyForClose(n)' <=> ReadyForClose(n))
    BY <1>1, <2>1, SameReady
  <2>3. Spared(n)
    BY <1>1, <1>5, <1>6, <1>7, <2>2 DEF Spared
  <2> QED
    BY <1>3, <2>3, SparedCared
<1>8. CASE status'[n] # status[n]
  <2>1. n \in W /\ status'[n] = "prepared" /\ <<"open", n>> \in todo'[t]
    BY <1>2, <1>8
  <2>2. n \in Source /\ n \notin Join
    BY <2>1
  <2>3. Held(<<"open", n>>)'
    BY <2>1 DEF Held
  <2> QED
    BY <2>1, <2>2, <2>3 DEF NodeCared
<1> QED
  BY <1>7, <1>8

LEMMA CloseJoinCares ==
  ASSUME TypeOK, NodesCared, NEW t \in Thread,
         \A u \in Thread \ {t} : todo'[u] = todo[u] /\ phase'[u] = phase[u],
         NEW m \in Join, CloseJoin(t, m)
  PROVE  NodesCared'
<1> USE SchedulerAssumption DEF Thread
<1>0. m \in Node /\ m \notin Source
  BY DEF Node
<1>1. /\ Popped(t, "close", m) /\ phase'[t] = "processed"
      /\ UNCHANGED <<items, todo, item, flight, inbox, hasError, inputOpen>>
      /\ status'[m] = "closed"
      /\ \A n \in Node \ {m} : status'[n] = status[n]
  BY <1>0 DEF CloseJoin, queueVars, flags, appVars, TypeOK, Popped
<1>2. \A i : Held(i) <=> Held(i)'
  BY <1>1, TaskHolds DEF Popped
<1> SUFFICES ASSUME NEW n \in Node
             PROVE  NodeCared(n)'
  BY DEF NodesCared
<1>3. NodeCared(n)
  BY DEF NodesCared
<1>4. \A s \in Source : status'[s] = status[s]
  BY <1>0, <1>1 DEF Node
<1>5. CASE n # m
  <2>1. Checked(n) => Checked(n)'
    BY <1>1 DEF Checked
  <2>2. Spared(n)
    BY <1>1, <1>2, <1>4, <1>5, <2>1, SparedOthers
  <2> QED
    BY <1>1, <1>3, <2>2, SparedCared
<1>6. CASE n = m
  <2>1. Held(<<"close", n>>)
    BY <1>1, <1>6 DEF Held, Popped
  <2>2. ReadyForClose(n)
    BY <1>3, <1>6, <2>1 DEF NodeCared
  <2>3. \A f \in Feeds[n] : Done(f)' <=> Done(f)
    BY <1>1, <1>4, <1>6 DEF Done
  <2>4. ReadyForClose(n)'
    BY <1>1, <1>6, <2>2, <2>3, SameReady
  <2> QED
    BY <1>1, <1>6, <2>4 DEF NodeCared
<1> QED
  BY <1>5, <1>6

LEMMA EndSchedulingCares ==
  ASSUME TypeOK, TasksHaveItems, ClaimInv, Statuses, NodesCared, NEW t \in Thread,
         \A u \in Thread \ {t} : todo'[u] = todo[u] /\ phase'[u] = phase[u],
         EndScheduling(t)
  PROVE  NodesCared'
<1> USE SchedulerAssumption DEF Thread
<1> DEFINE m == item[t][2]
<1>0. /\ phase[t] = "processed" /\ todo[t] = {}
      /\ item[t] \in Item /\ item[t][1] # "open" /\ m \in Node
  BY ItemShape DEF EndScheduling, Settled, TasksHaveItems, ClaimInv, JoinsOnly
<1>1. /\ UNCHANGED <<items, item, status, inbox, hasError, inputOpen>>
      /\ phase'[t] = "ended"
  BY DEF EndScheduling, queueVars, flags, appVars, TypeOK
<1>2. \/ status[m] \in {"opened", "active"} /\ flight' = flight \ {m}
         /\ todo'[t] = {<<"check", m>>}
      \/ status[m] \notin {"opened", "active"} /\ flight' = flight /\ todo'[t] = {}
  BY <1>0 DEF EndScheduling, TypeOK
<1>3. \A i \in Item : /\ item[t] # i => (Held(i) => Held(i)')
                      /\ Held(i)' => Held(i)
  <2> SUFFICES ASSUME NEW i \in Item
               PROVE  /\ item[t] # i => (Held(i) => Held(i)')
                      /\ Held(i)' => Held(i)
    OBVIOUS
  <2>1. i \notin todo'[t]
    BY <1>2, ItemShape
  <2> QED
    BY <1>0, <1>1, <2>1, TaskHolds
<1> SUFFICES ASSUME NEW n \in Node
             PROVE  NodeCared(n)'
  BY DEF NodesCared
<1>4. NodeCared(n)
  BY DEF NodesCared
<1>5. \A c \in {"open", "run", "close"} :
        <<c, n>> \in Item /\ <<c, n>>[1] = c /\ <<c, n>>[2] = n
  BY ItemShape
<1>6. Checked(n) => Checked(n)'
  BY <1>0, TaskChecks
<1>7. CASE n # m
  <2>1. \A c \in {"open", "run", "close"} : Held(<<c, n>>) <=> Held(<<c, n>>)'
    BY <1>3, <1>5, <1>7
  <2>2. Spared(n)
    <3>1. n \in flight' <=> n \in flight
      BY <1>2, <1>7
    <3> QED
      BY <1>1, <1>6, <2>1, <3>1, SparedOthers
  <2> QED
    BY <1>1, <1>4, <2>2, SparedCared
<1>8. CASE n = m
  <2>1. Held(<<"open", n>>) => Held(<<"open", n>>)'
    BY <1>0, <1>3, <1>5
  <2>2. Held(<<"close", n>>)' => Held(<<"close", n>>)
    BY <1>3, <1>5
  <2>3. \A f : Done(f)' <=> Done(f)
    BY <1>1 DEF Done
  <2>4. n \in Join => (ReadyForClose(n)' <=> ReadyForClose(n))
    BY <1>1, <2>3, SameReady
  <2>5. CASE status[n] \in {"opened", "active"}
    <3>1. Checked(n)' /\ n \notin flight'
      BY <1>2, <1>8, <2>5 DEF Checked
    <3> QED
      BY <1>1, <1>4, <2>1, <2>2, <2>4, <2>5, <3>1 DEF NodeCared
  <2>6. CASE status[n] \notin {"opened", "active"}
    <3>1. flight' = flight
      BY <1>2, <1>8, <2>6
    <3> QED
      BY <1>1, <1>4, <2>1, <2>2, <2>4, <2>6, <3>1 DEF NodeCared
  <2> QED
    BY <2>5, <2>6
<1> QED
  BY <1>7, <1>8

LEMMA FinishTaskCares ==
  ASSUME TypeOK, NodesCared, NEW t \in Thread, NEW q \in Queue, FinishTask(t, q)
  PROVE  NodesCared'
<1> USE SchedulerAssumption DEF Thread
<1>1. /\ UNCHANGED <<items, todo, status, flight, inbox, hasError, inputOpen>>
      /\ phase[t] = "ended" /\ phase'[t] = "none"
      /\ \A u \in Thread \ {t} : item'[u] = item[u] /\ phase'[u] = phase[u]
  BY DEF FinishTask, nodeVars, flags, appVars, TypeOK
<1>2. \A i : Held(i) <=> Held(i)'
  BY <1>1 DEF Held
<1> SUFFICES ASSUME NEW n \in Node
             PROVE  NodeCared(n)'
  BY DEF NodesCared
<1>3. NodeCared(n)
  BY DEF NodesCared
<1>4. Checked(n) => Checked(n)'
  BY <1>1 DEF Checked
<1>5. Spared(n)
  BY <1>1, <1>2, <1>4, SparedOthers
<1> QED
  BY <1>1, <1>3, <1>5, SparedCared

LEMMA AppCares ==
  ASSUME TypeOK, NodesCared, NEW a \in App, AddPacket(a) \/ CloseInput(a)
  PROVE  NodesCared'
<1> USE SchedulerAssumption DEF Thread
<1>0. /\ UNCHANGED <<items, item, phase, status, flight, hasError>>
      /\ todo[a] = {} /\ todo' = [todo EXCEPT ![a] = Reached(Input)] /\ inputOpen
      /\ inbox' = inbox \/ inbox' = InboxWith(Input)
  BY DEF AddPacket, CloseInput, queueVars, flags, nodeVars, Begin, Free, Settled
<1>1. /\ UNCHANGED <<items, item, phase, status, flight, hasError>>
      /\ todo[a] = {} /\ todo'[a] = Reached(Input) /\ inputOpen
      /\ \A u \in Thread \ {a} : todo'[u] = todo[u]
      /\ \A e \in Stream : e[1] # Input => inbox'[e] = inbox[e]
  BY <1>0 DEF InboxWith, TypeOK
<1> SUFFICES ASSUME NEW n \in Node
             PROVE  NodeCared(n)'
  BY DEF NodesCared
<1>2. NodeCared(n)
  BY DEF NodesCared
<1>3. \A i \in Item : Held(i)' <=> Held(i)
  <2>1. \A i \in Item : i \notin todo'[a]
    BY <1>1, ItemShape DEF Reached
  <2>2. \A i \in Item, u \in Thread : i \in todo'[u] <=> i \in todo[u]
    BY <1>1, <2>1
  <2> QED
    BY <1>1, <2>2 DEF Held
<1>4. \A c \in {"open", "run", "close"} : Held(<<c, n>>)' <=> Held(<<c, n>>)
  BY <1>3, ItemShape
<1>5. Checked(n) => Checked(n)'
  BY <1>1, TaskChecks
<1>6. CASE n \in Join /\ Input \in Feeds[n]
  <2>1. Checked(n)'
    <3>1. <<"check", n>> \in todo'[a]
      BY <1>1, <1>6 DEF Reached
    <3> QED
      BY <3>1 DEF Checked
  <2>2. ~ReadyForClose(n)
    BY <1>1, <1>6 DEF ReadyForClose, Done
  <2>3. Spared(n)
    BY <1>1, <1>4, <1>6, <2>1, <2>2 DEF Spared
  <2> QED
    BY <1>1, <1>2, <2>3, SparedCared
<1>7. CASE n \in Join /\ Input \notin Feeds[n]
  <2>1. ASSUME NEW f \in Feeds[n]
        PROVE  inbox'[<<f, n>>] = inbox[<<f, n>>] /\ (Done(f)' <=> Done(f))
    <3>1. <<f, n>> \in Stream /\ <<f, n>>[1] # Input /\ f # Input
      BY <1>7, <2>1 DEF Stream
    <3> QED
      BY <1>1, <3>1 DEF Done
  <2>2. (Ready(n)' <=> Ready(n)) /\ (ReadyForClose(n)' <=> ReadyForClose(n))
    BY <1>7, <2>1, SameReady
  <2>3. Spared(n)
    BY <1>1, <1>4, <1>5, <1>7, <2>2 DEF Spared
  <2> QED
    BY <1>1, <1>2, <2>3, SparedCared
<1>8. CASE n \notin Join
  BY <1>1, <1>2, <1>4, <1>8 DEF NodeCared
<1> QED
  BY <1>6, <1>7, <1>8

NodesCareInv == call[Main] # "cleanup" => NodesCared

LEMMA CareStep ==
  ASSUME TypeOK, TasksHaveItems, ClaimInv, StatusInv, WorkInv, NodesCareInv, [Next]_vars
  PROVE  NodesCareInv'
<1> SUFFICES ASSUME call'[Main] # "cleanup"
             PROVE  NodesCared'
  BY DEF NodesCareInv
<1>1. call[Main] # "cleanup" /\ ~StartCleanup
  BY CleanupStays
<1>2. NodesCared /\ Statuses /\ RequestsFit
  BY <1>1 DEF NodesCareInv, StatusInv, Statuses
<1>3. CASE UNCHANGED claimVars
  <2>1. CASE UNCHANGED inputOpen
    <3> SUFFICES ASSUME NEW n \in Node
                 PROVE  NodeCared(n)'
      BY DEF NodesCared
    <3>1. NodeCared(n)
      BY <1>2 DEF NodesCared
    <3>2. \A i : Held(i) <=> Held(i)'
      BY <1>3 DEF claimVars, Held
    <3>3. Checked(n) => Checked(n)'
      BY <1>3 DEF claimVars, Checked
    <3>4. UNCHANGED <<status, flight, inbox>>
      BY <1>3 DEF claimVars
    <3>5. Spared(n)
      BY <2>1, <3>2, <3>3, <3>4, SparedOthers
    <3> QED
      BY <3>1, <3>5, SparedCared, ErrorStays
  <2>2. ASSUME NEW a \in App, CloseInput(a)
        PROVE  NodesCared'
    BY <1>2, <2>2, AppCares
  <2> QED
    BY <2>1, <2>2, InputStays
<1>4. ASSUME NEW t \in Worker, Running(t)
      PROVE  NodesCared'
  <2>0. t \in Thread
    BY DEF Thread
  <2>1. \A u \in Thread \ {t} : todo'[u] = todo[u] /\ phase'[u] = phase[u]
    BY <1>4, <2>0, RunningStepApart DEF Apart
  <2>2. phase[t] = "popped" => todo[t] = {}
    BY <2>0 DEF WorkInv, TasksBeginFree, Free, Settled
  <2>3. ASSUME NEW m \in Node, OpenNode(t, m)
        PROVE  NodesCared'
    <3>1. todo[t] = {}
      BY <2>2, <2>3 DEF OpenNode, Popped
    <3> QED
      BY <1>2, <2>0, <2>1, <2>3, <3>1, OpenNodeCares
  <2>4. ASSUME NEW s \in Source, RunSource(t, s)
        PROVE  NodesCared'
    <3>1. todo[t] = {}
      BY <2>2, <2>4 DEF RunSource, Popped
    <3> QED
      BY <1>2, <2>0, <2>1, <2>4, <3>1, RunSourceCares
  <2>5. ASSUME NEW m \in Join, RunJoin(t, m)
        PROVE  NodesCared'
    <3>1. todo[t] = {}
      BY <2>2, <2>5 DEF RunJoin, Popped
    <3> QED
      BY <1>2, <2>0, <2>1, <2>5, <3>1, RunJoinCares
  <2>6. ASSUME NEW m \in Join, CloseJoin(t, m)
        PROVE  NodesCared'
    BY <1>2, <2>0, <2>1, <2>6, CloseJoinCares
  <2>7. CASE EndScheduling(t)
    BY <1>2, <2>0, <2>1, <2>7, EndSchedulingCares
  <2>8. ASSUME NEW q \in Queue, RunNextTask(t, q) \/ FinishTask(t, q)
        PROVE  NodesCared'
    BY <1>2, <2>0, <2>8, RunNextTaskCares, FinishTaskCares
  <2> QED
    BY <1>4, <2>3, <2>4, <2>5, <2>6, <2>7, <2>8 DEF Running
<1>5. ASSUME NEW t \in Thread, NodeStep(t)
      PROVE  NodesCared'
  BY <1>2, <1>4, <1>5, HandlerCares, ScheduleForOpenCares, ScheduleSourceCares,
     AddJoinCares, CheckJoinCares, AppCares DEF NodeStep
<1>6. \A q \in Queue : ~CleanupQueue(q)
  BY <1>1 DEF CleanupQueue
<1> QED
  BY <1>1, <1>3, <1>5, <1>6, StepCases

LEMMA InitCares == Init => NodesCareInv
<1> SUFFICES ASSUME Init, NEW n \in Node
             PROVE  NodeCared(n)
  BY DEF NodesCareInv, NodesCared
<1> USE SchedulerAssumption DEF Init, Thread
<1>1. \A t \in Thread : \A r \in todo[t] : r[1] = "open"
  OBVIOUS
<1>2. ~Held(<<"close", n>>)
  BY <1>1 DEF Held
<1>3. status[n] = "prepared" => <<"open", n>> \in todo[Main]
  OBVIOUS
<1>4. status[n] = "prepared" => Held(<<"open", n>>)
  BY <1>3 DEF Held
<1> QED
  BY <1>2, <1>4 DEF NodeCared

LEMMA CareInvariant == Spec => []NodesCareInv
<1>1. BaseInv /\ NodesInv /\ MissedInv /\ NodesCareInv /\ [Next]_vars => NodesCareInv'
  <2>1. BaseInv => TypeOK /\ TasksHaveItems
    BY DEF BaseInv, RunningCountMatchesState, TasksHaveItems
  <2> QED
    BY <2>1, CareStep DEF NodesInv, MissedInv
<1> QED
  BY <1>1, InitCares, BaseInvariant, NodesInvariant, MissedInvariant, PTL DEF Spec

-----------------------------------------------------------------------------
\* A run that has ended is still: nobody will open, run or close a node.
LEMMA EndedStill ==
  ASSUME TypeOK, Proved!IInv, WorkInv, RequestsOwned, RestInv, state = "TERMINATED"
  PROVE  /\ items = {} /\ ~inputOpen /\ stage \in {"none", "loop"}
         /\ \A t \in Thread : todo[t] = {} /\ phase[t] = "none"
<1>1. /\ stage \in {"none", "loop"} /\ ~inputOpen
      /\ \A a \in App : call[a] \notin {"add", "close"}
  BY DEF RestInv, Alone, TypeOK
<1>2. \A q \in Queue : pending[q] = 0 /\ Queues!IsIdle(q)
  BY DEF RestInv, StillInv
<1>3. \A t \in Thread : work[t] = None
  <2>1. \A t \in Thread : work[t] \in Queue \cup {None}
    BY DEF TypeOK, Queues!TypeOK, Queues!Thread, Thread
  <2>2. \A q \in Queue : \A t \in Thread : work[t] = q => pending[q] > 0
    BY QueueCounts
  <2>3. \A q \in Queue : ~(pending[q] > 0)
    BY <1>2
  <2> QED
    BY <2>1, <2>2, <2>3
<1>4. \A t \in Thread : todo[t] = {}
  BY <1>1, <1>3 DEF RequestsOwned, Owned
<1>5. items = {}
  <2>1. ASSUME NEW i \in items
        PROVE  FALSE
    <3>1. i[2] \in Node
      BY ItemShape DEF TypeOK
    <3>2. QueueOf[i[2]] \in Queue
      BY <3>1, SchedulerAssumption
    <3> QED
      BY <1>2, <3>1, <3>2, QueueCounts
  <2> QED
    BY <2>1
<1> QED
  BY <1>1, <1>3, <1>4, <1>5 DEF WorkInv, WorkMatches

LEMMA EndedKept ==
  ASSUME TypeOK, Proved!IInv, WorkInv, RequestsOwned, RestInv, state = "TERMINATED",
         [Next]_vars, call'[Main] # "cleanup"
  PROVE  UNCHANGED status
<1>1. /\ items = {} /\ ~inputOpen /\ stage \in {"none", "loop"}
      /\ \A t \in Thread : todo[t] = {} /\ phase[t] = "none"
  BY EndedStill
<1>2. call[Main] # "cleanup" /\ ~StartCleanup
  BY CleanupStays
<1>3. ASSUME NEW t \in Thread, NodeStep(t)
      PROVE  FALSE
  <2>1. ~ChooseSources(t) /\ ~StopQueues(t) /\ ~UnthrottleSources(t)
    BY <1>1 DEF ChooseSources, StopQueues, UnthrottleSources, Working
  <2>2. \A n \in Node : ~ScheduleForOpen(t, n) /\ ~CheckJoin(t, n)
    BY <1>1 DEF ScheduleForOpen, CheckJoin, Makes
  <2>3. ~Running(t)
    BY <1>1 DEF Running, RunNextTask, ItemsOf, FinishTask, OpenNode, RunSource,
       RunJoin, CloseJoin, EndScheduling, Popped
  <2>4. ~AddPacket(t) /\ ~CloseInput(t)
    BY <1>1 DEF AddPacket, CloseInput
  <2> QED
    BY <1>1, <1>3, <2>1, <2>2, <2>3, <2>4 DEF NodeStep, Node
<1>4. \A q \in Queue : ~CleanupQueue(q)
  BY <1>2 DEF CleanupQueue
<1> QED
  BY <1>2, <1>3, <1>4, StepCases DEF claimVars

\* Only Quit ends a run.
LEMMA QuitEnds ==
  ASSUME [Next]_vars, state' = "TERMINATED", state # "TERMINATED"
  PROVE  \E t \in Thread : Quit(t)
<1>1. ASSUME NEW t \in Thread, Handling(t)
      PROVE  Quit(t)
  BY <1>1 DEF Handling, StopHandling, NothingLeft, ReportSourceDeadlock,
     TryToUnthrottle, ChooseSources, StopQueues, RestartQueues,
     UnthrottleSources, Relock
<1>2. ASSUME NEW t \in Thread, Scheduling(t)
      PROVE  FALSE
  BY <1>2 DEF Scheduling, BecomeActive, BecomeIdle, SubmitAfterHandling,
     AddTask, SubmitWaitingTasks, ScheduleForOpen, ScheduleSource, AddJoin,
     CheckJoin
<1>3. ASSUME NEW t \in Worker, Running(t)
      PROVE  FALSE
  BY <1>3 DEF Running, RunNextTask, FinishTask, OpenNode, RunSource, RunJoin,
     CloseJoin, EndScheduling
<1>4. ASSUME NEW a \in App, Finish(a) \/ Pause(a) \/ Resume(a) \/ Cancel(a) \/ AddPacket(a)
                            \/ CloseInput(a)
      PROVE  FALSE
  BY <1>4 DEF Finish, AddedPacket, ClosedAllInputs, Pause, Resume, Cancel, AddPacket,
     CloseInput
<1>5. CASE Start \/ StartCleanup \/ \E q \in Queue : CleanupQueue(q)
  BY <1>5 DEF Start, StartCleanup, CleanupQueue
<1>6. CASE UNCHANGED vars
  BY <1>6 DEF vars
<1> QED
  BY <1>1, <1>2, <1>3, <1>4, <1>5, <1>6, ThreadSteps

\* ... and, without an error, when no source is left to run.
EndedInv ==
  state = "TERMINATED" /\ ~hasError /\ call[Main] # "cleanup" =>
    Active = {} /\ SourcesQueue = {}

LEMMA EndedStep ==
  ASSUME TypeOK, Proved!IInv, WorkInv, RequestsOwned, RestInv, EndedInv, [Next]_vars
  PROVE  EndedInv'
<1> SUFFICES ASSUME state' = "TERMINATED", ~hasError', call'[Main] # "cleanup"
             PROVE  Active' = {} /\ SourcesQueue' = {}
  BY DEF EndedInv
<1>1. ~hasError /\ call[Main] # "cleanup"
  BY ErrorStays, CleanupStays
<1>2. CASE state = "TERMINATED"
  <2>1. UNCHANGED status
    BY <1>2, EndedKept
  <2> QED
    BY <1>1, <1>2, <2>1 DEF EndedInv, Active, SourcesQueue
<1>3. ASSUME NEW t \in Thread, Quit(t)
      PROVE  Active' = {} /\ SourcesQueue' = {}
  BY <1>1, <1>3 DEF Quit, QuitDue, nodeVars, Active, SourcesQueue
<1> QED
  BY <1>2, <1>3, QuitEnds

\* A run that ends without an error has processed every packet and closed every
\* node, when no node waits for a side packet that the run may never make.
LEMMA EndedProcessed ==
  ASSUME TypeOK, Proved!IInv, WorkInv, RequestsOwned, RestInv, EndedInv, StatusInv,
         NodesCareInv, Late = {}
  PROVE  EverythingProcessed
<1> SUFFICES ASSUME state = "TERMINATED", ~hasError, call[Main] # "cleanup"
             PROVE  /\ \A e \in Stream : inbox[e] = 0
                    /\ \A n \in Node : status[n] = "closed"
                    /\ items = {}
  BY DEF EverythingProcessed
<1>1. /\ items = {} /\ ~inputOpen
      /\ \A t \in Thread : todo[t] = {} /\ phase[t] = "none"
  BY EndedStill
<1>2. \A i : ~Held(i)
  BY <1>1 DEF Held
<1>3. \A n \in Node : status[n] \notin {"waiting", "prepared"}
  BY <1>2 DEF NodesCareInv, NodesCared, NodeCared
<1>4. \A s \in Source : status[s] = "closed"
  <2>1. \A s \in Source : status[s] \notin {"opened", "chosen", "active"}
    BY DEF EndedInv, Active, SourcesQueue
  <2> QED
    BY <1>3, <2>1 DEF TypeOK, Node
<1>5. ASSUME NEW n \in Join
      PROVE  status[n] = "closed" /\ ReadyForClose(n)
  <2>1. NodeCared(n)
    BY DEF NodesCareInv, NodesCared, Node
  <2>2. status[n] \in {"opened", "closed"}
    BY <1>3 DEF StatusInv, Statuses, ClosedInFlight, Node
  <2>3. \A f \in Feeds[n] : Done(f) /\ inbox[<<f, n>>] \in Nat
    <3>1. \A f \in Feeds[n] : <<f, n>> \in Stream /\ f \in Source \cup {Input}
      BY SchedulerAssumption DEF Stream
    <3> QED
      BY <1>1, <1>4, <3>1 DEF Done, TypeOK
  <2>4. Ready(n)
    BY <2>3 DEF Ready, ReadyForProcess, ReadyForClose
  <2>5. ~Checked(n)
    BY <1>1 DEF Checked
  <2> QED
    BY <1>2, <2>1, <2>2, <2>4, <2>5 DEF NodeCared
<1>6. \A e \in Stream : inbox[e] = 0
  <2> SUFFICES ASSUME NEW e \in Stream
               PROVE  inbox[e] = 0
    OBVIOUS
  <2>1. e[2] \in Join /\ e[1] \in Feeds[e[2]] /\ e = <<e[1], e[2]>>
    BY DEF Stream
  <2> QED
    BY <1>5, <2>1 DEF ReadyForClose
<1> QED
  BY <1>1, <1>4, <1>5, <1>6 DEF Node

\* EverythingProcessed: a run of an undisturbed graph in which no source waits for
\* a late side packet, and which ends without an error, has processed every packet
\* and closed every node.
THEOREM NothingLeftBehind ==
  Spec => [](Undisturbed /\ Late = {} => EverythingProcessed)
<1>1. Init => EndedInv
  BY DEF Init, EndedInv
<1>2. BaseInv /\ MissedInv /\ RestInv /\ EndedInv /\ [Next]_vars => EndedInv'
  <2>1. BaseInv => TypeOK /\ Proved!IInv
    BY DEF BaseInv, RunningCountMatchesState
  <2> QED
    BY <2>1, EndedStep DEF MissedInv
<1>3. (Undisturbed' <=> Undisturbed)
  BY DEF Undisturbed, Fed
<1>4. /\ BaseInv /\ MissedInv /\ NodesInv /\ NodesCareInv /\ RestInv /\ EndedInv /\ Late = {}
         => EverythingProcessed
  <2>1. BaseInv => TypeOK /\ Proved!IInv
    BY DEF BaseInv, RunningCountMatchesState
  <2> QED
    BY <2>1, EndedProcessed DEF MissedInv, NodesInv
<1> QED
  BY <1>1, <1>2, <1>3, <1>4, BaseInvariant, NodesInvariant, MissedInvariant,
     CareInvariant, RestInvariant, PTL DEF Spec

-----------------------------------------------------------------------------
\* Every thread that owes a become-active call runs a task, feeds the graph or
\* starts it, or there is an item of a source for it: the one it has pushed, or
\* another that was popped after that, with a task still in its hands.
MayAwake(t) ==
  \/ work[t] # None
  \/ t \in App /\ call[t] \in {"add", "close"}
  \/ t = Main /\ state = "NOT_STARTED"
  \/ \E s \in Source : /\ <<"run", s>> \in items
                       /\ inHand[QueueOf[s]][t] > 0 \/ (handler = t /\ stage = "add")

AwakeInv == \A t \in owesActive : MayAwake(t)

LEMMA AwakeKept ==
  ASSUME TypeOK, AwakeInv, NEW t \in Thread,
         items \subseteq items',
         owesActive' \subseteq owesActive \cup {t}, t \in owesActive' => MayAwake(t)',
         \A u \in Thread \ {t} : /\ work'[u] = work[u]
                                 /\ \A q \in Queue : inHand'[q][u] = inHand[q][u]
                                 /\ handler = u => UNCHANGED <<handler, stage>>
                                 /\ u \in App => call'[u] = call[u],
         state = "NOT_STARTED" => state' = state \/ t = Main
  PROVE  AwakeInv'
<1>1. ASSUME NEW u \in owesActive', u # t
      PROVE  MayAwake(u)'
  <2>1. u \in Thread \ {t} /\ MayAwake(u)
    BY <1>1 DEF AwakeInv, TypeOK, Queues!TypeOK, Queues!Thread, Thread
  <2>2. \A s \in Source : QueueOf[s] \in Queue
    BY SchedulerAssumption DEF Node
  <2> QED
    BY <2>1, <2>2 DEF MayAwake
<1> QED
  BY <1>1 DEF AwakeInv

\* A step that leaves the queues, the calls and the place of the handler alone.
LEMMA AwakeSame ==
  ASSUME AwakeInv, items \subseteq items',
         UNCHANGED <<work, inHand, state>>, owesActive' \subseteq owesActive,
         \A u \in owesActive : /\ handler = u /\ stage = "add" => UNCHANGED <<handler, stage>>
                               /\ u \in App => call'[u] = call[u]
  PROVE  AwakeInv'
BY DEF AwakeInv, MayAwake

\* The handler pushes sources only.
LEMMA PushAwake ==
  ASSUME TypeOK, Proved!IInv, Counted, RequestsOwned, RestInv, AwakeInv,
         NEW t \in Thread, todo[t] # {}, NEW i, i[2] \in Node, Push(t, i),
         handler = t => \E s \in Source : i = <<"run", s>>,
         UNCHANGED <<state, idleVars, call>>
  PROVE  AwakeInv'
<1> DEFINE q == QueueOf[i[2]]
<1>1. q \in Queue /\ Queues!AddItemToQueue(t, q) /\ items' = items \cup {i}
  BY SchedulerAssumption DEF Push
<1>2. Pushes(t) \/ Stores(t)
  BY PushCases DEF RestInv
<1>3. inHand \in [Queue -> [Thread -> Nat]] /\ toAdd \in [Queue -> Nat]
  BY DEF TypeOK, Queues!TypeOK, Queues!Thread, Thread
<1>4. /\ inHand' = [inHand EXCEPT ![q][t] = IF running[q] > 0 THEN toAdd[q] + 1 ELSE 0]
      /\ UNCHANGED work
  BY <1>1 DEF Queues!AddItemToQueue, Queues!TakeTasks
<1>5. MayAwake(t)'
  <2>1. CASE work[t] # None \/ (t \in App /\ call[t] \in {"add", "close"})
             \/ (t = Main /\ state = "NOT_STARTED")
    BY <1>4, <2>1 DEF MayAwake
  <2>2. CASE handler = t
    <3>1. PICK s \in Source : i = <<"run", s>>
      BY <2>2
    <3>2. i[2] = s /\ <<"run", s>> \in items'
      BY <1>1, <3>1
    <3>3. CASE stage = "add"
      BY <2>2, <3>2, <3>3 DEF MayAwake, idleVars
    <3>4. CASE stage # "add"
      <4>1. running[q] = 1 \/ (t = Main /\ state = "NOT_STARTED")
        BY <1>1, <1>2, <3>4 DEF Pushes, Stores
      <4>2. running[q] = 1 => inHand'[q][t] > 0
        <5> HIDE DEF q
        <5> QED
          BY <1>1, <1>3, <1>4
      <4> QED
        BY <2>1, <3>2, <4>1, <4>2 DEF MayAwake
    <3> QED
      BY <3>3, <3>4
  <2> QED
    BY <1>2, <2>1, <2>2 DEF Pushes, Stores
<1>6. items \subseteq items'
  BY <1>1
<1> HIDE DEF q
<1> QED
  BY <1>1, <1>5, <1>6, InHandApart, AwakeKept DEF idleVars

LEMMA HandlingAwake ==
  ASSUME TypeOK, AwakeInv, NEW t \in Thread, Handling(t)
  PROVE  AwakeInv'
<1>0. handler = t
  BY HandlingBusy
<1>1. UNCHANGED <<items, work, inHand, owesActive, call>>
  BY DEF Handling, StopHandling, Quit, ReportSourceDeadlock, ChooseSources,
         StopQueues, RestartQueues, TryToUnthrottle, NothingLeft,
         UnthrottleSources, Relock, queueVars, appVars, Queues!SetRunning
<1>2. UNCHANGED state \/ state # "NOT_STARTED"
  BY DEF Handling, StopHandling, Quit, ReportSourceDeadlock, ChooseSources,
         StopQueues, RestartQueues, TryToUnthrottle, NothingLeft,
         UnthrottleSources, Relock, Working
<1>3. stage = "add" => t \notin owesActive
  BY DEF Handling, StopHandling, Quit, ReportSourceDeadlock, ChooseSources,
         StopQueues, RestartQueues, TryToUnthrottle, NothingLeft,
         UnthrottleSources, Relock, InLoop, Scheduled, Returned, Queues!Returned
<1>4. t \in owesActive => MayAwake(t) /\ stage # "add"
  BY <1>3 DEF AwakeInv
<1>5. t \in owesActive' => MayAwake(t)'
  BY <1>1, <1>2, <1>4 DEF MayAwake
<1> QED
  BY <1>0, <1>1, <1>2, <1>5, AwakeKept

\* Callbacks and requests.
LEMMA SchedulingAwake ==
  ASSUME TypeOK, Proved!IInv, Counted, RequestsOwned, RestInv, AwakeInv,
         NEW t \in Thread, Scheduling(t)
  PROVE  AwakeInv'
<1>0. /\ UNCHANGED <<work, state, call>>
      /\ handler # None => UNCHANGED <<handler, stage>>
      /\ \A u \in Thread : u # None
  <2>1. UNCHANGED <<state, call>> /\ (EnterHandleIdle(t) \/ UNCHANGED idleVars)
    BY DEF Scheduling, BecomeActive, BecomeIdle, SubmitAfterHandling, AddTask,
           SubmitWaitingTasks, ScheduleForOpen, ScheduleSource, AddJoin,
           CheckJoin, appVars
  <2>2. handler # None => UNCHANGED <<handler, stage>>
    BY <2>1 DEF EnterHandleIdle, idleVars
  <2> QED
    BY <2>1, <2>2, SchedulingBusy, SchedulerAssumption DEF Thread
<1>00. owesActive \subseteq Thread
  BY DEF TypeOK, Queues!TypeOK, Queues!Thread, Thread
<1>1. ASSUME UNCHANGED <<items, inHand>>, owesActive' \subseteq owesActive
      PROVE  AwakeInv'
  BY <1>0, <1>00, <1>1, AwakeSame
<1>2. CASE BecomeActive(t) \/ BecomeIdle(t)
  <2>1. UNCHANGED <<items, inHand>> /\ owesActive' \subseteq owesActive
    BY <1>2 DEF BecomeActive, BecomeIdle, Queues!BecomeActive, Queues!BecomeIdle
  <2> QED
    BY <1>1, <2>1
<1>3. ASSUME NEW q \in Queue, AddTask(t, q) \/ SubmitWaitingTasks(t, q)
      PROVE  AwakeInv'
  <2>1. /\ Queues!AddTask(t, q) \/ Queues!SubmitWaitingTasks(t, q)
        /\ t \notin owesActive /\ UNCHANGED <<items, owesActive>>
    BY <1>3
       DEF AddTask, SubmitWaitingTasks, Queues!AddTask,
           Queues!SubmitWaitingTasks, Queues!Returned
  <2>2. \A u \in Thread \ {t}, p \in Queue : inHand'[p][u] = inHand[p][u]
    BY <2>1, InHandApart
  <2> QED
    BY <1>0, <2>1, <2>2, AwakeKept
<1>4. ASSUME NEW i, i[2] \in Node, Push(t, i), todo[t] # {}, UNCHANGED idleVars,
             handler = t => \E s \in Source : i = <<"run", s>>
      PROVE  AwakeInv'
  BY <1>0, <1>4, PushAwake
<1>5. ASSUME NEW n \in Node, ScheduleForOpen(t, n)
      PROVE  AwakeInv'
  <2>1. /\ handler # t /\ todo[t] # {} /\ UNCHANGED idleVars
        /\ UNCHANGED queueVars \/ Push(t, <<"open", n>>)
    BY <1>5 DEF ScheduleForOpen, Makes, Handled
  <2>2. <<"open", n>>[2] \in Node
    OBVIOUS
  <2> QED
    BY <1>1, <1>4, <2>1, <2>2 DEF queueVars
<1>6. ASSUME NEW r \in todo[t], ScheduleSource(t, r)
      PROVE  AwakeInv'
  <2>1. /\ r[2] \in Source /\ UNCHANGED idleVars
        /\ UNCHANGED queueVars \/ Push(t, <<"run", r[2]>>)
    BY <1>6 DEF ScheduleSource
  <2>2. <<"run", r[2]>>[2] \in Node
    BY <2>1 DEF Node
  <2> QED
    BY <1>1, <1>4, <1>6, <2>1, <2>2 DEF queueVars
<1>7. ASSUME NEW r \in todo[t], AddJoin(t, r)
      PROVE  AwakeInv'
  <2>1. /\ handler # t /\ r[2] \in Node /\ UNCHANGED idleVars
        /\ UNCHANGED queueVars \/ Push(t, r)
    BY <1>7 DEF AddJoin, Makes, Handled, Node
  <2> QED
    BY <1>1, <1>4, <1>7, <2>1 DEF queueVars
<1>8. ASSUME UNCHANGED queueVars
      PROVE  AwakeInv'
  BY <1>1, <1>8 DEF queueVars
<1> QED
  BY <1>2, <1>3, <1>5, <1>6, <1>7, <1>8 DEF Scheduling, CheckJoin, SubmitAfterHandling

\* Among the items that RunNextTask leaves when it pops a source is another.
LEMMA SourceLeft ==
  ASSUME TypeOK, Proved!IInv, JoinsOnly, NEW t \in Thread, NEW u \in Thread,
         NEW s \in Source, RunNextTask(t, QueueOf[s]), <<"run", s>> \in items,
         inHand[QueueOf[s]][u] > 0
  PROVE  \E r \in Source : QueueOf[r] = QueueOf[s] /\ <<"run", r>> \in items'
<1> DEFINE q == QueueOf[s]
<1>0. q \in Queue /\ s \in Node
  BY SchedulerAssumption DEF Node
<1> HIDE DEF q
<1>1. PICK i \in ItemsOf(q) :
        /\ \A j \in ItemsOf(q) : ~RunsBefore(j, i)
        /\ items' = items \ {i} /\ executor[q] > 0
  BY DEF RunNextTask, Queues!RunNextTask, q
<1>2. CASE i # <<"run", s>>
  BY <1>1, <1>2
<1>3. CASE i = <<"run", s>>
  <2>1. PICK j \in ItemsOf(q) : j # i
    <3> SUFFICES ASSUME ItemsOf(q) = {i}
                 PROVE  FALSE
      BY <1>1
    <3>1. Cardinality(ItemsOf(q)) = 1
      BY FS_Singleton
    <3>2. /\ Cardinality(ItemsOf(q)) = toAdd[q] + executor[q] + Proved!Cardinality(Proved!Held(q))
          /\ toAdd[q] \in Nat /\ executor[q] \in Nat
      BY <1>0 DEF Proved!IInv, Proved!WaitingTasksMatch, TypeOK, Queues!TypeOK
    <3>3. /\ Proved!IsFiniteSet(Proved!Held(q)) /\ Proved!Cardinality(Proved!Held(q)) \in Nat
      BY QueueConstantsHold, Proved!HeldFinite
    <3>4. <<u, 1>> \in Proved!Held(q)
      <4>1. /\ Proved!Thread = Thread /\ inHand[q][u] \in Nat
            /\ inHand[q][u] <= 2 * Cardinality(Node)
        BY <1>0 DEF Proved!IInv, Proved!Bounded, Proved!TypeOK, Proved!Thread, Thread
      <4>2. inHand[q][u] > 0
        BY DEF q
      <4>3. 1 \in 1 .. 2 * Cardinality(Node)
        BY <4>1, <4>2, NodeFinite
      <4> QED
        BY <4>1, <4>2, <4>3 DEF Proved!Held
    <3>5. Proved!Cardinality(Proved!Held(q)) # 0
      BY <3>3, <3>4, QueueConstantsHold, Proved!FS_EmptySet
    <3> QED
      BY <1>1, <3>1, <3>2, <3>3, <3>5
  <2>2. /\ j \in items /\ j \in Item /\ QueueOf[j[2]] = q /\ j \in items'
    BY <1>1, <2>1 DEF ItemsOf, TypeOK
  <2>3. j[1] \in {"open", "run", "close"} /\ j[2] \in Node /\ j = <<j[1], j[2]>>
    BY <2>2, ItemShape
  <2>4. ~RunsBefore(j, i)
    BY <1>1, <2>1
  <2>5. j[1] # "open" /\ j[2] \notin Join
    BY <1>3, <2>4 DEF RunsBefore
  <2>6. j[1] # "close"
    <3>1. Holds("queue", None, j) /\ "queue" \in Where /\ None \in Holder
      BY <2>2 DEF Holds, Where, Holder
    <3> QED
      BY <2>2, <2>5, <3>1 DEF JoinsOnly
  <2>7. j[2] \in Source /\ j = <<"run", j[2]>>
    BY <2>3, <2>5, <2>6 DEF Node
  <2> QED
    BY <2>2, <2>7 DEF q
<1> QED
  BY <1>2, <1>3 DEF q

LEMMA RunningAwake ==
  ASSUME TypeOK, Proved!IInv, JoinsOnly, RestInv, AwakeInv,
         NEW t \in Worker, Running(t)
  PROVE  AwakeInv'
<1>0. t \in Thread /\ UNCHANGED <<state, call, handler, stage>>
  BY DEF Running, RunNextTask, FinishTask, OpenNode, RunSource, RunJoin,
     CloseJoin, EndScheduling, appVars, Thread, idleVars
<1>1. CASE UNCHANGED queueVars
  BY <1>0, <1>1, AwakeSame DEF queueVars
<1>2. \A u \in Thread \ {t} : work'[u] = work[u]
  BY <1>0, RunningStepApart DEF Apart
<1>3. ASSUME NEW q \in Queue, FinishTask(t, q)
      PROVE  AwakeInv'
  <2>1. t \notin owesActive /\ UNCHANGED <<items, inHand, owesActive>>
    BY <1>3 DEF FinishTask, Queues!FinishTask, Queues!Returned
  <2> QED
    BY <1>0, <1>2, <2>1, AwakeKept
<1>4. ASSUME NEW q \in Queue, RunNextTask(t, q)
      PROVE  AwakeInv'
  <2>1. /\ t \notin owesActive /\ UNCHANGED <<inHand, owesActive>> /\ executor[q] > 0
    BY <1>4 DEF RunNextTask, Queues!RunNextTask, Queues!Returned
  <2>2. PICK i \in ItemsOf(q) : items' = items \ {i}
    BY <1>4 DEF RunNextTask
  <2>3. stage # "add"
    <3>1. pending[q] # 0
      BY <2>1, CountersAgree DEF TypeOK, Queues!TypeOK
    <3> QED
      BY <3>1 DEF RestInv, StillInv
  <2> SUFFICES ASSUME NEW u \in owesActive
               PROVE  MayAwake(u)'
    BY <2>1 DEF AwakeInv
  <2>4. u \in Thread \ {t} /\ MayAwake(u)
    BY <2>1 DEF AwakeInv, TypeOK, Queues!TypeOK, Queues!Thread, Thread
  <2>5. CASE work[u] # None \/ (u \in App /\ call[u] \in {"add", "close"})
             \/ (u = Main /\ state = "NOT_STARTED")
    BY <1>0, <1>2, <2>4, <2>5 DEF MayAwake
  <2>6. ASSUME NEW s \in Source, <<"run", s>> \in items, inHand[QueueOf[s]][u] > 0
        PROVE  MayAwake(u)'
    <3>1. CASE <<"run", s>> \in items'
      BY <2>1, <2>6, <3>1 DEF MayAwake
    <3>2. CASE <<"run", s>> \notin items'
      <4>1. QueueOf[s] = q
        BY <2>2, <2>6, <3>2 DEF ItemsOf
      <4>2. \E r \in Source : QueueOf[r] = QueueOf[s] /\ <<"run", r>> \in items'
        BY <1>0, <1>4, <2>4, <2>6, <4>1, SourceLeft
      <4> QED
        BY <2>1, <2>6, <4>2 DEF MayAwake
    <3> QED
      BY <3>1, <3>2
  <2> QED
    BY <2>3, <2>4, <2>5, <2>6 DEF MayAwake
<1> QED
  BY <1>1, <1>3, <1>4
     DEF Running, OpenNode, RunSource, RunJoin, CloseJoin, EndScheduling

\* The application's calls, and the cleanup.
LEMMA AppAwake ==
  ASSUME Undisturbed, TypeOK, RestInv, AwakeInv, NEW a \in App,
         Finish(a) \/ Pause(a) \/ Resume(a) \/ Cancel(a) \/ AddPacket(a) \/ CloseInput(a)
  PROVE  AwakeInv'
<1>0. a \in Thread /\ a # None /\ \A u \in Thread : u # None
  BY SchedulerAssumption DEF Thread
<1>1. ~Pause(a) /\ ~Resume(a)
  BY DEF Undisturbed, Pause, Resume, RestInv, Alone
<1>2. UNCHANGED queueVars /\ a \notin owesActive
  BY <1>1
     DEF Finish, AddedPacket, ClosedAllInputs, Cancel, AddPacket, CloseInput,
         Begin, Free, Settled, Returned, Queues!Returned, RestInv, Alone
<1>3. UNCHANGED idleVars \/ EnterHandleIdle(a)
  BY <1>1 DEF Finish, AddedPacket, ClosedAllInputs, Cancel, AddPacket, CloseInput
<1>4. handler # None => UNCHANGED <<handler, stage>>
  BY <1>3 DEF EnterHandleIdle, idleVars
<1>5. state = "NOT_STARTED" => UNCHANGED state
  BY <1>1 DEF Finish, AddedPacket, ClosedAllInputs, Cancel, AddPacket, CloseInput
<1>6. \A b \in App \ {a} : call'[b] = call[b]
  BY <1>1
     DEF Finish, AddedPacket, ClosedAllInputs, Cancel, AddPacket, CloseInput,
         TypeOK, appVars
<1> QED
  BY <1>0, <1>2, <1>4, <1>5, <1>6, AwakeKept DEF queueVars

LEMMA MainAwake ==
  ASSUME TypeOK, CleanupComesLast, RestInv, AwakeInv,
         Start \/ StartCleanup \/ \E q \in Queue : CleanupQueue(q)
  PROVE  AwakeInv'
<1>0. Main \in App /\ Main \in Thread /\ \A u \in Thread : u # None
  BY SchedulerAssumption DEF Thread
<1>1. CASE Start
  <2>1. /\ UNCHANGED <<items, inHand, work, owesActive, call>> /\ Main \notin owesActive
        /\ EnterHandleIdle(Main)
    BY <1>1
       DEF Start, Queues!SetRunning, Begin, Free, Settled, Returned,
           Queues!Returned, appVars
  <2>2. handler # None => UNCHANGED <<handler, stage>>
    BY <2>1 DEF EnterHandleIdle
  <2> QED
    BY <1>0, <2>1, <2>2, AwakeKept
<1>2. CASE StartCleanup
  <2>1. /\ UNCHANGED <<queueVars, idleVars, state>> /\ Main \notin owesActive
        /\ \A b \in App \ {Main} : call'[b] = call[b]
    BY <1>2
       DEF StartCleanup, Begin, Free, Settled, Returned, Queues!Returned,
           TypeOK
  <2> QED
    BY <1>0, <2>1, AwakeKept DEF queueVars, idleVars
<1>3. ASSUME NEW q \in Queue, CleanupQueue(q)
      PROVE  AwakeInv'
  <2>1. state = "TERMINATED" /\ UNCHANGED owesActive
    BY <1>3 DEF CleanupQueue, CleanupComesLast, Queues!CleanupAfterRun
  <2> QED
    BY <2>1 DEF RestInv, StillInv, AwakeInv
<1> QED
  BY <1>1, <1>2, <1>3

LEMMA AwakeStep ==
  ASSUME Undisturbed, BaseInv, JoinsOnly, MissedInv, RestInv, AwakeInv, [Next]_vars
  PROVE  AwakeInv'
<1>1. /\ TypeOK /\ Proved!IInv /\ Counted /\ CleanupComesLast /\ RequestsOwned
  BY DEF BaseInv, RunningCountMatchesState, Counted, CleanupComesLast, MissedInv
<1>2. CASE UNCHANGED vars
  BY <1>2 DEF vars, queueVars, idleVars, appVars, AwakeInv, MayAwake
<1> QED
  BY <1>1, <1>2, HandlingAwake, SchedulingAwake, RunningAwake, AppAwake,
     MainAwake, ThreadSteps

LEMMA AwakeInvariant == Spec => [](Undisturbed => AwakeInv)
<1>1. (Undisturbed' <=> Undisturbed)
  BY DEF Undisturbed, Fed
<1>2. Init => AwakeInv
  BY DEF Init, Queues!Init, AwakeInv
<1>3. BaseInv /\ NodesInv /\ MissedInv /\ (Undisturbed => RestInv)
        /\ (Undisturbed => AwakeInv) /\ [Next]_vars => (Undisturbed => AwakeInv)'
  <2>1. NodesInv => JoinsOnly
    BY DEF NodesInv, ClaimInv
  <2> QED
    BY <1>1, <2>1, AwakeStep
<1> QED
  BY <1>2, <1>3, BaseInvariant, NodesInvariant, MissedInvariant, RestInvariant, PTL DEF Spec

\* With the sources closed and no call of the application under way, every thread
\* that owes a call runs a task and has another in its hands: an idle count
\* of zero is right.
LEMMA QuietWhenZero ==
  ASSUME TypeOK, Proved!IInv, Proved!OwnersInv, Statuses, RestInv, AwakeInv,
         \A s \in Source : status[s] = "closed",
         state = "RUNNING", AllIdle, \A a \in App : Begin(a)
  PROVE  /\ owesActive = {} /\ owesIdle = {}
         /\ \A q \in Queue : Queues!IsIdle(q)
<1>1. \A s \in Source : <<"run", s>> \notin items
  <2> SUFFICES ASSUME NEW s \in Source, <<"run", s>> \in items
               PROVE  FALSE
    OBVIOUS
  <2>1. <<"run", s>> \in Item /\ <<"run", s>>[1] = "run" /\ <<"run", s>>[2] = s
    BY ItemShape DEF Node
  <2>2. Holds("queue", None, <<"run", s>>) /\ "queue" \in Where /\ None \in Holder
    BY DEF Holds, Where, Holder
  <2>3. Fits("queue", None, <<"run", s>>)
    BY <2>1, <2>2 DEF Statuses, ClaimsFit
  <2>4. status[s] = "closed" /\ s \notin Join
    BY SchedulerAssumption
  <2> QED
    BY <2>1, <2>3, <2>4 DEF Fits
<1>2. ASSUME NEW u \in owesActive
      PROVE  work[u] # None /\ \E q \in Queue : inHand[q][u] > 0
  <2>1. u \in Thread /\ MayAwake(u) /\ MayOwe(u)
    BY <1>2 DEF AwakeInv, RestInv, OwingInv, TypeOK, Queues!TypeOK, Queues!Thread, Thread
  <2>2. \A a \in App : call[a] = "none"
    BY DEF Begin
  <2>3. work[u] # None
    BY <1>1, <2>1, <2>2 DEF MayAwake
  <2>4. stage # "add"
    <3>1. work[u] \in Queue
      BY <2>1, <2>3 DEF TypeOK, Queues!TypeOK, Queues!Thread, Thread
    <3>2. pending[work[u]] # 0
      BY <2>1, <3>1, CountersAgree
    <3> QED
      BY <3>1, <3>2 DEF RestInv, StillInv
  <2> QED
    BY <2>1, <2>3, <2>4 DEF MayOwe
<1>3. nonIdle = 0
  BY DEF AllIdle
<1>4. Proved!Busy = {} /\ owesActive = {} /\ owesIdle = {}
  BY <1>2, <1>3, QueueConstantsHold, Proved!ZeroMeansNone
<1>5. \A q \in Queue : Queues!IsIdle(q)
  BY <1>4, Zenon DEF Proved!Busy, Proved!IsIdle, Queues!IsIdle
<1> QED
  BY <1>4, <1>5

LEMMA QuietNodes ==
  ASSUME TypeOK, Proved!IInv, Proved!OwnersInv, Statuses, WorkInv, RequestsOwned,
         RestInv, AwakeInv, NodesCared
  PROVE  IdleIsQuiet
<1> SUFFICES ASSUME \A s \in Source : status[s] = "closed",
                    state = "RUNNING", AllIdle, ~hasError, \A a \in App : Begin(a)
             PROVE  /\ items = {} /\ \A t \in Worker : work[t] = None
                    /\ \A n \in Join : status[n] = "opened" =>
                         ~ReadyForProcess(n) /\ ~ReadyForClose(n)
  BY DEF IdleIsQuiet
<1>1. \A q \in Queue : Queues!IsIdle(q)
  BY QuietWhenZero
<1>2. items = {}
  <2>1. \A i \in items : i[2] \in Node /\ QueueOf[i[2]] \in Queue
    BY ItemShape, SchedulerAssumption DEF TypeOK
  <2> QED
    BY <1>1, <2>1, QueueCounts
<1>3. \A t \in Thread : work[t] = None
  <2>1. \A t \in Thread : work[t] \in Queue \cup {None}
    BY DEF TypeOK, Queues!TypeOK, Queues!Thread, Thread
  <2>2. \A q \in Queue : pending[q] = 0
    BY <1>1 DEF Queues!IsIdle
  <2> QED
    BY <2>1, <2>2, CountersAgree
<1>4. \A t \in Thread : todo[t] \subseteq Handled
  <2>1. \A a \in App : call[a] = "none"
    BY DEF Begin
  <2> QED
    BY <1>3, <2>1 DEF RequestsOwned, Owned
<1>5. ASSUME NEW n \in Join, status[n] = "opened", Ready(n)
      PROVE  FALSE
  <2>1. NodeCared(n)
    BY DEF NodesCared, Node
  <2>2. ~Checked(n) /\ \A t \in Thread : <<"run", n>> \notin todo[t] /\ <<"close", n>> \notin todo[t]
    BY <1>4 DEF Checked, Handled
  <2>3. \A t \in Thread : phase[t] \notin {"popped", "processed"}
    BY <1>3 DEF WorkInv, WorkMatches
  <2> QED
    BY <1>2, <1>5, <2>1, <2>2, <2>3 DEF NodeCared, Held
<1> QED
  BY <1>2, <1>3, <1>5 DEF Ready, Thread

\* IdleIsQuiet: in an undisturbed graph, when the sources are closed and the feeding
\* thread finds the scheduler idle in WaitUntilIdle, no item waits, no worker
\* runs, and no open join has inputs it could process or end with.
THEOREM IdleMeansQuiet == Spec => [](Undisturbed => IdleIsQuiet)
<1>1. BaseInv /\ NodesInv /\ MissedInv /\ NodesCareInv /\ Proved!OwnersInv /\ RestInv
        /\ AwakeInv => IdleIsQuiet
  <2>1. BaseInv => TypeOK /\ Proved!IInv /\ CleanupComesLast
    BY DEF BaseInv, RunningCountMatchesState, CleanupComesLast
  <2>2. MissedInv => RequestsOwned /\ WorkInv
    BY DEF MissedInv
  <2>3. CleanupComesLast /\ call[Main] = "cleanup" => IdleIsQuiet
    BY DEF CleanupComesLast, IdleIsQuiet
  <2>4. NodesInv /\ NodesCareInv /\ call[Main] # "cleanup" => Statuses /\ NodesCared
    BY DEF NodesInv, StatusInv, NodesCareInv
  <2> QED
    BY <2>1, <2>2, <2>3, <2>4, QuietNodes, Zenon
<1> QED
  BY <1>1, BaseInvariant, NodesInvariant, MissedInvariant, CareInvariant,
     OwnersInvariant, RestInvariant, AwakeInvariant, PTL
==============================================================================
