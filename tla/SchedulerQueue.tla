--------------------------- MODULE SchedulerQueue ---------------------------
(***************************************************************************)
(* The scheduler queues of a calculator graph (mediapipe/framework/        *)
(* scheduler_queue.{h,cc}) and the callback protocol by which they tell    *)
(* the scheduler whether they are idle.                                    *)
(*                                                                         *)
(* One action is one critical section of SchedulerQueue::mutex_, one       *)
(* invocation of idle_callback_, or one call of Executor::AddTask: the     *)
(* code does all three at different times, and every claim about the idle  *)
(* count has to survive what other threads do in between.                  *)
(*                                                                         *)
(* Items are counted here: which item RunNextTask pops is the business of  *)
(* module Scheduler.  `nonIdle' is what the callbacks add up to, i.e.      *)
(* Scheduler::non_idle_queue_count_.                                       *)
(***************************************************************************)
EXTENDS Integers, FiniteSets

CONSTANTS
  Queue,       \* the scheduler queues, one per executor
  Worker,      \* executor threads, which call RunNextTask
  App,         \* application threads, which add packets, pause, cancel ...
  None,        \* no queue
  MaxItems,    \* bound: items in one queue at a time
  MinRunning   \* bound: the least running_count_

QueueConstants ==
  /\ IsFiniteSet(Queue) /\ None \notin Queue
  /\ IsFiniteSet(Worker) /\ IsFiniteSet(App)
  /\ Worker \cap App = {}
  /\ MaxItems \in Nat
  /\ MinRunning \in Int
ASSUME QueueAssumption == QueueConstants

Thread == Worker \cup App

VARIABLES
  queue,       \* queue[q]: number of items in queue_
  toAdd,       \* toAdd[q]: num_tasks_to_add_
  pending,     \* pending[q]: num_pending_tasks_
  running,     \* running[q]: running_count_
  executor,    \* executor[q]: tasks given to the executor and not yet begun
  inHand,      \* inHand[q][t]: tasks_to_add of t's call on queue q
  work,        \* work[t]: the queue whose task thread t is running
  owesActive,  \* threads that found their queue idle, pushed an item and
               \* have not yet made the callback (false)
  owesIdle,    \* threads that left their queue idle and have not yet made
               \* the callback (true)
  nonIdle      \* callbacks (false) minus callbacks (true)

qvars == <<queue, toAdd, pending, running, executor, inHand, work,
           owesActive, owesIdle, nonIdle>>

\* No call of thread t is between releasing mutex_ and returning.
Returned(t) ==
  /\ t \notin owesActive
  /\ t \notin owesIdle
  /\ \A q \in Queue : inHand[q][t] = 0

IsIdle(q) == queue[q] = 0 /\ pending[q] = 0

TypeOK ==
  /\ queue \in [Queue -> Nat]
  /\ toAdd \in [Queue -> Nat]
  /\ pending \in [Queue -> Nat]
  /\ running \in [Queue -> Int]
  /\ executor \in [Queue -> Nat]
  /\ inHand \in [Queue -> [Thread -> Nat]]
  /\ work \in [Thread -> Queue \cup {None}]
  /\ owesActive \subseteq Thread
  /\ owesIdle \subseteq Thread
  /\ nonIdle \in Int

Init ==
  /\ queue = [q \in Queue |-> 0]
  /\ toAdd = [q \in Queue |-> 0]
  /\ pending = [q \in Queue |-> 0]
  /\ running = [q \in Queue |-> 0]
  /\ executor = [q \in Queue |-> 0]
  /\ inHand = [q \in Queue |-> [t \in Thread |-> 0]]
  /\ work = [t \in Thread |-> None]
  /\ owesActive = {}
  /\ owesIdle = {}
  /\ nonIdle = 0

-----------------------------------------------------------------------------
TakeTasks_NotCleared(t, q, n) ==
  LET taken == IF running[q] > 0 THEN n ELSE 0 IN
  /\ toAdd' = [toAdd EXCEPT ![q] = n]
  /\ pending' = [pending EXCEPT ![q] = @ + taken]
  /\ inHand' = [inHand EXCEPT ![q][t] = taken]

TakeTasks_NotPending(t, q, n) ==
  LET taken == IF running[q] > 0 THEN n ELSE 0 IN
  /\ toAdd' = [toAdd EXCEPT ![q] = n - taken]
  /\ inHand' = [inHand EXCEPT ![q][t] = taken]
  /\ UNCHANGED pending

\* GetTasksToSubmitToExecutor when num_tasks_to_add_ is n: a running queue
\* gives all its waiting tasks to the calling thread.
TakeTasks(t, q, n) ==
  LET taken == IF running[q] > 0 THEN n ELSE 0 IN
  /\ toAdd' = [toAdd EXCEPT ![q] = n - taken]
  /\ pending' = [pending EXCEPT ![q] = @ + taken]
  /\ inHand' = [inHand EXCEPT ![q][t] = taken]

AddItemToQueue_PushedFirst(t, q) ==
  /\ Returned(t)
  /\ queue[q] < MaxItems
  /\ queue' = [queue EXCEPT ![q] = @ + 1]
  /\ TakeTasks(t, q, toAdd[q] + 1)
  /\ owesActive' = IF pending[q] = 0 /\ queue'[q] = 0
                   THEN owesActive \cup {t} ELSE owesActive
  /\ UNCHANGED <<running, executor, work, owesIdle, nonIdle>>

\* AddItemToQueue, up to the release of mutex_.
AddItemToQueue(t, q) ==
  /\ Returned(t)
  /\ queue[q] < MaxItems
  /\ queue' = [queue EXCEPT ![q] = @ + 1]
  /\ TakeTasks(t, q, toAdd[q] + 1)
  /\ owesActive' = IF IsIdle(q) THEN owesActive \cup {t} ELSE owesActive
  /\ UNCHANGED <<running, executor, work, owesIdle, nonIdle>>

\* idle_callback_(false), after mutex_ was released and before any AddTask.
BecomeActive(t) ==
  /\ t \in owesActive
  /\ nonIdle' = nonIdle + 1
  /\ owesActive' = owesActive \ {t}
  /\ UNCHANGED <<queue, toAdd, pending, running, executor, inHand, work,
                 owesIdle>>

\* One iteration of "while (tasks_to_add > 0) executor_->AddTask(this)".
AddTask(t, q) ==
  /\ t \notin owesActive
  /\ inHand[q][t] > 0
  /\ inHand' = [inHand EXCEPT ![q][t] = @ - 1]
  /\ executor' = [executor EXCEPT ![q] = @ + 1]
  /\ UNCHANGED <<queue, toAdd, pending, running, work, owesActive, owesIdle,
                 nonIdle>>

\* SubmitWaitingTasksToExecutor, up to the release of mutex_.
SubmitWaitingTasks(t, q) ==
  /\ Returned(t)
  /\ TakeTasks(t, q, toAdd[q])
  /\ UNCHANGED <<queue, running, executor, work, owesActive, owesIdle,
                 nonIdle>>

\* An executor thread begins RunNextTask: pop the top item.
RunNextTask(t, q) ==
  /\ work[t] = None
  /\ Returned(t)
  /\ executor[q] > 0
  /\ executor' = [executor EXCEPT ![q] = @ - 1]
  /\ queue' = [queue EXCEPT ![q] = @ - 1]
  /\ work' = [work EXCEPT ![t] = q]
  /\ UNCHANGED <<toAdd, pending, running, inHand, owesActive, owesIdle,
                 nonIdle>>

FinishTask_PendingIgnored(t, q) ==
  /\ work[t] = q
  /\ Returned(t)
  /\ pending' = [pending EXCEPT ![q] = @ - 1]
  /\ work' = [work EXCEPT ![t] = None]
  /\ owesIdle' = IF queue[q] = 0 THEN owesIdle \cup {t} ELSE owesIdle
  /\ UNCHANGED <<queue, toAdd, running, executor, inHand, owesActive,
                 nonIdle>>

\* The end of RunNextTask, after the node ran: --num_pending_tasks_, and
\* decide, still under mutex_, whether idle_callback_(true) is due.
FinishTask(t, q) ==
  /\ work[t] = q
  /\ Returned(t)
  /\ pending' = [pending EXCEPT ![q] = @ - 1]
  /\ work' = [work EXCEPT ![t] = None]
  /\ owesIdle' = IF queue[q] = 0 /\ pending[q] = 1
                 THEN owesIdle \cup {t} ELSE owesIdle
  /\ UNCHANGED <<queue, toAdd, running, executor, inHand, owesActive,
                 nonIdle>>

\* idle_callback_(true).
BecomeIdle(t) ==
  /\ t \in owesIdle
  /\ nonIdle' = nonIdle - 1
  /\ owesIdle' = owesIdle \ {t}
  /\ UNCHANGED <<queue, toAdd, pending, running, executor, inHand, work,
                 owesActive>>

\* SetRunning on every queue of Q (Scheduler::SetQueuesRunning takes all).
SetRunning(Q, up) ==
  /\ running' = [q \in Queue |-> IF q \in Q
                                 THEN running[q] + (IF up THEN 1 ELSE -1)
                                 ELSE running[q]]
  /\ UNCHANGED <<queue, toAdd, pending, executor, inHand, work, owesActive,
                 owesIdle, nonIdle>>

\* CleanupAfterRun: its two ABSL_CHECKs are the guard and the invariant
\* WaitingTasksMatch; what is left in the queue is dropped.
CleanupAfterRun(t, q) ==
  /\ Returned(t)
  /\ pending[q] = 0
  /\ toAdd' = [toAdd EXCEPT ![q] = 0]
  /\ queue' = [queue EXCEPT ![q] = 0]
  /\ owesIdle' = IF IsIdle(q) THEN owesIdle ELSE owesIdle \cup {t}
  /\ UNCHANGED <<pending, running, executor, inHand, work, owesActive,
                 nonIdle>>

-----------------------------------------------------------------------------
\* Who may do what: application threads call in at any time; executor
\* threads add items while they run a node and, inside the callback, while
\* the scheduler activates or unthrottles sources.
Next ==
  \/ \E t \in Thread, q \in Queue : AddItemToQueue(t, q)
  \/ \E t \in Thread, q \in Queue : SubmitWaitingTasks(t, q)
  \/ \E t \in Thread : BecomeActive(t)
  \/ \E t \in Thread, q \in Queue : AddTask(t, q)
  \/ \E t \in Worker, q \in Queue : RunNextTask(t, q)
  \/ \E t \in Worker, q \in Queue : FinishTask(t, q)
  \/ \E t \in Thread : BecomeIdle(t)
  \/ \E Q \in SUBSET Queue :
       \/ (\A q \in Q : running[q] < 1) /\ SetRunning(Q, TRUE)
       \/ (\A q \in Q : running[q] > MinRunning) /\ SetRunning(Q, FALSE)
  \/ \E t \in App, q \in Queue : running[q] < 1 /\ CleanupAfterRun(t, q)

Spec == Init /\ [][Next]_qvars

-----------------------------------------------------------------------------
\* The tasks in the hands of some thread: the pair <<t, k>> is the k-th
\* task of thread t, so that Cardinality adds them up.
Held(q) == {p \in Thread \X (1 .. MaxItems) : p[2] <= inHand[q][p[1]]}

Running(q) == {t \in Thread : work[t] = q}
Busy == {q \in Queue : ~IsIdle(q)}

\* Every item in queue_ has exactly one task that will pop it: still to be
\* added, in a thread's hands, or in the executor.  So RunNextTask never
\* finds the queue empty ("This should not happen", scheduler_queue.cc:196)
\* and CleanupAfterRun finds num_tasks_to_add_ == queue_.size().
WaitingTasksMatch ==
  \A q \in Queue : queue[q] = toAdd[q] + executor[q] + Cardinality(Held(q))

\* num_pending_tasks_ counts the tasks taken for the executor and not yet
\* complete, whoever has them: a thread about to call AddTask, the executor
\* or a running worker.  So it is positive when RunNextTask decrements it.
PendingTasksMatch ==
  \A q \in Queue :
    pending[q] = executor[q] + Cardinality(Held(q)) + Cardinality(Running(q))

\* The callbacks invoked so far and those still owed account for the idle
\* state of every queue: whatever the order in which they arrive, none is
\* lost and none is made twice (scheduler_queue.h:94-103).
CallbacksBalance ==
  nonIdle = Cardinality(Busy) + Cardinality(owesIdle)
            - Cardinality(owesActive)

\* "When the difference reaches 0, the queue is guaranteed to be actually idle"
\* (scheduler_queue.h:102): so it is while every thread that still owes its
\* become-active call is inside a task and has yet to hand over what it took.
\* It is not when another thread submitted the task for it.
ZeroMeansIdle ==
  /\ nonIdle = 0
  /\ \A t \in owesActive : work[t] # None /\ \E q \in Queue : inHand[q][t] > 0
  => Busy = {} /\ owesActive = {} /\ owesIdle = {}
=============================================================================
