------------------------ MODULE SchedulerQueue_proofs ------------------------
(***************************************************************************)
(* Proofs about the idle protocol of the scheduler queues, for any number  *)
(* of queues, executor threads and application threads.                    *)
(*                                                                         *)
(* The code's counters are sums over the threads (the tasks each holds, the*)
(* callbacks each owes).  The sums are written as cardinalities of sets of *)
(* pairs, so that a step adds or removes elements of a finite set.         *)
(***************************************************************************)
EXTENDS SchedulerQueue, FiniteSetTheorems, TLAPS

-----------------------------------------------------------------------------
(* Finite sets. *)

LEMMA QueueFacts ==
  /\ IsFiniteSet(Queue) /\ None \notin Queue
  /\ IsFiniteSet(Worker) /\ IsFiniteSet(App)
  /\ Worker \cap App = {}
  /\ MaxItems \in Nat
  /\ MinRunning \in Int
BY QueueAssumption DEF QueueConstants

LEMMA ThreadFinite == IsFiniteSet(Thread)
BY QueueFacts, FS_Union DEF Thread

LEMMA HeldFinite == \A q : IsFiniteSet(Held(q)) /\ Cardinality(Held(q)) \in Nat
<1>1. IsFiniteSet(1 .. MaxItems)
  BY QueueFacts, FS_Interval
<1>2. IsFiniteSet(Thread \X (1 .. MaxItems))
  BY <1>1, ThreadFinite, FS_Product
<1> QED
  BY <1>2, FS_Subset, FS_CardinalityType DEF Held

LEMMA RunningFinite ==
  \A q : IsFiniteSet(Running(q)) /\ Cardinality(Running(q)) \in Nat
BY ThreadFinite, FS_Subset, FS_CardinalityType DEF Running

LEMMA BusyFinite == IsFiniteSet(Busy) /\ Cardinality(Busy) \in Nat
BY QueueFacts, FS_Subset, FS_CardinalityType DEF Busy

LEMMA OwesFinite ==
  ASSUME TypeOK
  PROVE  /\ IsFiniteSet(owesActive) /\ Cardinality(owesActive) \in Nat
         /\ IsFiniteSet(owesIdle) /\ Cardinality(owesIdle) \in Nat
BY ThreadFinite, FS_Subset, FS_CardinalityType DEF TypeOK

\* n new pairs of one thread add n to the cardinality.
LEMMA AddSegment ==
  ASSUME NEW S, IsFiniteSet(S), NEW t, NEW n \in Nat,
         \A k \in 1 .. n : <<t, k>> \notin S
  PROVE  Cardinality(S \cup ({t} \X (1 .. n))) = Cardinality(S) + n
<1>1. IsFiniteSet({t}) /\ Cardinality({t}) = 1
  BY FS_Singleton
<1>2. IsFiniteSet(1 .. n) /\ Cardinality(1 .. n) = n
  BY FS_Interval
<1> DEFINE T == {t} \X (1 .. n)
<1>3. IsFiniteSet(T) /\ Cardinality(T) = Cardinality({t}) * Cardinality(1 .. n)
  <2> HIDE DEF T
  <2>1. \A A, B : IsFiniteSet(A) /\ IsFiniteSet(B) =>
          IsFiniteSet(A \X B) /\ Cardinality(A \X B) = Cardinality(A) * Cardinality(B)
    BY FS_Product
  <2> QED
    BY <1>1, <1>2, <2>1, Zenon DEF T
<1>4. Cardinality(T) = n
  BY <1>1, <1>2, <1>3
<1>5. S \cap T = {}
  OBVIOUS
<1>6. Cardinality(S) \in Nat
  BY FS_CardinalityType
<1> HIDE DEF T
<1>7. Cardinality(S \cup T) = Cardinality(S) + Cardinality(T) - Cardinality({})
  BY <1>3, <1>5, FS_Union
<1>8. Cardinality({}) = 0
  BY FS_EmptySet
<1>9. Cardinality(S \cup T) = Cardinality(S) + n
  BY <1>4, <1>6, <1>7, <1>8
<1> QED
  BY <1>9 DEF T

-----------------------------------------------------------------------------
(* What each kind of step does to the sets that are counted. *)

\* A thread without tasks takes n of queue q.
LEMMA HeldTaken ==
  ASSUME TypeOK, NEW t \in Thread, NEW q \in Queue, NEW n \in 0 .. MaxItems,
         inHand[q][t] = 0, inHand' = [inHand EXCEPT ![q][t] = n]
  PROVE  \A r \in Queue : Cardinality(Held(r)') =
                          Cardinality(Held(r)) + (IF r = q THEN n ELSE 0)
<1> USE QueueFacts
<1>1. \A r \in Queue, u \in Thread :
        inHand'[r][u] = IF r = q /\ u = t THEN n ELSE inHand[r][u]
  BY DEF TypeOK
<1>2. \A k \in 1 .. n : <<t, k>> \notin Held(q)
  BY DEF Held
<1>3. Held(q)' = Held(q) \cup ({t} \X (1 .. n))
  <2>1. ASSUME NEW u \in Thread, NEW k \in 1 .. MaxItems
        PROVE  <<u, k>> \in Held(q)' <=>
                 <<u, k>> \in Held(q) \/ <<u, k>> \in {t} \X (1 .. n)
    BY <1>1 DEF Held
  <2>2. {t} \X (1 .. n) \subseteq Thread \X (1 .. MaxItems)
    OBVIOUS
  <2> QED
    BY <2>1, <2>2 DEF Held
<1>4. Cardinality(Held(q) \cup ({t} \X (1 .. n))) = Cardinality(Held(q)) + n
  <2>1. n \in Nat
    OBVIOUS
  <2> QED
    BY <1>2, <2>1, AddSegment, HeldFinite
<1>5. ASSUME NEW r \in Queue, r # q PROVE Held(r)' = Held(r)
  BY <1>1, <1>5 DEF Held
<1> QED
  BY <1>3, <1>4, <1>5, HeldFinite

\* A thread hands one of its tasks to the executor.
LEMMA HeldGiven ==
  ASSUME TypeOK, NEW t \in Thread, NEW q \in Queue,
         inHand[q][t] > 0, inHand[q][t] <= MaxItems,
         inHand' = [inHand EXCEPT ![q][t] = @ - 1]
  PROVE  /\ \A r \in Queue : Cardinality(Held(r)') =
                          Cardinality(Held(r)) - (IF r = q THEN 1 ELSE 0)
         /\ Cardinality(Held(q)) > 0
<1> USE QueueFacts
<1> DEFINE n == inHand[q][t]
<1>1. \A r \in Queue, u \in Thread :
        inHand'[r][u] = IF r = q /\ u = t THEN n - 1 ELSE inHand[r][u]
  BY DEF TypeOK
<1>2. n \in 1 .. MaxItems
  BY DEF TypeOK
<1>3. Held(q)' = Held(q) \ {<<t, n>>}
  <2>1. ASSUME NEW u \in Thread, NEW k \in 1 .. MaxItems
        PROVE  <<u, k>> \in Held(q)' <=> <<u, k>> \in Held(q) /\ ~(u = t /\ k = n)
    BY <1>1, <1>2 DEF Held, TypeOK
  <2> QED
    BY <2>1 DEF Held
<1>4. <<t, n>> \in Held(q)
  BY <1>2 DEF Held
<1>5. Cardinality(Held(q) \ {<<t, n>>}) = Cardinality(Held(q)) - 1
  BY <1>4, HeldFinite, FS_RemoveElement
<1>6. Cardinality(Held(q) \ {<<t, n>>}) \in Nat
  BY HeldFinite, FS_RemoveElement, FS_CardinalityType
<1>7. ASSUME NEW r \in Queue, r # q PROVE Held(r)' = Held(r)
  BY <1>1, <1>7 DEF Held
<1> QED
  BY <1>3, <1>5, <1>6, <1>7, HeldFinite

\* A worker begins or ends a task of queue q.
LEMMA RunningBegins ==
  ASSUME TypeOK, NEW t \in Thread, NEW q \in Queue, work[t] = None,
         work' = [work EXCEPT ![t] = q]
  PROVE  \A r \in Queue : Cardinality(Running(r)') =
                          Cardinality(Running(r)) + (IF r = q THEN 1 ELSE 0)
<1>1. Running(q)' = Running(q) \cup {t}
  BY DEF Running, TypeOK
<1>2. t \notin Running(q)
  BY QueueFacts DEF Running
<1>3. Cardinality(Running(q) \cup {t}) = Cardinality(Running(q)) + 1
  BY <1>2, RunningFinite, FS_AddElement
<1>4. ASSUME NEW r \in Queue, r # q PROVE Running(r)' = Running(r)
  BY <1>4, QueueFacts DEF Running, TypeOK
<1>5. ASSUME NEW r \in Queue
      PROVE  Cardinality(Running(r)') =
               Cardinality(Running(r)) + (IF r = q THEN 1 ELSE 0)
  <2>1. CASE r = q
    BY <1>1, <1>3, <2>1
  <2>2. CASE r # q
    BY <1>4, <2>2, RunningFinite
  <2> QED
    BY <2>1, <2>2
<1> QED
  BY <1>5

LEMMA RunningEnds ==
  ASSUME TypeOK, NEW t \in Thread, NEW q \in Queue, work[t] = q,
         work' = [work EXCEPT ![t] = None]
  PROVE  /\ \A r \in Queue : Cardinality(Running(r)') =
                          Cardinality(Running(r)) - (IF r = q THEN 1 ELSE 0)
         /\ Cardinality(Running(q)) > 0
<1>1. Running(q)' = Running(q) \ {t}
  BY QueueFacts DEF Running, TypeOK
<1>2. t \in Running(q)
  BY DEF Running
<1>3. Cardinality(Running(q) \ {t}) = Cardinality(Running(q)) - 1
  BY <1>2, RunningFinite, FS_RemoveElement
<1>4. Cardinality(Running(q) \ {t}) \in Nat
  BY RunningFinite, FS_RemoveElement, FS_CardinalityType
<1>5. ASSUME NEW r \in Queue, r # q PROVE Running(r)' = Running(r)
  BY <1>5, QueueFacts DEF Running, TypeOK
<1>6. ASSUME NEW r \in Queue
      PROVE  Cardinality(Running(r)') =
               Cardinality(Running(r)) - (IF r = q THEN 1 ELSE 0)
  <2>1. CASE r = q
    BY <1>1, <1>3, <2>1
  <2>2. CASE r # q
    BY <1>5, <2>2, RunningFinite
  <2> QED
    BY <2>1, <2>2
<1> QED
  BY <1>3, <1>4, <1>6, RunningFinite

\* Only the idle state of q can change: at most one queue becomes busy or
\* idle.
LEMMA BusyChanges ==
  ASSUME NEW q \in Queue,
         \A r \in Queue \ {q} : queue'[r] = queue[r] /\ pending'[r] = pending[r]
  PROVE  Cardinality(Busy') = Cardinality(Busy)
           - (IF IsIdle(q) THEN 0 ELSE 1) + (IF IsIdle(q)' THEN 0 ELSE 1)
<1>1. Busy' = (Busy \ {q}) \cup (IF IsIdle(q)' THEN {} ELSE {q})
  BY DEF Busy, IsIdle
<1>2. /\ IsFiniteSet(Busy \ {q})
      /\ Cardinality(Busy \ {q}) =
           IF IsIdle(q) THEN Cardinality(Busy) ELSE Cardinality(Busy) - 1
  <2>1. q \in Busy <=> ~IsIdle(q)
    BY DEF Busy
  <2> QED
    BY <2>1, BusyFinite, FS_RemoveElement
<1>3. Cardinality((Busy \ {q}) \cup {q}) = Cardinality(Busy \ {q}) + 1
  BY <1>2, FS_AddElement
<1>4. CASE IsIdle(q)'
  BY <1>1, <1>2, <1>4, BusyFinite
<1>5. CASE ~IsIdle(q)'
  BY <1>1, <1>2, <1>3, <1>5, BusyFinite
<1> QED
  BY <1>4, <1>5

-----------------------------------------------------------------------------
(* The inductive invariant. *)

\* No queue outgrows the bound, and no call holds more tasks than that.
Bounded ==
  /\ \A q \in Queue : queue[q] <= MaxItems
  /\ \A q \in Queue, t \in Thread : inHand[q][t] <= MaxItems

IInv ==
  /\ TypeOK
  /\ Bounded
  /\ WaitingTasksMatch
  /\ PendingTasksMatch
  /\ CallbacksBalance

LEMMA InitIInv == Init => IInv
<1> SUFFICES ASSUME Init PROVE IInv
  OBVIOUS
<1> USE QueueFacts DEF Init
<1>1. TypeOK /\ Bounded
  BY DEF TypeOK, Bounded
<1>2. \A q \in Queue : Held(q) = {} /\ Running(q) = {}
  BY DEF Held, Running
<1>3. Busy = {}
  BY DEF Busy, IsIdle
<1>4. Cardinality({}) = 0
  BY FS_EmptySet
<1>5. \A q \in Queue : Cardinality(Held(q)) = 0 /\ Cardinality(Running(q)) = 0
  BY <1>2, <1>4
<1>7. WaitingTasksMatch /\ PendingTasksMatch
  BY <1>5 DEF WaitingTasksMatch, PendingTasksMatch
<1>6. CallbacksBalance
  BY <1>3, <1>4 DEF CallbacksBalance
<1> QED
  BY <1>1, <1>6, <1>7 DEF IInv

\* The part of AddItemToQueue and SubmitWaitingTasksToExecutor they share.
LEMMA TakeTasksEffect ==
  ASSUME IInv, NEW t \in Thread, NEW q \in Queue, NEW n \in 0 .. MaxItems,
         Returned(t), TakeTasks(t, q, n)
  PROVE  \E taken \in 0 .. n :
           /\ toAdd' = [toAdd EXCEPT ![q] = n - taken]
           /\ pending' = [pending EXCEPT ![q] = @ + taken]
           /\ inHand' \in [Queue -> [Thread -> Nat]]
           /\ \A r \in Queue, u \in Thread : inHand'[r][u] <= MaxItems
           /\ \A r \in Queue : Cardinality(Held(r)') =
                Cardinality(Held(r)) + (IF r = q THEN taken ELSE 0)
<1> USE QueueFacts
<1> DEFINE taken == IF running[q] > 0 THEN n ELSE 0
<1>1. taken \in 0 .. n /\ taken \in 0 .. MaxItems
  OBVIOUS
<1>2. /\ toAdd' = [toAdd EXCEPT ![q] = n - taken]
      /\ pending' = [pending EXCEPT ![q] = @ + taken]
      /\ inHand' = [inHand EXCEPT ![q][t] = taken]
  BY DEF TakeTasks
<1>3. inHand[q][t] = 0
  BY DEF Returned
<1>4. \A r \in Queue : Cardinality(Held(r)') =
        Cardinality(Held(r)) + (IF r = q THEN taken ELSE 0)
  <2> HIDE DEF taken
  <2> QED
    BY <1>1, <1>2, <1>3, HeldTaken DEF IInv
<1>5. /\ inHand' \in [Queue -> [Thread -> Nat]]
      /\ \A r \in Queue, u \in Thread : inHand'[r][u] <= MaxItems
  <2> HIDE DEF taken
  <2> QED
    BY <1>1, <1>2 DEF IInv, TypeOK, Bounded
<1> HIDE DEF taken
<1> QED
  BY <1>1, <1>2, <1>4, <1>5

LEMMA AddItemToQueueStep ==
  ASSUME IInv, NEW t \in Thread, NEW q \in Queue, AddItemToQueue(t, q)
  PROVE  IInv'
<1> USE QueueFacts
<1>1. /\ Returned(t) /\ queue[q] < MaxItems
      /\ queue' = [queue EXCEPT ![q] = @ + 1]
      /\ TakeTasks(t, q, toAdd[q] + 1)
      /\ owesActive' = IF IsIdle(q) THEN owesActive \cup {t} ELSE owesActive
      /\ UNCHANGED <<running, executor, work, owesIdle, nonIdle>>
  BY DEF AddItemToQueue
<1> DEFINE n == toAdd[q] + 1
<1>2. n \in 0 .. MaxItems /\ TakeTasks(t, q, n)
  BY <1>1, HeldFinite DEF IInv, TypeOK, WaitingTasksMatch
<1> HIDE DEF n
<1>3. PICK taken \in 0 .. n :
         /\ toAdd' = [toAdd EXCEPT ![q] = n - taken]
         /\ pending' = [pending EXCEPT ![q] = @ + taken]
         /\ inHand' \in [Queue -> [Thread -> Nat]]
         /\ \A r \in Queue, u \in Thread : inHand'[r][u] <= MaxItems
         /\ \A r \in Queue : Cardinality(Held(r)') =
              Cardinality(Held(r)) + (IF r = q THEN taken ELSE 0)
  BY <1>1, <1>2, TakeTasksEffect
<1> USE DEF n
<1>4. TypeOK'
  BY <1>1, <1>3 DEF IInv, TypeOK
<1>5. Bounded'
  BY <1>1, <1>3 DEF IInv, TypeOK, Bounded
<1>6. WaitingTasksMatch'
  BY <1>1, <1>3, HeldFinite DEF IInv, TypeOK, WaitingTasksMatch
<1>7. PendingTasksMatch'
  <2>1. \A r \in Queue : Running(r)' = Running(r)
    BY <1>1 DEF Running
  <2> QED
    BY <1>1, <1>3, <2>1, HeldFinite, RunningFinite
       DEF IInv, TypeOK, PendingTasksMatch
<1>8. CallbacksBalance'
  <2>1. Cardinality(Busy') = Cardinality(Busy)
          - (IF IsIdle(q) THEN 0 ELSE 1) + (IF IsIdle(q)' THEN 0 ELSE 1)
    BY <1>1, <1>3, BusyChanges DEF IInv, TypeOK
  <2>2. ~IsIdle(q)'
    BY <1>1 DEF IsIdle, IInv, TypeOK
  <2>3. t \notin owesActive
    BY <1>1 DEF Returned
  <2>4. Cardinality(owesActive \cup {t}) = Cardinality(owesActive) + 1
    BY <2>3, OwesFinite, FS_AddElement DEF IInv
  <2>5. Cardinality(owesActive') =
          Cardinality(owesActive) + (IF IsIdle(q) THEN 1 ELSE 0)
    BY <1>1, <2>4, OwesFinite DEF IInv
  <2> QED
    BY <1>1, <2>1, <2>2, <2>5, OwesFinite, BusyFinite
       DEF IInv, TypeOK, CallbacksBalance
<1> QED
  BY <1>4, <1>5, <1>6, <1>7, <1>8 DEF IInv

LEMMA SubmitWaitingTasksStep ==
  ASSUME IInv, NEW t \in Thread, NEW q \in Queue, SubmitWaitingTasks(t, q)
  PROVE  IInv'
<1> USE QueueFacts
<1>1. /\ Returned(t)
      /\ TakeTasks(t, q, toAdd[q])
      /\ UNCHANGED <<queue, running, executor, work, owesActive, owesIdle,
                     nonIdle>>
  BY DEF SubmitWaitingTasks
<1> DEFINE n == toAdd[q]
<1>2. n \in 0 .. MaxItems /\ TakeTasks(t, q, n)
  BY <1>1, HeldFinite DEF IInv, TypeOK, WaitingTasksMatch, Bounded
<1> HIDE DEF n
<1>3. PICK taken \in 0 .. n :
         /\ toAdd' = [toAdd EXCEPT ![q] = n - taken]
         /\ pending' = [pending EXCEPT ![q] = @ + taken]
         /\ inHand' \in [Queue -> [Thread -> Nat]]
         /\ \A r \in Queue, u \in Thread : inHand'[r][u] <= MaxItems
         /\ \A r \in Queue : Cardinality(Held(r)') =
              Cardinality(Held(r)) + (IF r = q THEN taken ELSE 0)
  BY <1>1, <1>2, TakeTasksEffect
<1> USE DEF n
<1>4. TypeOK' /\ Bounded'
  BY <1>1, <1>3 DEF IInv, TypeOK, Bounded
<1>5. WaitingTasksMatch'
  BY <1>1, <1>3, HeldFinite DEF IInv, TypeOK, WaitingTasksMatch
<1>6. PendingTasksMatch'
  <2>1. \A r \in Queue : Running(r)' = Running(r)
    BY <1>1 DEF Running
  <2> QED
    BY <1>1, <1>3, <2>1, HeldFinite, RunningFinite
       DEF IInv, TypeOK, PendingTasksMatch
<1>7. CallbacksBalance'
  <2>1. Cardinality(Busy') = Cardinality(Busy)
          - (IF IsIdle(q) THEN 0 ELSE 1) + (IF IsIdle(q)' THEN 0 ELSE 1)
    BY <1>1, <1>3, BusyChanges DEF IInv, TypeOK
  <2>2. queue[q] = 0 => taken = 0
    BY <1>3, HeldFinite DEF IInv, TypeOK, WaitingTasksMatch
  <2>3. IsIdle(q)' <=> IsIdle(q)
    BY <1>1, <1>3, <2>2 DEF IsIdle, IInv, TypeOK
  <2> QED
    BY <1>1, <2>1, <2>3, BusyFinite DEF IInv, TypeOK, CallbacksBalance
<1> QED
  BY <1>4, <1>5, <1>6, <1>7 DEF IInv

LEMMA BecomeActiveStep ==
  ASSUME IInv, NEW t \in Thread, BecomeActive(t)
  PROVE  IInv'
<1>1. TypeOK' /\ Bounded'
  BY DEF BecomeActive, IInv, TypeOK, Bounded
<1>2. \A r : Held(r)' = Held(r) /\ Running(r)' = Running(r)
  BY DEF BecomeActive, Held, Running
<1>3. WaitingTasksMatch' /\ PendingTasksMatch'
  BY <1>2 DEF BecomeActive, IInv, WaitingTasksMatch, PendingTasksMatch
<1>4. Busy' = Busy
  BY DEF BecomeActive, Busy, IsIdle
<1>5. Cardinality(owesActive \ {t}) = Cardinality(owesActive) - 1
  BY OwesFinite, FS_RemoveElement DEF BecomeActive, IInv
<1>6. CallbacksBalance'
  BY <1>4, <1>5, OwesFinite, BusyFinite
     DEF BecomeActive, IInv, TypeOK, CallbacksBalance
<1> QED
  BY <1>1, <1>3, <1>6 DEF IInv

LEMMA BecomeIdleStep ==
  ASSUME IInv, NEW t \in Thread, BecomeIdle(t)
  PROVE  IInv'
<1>1. TypeOK' /\ Bounded'
  BY DEF BecomeIdle, IInv, TypeOK, Bounded
<1>2. \A r : Held(r)' = Held(r) /\ Running(r)' = Running(r)
  BY DEF BecomeIdle, Held, Running
<1>3. WaitingTasksMatch' /\ PendingTasksMatch'
  BY <1>2 DEF BecomeIdle, IInv, WaitingTasksMatch, PendingTasksMatch
<1>4. Busy' = Busy
  BY DEF BecomeIdle, Busy, IsIdle
<1>5. Cardinality(owesIdle \ {t}) = Cardinality(owesIdle) - 1
  BY OwesFinite, FS_RemoveElement DEF BecomeIdle, IInv
<1>6. CallbacksBalance'
  BY <1>4, <1>5, OwesFinite, BusyFinite
     DEF BecomeIdle, IInv, TypeOK, CallbacksBalance
<1> QED
  BY <1>1, <1>3, <1>6 DEF IInv

LEMMA AddTaskStep ==
  ASSUME IInv, NEW t \in Thread, NEW q \in Queue, AddTask(t, q)
  PROVE  IInv'
<1> USE QueueFacts
<1>1. TypeOK' /\ Bounded'
  BY DEF AddTask, IInv, TypeOK, Bounded
<1>2. /\ \A r \in Queue : Cardinality(Held(r)') =
             Cardinality(Held(r)) - (IF r = q THEN 1 ELSE 0)
      /\ Cardinality(Held(q)) > 0
  BY HeldGiven DEF AddTask, IInv, Bounded
<1>3. \A r \in Queue : Running(r)' = Running(r)
  BY DEF AddTask, Running
<1>4. WaitingTasksMatch'
  <2>1. queue' = queue /\ toAdd' = toAdd /\ executor' = [executor EXCEPT ![q] = @ + 1]
    BY DEF AddTask
  <2>2. ASSUME NEW r \in Queue
        PROVE  queue'[r] = toAdd'[r] + executor'[r] + Cardinality(Held(r)')
    <3>1. queue[r] = toAdd[r] + executor[r] + Cardinality(Held(r))
      BY DEF IInv, WaitingTasksMatch
    <3>2. CASE r = q
      BY <1>2, <2>1, <3>1, <3>2, HeldFinite DEF IInv, TypeOK
    <3>3. CASE r # q
      BY <1>2, <2>1, <3>1, <3>3, HeldFinite DEF IInv, TypeOK
    <3> QED
      BY <3>2, <3>3
  <2> QED
    BY <2>2 DEF WaitingTasksMatch
<1>5. PendingTasksMatch'
  BY <1>2, <1>3, HeldFinite, RunningFinite
     DEF AddTask, IInv, TypeOK, PendingTasksMatch
<1>6. Busy' = Busy
  BY DEF AddTask, Busy, IsIdle
<1>7. CallbacksBalance'
  BY <1>6 DEF AddTask, IInv, CallbacksBalance
<1> QED
  BY <1>1, <1>4, <1>5, <1>7 DEF IInv

\* The pop is safe: a task in the executor implies an item in the queue.
LEMMA RunNextTaskStep ==
  ASSUME IInv, NEW t \in Thread, NEW q \in Queue, RunNextTask(t, q)
  PROVE  IInv'
<1> USE QueueFacts
<1>1. queue[q] > 0 /\ pending[q] > 0
  BY HeldFinite, RunningFinite
     DEF RunNextTask, IInv, TypeOK, WaitingTasksMatch, PendingTasksMatch
<1>2. TypeOK' /\ Bounded'
  BY <1>1 DEF RunNextTask, IInv, TypeOK, Bounded
<1>3. \A r : Held(r)' = Held(r)
  BY DEF RunNextTask, Held
<1>4. \A r \in Queue : Cardinality(Running(r)') =
        Cardinality(Running(r)) + (IF r = q THEN 1 ELSE 0)
  BY RunningBegins DEF RunNextTask, IInv
<1>5. WaitingTasksMatch'
  BY <1>3, HeldFinite DEF RunNextTask, IInv, TypeOK, WaitingTasksMatch
<1>6. PendingTasksMatch'
  <2>1. pending' = pending /\ executor[q] > 0 /\ executor' = [executor EXCEPT ![q] = @ - 1]
    BY DEF RunNextTask
  <2>2. ASSUME NEW r \in Queue
        PROVE  pending'[r] = executor'[r] + Cardinality(Held(r)')
                               + Cardinality(Running(r)')
    <3>1. pending[r] = executor[r] + Cardinality(Held(r)) + Cardinality(Running(r))
      BY DEF IInv, PendingTasksMatch
    <3>2. Cardinality(Held(r)') = Cardinality(Held(r))
      BY <1>3
    <3>3. CASE r = q
      BY <1>4, <2>1, <3>1, <3>2, <3>3, HeldFinite, RunningFinite DEF IInv, TypeOK
    <3>4. CASE r # q
      BY <1>4, <2>1, <3>1, <3>2, <3>4, HeldFinite, RunningFinite DEF IInv, TypeOK
    <3> QED
      BY <3>3, <3>4
  <2> QED
    BY <2>2 DEF PendingTasksMatch
<1>7. Busy' = Busy
  BY <1>1 DEF RunNextTask, Busy, IsIdle, IInv, TypeOK
<1>8. CallbacksBalance'
  BY <1>7 DEF RunNextTask, IInv, CallbacksBalance
<1> QED
  BY <1>2, <1>5, <1>6, <1>8 DEF IInv

LEMMA FinishTaskStep ==
  ASSUME IInv, NEW t \in Thread, NEW q \in Queue, FinishTask(t, q)
  PROVE  IInv'
<1> USE QueueFacts
<1>1. /\ \A r \in Queue : Cardinality(Running(r)') =
             Cardinality(Running(r)) - (IF r = q THEN 1 ELSE 0)
      /\ Cardinality(Running(q)) > 0
  BY RunningEnds DEF FinishTask, IInv
<1>2. pending[q] > 0
  BY <1>1, HeldFinite, RunningFinite
     DEF IInv, TypeOK, PendingTasksMatch
<1>3. TypeOK' /\ Bounded'
  BY <1>2 DEF FinishTask, IInv, TypeOK, Bounded
<1>4. \A r : Held(r)' = Held(r)
  BY DEF FinishTask, Held
<1>5. WaitingTasksMatch'
  BY <1>4 DEF FinishTask, IInv, WaitingTasksMatch
<1>6. PendingTasksMatch'
  BY <1>1, <1>4, HeldFinite, RunningFinite
     DEF FinishTask, IInv, TypeOK, PendingTasksMatch
<1>7. CallbacksBalance'
  <2>1. Cardinality(Busy') = Cardinality(Busy)
          - (IF IsIdle(q) THEN 0 ELSE 1) + (IF IsIdle(q)' THEN 0 ELSE 1)
    BY BusyChanges DEF FinishTask, IInv, TypeOK
  <2>2. ~IsIdle(q)
    BY <1>2 DEF IsIdle
  <2>3. IsIdle(q)' <=> queue[q] = 0 /\ pending[q] = 1
    BY <1>2 DEF FinishTask, IsIdle, IInv, TypeOK
  <2>4. Cardinality(owesIdle \cup {t}) = Cardinality(owesIdle) + 1
    BY OwesFinite, FS_AddElement DEF FinishTask, Returned, IInv
  <2>5. Cardinality(owesIdle') =
          Cardinality(owesIdle) + (IF IsIdle(q)' THEN 1 ELSE 0)
    BY <2>3, <2>4, OwesFinite DEF FinishTask, IInv
  <2>6. nonIdle' = nonIdle /\ owesActive' = owesActive
    BY DEF FinishTask
  <2>7. nonIdle \in Int /\ nonIdle = Cardinality(Busy)
          + Cardinality(owesIdle) - Cardinality(owesActive)
    BY DEF IInv, TypeOK, CallbacksBalance
  <2>8. Cardinality(owesActive) \in Nat /\ Cardinality(owesIdle) \in Nat
        /\ Cardinality(Busy) \in Nat
    BY OwesFinite, BusyFinite DEF IInv
  <2>9. CASE IsIdle(q)'
    BY <2>1, <2>2, <2>5, <2>6, <2>7, <2>8, <2>9 DEF CallbacksBalance
  <2>10. CASE ~IsIdle(q)'
    BY <2>1, <2>2, <2>5, <2>6, <2>7, <2>8, <2>10 DEF CallbacksBalance
  <2> QED
    BY <2>9, <2>10
<1> QED
  BY <1>3, <1>5, <1>6, <1>7 DEF IInv

LEMMA SetRunningStep ==
  ASSUME IInv, NEW Q \in SUBSET Queue, NEW up \in BOOLEAN, SetRunning(Q, up)
  PROVE  IInv'
<1>1. TypeOK' /\ Bounded'
  BY DEF SetRunning, IInv, TypeOK, Bounded
<1>2. \A r : Held(r)' = Held(r) /\ Running(r)' = Running(r)
  BY DEF SetRunning, Held, Running
<1>3. Busy' = Busy
  BY DEF SetRunning, Busy, IsIdle
<1>4. WaitingTasksMatch' /\ PendingTasksMatch' /\ CallbacksBalance'
  BY <1>2, <1>3 DEF SetRunning, IInv, WaitingTasksMatch, PendingTasksMatch,
                    CallbacksBalance
<1> QED
  BY <1>1, <1>4 DEF IInv

LEMMA CleanupAfterRunStep ==
  ASSUME IInv, NEW t \in Thread, NEW q \in Queue, CleanupAfterRun(t, q)
  PROVE  IInv'
<1>1. TypeOK' /\ Bounded'
  BY QueueFacts DEF CleanupAfterRun, IInv, TypeOK, Bounded
<1>2. \A r : Held(r)' = Held(r) /\ Running(r)' = Running(r)
  BY DEF CleanupAfterRun, Held, Running
<1>3. executor[q] = 0 /\ Cardinality(Held(q)) = 0
  <2>1. pending[q] = executor[q] + Cardinality(Held(q)) + Cardinality(Running(q))
    BY DEF IInv, PendingTasksMatch
  <2>2. pending[q] = 0 /\ executor[q] \in Nat
    BY DEF CleanupAfterRun, IInv, TypeOK
  <2> QED
    BY <2>1, <2>2, HeldFinite, RunningFinite
<1>4. WaitingTasksMatch'
  BY <1>2, <1>3 DEF CleanupAfterRun, IInv, TypeOK, WaitingTasksMatch
<1>5. PendingTasksMatch'
  <2>1. pending' = pending /\ executor' = executor
    BY DEF CleanupAfterRun
  <2>2. \A r \in Queue : pending[r] = executor[r] + Cardinality(Held(r))
                                        + Cardinality(Running(r))
    BY DEF IInv, PendingTasksMatch
  <2> QED
    BY <1>2, <2>1, <2>2, Zenon DEF PendingTasksMatch
<1>6. CallbacksBalance'
  <2>1. Cardinality(Busy') = Cardinality(Busy)
          - (IF IsIdle(q) THEN 0 ELSE 1) + (IF IsIdle(q)' THEN 0 ELSE 1)
    BY BusyChanges DEF CleanupAfterRun, IInv, TypeOK
  <2>2. IsIdle(q)'
    BY DEF CleanupAfterRun, IsIdle, IInv, TypeOK
  <2>3. Cardinality(owesIdle \cup {t}) = Cardinality(owesIdle) + 1
    BY OwesFinite, FS_AddElement DEF CleanupAfterRun, Returned, IInv
  <2>4. Cardinality(owesIdle') =
          Cardinality(owesIdle) + (IF IsIdle(q) THEN 0 ELSE 1)
    BY <2>3, OwesFinite DEF CleanupAfterRun, IInv
  <2> QED
    BY <2>1, <2>2, <2>4, OwesFinite, BusyFinite
       DEF CleanupAfterRun, IInv, TypeOK, CallbacksBalance
<1> QED
  BY <1>1, <1>4, <1>5, <1>6 DEF IInv

LEMMA NextIInv == IInv /\ [Next]_qvars => IInv'
<1> SUFFICES ASSUME IInv, [Next]_qvars PROVE IInv'
  OBVIOUS
<1>1. ASSUME NEW t \in Thread, NEW q \in Queue, AddItemToQueue(t, q)
      PROVE  IInv'
  BY <1>1, AddItemToQueueStep
<1>2. ASSUME NEW t \in Thread, NEW q \in Queue, SubmitWaitingTasks(t, q)
      PROVE  IInv'
  BY <1>2, SubmitWaitingTasksStep
<1>3. ASSUME NEW t \in Thread, BecomeActive(t) PROVE IInv'
  BY <1>3, BecomeActiveStep
<1>4. ASSUME NEW t \in Thread, NEW q \in Queue, AddTask(t, q) PROVE IInv'
  BY <1>4, AddTaskStep
<1>5. ASSUME NEW t \in Worker, NEW q \in Queue, RunNextTask(t, q)
      PROVE  IInv'
  BY <1>5, RunNextTaskStep DEF Thread
<1>6. ASSUME NEW t \in Worker, NEW q \in Queue, FinishTask(t, q)
      PROVE  IInv'
  BY <1>6, FinishTaskStep DEF Thread
<1>7. ASSUME NEW t \in Thread, BecomeIdle(t) PROVE IInv'
  BY <1>7, BecomeIdleStep
<1>8. ASSUME NEW Q \in SUBSET Queue, NEW up \in BOOLEAN, SetRunning(Q, up)
      PROVE  IInv'
  BY <1>8, SetRunningStep
<1>9. ASSUME NEW t \in App, NEW q \in Queue, CleanupAfterRun(t, q)
      PROVE  IInv'
  BY <1>9, CleanupAfterRunStep DEF Thread
<1>10. CASE UNCHANGED qvars
  <2>1. \A r : Held(r)' = Held(r) /\ Running(r)' = Running(r)
    BY <1>10 DEF qvars, Held, Running
  <2>2. Busy' = Busy
    BY <1>10 DEF qvars, Busy, IsIdle
  <2> QED
    BY <1>10, <2>1, <2>2 DEF qvars, IInv, TypeOK, Bounded,
         WaitingTasksMatch, PendingTasksMatch, CallbacksBalance
<1> QED
  BY <1>1, <1>2, <1>3, <1>4, <1>5, <1>6, <1>7, <1>8, <1>9, <1>10 DEF Next

-----------------------------------------------------------------------------
\* Thread t has pushed into the idle queue q, took the task, and has yet to say
\* so. It is the only one for q ...
Owes(t, q) == t \in owesActive /\ inHand[q][t] > 0
OneOwner == \A q \in Queue : \A t, u \in Thread : Owes(t, q) /\ Owes(u, q) => t = u

\* ... and was so before the tasks that now run from q: among threads that run
\* tasks there is one whose own queue none of them owes a call.
Acyclic ==
  \A S \in SUBSET Thread :
    S # {} /\ (\A t \in S : work[t] # None)
      => \E t \in S : \A u \in S : ~Owes(u, work[t])

OwnersInv == OneOwner /\ Acyclic

\* A step that adds no owner and no task keeps them.
LEMMA FewerOwners ==
  ASSUME OwnersInv, \A q \in Queue, t \in Thread : Owes(t, q)' => Owes(t, q),
         \A t \in Thread : work'[t] \in {work[t], None},
         \A t \in Thread : work[t] \in Queue \cup {None}
  PROVE  OwnersInv'
<1>1. OneOwner'
  BY DEF OwnersInv, OneOwner
<1>2. Acyclic'
  <2> SUFFICES ASSUME NEW S \in SUBSET Thread, S # {}, \A t \in S : work'[t] # None
               PROVE  \E t \in S : \A u \in S : ~Owes(u, work[t])'
    BY DEF Acyclic
  <2>1. \A t \in S : work'[t] = work[t] /\ work[t] \in Queue
    OBVIOUS
  <2>2. PICK t \in S : \A u \in S : ~Owes(u, work[t])
    BY <2>1 DEF OwnersInv, Acyclic
  <2>3. ASSUME NEW u \in S
        PROVE  ~Owes(u, work[t])'
    <3>1. u \in Thread /\ work'[t] = work[t] /\ work[t] \in Queue
      BY <2>1
    <3>2. Owes(u, work[t])' => Owes(u, work[t])
      <4>1. \A q \in Queue : Owes(u, q)' => Owes(u, q)
        BY <3>1
      <4> QED
        BY <3>1, <4>1 DEF Owes
    <3> QED
      BY <2>2, <3>2
  <2> QED
    BY <2>3
<1> QED
  BY <1>1, <1>2 DEF OwnersInv

\* Of an idle queue nobody has a task, neither in hand nor at work.
LEMMA IdleUntouched ==
  ASSUME IInv, NEW q \in Queue, pending[q] = 0
  PROVE  \A t \in Thread : inHand[q][t] = 0 /\ work[t] # q
<1>1. /\ pending[q] = executor[q] + Cardinality(Held(q)) + Cardinality(Running(q))
      /\ executor[q] \in Nat /\ Cardinality(Held(q)) \in Nat /\ Cardinality(Running(q)) \in Nat
  BY HeldFinite, RunningFinite DEF IInv, PendingTasksMatch, TypeOK
<1>2. Cardinality(Held(q)) = 0 /\ Cardinality(Running(q)) = 0
  BY <1>1
<1>3. Held(q) = {} /\ Running(q) = {}
  BY <1>2, HeldFinite, RunningFinite, FS_EmptySet
<1> SUFFICES ASSUME NEW t \in Thread
             PROVE  inHand[q][t] = 0 /\ work[t] # q
  OBVIOUS
<1>4. inHand[q][t] \in 0 .. MaxItems /\ MaxItems \in Nat
  BY QueueFacts DEF IInv, TypeOK, Bounded
<1>5. inHand[q][t] > 0 => <<t, 1>> \in Held(q)
  BY <1>4 DEF Held
<1> QED
  BY <1>3, <1>4, <1>5 DEF Running

\* A push into an idle queue makes its thread the owner.
LEMMA PushOwners ==
  ASSUME IInv, OwnersInv, NEW t \in Thread, NEW q \in Queue, AddItemToQueue(t, q)
  PROVE  OwnersInv'
<1>0. /\ \A p \in Queue, u \in Thread : work[u] \in Queue \cup {None} /\ inHand[p][u] \in Nat
      /\ inHand[q][t] = 0 /\ t \notin owesActive
      /\ work' = work
  BY DEF IInv, TypeOK, AddItemToQueue, Returned
<1>1. \A p \in Queue, u \in Thread :
        (p # q \/ u # t) => inHand'[p][u] = inHand[p][u]
  BY DEF AddItemToQueue, TakeTasks, IInv, TypeOK
<1>2. \A u \in Thread : u # t => (u \in owesActive' <=> u \in owesActive)
  BY DEF AddItemToQueue
<1>3. \A p \in Queue : p # q => inHand'[p][t] = 0
  BY <1>1 DEF AddItemToQueue, Returned
<1>4. \A p \in Queue, u \in Thread : (p # q \/ u # t) => (Owes(u, p)' <=> Owes(u, p))
  BY <1>0, <1>1, <1>2, <1>3 DEF Owes, AddItemToQueue, Returned
<1>5. CASE IsIdle(q)
  <2>1. \A u \in Thread : inHand[q][u] = 0 /\ work[u] # q
    BY <1>5, IdleUntouched DEF IsIdle
  <2>2. \A u \in Thread : u # t => ~Owes(u, q)'
    BY <1>4, <2>1 DEF Owes
  <2>3. OneOwner'
    <3> SUFFICES ASSUME NEW p \in Queue, NEW u \in Thread, NEW v \in Thread,
                        Owes(u, p)', Owes(v, p)'
                 PROVE  u = v
      BY DEF OneOwner
    <3> QED
      BY <1>4, <2>2 DEF OwnersInv, OneOwner
  <2>4. Acyclic'
    <3> SUFFICES ASSUME NEW S \in SUBSET Thread, S # {}, \A u \in S : work'[u] # None
                 PROVE  \E u \in S : \A v \in S : ~Owes(v, work[u])'
      BY DEF Acyclic
    <3>1. PICK u \in S : \A v \in S : ~Owes(v, work[u])
      BY <1>0 DEF OwnersInv, Acyclic
    <3>2. work[u] \in Queue \ {q} /\ work'[u] = work[u]
      BY <1>0, <2>1
    <3>3. \A v \in S : ~Owes(v, work[u])'
      BY <1>4, <3>1, <3>2 DEF Owes
    <3> QED
      BY <3>3
  <2> QED
    BY <2>3, <2>4 DEF OwnersInv
<1>6. CASE ~IsIdle(q)
  <2>1. ~Owes(t, q)'
    BY <1>0, <1>6 DEF Owes, AddItemToQueue
  <2>2. \A p \in Queue, u \in Thread : Owes(u, p)' => Owes(u, p)
    BY <1>4, <2>1
  <2> QED
    BY <1>0, <2>2, FewerOwners
<1> QED
  BY <1>5, <1>6

\* A thread that begins a task owes nothing.
LEMMA TaskOwners ==
  ASSUME IInv, OwnersInv, NEW t \in Thread, NEW q \in Queue, RunNextTask(t, q)
  PROVE  OwnersInv'
<1>1. \A u \in Thread : u # t => work'[u] = work[u]
  BY DEF RunNextTask, IInv, TypeOK
<1>2. \A p, u : Owes(u, p)' <=> Owes(u, p)
  BY DEF RunNextTask, Owes
<1>3. \A p : ~Owes(t, p)
  BY DEF RunNextTask, Returned, Owes
<1>4. Acyclic'
  <2> SUFFICES ASSUME NEW S \in SUBSET Thread, S # {}, \A u \in S : work'[u] # None
               PROVE  \E u \in S : \A v \in S : ~Owes(v, work[u])'
    BY DEF Acyclic
  <2>1. CASE S \ {t} = {}
    BY <1>2, <1>3, <2>1 DEF Owes
  <2>2. CASE S \ {t} # {}
    <3>1. PICK u \in S \ {t} : \A v \in S \ {t} : ~Owes(v, work[u])
      <4>1. S \ {t} \in SUBSET Thread /\ \A u \in S \ {t} : work[u] # None
        BY <1>1
      <4> QED
        BY <2>2, <4>1 DEF OwnersInv, Acyclic
    <3>2. work'[u] = work[u]
      BY <1>1, <3>1
    <3>3. \A v \in S : ~Owes(v, work[u])'
      BY <1>2, <1>3, <3>1, <3>2 DEF Owes
    <3> QED
      BY <3>3
  <2> QED
    BY <2>1, <2>2
<1>5. OneOwner'
  BY <1>2 DEF OwnersInv, OneOwner, Owes
<1> QED
  BY <1>4, <1>5 DEF OwnersInv

\* Every step keeps the owners.
LEMMA OwnersStep == IInv /\ OwnersInv /\ [Next]_qvars => OwnersInv'
<1> SUFFICES ASSUME IInv, OwnersInv, [Next]_qvars PROVE OwnersInv'
  OBVIOUS
<1>0. \A u \in Thread : work[u] \in Queue \cup {None}
  BY DEF IInv, TypeOK
<1>1. ASSUME UNCHANGED <<inHand, work>>, owesActive' \subseteq owesActive
      PROVE  OwnersInv'
  <2>1. \A p \in Queue, u \in Thread : Owes(u, p)' => Owes(u, p)
    BY <1>1 DEF Owes
  <2> QED
    BY <1>0, <1>1, <2>1, FewerOwners
<1>2. ASSUME NEW t \in Thread, NEW q \in Queue, SubmitWaitingTasks(t, q)
      PROVE  OwnersInv'
  <2>1. \A p \in Queue, u \in Thread : u # t => inHand'[p][u] = inHand[p][u]
    BY <1>2 DEF SubmitWaitingTasks, TakeTasks, IInv, TypeOK
  <2>2. t \notin owesActive /\ UNCHANGED <<owesActive, work>>
    BY <1>2 DEF SubmitWaitingTasks, Returned
  <2> QED
    BY <1>0, <2>1, <2>2, FewerOwners DEF Owes
<1>3. ASSUME NEW t \in Thread, NEW q \in Queue, AddTask(t, q)
      PROVE  OwnersInv'
  <2>1. \A p \in Queue, u \in Thread : u # t => inHand'[p][u] = inHand[p][u]
    BY <1>3 DEF AddTask, IInv, TypeOK
  <2>2. t \notin owesActive /\ UNCHANGED <<owesActive, work>>
    BY <1>3 DEF AddTask
  <2> QED
    BY <1>0, <2>1, <2>2, FewerOwners DEF Owes
<1>4. ASSUME NEW t \in Worker, NEW q \in Queue, FinishTask(t, q)
      PROVE  OwnersInv'
  <2>1. \A u \in Thread : work'[u] \in {work[u], None}
    BY <1>4 DEF FinishTask, IInv, TypeOK
  <2> QED
    BY <1>0, <1>4, <2>1, FewerOwners DEF Owes, FinishTask
<1>5. ASSUME NEW t \in Thread, BecomeActive(t) \/ BecomeIdle(t)
      PROVE  OwnersInv'
  BY <1>1, <1>5 DEF BecomeActive, BecomeIdle
<1>6. ASSUME NEW Q, NEW up, SetRunning(Q, up)
      PROVE  OwnersInv'
  BY <1>1, <1>6 DEF SetRunning
<1>7. ASSUME NEW t \in App, NEW q \in Queue, CleanupAfterRun(t, q)
      PROVE  OwnersInv'
  BY <1>1, <1>7 DEF CleanupAfterRun
<1>8. CASE UNCHANGED qvars
  BY <1>1, <1>8 DEF qvars
<1> QED
  BY <1>2, <1>3, <1>4, <1>5, <1>6, <1>7, <1>8, PushOwners, TaskOwners DEF Next, Thread

\* Before the run nobody owes anything.
LEMMA InitOwners == Init => OwnersInv
BY DEF Init, OwnersInv, OneOwner, Acyclic, Owes

\* When the difference is 0, every thread that owes a call owns a queue of its
\* own, so every busy queue has an owner: a cycle, unless there is none.
LEMMA ZeroMeansNone ==
  ASSUME IInv, OwnersInv, nonIdle = 0,
         \A t \in owesActive : work[t] # None /\ \E q \in Queue : inHand[q][t] > 0
  PROVE  Busy = {} /\ owesActive = {} /\ owesIdle = {}
<1>0. owesActive \subseteq Thread /\ \A t \in Thread : work[t] \in Queue \cup {None}
  BY DEF IInv, TypeOK
<1> DEFINE f == [t \in owesActive |-> CHOOSE q \in Queue : inHand[q][t] > 0]
<1>1. \A t \in owesActive : f[t] \in Queue /\ Owes(t, f[t])
  BY DEF Owes
<1>2. \A t \in owesActive : f[t] \in Busy
  BY <1>0, <1>1, IdleUntouched DEF Busy, IsIdle, Owes
<1>3. \A t, u \in owesActive : f[t] = f[u] => t = u
  BY <1>0, <1>1 DEF OwnersInv, OneOwner
<1> HIDE DEF f
<1>4. f \in Injection(owesActive, Busy)
  <2>1. f \in [owesActive -> Busy]
    BY <1>2 DEF f
  <2> QED
    BY <1>3, <2>1 DEF Injection, IsInjective
<1>5. /\ Cardinality(owesActive) <= Cardinality(Busy)
      /\ Cardinality(owesActive) = Cardinality(Busy) => f \in Surjection(owesActive, Busy)
  BY <1>4, BusyFinite, FS_Injection
<1>6. /\ Cardinality(Busy) + Cardinality(owesIdle) - Cardinality(owesActive) = 0
      /\ Cardinality(Busy) \in Nat /\ Cardinality(owesIdle) \in Nat
      /\ Cardinality(owesActive) \in Nat
  BY BusyFinite, OwesFinite DEF IInv, CallbacksBalance
<1>7. Cardinality(owesIdle) = 0 /\ Cardinality(owesActive) = Cardinality(Busy)
  BY <1>5, <1>6
<1>8. owesIdle = {}
  BY <1>7, OwesFinite, FS_EmptySet DEF IInv
<1>9. \A q \in Busy : \E t \in owesActive : Owes(t, q)
  BY <1>1, <1>5, <1>7 DEF Surjection
<1>10. owesActive = {}
  <2> SUFFICES ASSUME owesActive # {}
               PROVE  FALSE
    OBVIOUS
  <2>1. PICK t \in owesActive : \A u \in owesActive : ~Owes(u, work[t])
    BY <1>0 DEF OwnersInv, Acyclic
  <2>2. work[t] \in Busy
    BY <1>0, <2>1, IdleUntouched DEF Busy, IsIdle
  <2> QED
    BY <1>9, <2>1, <2>2
<1>11. Busy = {}
  BY <1>9, <1>10
<1> QED
  BY <1>8, <1>10, <1>11

-----------------------------------------------------------------------------
LEMMA Invariance == Spec => []IInv
BY InitIInv, NextIInv, PTL DEF Spec

\* The counters of the queues never go negative: RunNextTask finds an item
\* to pop and a pending task to retire.
THEOREM TypeCorrect == Spec => []TypeOK
BY Invariance, PTL DEF IInv

\* Every queued item has exactly one task that will pop it.
THEOREM EveryItemHasItsTask == Spec => []WaitingTasksMatch
BY Invariance, PTL DEF IInv

\* num_pending_tasks_ counts exactly the tasks taken and not yet complete.
THEOREM PendingIsExact == Spec => []PendingTasksMatch
BY Invariance, PTL DEF IInv

\* The idle callbacks made and owed account for the state of every queue.
THEOREM NoCallbackLost == Spec => []CallbacksBalance
BY Invariance, PTL DEF IInv

\* The difference the scheduler counts is 0 only when all queues are idle, as long
\* as no task is submitted by another thread than the one that pushed its item.
THEOREM ZeroIsIdle == Spec => []ZeroMeansIdle
<1>1. Spec => []OwnersInv
  BY InitOwners, OwnersStep, Invariance, PTL DEF Spec
<1>2. IInv /\ OwnersInv => ZeroMeansIdle
  BY ZeroMeansNone DEF ZeroMeansIdle
<1> QED
  BY <1>1, <1>2, Invariance, PTL
=============================================================================
