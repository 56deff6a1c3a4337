-------------------------- MODULE Throttling_proofs --------------------------
(***************************************************************************)
(* The table of full streams is right for every graph, every limit and any *)
(* number of threads, in whatever order the queue-size callbacks are made, *)
(* and no source or waiting call is left behind.                           *)
(***************************************************************************)
EXTENDS Throttling, FiniteSetTheorems, TLAPS

\* What the table is made of.
TableTypes ==
  /\ queue \in [Stream -> Int] /\ limit \in [Stream -> Int]
  /\ reported \subseteq Stream
  /\ full \in [Feeder -> SUBSET Stream]
  /\ throttled \in Int
  /\ owes \in [Thread -> SUBSET Stream]

\* A thread has one callback to make at a time.
OneCallback == \A t \in Thread : \A e \in owes[t] : owes[t] = {e}

\* The thread inside HandleIdle does nothing but grow streams, and makes the
\* callback of one before it reads the size of the next.
HandlerInv ==
  /\ sends \in [Thread -> SUBSET (Stream \X {"packet", "close"})]
  /\ checks \in [Thread -> SUBSET (Request \X Node)]
  /\ takes \in [Thread -> SUBSET Stream]
  /\ sends[Handler] = {} /\ checks[Handler] = {} /\ takes[Handler] = {}
  /\ growing = <<>> \/ growing \in Stream \X Int
  /\ growing # <<>> => owes[Handler] = {}

IInv == TableTypes /\ OneCallback /\ HandlerInv /\ ThrottlingIsCurrent

\* The threads are told apart.
LEMMA Threads ==
  /\ {App, Poller, Handler} \cup Runner \subseteq Thread
  /\ Handler \notin Runner /\ Handler # App /\ Handler # Poller
  BY ThrottlingAssumption DEF Thread, Runner, Feeder

\* A stream holds back feeders.
LEMMA UpstreamType == \A e \in Stream : Upstream(e) \subseteq Feeder
  BY ThrottlingAssumption DEF Upstream, Feeder

\* What Full says is true or false.
LEMMA FullType == \A e \in Stream : Full(e) \in BOOLEAN
  BY DEF Full, FullAt

\* The cardinalities of a disjoint union, and of what is left of a set.
LEMMA Disjoint ==
  ASSUME NEW S, NEW T, IsFiniteSet(S), IsFiniteSet(T), S \cap T = {}
  PROVE  Cardinality(S \cup T) = Cardinality(S) + Cardinality(T)
<1>1. Cardinality(S \cup T) = Cardinality(S) + Cardinality(T) - Cardinality(S \cap T)
  BY FS_Union
<1>2. Cardinality(S \cap T) = 0
  BY FS_EmptySet
<1>3. Cardinality(S) \in Nat /\ Cardinality(T) \in Nat
  BY FS_CardinalityType
<1>4. QED
  BY <1>1, <1>2, <1>3

LEMMA Without ==
  ASSUME NEW S, NEW T, IsFiniteSet(S), IsFiniteSet(T), T \subseteq S
  PROVE  Cardinality(S \ T) = Cardinality(S) - Cardinality(T)
<1>1. S \cap T = T
  OBVIOUS
<1>2. Cardinality(S \ T) = Cardinality(S) - Cardinality(S \cap T)
  BY FS_Difference
<1>3. QED
  BY <1>1, <1>2

\* When the length or the limit of a stream changes, the thread that changed it
\* owes the callback if it makes a difference.
LEMMA StreamStep ==
  ASSUME TableTypes, OneCallback, ThrottlingIsCurrent,
         NEW t \in Thread, NEW e \in Stream, NEW n \in Int, NEW max \in Int,
         owes[t] = {},
         queue' = [queue EXCEPT ![e] = n], limit' = [limit EXCEPT ![e] = max],
         Owe(t, e, n, max),
         UNCHANGED <<reported, full, throttled>>
  PROVE  TableTypes' /\ OneCallback' /\ ThrottlingIsCurrent'
<1>1. TableTypes'
  BY DEF TableTypes, Owe
<1>2. OneCallback'
  BY DEF TableTypes, OneCallback, Owe
<1>3. \A x \in Stream \ {e} : Full(x)' = Full(x)
  BY DEF TableTypes, Full, FullAt
<1>4. Full(e)' = FullAt(e, n, max)
  BY DEF TableTypes, Full, FullAt
<1>5. \A x \in Stream : Full(x)' # (x \in reported') =>
        \E u \in Thread : x \in owes'[u]
  <2> SUFFICES ASSUME NEW x \in Stream, Full(x)' # (x \in reported')
               PROVE  \E u \in Thread : x \in owes'[u]
    OBVIOUS
  <2>1. CASE Full(x) # (x \in reported)
    <3>1. PICK u \in Thread : x \in owes[u]
      BY <2>1 DEF ThrottlingIsCurrent
    <3>2. u # t
      BY <3>1
    <3>3. owes'[u] = owes[u]
      BY <3>2 DEF Owe, TableTypes
    <3>4. QED
      BY <3>1, <3>3
  <2>2. CASE Full(x) = (x \in reported)
    <3>1. x = e
      BY <1>3, <2>2
    <3>2. FullAt(e, n, max) # Full(e)
      BY <1>4, <2>2, <3>1
    <3>3. owes'[t] = {e}
      BY <3>2 DEF Owe, TableTypes
    <3>4. QED
      BY <3>1, <3>3
  <2>3. QED
    BY <2>1, <2>2
<1>6. QED
  BY <1>1, <1>2, <1>5 DEF ThrottlingIsCurrent

\* The table follows the report of a stream that became full or non-full.
LEMMA TableStep ==
  ASSUME TableTypes, OneCallback, ThrottlingIsCurrent,
         NEW t \in Thread, NEW e \in Stream, UpdateThrottledNodes(t, e)
  PROVE  TableTypes' /\ OneCallback' /\ ThrottlingIsCurrent'
<1> DEFINE now == IF Full(e) THEN [f \in Upstream(e) |-> full[f] \cup {e}]
                  ELSE [f \in Upstream(e) |-> full[f] \ {e}]
           changed == Full(e) # (e \in reported)
           started == {f \in Upstream(e) : full[f] = {}} \cap Input
           freed == {f \in Upstream(e) : now[f] = {}} \cap Input
           held == {i \in Input : full[i] # {}}
           heldNext == {i \in Input : full'[i] # {}}
<1>1. /\ e \in owes[t]
      /\ owes' = [owes EXCEPT ![t] = {}]
      /\ reported' = IF Full(e) THEN reported \cup {e} ELSE reported \ {e}
      /\ UNCHANGED <<queue, limit>>
  BY DEF UpdateThrottledNodes
<1>2. changed =>
        /\ full' = [f \in Feeder |-> IF f \in Upstream(e) THEN now[f] ELSE full[f]]
        /\ throttled' = throttled - Cardinality(freed)
                          + (IF Full(e) THEN Cardinality(started) ELSE 0)
  BY DEF UpdateThrottledNodes
<1>3. ~changed => UNCHANGED <<full, throttled>>
  BY DEF UpdateThrottledNodes, tableVars
<1>4. \A f \in Feeder : full'[f] = {x \in reported' : f \in Upstream(x)}
  <2>1. CASE changed
    <3> SUFFICES ASSUME NEW f \in Feeder
                 PROVE  full'[f] = {x \in reported' : f \in Upstream(x)}
      OBVIOUS
    <3>1. full[f] = {x \in reported : f \in Upstream(x)}
      BY DEF ThrottlingIsCurrent
    <3>2. full'[f] = IF f \in Upstream(e) THEN now[f] ELSE full[f]
      BY <1>2, <2>1
    <3>3. QED
      BY <1>1, <3>1, <3>2
  <2>2. CASE ~changed
    <3>1. reported' = reported
      BY <1>1, <2>2
    <3>2. QED
      BY <1>3, <2>2, <3>1 DEF ThrottlingIsCurrent
  <2>3. QED
    BY <2>1, <2>2
<1>5. \A x \in Stream : Full(x)' = Full(x)
  BY <1>1 DEF Full, FullAt
<1>6. \A x \in Stream : Full(x)' # (x \in reported') =>
        \E u \in Thread : x \in owes'[u]
  <2> SUFFICES ASSUME NEW x \in Stream, Full(x)' # (x \in reported')
               PROVE  \E u \in Thread : x \in owes'[u]
    OBVIOUS
  <2>1. x # e
    <3>1. Full(e) \in BOOLEAN /\ Full(e)' = Full(e)
      BY <1>5, FullType
    <3>2. Full(e) => e \in reported'
      BY <1>1
    <3>3. ~Full(e) => e \notin reported'
      BY <1>1
    <3>4. QED
      BY <3>1, <3>2, <3>3
  <2>2. Full(x) # (x \in reported)
    BY <1>1, <1>5, <2>1
  <2>3. PICK u \in Thread : x \in owes[u]
    BY <2>2 DEF ThrottlingIsCurrent
  <2>4. u # t
    BY <1>1, <2>1, <2>3 DEF OneCallback
  <2>5. QED
    BY <1>1, <2>3, <2>4 DEF TableTypes
<1>7. IsFiniteSet(held) /\ IsFiniteSet(started) /\ IsFiniteSet(freed)
  BY ThrottlingAssumption, FS_Subset DEF Feeder
<1>8. /\ Cardinality(held) \in Int /\ Cardinality(started) \in Int
      /\ Cardinality(freed) \in Int
  BY <1>7, FS_CardinalityType
<1>9. throttled' = Cardinality(heldNext)
  <2>1. CASE ~changed
    BY <1>3, <2>1 DEF ThrottlingIsCurrent
  <2>2. CASE changed /\ Full(e)
    <3>1. freed = {}
      BY <2>2
    <3>2. heldNext = held \cup started
      BY <1>2, <2>2, UpstreamType DEF Feeder
    <3>3. held \cap started = {}
      OBVIOUS
    <3>4. Cardinality(held \cup started) = Cardinality(held) + Cardinality(started)
      <4> HIDE DEF held, started
      <4> QED BY <1>7, <3>3, Disjoint
    <3>5. throttled' = throttled + Cardinality(started)
      <4>1. Cardinality(freed) = 0
        BY <3>1, FS_EmptySet
      <4>2. throttled' = throttled - Cardinality(freed) + Cardinality(started)
        BY <1>2, <2>2
      <4> HIDE DEF started, freed
      <4>3. QED
        BY <1>8, <4>1, <4>2 DEF TableTypes
    <3>6. QED
      BY <3>2, <3>4, <3>5 DEF ThrottlingIsCurrent
  <2>3. CASE changed /\ ~Full(e)
    <3>1. \A f \in Upstream(e) : e \in full[f]
      <4>1. e \in reported
        BY <2>3, FullType
      <4>2. QED
        BY <4>1, UpstreamType DEF ThrottlingIsCurrent
    <3>2. heldNext = held \ freed
      BY <1>2, <2>3, UpstreamType DEF Feeder
    <3>3. freed \subseteq held
      BY <3>1
    <3>4. Cardinality(held \ freed) = Cardinality(held) - Cardinality(freed)
      <4> HIDE DEF held, freed
      <4> QED BY <1>7, <3>3, Without
    <3>5. throttled' = throttled - Cardinality(freed)
      <4>1. throttled' = throttled - Cardinality(freed) + 0
        BY <1>2, <2>3
      <4> HIDE DEF freed
      <4>2. QED
        BY <1>8, <4>1 DEF TableTypes
    <3>6. QED
      BY <3>2, <3>4, <3>5 DEF ThrottlingIsCurrent
  <2>4. QED
    BY <2>1, <2>2, <2>3
<1>10. TableTypes'
  <2>1. full' \in [Feeder -> SUBSET Stream]
    BY <1>2, <1>3 DEF TableTypes
  <2>2. throttled' \in Int
    BY <1>2, <1>3, <1>8 DEF TableTypes
  <2>3. reported' \subseteq Stream
    BY <1>1 DEF TableTypes
  <2>4. QED
    BY <1>1, <2>1, <2>2, <2>3 DEF TableTypes
<1>11. OneCallback'
  BY <1>1 DEF OneCallback, TableTypes
<1>12. QED
  BY <1>4, <1>6, <1>9, <1>10, <1>11 DEF ThrottlingIsCurrent

\* No other part of the state matters to the table ...
LEMMA TableSame ==
  ASSUME TableTypes, OneCallback, ThrottlingIsCurrent,
         UNCHANGED <<queue, limit, reported, full, throttled, owes>>
  PROVE  TableTypes' /\ OneCallback' /\ ThrottlingIsCurrent'
  BY DEF TableTypes, OneCallback, ThrottlingIsCurrent, Full, FullAt

\* ... nor to the invariant.
LEMMA Same ==
  ASSUME IInv,
         UNCHANGED <<queue, limit, reported, full, throttled, owes, sends, checks,
                     takes, growing>>
  PROVE  IInv'
  BY TableSame DEF IInv, HandlerInv

\* Init establishes the invariant.
LEMMA InitIInv == Init => IInv
<1> SUFFICES ASSUME Init PROVE IInv
  OBVIOUS
<1> DEFINE held == {i \in Input : full[i] # {}}
<1>1. throttled = Cardinality(held)
  BY DEF Init
<1>2. throttled \in Int
  <2>1. IsFiniteSet(held)
    BY ThrottlingAssumption, FS_Subset DEF Feeder
  <2> HIDE DEF held
  <2>2. QED
    BY <1>1, <2>1, FS_CardinalityType
<1>3. TableTypes
  <2>1. NoLimit \in Int /\ Nat \subseteq Int
    BY DEF NoLimit
  <2>2. limit \in [Stream -> Int]
    BY <2>1, ThrottlingAssumption DEF Init
  <2>3. QED
    BY <1>2, <2>2 DEF Init, TableTypes
<1>4. OneCallback /\ HandlerInv
  BY Threads DEF Init, OneCallback, HandlerInv
<1>5. ThrottlingIsCurrent
  <2>1. \A e \in Stream : Full(e) = (e \in reported)
    BY FullType DEF Init
  <2>2. \A f \in Feeder : full[f] = {e \in reported : f \in Upstream(e)}
    BY DEF Init
  <2>3. QED
    BY <1>1, <2>1, <2>2 DEF ThrottlingIsCurrent
<1>6. QED
  BY <1>3, <1>4, <1>5 DEF IInv

\* A runner's or a thread's work on a stream: the two halves of the invariant.
LEMMA StreamSteps ==
  ASSUME IInv, NEW t \in Thread, NEW e \in Stream,
         \/ UpdateThrottledNodes(t, e) \/ AddPacketTo(t, e)
         \/ CloseStream(t, e) \/ TakePacket(t, e)
  PROVE  IInv'
<1> USE DEF IInv
<1>1. CASE UpdateThrottledNodes(t, e)
  <2>1. TableTypes' /\ OneCallback' /\ ThrottlingIsCurrent'
    BY <1>1, TableStep
  <2>2. HandlerInv'
    BY <1>1, Threads DEF UpdateThrottledNodes, HandlerInv, TableTypes, idleVars
  <2>3. QED
    BY <2>1, <2>2
<1>2. CASE AddPacketTo(t, e)
  <2>1. t # Handler
    BY <1>2 DEF AddPacketTo, HandlerInv
  <2>2. /\ queue' = [queue EXCEPT ![e] = queue[e] + 1]
        /\ limit' = [limit EXCEPT ![e] = limit[e]]
        /\ queue[e] + 1 \in Int /\ limit[e] \in Int
    BY <1>2 DEF AddPacketTo, TableTypes
  <2>3. TableTypes' /\ OneCallback' /\ ThrottlingIsCurrent'
    <3>1. /\ owes[t] = {} /\ Owe(t, e, queue[e] + 1, limit[e])
          /\ UNCHANGED <<reported, full, throttled>>
      BY <1>2 DEF AddPacketTo, CalledBack, tableVars
    <3>2. QED
      BY <2>2, <3>1, StreamStep
  <2>4. HandlerInv'
    <3>1. {<<"check", To[e]>>} \subseteq Request \X Node \/ e \in Polled
      BY ThrottlingAssumption DEF Request, Polled
    <3>2. /\ sends' = [sends EXCEPT ![t] = sends[t] \ {<<e, "packet">>}]
          /\ checks' = [checks EXCEPT ![t] = IF queue[e] = 0 /\ e \notin Polled
                                             THEN {<<"check", To[e]>>} ELSE {}]
          /\ takes' = [takes EXCEPT ![t] = takes[t]]
      BY <1>2 DEF AddPacketTo, HandlerInv
    <3>3. owes'[Handler] = owes[Handler] /\ UNCHANGED growing
      BY <1>2, <2>1, Threads DEF AddPacketTo, Owe, TableTypes, idleVars
    <3>4. QED
      BY <2>1, <3>1, <3>2, <3>3, Threads DEF HandlerInv
  <2>5. QED
    BY <2>3, <2>4
<1>3. CASE CloseStream(t, e)
  <2>1. t # Handler
    BY <1>3 DEF CloseStream, HandlerInv
  <2>2. TableTypes' /\ OneCallback' /\ ThrottlingIsCurrent'
    BY <1>3, TableSame DEF CloseStream, tableVars
  <2>3. HandlerInv'
    <3>1. {<<"check", To[e]>>} \subseteq Request \X Node \/ e \in Polled
      BY ThrottlingAssumption DEF Request, Polled
    <3>2. /\ sends' = [sends EXCEPT ![t] = sends[t] \ {<<e, "close">>}]
          /\ checks' = [checks EXCEPT ![t] = IF queue[e] = 0 /\ e \notin Polled
                                             THEN {<<"check", To[e]>>} ELSE {}]
          /\ UNCHANGED <<takes, growing, owes>>
      BY <1>3 DEF CloseStream, HandlerInv, idleVars
    <3>3. QED
      BY <2>1, <3>1, <3>2, Threads DEF HandlerInv
  <2>4. QED
    BY <2>2, <2>3
<1>4. CASE TakePacket(t, e)
  <2>1. t # Handler
    BY <1>4 DEF TakePacket, HandlerInv
  <2>2. /\ queue' = [queue EXCEPT ![e] = queue[e] - 1]
        /\ limit' = [limit EXCEPT ![e] = limit[e]]
        /\ queue[e] - 1 \in Int /\ limit[e] \in Int
    BY <1>4 DEF TakePacket, TableTypes
  <2>3. TableTypes' /\ OneCallback' /\ ThrottlingIsCurrent'
    BY <1>4, <2>2, StreamStep DEF TakePacket, CalledBack, tableVars
  <2>4. HandlerInv'
    BY <1>4, <2>1, Threads DEF TakePacket, Owe, HandlerInv, TableTypes, idleVars
  <2>5. QED
    BY <2>3, <2>4
<1>5. QED
  BY <1>1, <1>2, <1>3, <1>4

\* The other steps of a thread that has begun.
LEMMA ThreadSteps ==
  ASSUME IInv, NEW t \in Thread, Continue(t)
  PROVE  IInv'
<1>1. CASE \E s \in Source : ScheduleUnthrottled(t, s)
  BY <1>1, Same DEF ScheduleUnthrottled, streamVars, tableVars, idleVars
<1>2. ASSUME NEW n \in Node, CheckNode(t, n)
      PROVE  IInv'
  <2>1. t # Handler
    BY <1>2 DEF CheckNode, IInv, HandlerInv
  <2>2. TableTypes' /\ OneCallback' /\ ThrottlingIsCurrent'
    BY <1>2, TableSame DEF CheckNode, IInv, streamVars, tableVars
  <2>3. HandlerInv'
    <3>1. PICK C \in {{}, {<<"add", n>>}, {<<"close", n>>}} :
            checks' = [checks EXCEPT ![t] = C]
      BY <1>2 DEF CheckNode
    <3>2. C \in SUBSET (Request \X Node)
      BY DEF Request
    <3>3. takes' = takes \/ takes' = [takes EXCEPT ![t] = Filled(n)]
      BY <1>2 DEF CheckNode
    <3>4. Filled(n) \subseteq Stream
      BY DEF Filled, Into
    <3>5. UNCHANGED <<sends, growing, owes>>
      BY <1>2 DEF CheckNode, idleVars
    <3>6. QED
      BY <2>1, <3>1, <3>2, <3>3, <3>4, <3>5, Threads DEF IInv, HandlerInv
  <2>4. QED
    BY <2>2, <2>3 DEF IInv
<1>3. ASSUME NEW n \in Node, AddReadyNode(t, n)
      PROVE  IInv'
  <2>1. t # Handler
    BY <1>3 DEF AddReadyNode, IInv, HandlerInv
  <2>2. TableTypes' /\ OneCallback' /\ ThrottlingIsCurrent'
    BY <1>3, TableSame DEF AddReadyNode, IInv, streamVars, tableVars
  <2>3. HandlerInv'
    BY <1>3, <2>1, Threads DEF AddReadyNode, IInv, HandlerInv, idleVars
  <2>4. QED
    BY <2>2, <2>3 DEF IInv
<1>4. QED
  BY <1>1, <1>2, <1>3, StreamSteps DEF Continue

\* The steps of the thread inside HandleIdle.
LEMMA HandleSteps ==
  ASSUME IInv, Handle
  PROVE  IInv'
<1>1. CASE HandleIdle
  BY <1>1, Same DEF HandleIdle, streamVars, tableVars, workVars
<1>2. CASE FindFullStreams
  BY <1>2, Same DEF FindFullStreams, streamVars, tableVars, workVars
<1>3. CASE GrowStream
  <2>1. PICK e \in Stream, n \in Int : growing = <<e, n>>
    BY <1>3 DEF GrowStream, IInv, HandlerInv
  <2>2. Handler \in Thread /\ owes[Handler] = {}
    BY <1>3, Threads DEF GrowStream, IInv, HandlerInv
  <2>3. /\ queue' = [queue EXCEPT ![e] = queue[e]]
        /\ limit' = [limit EXCEPT ![e] = n]
        /\ Owe(Handler, e, queue[e], n)
        /\ queue[e] \in Int
    BY <1>3, <2>1 DEF GrowStream, IInv, TableTypes
  <2>4. UNCHANGED <<reported, full, throttled>>
    BY <1>3 DEF GrowStream, tableVars
  <2>5. TableTypes' /\ OneCallback' /\ ThrottlingIsCurrent'
    BY <2>2, <2>3, <2>4, StreamStep DEF IInv
  <2>6. HandlerInv'
    BY <1>3 DEF GrowStream, IInv, HandlerInv
  <2>7. QED
    BY <2>5, <2>6 DEF IInv
<1>4. CASE Relock
  BY <1>4, Same DEF Relock, streamVars, tableVars, workVars
<1>5. ASSUME NEW e \in Stream, ReadQueueSize(e)
      PROVE  IInv'
  <2>1. TableTypes' /\ OneCallback' /\ ThrottlingIsCurrent'
    BY <1>5, TableSame DEF ReadQueueSize, IInv, streamVars, tableVars, workVars
  <2>2. growing' \in Stream \X Int /\ owes[Handler] = {}
    BY <1>5 DEF ReadQueueSize, CalledBack, IInv, TableTypes
  <2>3. HandlerInv'
    BY <1>5, <2>2 DEF ReadQueueSize, IInv, HandlerInv, workVars
  <2>4. QED
    BY <2>1, <2>3 DEF IInv
<1>6. QED
  BY <1>1, <1>2, <1>3, <1>4, <1>5 DEF Handle

\* The steps of a task, up to what it does to streams and nodes.
LEMMA TaskSteps ==
  ASSUME IInv, NEW n \in Runner, RunTask(n)
  PROVE  IInv'
<1>1. CASE Run(n)
  <2>1. TableTypes' /\ OneCallback' /\ ThrottlingIsCurrent'
    BY <1>1, TableSame DEF Run, IInv, streamVars, tableVars
  <2>2. \/ sends' = [sends EXCEPT ![n] = OutOf(n) \X {"packet"}]
        \/ sends' = [sends EXCEPT ![n] = OutOf(n) \X {"close"}]
    BY <1>1 DEF Run
  <2>3. OutOf(n) \subseteq Stream
    BY DEF OutOf
  <2>4. UNCHANGED <<checks, takes, growing, owes>>
    BY <1>1 DEF Run, idleVars
  <2>5. HandlerInv'
    BY <2>2, <2>3, <2>4, Threads DEF IInv, HandlerInv
  <2>6. QED
    BY <2>1, <2>5 DEF IInv
<1>2. CASE EndRun(n)
  <2>1. TableTypes' /\ OneCallback' /\ ThrottlingIsCurrent'
    BY <1>2, TableSame DEF EndRun, IInv, streamVars, tableVars
  <2>2. PICK C \in SUBSET (Request \X Node) :
          checks' = checks \/ checks' = [checks EXCEPT ![n] = C]
    <3>1. \/ checks' = checks
          \/ checks' = [checks EXCEPT ![n] = IF n \in Node
                                             THEN {<<"check", n>>} ELSE {}]
      BY <1>2 DEF EndRun
    <3>2. (IF n \in Node THEN {<<"check", n>>} ELSE {}) \in SUBSET (Request \X Node)
      BY DEF Request
    <3>3. QED
      BY <3>1, <3>2
  <2>3. UNCHANGED <<sends, takes, growing, owes>>
    BY <1>2 DEF EndRun, idleVars
  <2>4. HandlerInv'
    BY <2>2, <2>3, Threads DEF IInv, HandlerInv
  <2>5. QED
    BY <2>1, <2>4 DEF IInv
<1>3. CASE EndClose(n)
  BY <1>3, Same DEF EndClose, streamVars, tableVars, workVars
<1>4. CASE CheckThrottled(n)
  BY <1>4, Same DEF CheckThrottled, streamVars, tableVars, workVars, idleVars
<1>5. CASE AddSource(n)
  BY <1>5, Same DEF AddSource, streamVars, tableVars, workVars, idleVars
<1>6. CASE EndLoop(n)
  BY <1>6, Same DEF EndLoop, streamVars, tableVars, workVars
<1>7. QED
  BY <1>1, <1>2, <1>3, <1>4, <1>5, <1>6 DEF RunTask

\* The steps of the application.
LEMMA CallSteps ==
  ASSUME IInv,
         \/ ContinueCall \/ Cancel \/ \E e \in Stream : Poll(e)
         \/ \E i \in Input : BeginAdd(i) \/ CloseInput(i)
  PROVE  IInv'
<1>1. ASSUME NEW S \in SUBSET (Stream \X {"packet", "close"}),
             sends' = [sends EXCEPT ![App] = S],
             UNCHANGED <<queue, limit, reported, full, throttled, owes, checks,
                         takes, growing>>
      PROVE  IInv'
  <2>1. TableTypes' /\ OneCallback' /\ ThrottlingIsCurrent'
    BY <1>1, TableSame DEF IInv
  <2>2. HandlerInv'
    BY <1>1, Threads DEF IInv, HandlerInv
  <2>3. QED
    BY <2>1, <2>2 DEF IInv
<1>2. \A i : OutOf(i) \subseteq Stream
  BY DEF OutOf
<1>3. CASE EndWait
  BY <1>3, Same DEF EndWait, streamVars, workVars, idleVars
<1>4. CASE AddPacket
  <2>1. UNCHANGED <<queue, limit, reported, full, throttled, owes, checks, takes,
                    growing>>
    BY <1>4 DEF AddPacket, streamVars, tableVars, idleVars
  <2>2. sends' = sends \/ sends' = [sends EXCEPT ![App] = OutOf(at) \X {"packet"}]
    BY <1>4 DEF AddPacket
  <2>3. QED
    BY <1>1, <1>2, <2>1, <2>2, Same
<1>5. CASE AddedPacket
  BY <1>5, Same DEF AddedPacket, streamVars, tableVars, workVars
<1>6. CASE ClosedInput
  BY <1>6, Same DEF ClosedInput, streamVars, tableVars, workVars
<1>7. CASE Cancel
  BY <1>7, Same DEF Cancel, streamVars, tableVars, workVars
<1>8. ASSUME NEW e \in Stream, Poll(e)
      PROVE  IInv'
  <2>1. /\ queue' = [queue EXCEPT ![e] = queue[e] - 1]
        /\ limit' = [limit EXCEPT ![e] = limit[e]]
        /\ queue[e] - 1 \in Int /\ limit[e] \in Int
    BY <1>8 DEF Poll, IInv, TableTypes
  <2>2. TableTypes' /\ OneCallback' /\ ThrottlingIsCurrent'
    BY <1>8, <2>1, Threads, StreamStep DEF Poll, CalledBack, tableVars, IInv
  <2>3. HandlerInv'
    BY <1>8, Threads DEF Poll, Owe, IInv, HandlerInv, TableTypes, idleVars
  <2>4. QED
    BY <2>2, <2>3 DEF IInv
<1>9. ASSUME NEW i \in Input, BeginAdd(i)
      PROVE  IInv'
  BY <1>9, Same DEF BeginAdd, streamVars, workVars, idleVars
<1>10. ASSUME NEW i \in Input, CloseInput(i)
       PROVE  IInv'
  <2>1. sends' = [sends EXCEPT ![App] = OutOf(i) \X {"close"}]
    BY <1>10 DEF CloseInput
  <2>2. UNCHANGED <<queue, limit, reported, full, throttled, owes, checks, takes,
                    growing>>
    BY <1>10 DEF CloseInput, streamVars, tableVars, idleVars
  <2>3. QED
    BY <1>1, <1>2, <2>1, <2>2
<1>11. QED
  BY <1>3, <1>4, <1>5, <1>6, <1>7, <1>8, <1>9, <1>10 DEF ContinueCall

\* The invariant is inductive.
LEMMA NextIInv == IInv /\ [Next]_vars => IInv'
<1> SUFFICES ASSUME IInv, [Next]_vars PROVE IInv'
  OBVIOUS
<1>1. CASE Next
  BY <1>1, HandleSteps, ThreadSteps, TaskSteps, CallSteps DEF Next, Work
<1>2. CASE UNCHANGED vars
  BY <1>2, Same DEF vars, streamVars, tableVars, workVars, idleVars
<1>3. QED
  BY <1>1, <1>2

\* UpdateThrottledNodes keeps full_input_streams_ and the scheduler's count of
\* throttled graph inputs right: they are what the last reports of the streams
\* say, for every graph, every limit and every order of the callbacks, and a
\* report that is out of date has a callback on its way.
THEOREM TableIsCurrent == Spec => []ThrottlingIsCurrent
<1>1. IInv => ThrottlingIsCurrent
  BY DEF IInv
<1>2. QED
  BY <1>1, InitIInv, NextIInv, PTL DEF Spec

-----------------------------------------------------------------------------
(* A source or a call that may go on is always taken up by somebody. *)

\* The requests that a thread makes for a node it has prepared.
Claims == {"add", "close"}

\* A node that is prepared has one thread to add it, which reads into the set
\* it prepares what the streams of the node hold.
PreparedInv ==
  /\ \A t \in Thread : \A c, d \in checks[t] : c = d
  /\ \A t \in Thread, n \in Node, k \in Claims :
       <<k, n>> \in checks[t] => status[n] = "prepared"
  /\ \A t, u \in Thread, n \in Node, k, l \in Claims :
       <<k, n>> \in checks[t] /\ <<l, n>> \in checks[u] => t = u
  /\ \A t \in Thread : \A e \in takes[t] :
       queue[e] > 0 /\ To[e] \in Node /\ <<"add", To[e]>> \in checks[t]

\* The types it rests on.
PreparedTypes ==
  /\ queue \in [Stream -> Nat]
  /\ checks \in [Thread -> SUBSET (Request \X Node)]
  /\ takes \in [Thread -> SUBSET Stream]
  /\ tail \subseteq (Runner \X {"check"}) \cup (Source \X {"add"})
  /\ status \in [Runner -> {"open", "prepared", "queued", "toClose", "running",
                            "closing", "closed"}]

\* A source is no node.
LEMMA Runners ==
  /\ Source \cap Node = {} /\ Source \subseteq Feeder /\ Input \subseteq Feeder
  /\ Source \subseteq Runner /\ Node \subseteq Runner /\ Input \cap Source = {}
  BY ThrottlingAssumption DEF Runner, Feeder

\* Steps that prepare nothing.
LEMMA KeepPrepared ==
  ASSUME PreparedInv,
         \A u \in Thread : \A c, d \in checks'[u] : c = d,
         \A u \in Thread, m \in Node, k \in Claims :
           <<k, m>> \in checks'[u] => <<k, m>> \in checks[u] /\ status'[m] = "prepared",
         \A u \in Thread : \A x \in takes'[u] :
           x \in takes[u] /\ queue'[x] > 0 /\ <<"add", To[x]>> \in checks'[u]
  PROVE  PreparedInv'
  BY DEF PreparedInv

\* Steps that neither prepare nor take.
LEMMA SamePrepared ==
  ASSUME PreparedInv, UNCHANGED <<checks, takes, queue>>,
         \A n \in Node : status[n] = "prepared" => status'[n] = "prepared"
  PROVE  PreparedInv'
  BY DEF PreparedInv

\* A thread asks whether a node is ready.
LEMMA AskPrepared ==
  ASSUME PreparedInv, PreparedTypes, NEW t \in Thread, checks[t] = {}, NEW n,
         checks' = [checks EXCEPT ![t] = {<<"check", n>>}] \/
         checks' = [checks EXCEPT ![t] = {}] \/ checks' = checks,
         UNCHANGED takes,
         \A x \in Stream : queue[x] > 0 => queue'[x] > 0,
         \A m \in Node : status[m] = "prepared" => status'[m] = "prepared"
  PROVE  PreparedInv'
<1>1. \A u \in Thread : \/ checks'[u] = checks[u]
                        \/ u = t /\ checks'[u] = {<<"check", n>>}
  BY DEF PreparedTypes
<1>2. \A u \in Thread : \A c, d \in checks'[u] : c = d
  BY <1>1 DEF PreparedInv
<1>3. \A u \in Thread, m \in Node, k \in Claims :
        <<k, m>> \in checks'[u] => <<k, m>> \in checks[u] /\ status'[m] = "prepared"
  <2> SUFFICES ASSUME NEW u \in Thread, NEW m \in Node, NEW k \in Claims,
                      <<k, m>> \in checks'[u]
               PROVE  <<k, m>> \in checks[u] /\ status'[m] = "prepared"
    OBVIOUS
  <2>1. <<k, m>> # <<"check", n>>
    BY DEF Claims
  <2>2. <<k, m>> \in checks[u]
    BY <1>1, <2>1
  <2> QED
    BY <2>2 DEF PreparedInv
<1>4. \A u \in Thread : \A x \in takes'[u] :
        x \in takes[u] /\ queue'[x] > 0 /\ <<"add", To[x]>> \in checks'[u]
  <2> SUFFICES ASSUME NEW u \in Thread, NEW x \in takes[u]
               PROVE  queue'[x] > 0 /\ <<"add", To[x]>> \in checks'[u]
    OBVIOUS
  <2>1. queue[x] > 0 /\ <<"add", To[x]>> \in checks[u]
    BY DEF PreparedInv
  <2>2. x \in Stream
    BY DEF PreparedTypes
  <2> QED
    BY <1>1, <2>1, <2>2
<1> QED
  BY <1>2, <1>3, <1>4, KeepPrepared

\* Every step keeps it.
LEMMA PreparedStep ==
  ASSUME PreparedInv, PreparedTypes, [Next]_vars
  PROVE  PreparedInv'
<1> USE Runners DEF PreparedTypes
<1>1. ASSUME NEW t \in Thread, NEW e \in Stream,
             AddPacketTo(t, e) \/ CloseStream(t, e)
      PROVE  PreparedInv'
  <2>1. /\ checks[t] = {} /\ UNCHANGED <<takes, status>>
        /\ checks' = [checks EXCEPT ![t] = {<<"check", To[e]>>}]
           \/ checks' = [checks EXCEPT ![t] = {}]
    BY <1>1 DEF AddPacketTo, CloseStream, taskVars
  <2>2. \A x \in Stream : queue[x] > 0 => queue'[x] > 0
    BY <1>1 DEF AddPacketTo, CloseStream
  <2> QED
    BY <2>1, <2>2, AskPrepared
<1>2. ASSUME NEW t \in Thread, NEW e \in Stream, TakePacket(t, e)
      PROVE  PreparedInv'
  <2>1. /\ UNCHANGED <<checks, status>>
        /\ \A u \in Thread : takes'[u] = IF u = t THEN takes[u] \ {e} ELSE takes[u]
        /\ \A x \in Stream : x # e => queue'[x] = queue[x]
    BY <1>2 DEF TakePacket, taskVars
  <2>2. \A u \in Thread : e \notin takes'[u]
    <3> SUFFICES ASSUME NEW u \in Thread, e \in takes'[u] PROVE FALSE
      OBVIOUS
    <3>1. u # t /\ e \in takes[u] /\ e \in takes[t]
      BY <1>2, <2>1 DEF TakePacket
    <3>2. /\ To[e] \in Node /\ "add" \in Claims
          /\ <<"add", To[e]>> \in checks[u] /\ <<"add", To[e]>> \in checks[t]
      BY <3>1 DEF PreparedInv, Claims
    <3> QED
      BY <3>1, <3>2 DEF PreparedInv
  <2>3. \A u \in Thread : \A x \in takes'[u] :
          x \in takes[u] /\ queue'[x] > 0 /\ <<"add", To[x]>> \in checks'[u]
    <3> SUFFICES ASSUME NEW u \in Thread, NEW x \in takes'[u]
                 PROVE  x \in takes[u] /\ queue'[x] > 0 /\ <<"add", To[x]>> \in checks[u]
      BY <2>1
    <3>1. x \in takes[u] /\ x \in Stream /\ x # e
      BY <2>1, <2>2
    <3>2. queue[x] > 0 /\ <<"add", To[x]>> \in checks[u]
      BY <3>1 DEF PreparedInv
    <3> QED
      BY <2>1, <3>1, <3>2
  <2>4. /\ \A u \in Thread : \A c, d \in checks[u] : c = d
        /\ \A u \in Thread, m \in Node, k \in Claims :
             <<k, m>> \in checks[u] => status[m] = "prepared"
    BY DEF PreparedInv
  <2> QED
    BY <2>1, <2>3, <2>4, KeepPrepared
<1>3. ASSUME NEW t \in Thread, NEW n \in Node, CheckNode(t, n)
      PROVE  PreparedInv'
  <2>1. takes[t] = {} /\ checks[t] = {<<"check", n>>}
    <3>1. <<"check", n>> \in checks[t]
      BY <1>3 DEF CheckNode
    <3>2. checks[t] = {<<"check", n>>}
      BY <3>1 DEF PreparedInv
    <3> QED
      BY <3>2 DEF PreparedInv
  <2>2. /\ UNCHANGED queue
        /\ \A u \in Thread \ {t} : checks'[u] = checks[u] /\ takes'[u] = takes[u]
    BY <1>3 DEF CheckNode, streamVars
  <2>3. CASE checks'[t] = {} /\ UNCHANGED <<takes, status>>
    BY <2>1, <2>2, <2>3 DEF PreparedInv
  <2>4. ASSUME NEW k \in Claims, checks'[t] = {<<k, n>>}, status[n] = "open",
               status' = [status EXCEPT ![n] = "prepared"],
               (k = "add" /\ takes'[t] = Filled(n)) \/ takes'[t] = {}
        PROVE  PreparedInv'
    <3>1. \A u \in Thread : \A m \in Node, l \in Claims : <<l, m>> \in checks'[u] =>
            \/ u = t /\ m = n /\ l = k
            \/ u # t /\ m # n /\ <<l, m>> \in checks[u]
      <4> SUFFICES ASSUME NEW u \in Thread, NEW m \in Node, NEW l \in Claims,
                          <<l, m>> \in checks'[u]
                   PROVE  \/ u = t /\ m = n /\ l = k
                          \/ u # t /\ m # n /\ <<l, m>> \in checks[u]
        OBVIOUS
      <4>1. CASE u = t
        BY <2>4, <4>1
      <4>2. CASE u # t
        <5>1. <<l, m>> \in checks[u]
          BY <2>2, <4>2
        <5>2. status[m] = "prepared"
          BY <5>1 DEF PreparedInv
        <5> QED
          BY <2>4, <4>2, <5>1, <5>2
      <4> QED
        BY <4>1, <4>2
    <3>2. \A e \in takes'[t] : queue'[e] > 0 /\ To[e] = n /\ <<"add", n>> \in checks'[t]
      <4>1. CASE takes'[t] = {}
        BY <4>1
      <4>2. CASE k = "add" /\ takes'[t] = Filled(n)
        <5>1. \A e \in Filled(n) : queue[e] > 0 /\ To[e] = n
          BY DEF Filled, Into
        <5> QED
          BY <2>2, <2>4, <4>2, <5>1
      <4> QED
        BY <2>4, <4>1, <4>2
    <3>3. \A u \in Thread : \A e \in takes'[u] :
            queue'[e] > 0 /\ To[e] \in Node /\ <<"add", To[e]>> \in checks'[u]
      BY <2>2, <3>2 DEF PreparedInv
    <3>4. \A u \in Thread : \A c, d \in checks'[u] : c = d
      BY <2>2, <2>4 DEF PreparedInv
    <3>5. \A u \in Thread, m \in Node, l \in Claims :
            <<l, m>> \in checks'[u] => status'[m] = "prepared"
      BY <2>4, <3>1 DEF PreparedInv
    <3>6. \A u, v \in Thread, m \in Node, l, j \in Claims :
            <<l, m>> \in checks'[u] /\ <<j, m>> \in checks'[v] => u = v
      BY <3>1 DEF PreparedInv
    <3> QED
      BY <3>3, <3>4, <3>5, <3>6 DEF PreparedInv
  <2>5. CASE /\ status[n] = "open" /\ takes' = [takes EXCEPT ![t] = Filled(n)]
             /\ checks' = [checks EXCEPT ![t] = {<<"add", n>>}]
             /\ status' = [status EXCEPT ![n] = "prepared"]
    <3>1. takes'[t] = Filled(n)
      BY <2>5
    <3>2. checks'[t] = {<<"add", n>>} /\ "add" \in Claims
      BY <2>5 DEF Claims
    <3> QED
      BY <2>4, <2>5, <3>1, <3>2
  <2>6. CASE /\ status[n] = "open" /\ UNCHANGED takes
             /\ checks' = [checks EXCEPT ![t] = {<<"close", n>>}]
             /\ status' = [status EXCEPT ![n] = "prepared"]
    <3>1. takes'[t] = {}
      BY <2>1, <2>6
    <3>2. checks'[t] = {<<"close", n>>} /\ "close" \in Claims
      BY <2>6 DEF Claims
    <3> QED
      BY <2>4, <2>6, <3>1, <3>2
  <2>7. CASE checks' = [checks EXCEPT ![t] = {}] /\ UNCHANGED <<takes, status>>
    BY <2>3, <2>7
  <2> QED
    BY <1>3, <2>5, <2>6, <2>7 DEF CheckNode
<1>4. ASSUME NEW t \in Thread, NEW n \in Node, AddReadyNode(t, n)
      PROVE  PreparedInv'
  <2>1. PICK k \in Claims : <<k, n>> \in checks[t]
    BY <1>4 DEF AddReadyNode, Claims
  <2>2. /\ UNCHANGED <<queue, takes>> /\ takes[t] = {}
        /\ \A u \in Thread : checks'[u] = IF u = t THEN {} ELSE checks[u]
        /\ \A m \in Node : m # n => status'[m] = status[m]
    BY <1>4 DEF AddReadyNode, AddNode, streamVars
  <2>3. \A u \in Thread \ {t} : \A l \in Claims : <<l, n>> \notin checks[u]
    BY <2>1 DEF PreparedInv
  <2> QED
    BY <2>2, <2>3 DEF PreparedInv
<1>5. ASSUME NEW n \in Runner, EndRun(n)
      PROVE  PreparedInv'
  <2>1. /\ n \in Thread /\ checks[n] = {} /\ UNCHANGED <<takes, queue>>
        /\ \/ checks' = [checks EXCEPT ![n] = {<<"check", n>>}]
           \/ checks' = [checks EXCEPT ![n] = {}] \/ checks' = checks
    BY <1>5 DEF EndRun, Quiet, Thread, streamVars
  <2>2. \A m \in Node : status[m] = "prepared" => status'[m] = "prepared"
    BY <1>5 DEF EndRun
  <2> QED
    BY <2>1, <2>2, AskPrepared
<1>6. ASSUME NEW e \in Stream, Poll(e)
      PROVE  PreparedInv'
  <2>1. To[e] \notin Node
    BY <1>6, ThrottlingAssumption DEF Poll, Polled
  <2>2. /\ UNCHANGED <<checks, takes, status>>
        /\ \A x \in Stream : x # e => queue'[x] = queue[x]
    BY <1>6 DEF Poll, taskVars
  <2> QED
    BY <2>1, <2>2 DEF PreparedInv
<1>7. ASSUME NEW n \in Runner, Run(n) \/ EndClose(n) \/ CheckThrottled(n) \/ EndLoop(n)
      PROVE  PreparedInv'
  BY <1>7, SamePrepared
     DEF Run, EndClose, CheckThrottled, EndLoop, streamVars, workVars
<1>8. ASSUME NEW s \in Source, \/ AddSource(s)
                               \/ \E t \in Thread : ScheduleUnthrottled(t, s)
      PROVE  PreparedInv'
  BY <1>8, SamePrepared DEF AddSource, ScheduleUnthrottled, AddNode, streamVars, workVars
<1>9. CASE Handle
  BY <1>9, SamePrepared
     DEF Handle, HandleIdle, FindFullStreams, ReadQueueSize, GrowStream, Relock,
         streamVars, workVars, taskVars
<1>10. CASE ContinueCall \/ Cancel \/ \E i \in Input : BeginAdd(i) \/ CloseInput(i)
  BY <1>10, SamePrepared
     DEF ContinueCall, EndWait, AddPacket, AddedPacket, ClosedInput, Cancel,
         BeginAdd, CloseInput, streamVars, workVars, taskVars
<1>11. ASSUME NEW t \in Thread, NEW e \in Stream, UpdateThrottledNodes(t, e)
       PROVE  PreparedInv'
  BY <1>11, SamePrepared DEF UpdateThrottledNodes, taskVars
<1>12. CASE UNCHANGED vars
  BY <1>12, SamePrepared DEF vars, streamVars, workVars, taskVars
<1>13. \A n \in Runner : AddSource(n) => n \in Source
  BY DEF AddSource
<1> QED
  BY <1>1, <1>2, <1>3, <1>4, <1>5, <1>6, <1>7, <1>8, <1>9, <1>10, <1>11, <1>12, <1>13
     DEF Next, Work, Continue, RunTask

\* The tasks of the executor are those of the runners in flight, of the workers
\* in a scheduling loop and of those that are about to end.
InFlight == {n \in Runner : status[n] \in {"queued", "toClose", "running", "closing"}}
TasksInv == tasks = Cardinality(InFlight) + Cardinality(tail) + ending

\* A worker in a scheduling loop is at one place.
LoopInv == \A n \in Runner : <<n, "check">> \in tail => <<n, "add">> \notin tail

\* A call adds to an input that has packets left.
CallInv == pc \in {"wait", "add"} => at \in Input /\ ticks[at] > 0

\* The types of the variables the table does not need.
WorkTypes ==
  /\ queue \in [Stream -> Nat] /\ limit \in [Stream -> Nat \cup {NoLimit}]
  /\ closed \subseteq Stream /\ reported \subseteq Stream
  /\ full \in [Feeder -> SUBSET Stream]
  /\ owes \in [Thread -> SUBSET Stream] /\ frees \in [Thread -> SUBSET Source]
  /\ sends \in [Thread -> SUBSET (Stream \X {"packet", "close"})]
  /\ checks \in [Thread -> SUBSET (Request \X Node)] /\ takes \in [Thread -> SUBSET Stream]
  /\ status \in [Runner -> {"open", "prepared", "queued", "toClose", "running",
                            "closing", "closed"}]
  /\ tail \subseteq (Runner \X {"check"}) \cup (Source \X {"add"})
  /\ ending \in Nat
  /\ ticks \in [Feeder -> Nat] /\ \A f \in Feeder : ticks[f] <= MaxPackets[f]
  /\ toGrow \subseteq Stream /\ growing \in {<<>>} \cup (Stream \X Nat)

\* The types of what HandleIdle and the application are at.
ControlTypes ==
  /\ stage \in {"none", "loop", "snapshot", "grow", "relock"}
  /\ {again, did, hasError, inputsClosed, terminated, woken} \subseteq BOOLEAN
  /\ pc \in {"none", "wait", "add", "sending", "closing", "handling"}
  /\ at \in Input \cup {None}

\* The types are kept.
LEMMA ControlStep ==
  ASSUME ControlTypes, [Next]_vars
  PROVE  ControlTypes'
<1> USE DEF ControlTypes
<1>1. CASE UNCHANGED <<stage, again, did, flags, appVars, woken>>
  BY <1>1 DEF flags, appVars
<1>2. ASSUME NEW t \in Thread, Continue(t)
      PROVE  ControlTypes'
  <2>1. UNCHANGED <<stage, again, did, flags, appVars>> /\ woken' \in BOOLEAN
    BY <1>2 DEF Continue, UpdateThrottledNodes, AddPacketTo, CloseStream, TakePacket,
       ScheduleUnthrottled, CheckNode, AddReadyNode, idleVars, tableVars
  <2> QED
    BY <2>1 DEF flags, appVars
<1>3. ASSUME NEW n \in Runner, RunTask(n)
      PROVE  ControlTypes'
  <2>1. CASE Run(n) \/ EndRun(n) \/ CheckThrottled(n) \/ AddSource(n)
    BY <2>1, <1>1 DEF Run, EndRun, CheckThrottled, AddSource, idleVars, tableVars
  <2>2. CASE EndClose(n)
    BY <2>2 DEF EndClose, FinishTask, EnterHandleIdle, flags, tableVars
  <2>3. CASE EndLoop(n)
    BY <2>3 DEF EndLoop, FinishTask, EnterHandleIdle, flags, tableVars
  <2> QED
    BY <1>3, <2>1, <2>2, <2>3 DEF RunTask
<1>4. CASE HandleIdle
  BY <1>4 DEF HandleIdle, LeaveHandleIdle, tableVars
<1>5. CASE FindFullStreams
  BY <1>5 DEF FindFullStreams, flags, appVars, tableVars
<1>6. CASE GrowStream
  BY <1>6, <1>1 DEF GrowStream, tableVars
<1>7. CASE Relock
  BY <1>7 DEF Relock, LeaveHandleIdle, flags, tableVars
<1>8. ASSUME NEW e \in Stream, ReadQueueSize(e) \/ Poll(e)
      PROVE  ControlTypes'
  BY <1>8, <1>1 DEF ReadQueueSize, Poll, idleVars, tableVars
<1>9. CASE EndWait
  BY <1>9 DEF EndWait, Look, idleVars, flags
<1>10. CASE AddPacket
  BY <1>10 DEF AddPacket, idleVars, tableVars
<1>11. CASE AddedPacket
  BY <1>11 DEF AddedPacket, EnterHandleIdle, flags, tableVars
<1>12. CASE ClosedInput
  BY <1>12 DEF ClosedInput, EnterHandleIdle, tableVars
<1>13. CASE Cancel
  BY <1>13 DEF Cancel, EnterHandleIdle, tableVars
<1>14. ASSUME NEW i \in Input, BeginAdd(i)
       PROVE  ControlTypes'
  BY <1>14 DEF BeginAdd, Look, idleVars, flags
<1>15. ASSUME NEW i \in Input, CloseInput(i)
       PROVE  ControlTypes'
  BY <1>15 DEF CloseInput, idleVars, flags, tableVars
<1>16. CASE UNCHANGED vars
  BY <1>16, <1>1 DEF vars, idleVars, tableVars
<1> QED
  BY <1>2, <1>3, <1>4, <1>5, <1>6, <1>7, <1>8, <1>9, <1>10, <1>11, <1>12, <1>13,
     <1>14, <1>15, <1>16 DEF Next, Handle, Work, ContinueCall

\* One packet less.
LEMMA OneLess ==
  ASSUME ticks \in [Feeder -> Nat], \A f \in Feeder : ticks[f] <= MaxPackets[f],
         NEW n \in Feeder, ticks[n] > 0, ticks' = [ticks EXCEPT ![n] = ticks[n] - 1]
  PROVE  ticks' \in [Feeder -> Nat] /\ \A f \in Feeder : ticks'[f] <= MaxPackets[f]
<1>1. ticks[n] - 1 \in Nat /\ ticks[n] - 1 <= ticks[n]
  OBVIOUS
<1>2. ticks' \in [Feeder -> Nat]
  BY <1>1
<1>3. ASSUME NEW f \in Feeder PROVE ticks'[f] <= MaxPackets[f]
  <2>1. MaxPackets[f] \in Nat /\ ticks[f] \in Nat /\ ticks[f] <= MaxPackets[f]
    BY ThrottlingAssumption
  <2>2. ticks'[f] = IF f = n THEN ticks[n] - 1 ELSE ticks[f]
    OBVIOUS
  <2> QED
    BY <2>1, <2>2
<1> QED
  BY <1>2, <1>3

\* A function at one more point.
LEMMA ExceptType ==
  ASSUME NEW S, NEW T, NEW f \in [S -> T], NEW x, NEW y \in T
  PROVE  [f EXCEPT ![x] = y] \in [S -> T]
OBVIOUS

\* The lengths and the packets left stay natural numbers, for nobody takes from
\* an empty stream or sends without a packet.
LEMMA WorkTypesStep ==
  ASSUME WorkTypes, PreparedInv, CallInv, TableTypes', [Next]_vars
  PROVE  WorkTypes'
<1> USE Runners, Threads DEF WorkTypes
<1>1. ASSUME NEW t \in Thread, NEW e \in Stream, UpdateThrottledNodes(t, e)
      PROVE  WorkTypes'
  <2>1. frees' \in [Thread -> SUBSET Source]
    <3>1. \A S : S \cap Source \in SUBSET Source
      OBVIOUS
    <3>2. PICK S \in SUBSET Source : frees' = frees \/ frees' = [frees EXCEPT ![t] = S]
      BY <1>1, Zenon DEF UpdateThrottledNodes
    <3> QED
      BY <3>2
  <2>2. full' \in [Feeder -> SUBSET Stream]
    BY DEF TableTypes
  <2> QED
    BY <1>1, <2>1, <2>2 DEF UpdateThrottledNodes, taskVars, idleVars
<1>2. ASSUME NEW t \in Thread, NEW e \in Stream, AddPacketTo(t, e)
      PROVE  WorkTypes'
  <2>1. e \notin Polled => <<"check", To[e]>> \in Request \X Node
    BY ThrottlingAssumption DEF Polled, Request
  <2>2. /\ queue' \in [Stream -> Nat] /\ owes' \in [Thread -> SUBSET Stream]
        /\ sends' \in [Thread -> SUBSET (Stream \X {"packet", "close"})]
    BY <1>2 DEF AddPacketTo, Owe
  <2>3. checks' \in [Thread -> SUBSET (Request \X Node)]
    BY <1>2, <2>1 DEF AddPacketTo
  <2> QED
    BY <1>2, <2>2, <2>3 DEF AddPacketTo, tableVars, taskVars, idleVars
<1>3. ASSUME NEW t \in Thread, NEW e \in Stream, CloseStream(t, e)
      PROVE  WorkTypes'
  <2>1. e \notin Polled => <<"check", To[e]>> \in Request \X Node
    BY ThrottlingAssumption DEF Polled, Request
  <2>3. checks' \in [Thread -> SUBSET (Request \X Node)]
    BY <1>3, <2>1 DEF CloseStream
  <2> QED
    BY <1>3, <2>3 DEF CloseStream, tableVars, taskVars, idleVars
<1>4. ASSUME NEW t \in Thread, NEW e \in Stream, TakePacket(t, e)
      PROVE  WorkTypes'
  <2>1. queue[e] > 0
    BY <1>4 DEF TakePacket, PreparedInv
  <2> QED
    BY <1>4, <2>1 DEF TakePacket, Owe, tableVars, taskVars, idleVars
<1>5. ASSUME NEW t \in Thread, NEW s \in Source, ScheduleUnthrottled(t, s)
      PROVE  WorkTypes'
  BY <1>5 DEF ScheduleUnthrottled, AddNode, streamVars, tableVars, idleVars
<1>6. ASSUME NEW t \in Thread, NEW n \in Node, CheckNode(t, n)
      PROVE  WorkTypes'
  <2>1. /\ {<<"add", n>>} \subseteq Request \X Node
        /\ {<<"close", n>>} \subseteq Request \X Node
        /\ Filled(n) \subseteq Stream
    BY DEF Request, Filled, Into
  <2>2. PICK C \in SUBSET (Request \X Node) : checks' = [checks EXCEPT ![t] = C]
    BY <1>6, <2>1 DEF CheckNode
  <2>3. takes' = takes \/ takes' = [takes EXCEPT ![t] = Filled(n)]
    BY <1>6 DEF CheckNode
  <2>4. status' = status \/ status' = [status EXCEPT ![n] = "prepared"]
    BY <1>6 DEF CheckNode
  <2>5. UNCHANGED <<queue, limit, closed, reported, full, owes, frees, sends, tail, ending,
                 ticks, toGrow, growing>>
    BY <1>6 DEF CheckNode, streamVars, tableVars, idleVars
  <2>6. checks' \in [Thread -> SUBSET (Request \X Node)]
    BY <2>2
  <2>7. takes' \in [Thread -> SUBSET Stream]
    BY <2>1, <2>3
  <2>8. status' \in [Runner -> {"open", "prepared", "queued", "toClose", "running",
                            "closing", "closed"}]
    BY <2>4
  <2> QED
    BY <2>5, <2>6, <2>7, <2>8
<1>7. ASSUME NEW t \in Thread, NEW n \in Node, AddReadyNode(t, n)
      PROVE  WorkTypes'
  BY <1>7 DEF AddReadyNode, AddNode, streamVars, tableVars, idleVars
<1>8. ASSUME NEW n \in Runner, Run(n)
      PROVE  WorkTypes'
  <2>1. OutOf(n) \X {"packet"} \subseteq Stream \X {"packet", "close"}
        /\ OutOf(n) \X {"close"} \subseteq Stream \X {"packet", "close"}
    BY DEF OutOf
  <2>2. \/ ticks' = ticks
        \/ n \in Source /\ ticks[n] > 0 /\ ticks' = [ticks EXCEPT ![n] = ticks[n] - 1]
    BY <1>8 DEF Run
  <2>3. ticks' \in [Feeder -> Nat] /\ \A f \in Feeder : ticks'[f] <= MaxPackets[f]
    BY <2>2, OneLess
  <2>4. sends' \in [Thread -> SUBSET (Stream \X {"packet", "close"})]
    <3>1. PICK S \in SUBSET (Stream \X {"packet", "close"}) :
            sends' = [sends EXCEPT ![n] = S]
      BY <1>8, <2>1 DEF Run
    <3> QED
      BY <3>1, ExceptType
  <2>5. status' \in [Runner -> {"open", "prepared", "queued", "toClose", "running",
                            "closing", "closed"}]
    <3>1. \/ status' = [status EXCEPT ![n] = "running"]
          \/ status' = [status EXCEPT ![n] = "closing"]
      BY <1>8 DEF Run
    <3> QED
      BY <3>1
  <2> QED
    BY <1>8, <2>3, <2>4, <2>5 DEF Run, streamVars, tableVars, idleVars
<1>9. ASSUME NEW n \in Runner, EndRun(n)
      PROVE  WorkTypes'
  <2>1. n \in Node => {<<"check", n>>} \in SUBSET (Request \X Node)
    BY DEF Request
  <2>2. checks' \in [Thread -> SUBSET (Request \X Node)]
    <3>1. PICK C \in SUBSET (Request \X Node) :
            checks' = checks \/ checks' = [checks EXCEPT ![n] = C]
      BY <1>9, <2>1 DEF EndRun
    <3>2. checks \in [Thread -> SUBSET (Request \X Node)]
      OBVIOUS
    <3>3. [checks EXCEPT ![n] = C] \in [Thread -> SUBSET (Request \X Node)]
      BY <3>2, ExceptType
    <3> QED
      BY <3>1, <3>2, <3>3, Zenon
  <2>3. tail' \subseteq (Runner \X {"check"}) \cup (Source \X {"add"}) /\ ending' \in Nat
    BY <1>9 DEF EndRun
  <2> QED
    BY <1>9, <2>2, <2>3 DEF EndRun, streamVars, tableVars, idleVars
<1>10. ASSUME NEW n \in Runner, EndClose(n)
      PROVE  WorkTypes'
  BY <1>10 DEF EndClose, streamVars, tableVars, workVars
<1>11. ASSUME NEW n \in Runner, CheckThrottled(n) \/ AddSource(n)
      PROVE  WorkTypes'
  <2>1. tail' \subseteq (Runner \X {"check"}) \cup (Source \X {"add"}) /\ ending' \in Nat
    BY <1>11 DEF CheckThrottled, AddSource
  <2>2. status' \in [Runner -> {"open", "prepared", "queued", "toClose", "running",
                            "closing", "closed"}]
    BY <1>11 DEF CheckThrottled, AddSource, AddNode
  <2> QED
    BY <1>11, <2>1, <2>2 
       DEF CheckThrottled, AddSource, streamVars, tableVars, workVars, idleVars
<1>12. ASSUME NEW n \in Runner, EndLoop(n)
      PROVE  WorkTypes'
  <2>1. tail' \subseteq (Runner \X {"check"}) \cup (Source \X {"add"}) /\ ending' \in Nat
    BY <1>12 DEF EndLoop
  <2> QED
    BY <1>12, <2>1 DEF EndLoop, streamVars, tableVars, workVars
<1>13. CASE HandleIdle \/ Relock
  BY <1>13 DEF HandleIdle, Relock, streamVars, tableVars, workVars, taskVars
<1>14. CASE FindFullStreams
  BY <1>14 DEF FindFullStreams, streamVars, tableVars, workVars, taskVars
<1>15. CASE GrowStream
  <2>1. growing[1] \in Stream /\ growing[2] \in Nat
    BY <1>15 DEF GrowStream
  <2> QED
    BY <1>15, <2>1 DEF GrowStream, Owe, tableVars, taskVars
<1>16. ASSUME NEW e \in Stream, ReadQueueSize(e)
      PROVE  WorkTypes'
  BY <1>16 DEF ReadQueueSize, streamVars, tableVars, workVars, taskVars
<1>17. ASSUME NEW e \in Stream, Poll(e)
      PROVE  WorkTypes'
  BY <1>17 DEF Poll, Owe, tableVars, taskVars, idleVars
<1>18. CASE AddPacket
  <2>1. OutOf(at) \X {"packet"} \subseteq Stream \X {"packet", "close"}
    BY DEF OutOf
  <2>2. at \in Feeder /\ ticks[at] > 0
    BY <1>18 DEF AddPacket, Calls, CallInv
  <2>3. ticks' = ticks \/ ticks' = [ticks EXCEPT ![at] = ticks[at] - 1]
    BY <1>18 DEF AddPacket
  <2>4. ticks' \in [Feeder -> Nat] /\ \A f \in Feeder : ticks'[f] <= MaxPackets[f]
    BY <2>2, <2>3, OneLess
  <2>5. PICK S \in SUBSET (Stream \X {"packet", "close"}) :
          sends' = sends \/ sends' = [sends EXCEPT ![App] = S]
    BY <1>18, <2>1 DEF AddPacket
  <2>6. sends' \in [Thread -> SUBSET (Stream \X {"packet", "close"})]
    BY <2>5, ExceptType
  <2> QED
    BY <1>18, <2>4, <2>6 DEF AddPacket, streamVars, tableVars, taskVars, idleVars
<1>19. CASE EndWait \/ AddedPacket \/ ClosedInput \/ Cancel
  BY <1>19 DEF EndWait, AddedPacket, ClosedInput, Cancel,
     streamVars, tableVars, workVars, taskVars, idleVars
<1>20. ASSUME NEW i \in Input, BeginAdd(i)
       PROVE  WorkTypes'
  BY <1>20 DEF BeginAdd, streamVars, workVars, taskVars, idleVars
<1>21. ASSUME NEW i \in Input, CloseInput(i)
       PROVE  WorkTypes'
  <2>1. OutOf(i) \X {"close"} \subseteq Stream \X {"packet", "close"}
    BY DEF OutOf
  <2> QED
    BY <1>21, <2>1 DEF CloseInput, streamVars, tableVars, taskVars, idleVars
<1>22. CASE UNCHANGED vars
  BY <1>22 DEF vars, streamVars, tableVars, workVars, taskVars, idleVars
<1> QED
  BY <1>1, <1>2, <1>3, <1>4, <1>5, <1>6, <1>7, <1>8, <1>9, <1>10, <1>11, <1>12, <1>13,
     <1>14, <1>15, <1>16, <1>17, <1>18, <1>19, <1>20, <1>21, <1>22
     DEF Next, Handle, Work, Continue, RunTask, ContinueCall

\* Runners and places in the loop are finitely many.
LEMMA RunnerFinite == IsFiniteSet(Runner) /\ IsFiniteSet(Runner \X {"check", "add"})
<1>1. IsFiniteSet(Runner)
  <2>1. Source \subseteq Feeder
    BY DEF Feeder
  <2>2. IsFiniteSet(Source)
    BY <2>1, ThrottlingAssumption, FS_Subset
  <2> QED
    BY <2>2, ThrottlingAssumption, FS_Union DEF Runner
<1>2. IsFiniteSet({"check", "add"})
  <2>1. IsFiniteSet({"check"} \cup {"add"})
    BY FS_Singleton, FS_Union
  <2>2. {"check", "add"} = {"check"} \cup {"add"}
    OBVIOUS
  <2> QED
    BY <2>1, <2>2
<1> QED
  BY <1>1, <1>2, FS_Product

\* What is counted.
LEMMA CountsFinite ==
  ASSUME WorkTypes
  PROVE  /\ IsFiniteSet(InFlight) /\ Cardinality(InFlight) \in Nat
         /\ IsFiniteSet(tail) /\ Cardinality(tail) \in Nat
<1>1. tail \subseteq Runner \X {"check", "add"} /\ InFlight \subseteq Runner
  BY Runners DEF WorkTypes, InFlight
<1> QED
  BY <1>1, RunnerFinite, FS_Subset, FS_CardinalityType

\* A step that moves no runner, one into flight, one out of it; and the same of
\* the workers in the loop.
LEMMA FlightSame ==
  ASSUME \A m \in Runner : m \in InFlight' <=> m \in InFlight
  PROVE  Cardinality(InFlight)' = Cardinality(InFlight)
<1>1. InFlight' = InFlight
  BY DEF InFlight
<1> QED
  BY <1>1

LEMMA FlightMore ==
  ASSUME WorkTypes, NEW n \in Runner, n \notin InFlight, n \in InFlight',
         \A m \in Runner \ {n} : m \in InFlight' <=> m \in InFlight
  PROVE  Cardinality(InFlight)' = Cardinality(InFlight) + 1
<1>1. InFlight' = InFlight \cup {n}
  BY DEF InFlight
<1> QED
  BY <1>1, CountsFinite, FS_AddElement

LEMMA FlightLess ==
  ASSUME WorkTypes, NEW n \in Runner, n \in InFlight, n \notin InFlight',
         \A m \in Runner \ {n} : m \in InFlight' <=> m \in InFlight
  PROVE  Cardinality(InFlight)' = Cardinality(InFlight) - 1
<1>1. InFlight' = InFlight \ {n}
  BY DEF InFlight
<1> QED
  BY <1>1, CountsFinite, FS_RemoveElement

LEMMA TailMore ==
  ASSUME WorkTypes, NEW c, c \notin tail, tail' = tail \cup {c}
  PROVE  Cardinality(tail)' = Cardinality(tail) + 1
  BY CountsFinite, FS_AddElement

LEMMA TailLess ==
  ASSUME WorkTypes, NEW c, c \in tail, tail' = tail \ {c}
  PROVE  Cardinality(tail)' = Cardinality(tail) - 1
  BY CountsFinite, FS_RemoveElement

LEMMA TailMoves ==
  ASSUME WorkTypes, NEW c, NEW d, c \in tail, d \notin tail, tail' = (tail \ {c}) \cup {d}
  PROVE  Cardinality(tail)' = Cardinality(tail)
<1>1. IsFiniteSet(tail \ {c}) /\ Cardinality(tail \ {c}) = Cardinality(tail) - 1
  BY CountsFinite, FS_RemoveElement
<1>2. d \notin tail \ {c}
  OBVIOUS
<1>3. Cardinality((tail \ {c}) \cup {d}) = Cardinality(tail) - 1 + 1
  BY <1>1, <1>2, FS_AddElement
<1> QED
  BY <1>3, CountsFinite

\* A node or source is added: it goes into flight with a task, or it does not.
LEMMA AddCounts ==
  ASSUME WorkTypes, tasks \in Int, NEW n \in Runner, NEW as \in {"queued", "toClose"},
         AddNode(n, as), n \in Node => status[n] = "prepared"
  PROVE  /\ tasks' = tasks + Cardinality(InFlight)' - Cardinality(InFlight)
         /\ Cardinality(InFlight)' \in Int
<1>1. CASE hasError \/ (n \in Source /\ status[n] # "open")
  <2>1. tasks' = tasks /\ \A m \in Runner : m \in InFlight' <=> m \in InFlight
    BY <1>1 DEF AddNode, InFlight, WorkTypes
  <2> QED
    BY <2>1, FlightSame, CountsFinite
<1>2. CASE ~(hasError \/ (n \in Source /\ status[n] # "open"))
  <2>1. status' = [status EXCEPT ![n] = as] /\ tasks' = tasks + 1
    BY <1>2 DEF AddNode
  <2>2. n \notin InFlight
    BY <1>2 DEF InFlight, Runner
  <2>3. n \in InFlight' /\ \A m \in Runner \ {n} : m \in InFlight' <=> m \in InFlight
    BY <2>1 DEF InFlight, WorkTypes
  <2>4. Cardinality(InFlight)' = Cardinality(InFlight) + 1
    BY <2>2, <2>3, FlightMore
  <2> QED
    BY <2>1, <2>4, CountsFinite
<1> QED
  BY <1>1, <1>2

\* The steps and the tasks.
LEMMA SameTasks ==
  ASSUME TasksInv, UNCHANGED taskVars
  PROVE  TasksInv'
  BY DEF TasksInv, taskVars, InFlight

LEMMA TasksStep ==
  ASSUME WorkTypes, PreparedInv, LoopInv, TasksInv, [Next]_vars
  PROVE  TasksInv'
<1>0. /\ tasks \in Int /\ ending \in Int
      /\ Cardinality(InFlight) \in Nat /\ Cardinality(tail) \in Nat
  BY CountsFinite DEF TasksInv, WorkTypes
<1>1. ASSUME NEW t \in Thread, NEW n \in Node, CheckNode(t, n)
      PROVE  TasksInv'
  <2>1. UNCHANGED <<tail, tasks, ending>>
    BY <1>1 DEF CheckNode
  <2>2. \A m \in Runner : m \in InFlight' <=> m \in InFlight
    BY <1>1 DEF CheckNode, InFlight, WorkTypes
  <2> QED
    BY <2>1, <2>2, FlightSame DEF TasksInv
<1>2. ASSUME NEW t \in Thread, NEW n \in Node, AddReadyNode(t, n)
      PROVE  TasksInv'
  <2>1. UNCHANGED <<tail, ending>>
    BY <1>2 DEF AddReadyNode
  <2>2. status[n] = "prepared"
    BY <1>2 DEF AddReadyNode, PreparedInv, Claims
  <2>3. /\ tasks' = tasks + Cardinality(InFlight)' - Cardinality(InFlight)
        /\ Cardinality(InFlight)' \in Int
    BY <1>0, <1>2, <2>2, AddCounts, Runners DEF AddReadyNode
  <2> QED
    BY <1>0, <2>1, <2>3 DEF TasksInv
<1>3. ASSUME NEW t \in Thread, NEW s \in Source, ScheduleUnthrottled(t, s)
      PROVE  TasksInv'
  <2>1. UNCHANGED <<tail, ending>>
    BY <1>3 DEF ScheduleUnthrottled
  <2>3. /\ tasks' = tasks + Cardinality(InFlight)' - Cardinality(InFlight)
        /\ Cardinality(InFlight)' \in Int
    BY <1>0, <1>3, AddCounts, Runners DEF ScheduleUnthrottled
  <2> QED
    BY <1>0, <2>1, <2>3 DEF TasksInv
<1>4. ASSUME NEW n \in Runner, Run(n)
      PROVE  TasksInv'
  <2>1. UNCHANGED <<tail, tasks, ending>>
    BY <1>4 DEF Run
  <2>2. \A m \in Runner : m \in InFlight' <=> m \in InFlight
    <3>1. /\ status[n] \in {"queued", "toClose"}
          /\ \/ status' = [status EXCEPT ![n] = "running"]
             \/ status' = [status EXCEPT ![n] = "closing"]
      BY <1>4 DEF Run
    <3> QED
      BY <3>1 DEF InFlight, WorkTypes
  <2> QED
    BY <2>1, <2>2, FlightSame DEF TasksInv
<1>5. ASSUME NEW n \in Runner, EndRun(n)
      PROVE  TasksInv'
  <2>1. Cardinality(InFlight)' = Cardinality(InFlight) - 1
    <3>1. status[n] = "running" /\ status' = [status EXCEPT ![n] = "open"]
      BY <1>5 DEF EndRun
    <3>2. /\ n \in InFlight /\ n \notin InFlight'
          /\ \A m \in Runner \ {n} : m \in InFlight' <=> m \in InFlight
      BY <3>1 DEF InFlight, WorkTypes
    <3> QED
      BY <3>2, FlightLess
  <2>2. UNCHANGED tasks
    BY <1>5 DEF EndRun
  <2>3. CASE \E w \in {"check", "add"} : <<n, w>> \in tail
    <3>1. ending' = ending + 1 /\ UNCHANGED tail
      BY <1>5, <2>3 DEF EndRun
    <3> QED
      BY <1>0, <2>1, <2>2, <3>1 DEF TasksInv
  <2>4. CASE ~\E w \in {"check", "add"} : <<n, w>> \in tail
    <3>1. /\ <<n, "check">> \notin tail /\ UNCHANGED ending
          /\ tail' = tail \cup {<<n, "check">>}
      BY <1>5, <2>4 DEF EndRun
    <3>2. Cardinality(tail)' = Cardinality(tail) + 1
      BY <3>1, TailMore
    <3> QED
      BY <1>0, <2>1, <2>2, <3>1, <3>2 DEF TasksInv
  <2> QED
    BY <2>3, <2>4
<1>6. ASSUME NEW n \in Runner, EndClose(n)
      PROVE  TasksInv'
  <2>1. Cardinality(InFlight)' = Cardinality(InFlight) - 1
    <3>1. status[n] = "closing" /\ status' = [status EXCEPT ![n] = "closed"]
      BY <1>6 DEF EndClose
    <3>2. /\ n \in InFlight /\ n \notin InFlight'
          /\ \A m \in Runner \ {n} : m \in InFlight' <=> m \in InFlight
      BY <3>1 DEF InFlight, WorkTypes
    <3> QED
      BY <3>2, FlightLess
  <2>2. UNCHANGED <<tail, ending>> /\ tasks' = tasks - 1
    BY <1>6 DEF EndClose, FinishTask
  <2> QED
    BY <1>0, <2>1, <2>2 DEF TasksInv
<1>7. ASSUME NEW n \in Runner, CheckThrottled(n)
      PROVE  TasksInv'
  <2>1. /\ <<n, "check">> \in tail /\ <<n, "add">> \notin tail
        /\ UNCHANGED <<status, tasks>>
    BY <1>7 DEF CheckThrottled, LoopInv
  <2>2. Cardinality(InFlight)' = Cardinality(InFlight)
    BY <2>1 DEF InFlight
  <2>3. CASE IsNodeThrottled(n)
    <3>1. tail' = tail \ {<<n, "check">>} /\ ending' = ending + 1
      BY <1>7, <2>3 DEF CheckThrottled
    <3>2. Cardinality(tail)' = Cardinality(tail) - 1
      BY <2>1, <3>1, TailLess
    <3> QED
      <4> DEFINE k == Cardinality(InFlight)  m == Cardinality(tail)
      <4>1. ending \in Int /\ m \in Int /\ k \in Int
        BY <1>0 DEF WorkTypes
      <4>2. tasks = k + m + ending
        BY DEF TasksInv
      <4>3. tasks' = Cardinality(InFlight)' + Cardinality(tail') + ending'
        BY <2>1, <2>2, <3>1, <3>2, <4>1, <4>2
      <4> QED
        BY <4>3 DEF TasksInv
  <2>4. CASE ~IsNodeThrottled(n)
    <3>1. tail' = (tail \ {<<n, "check">>}) \cup {<<n, "add">>} /\ UNCHANGED ending
      BY <1>7, <2>4 DEF CheckThrottled
    <3>2. Cardinality(tail)' = Cardinality(tail)
      BY <2>1, <3>1, TailMoves
    <3> QED
      BY <1>0, <2>1, <2>2, <3>1, <3>2 DEF TasksInv
  <2> QED
    BY <2>3, <2>4
<1>8. ASSUME NEW n \in Runner, AddSource(n)
      PROVE  TasksInv'
  <2>1. /\ <<n, "add">> \in tail /\ tail' = tail \ {<<n, "add">>} /\ ending' = ending + 1
    BY <1>8 DEF AddSource
  <2>2. n \notin Node
    BY <2>1, Runners DEF WorkTypes
  <2>3. /\ tasks' = tasks + Cardinality(InFlight)' - Cardinality(InFlight)
        /\ Cardinality(InFlight)' \in Int
    BY <1>0, <1>8, <2>2, AddCounts DEF AddSource
  <2>4. Cardinality(tail)' = Cardinality(tail) - 1
    BY <2>1, TailLess
  <2> QED
    BY <1>0, <2>1, <2>3, <2>4 DEF TasksInv
<1>9. ASSUME NEW n \in Runner, EndLoop(n)
      PROVE  TasksInv'
  <2>1. tasks' = tasks - 1 /\ UNCHANGED status
    BY <1>9 DEF EndLoop, FinishTask
  <2>2. Cardinality(InFlight)' = Cardinality(InFlight)
    BY <2>1 DEF InFlight
  <2>3. CASE <<n, "check">> \in tail /\ tail' = tail \ {<<n, "check">>} /\ UNCHANGED ending
    <3>1. Cardinality(tail)' = Cardinality(tail) - 1
      BY <2>3, TailLess
    <3> QED
      BY <1>0, <2>1, <2>2, <2>3, <3>1 DEF TasksInv
  <2>4. CASE ending' = ending - 1 /\ UNCHANGED tail
    BY <1>0, <2>1, <2>2, <2>4 DEF TasksInv
  <2> QED
    BY <1>9, <2>3, <2>4 DEF EndLoop
<1>10. ASSUME NEW t \in Thread, NEW e \in Stream,
              \/ UpdateThrottledNodes(t, e) \/ AddPacketTo(t, e)
              \/ CloseStream(t, e) \/ TakePacket(t, e)
       PROVE  TasksInv'
  BY <1>10, SameTasks DEF UpdateThrottledNodes, AddPacketTo, CloseStream, TakePacket
<1>11. CASE Handle
  BY <1>11, SameTasks
     DEF Handle, HandleIdle, FindFullStreams, ReadQueueSize, GrowStream, Relock
<1>12. CASE ContinueCall \/ Cancel \/ \E i \in Input : BeginAdd(i) \/ CloseInput(i)
  BY <1>12, SameTasks
     DEF ContinueCall, EndWait, AddPacket, AddedPacket, ClosedInput, Cancel,
         BeginAdd, CloseInput
<1>13. ASSUME NEW e \in Stream, Poll(e)
       PROVE  TasksInv'
  BY <1>13, SameTasks DEF Poll
<1>14. CASE UNCHANGED vars
  BY <1>14, SameTasks DEF vars
<1> QED
  BY <1>1, <1>2, <1>3, <1>4, <1>5, <1>6, <1>7, <1>8, <1>9, <1>10, <1>11, <1>12, <1>13, <1>14
     DEF Next, Work, Continue, RunTask

\* The steps and the scheduling loops.
LEMMA LoopStep ==
  ASSUME WorkTypes, LoopInv, [Next]_vars
  PROVE  LoopInv'
<1>1. ASSUME NEW n \in Runner, EndRun(n) \/ CheckThrottled(n) \/ AddSource(n) \/ EndLoop(n)
      PROVE  LoopInv'
  <2>1. CASE EndRun(n)
    BY <2>1 DEF EndRun, LoopInv
  <2>2. CASE CheckThrottled(n)
    BY <2>2 DEF CheckThrottled, LoopInv
  <2>3. CASE AddSource(n) \/ EndLoop(n)
    BY <2>3 DEF AddSource, EndLoop, LoopInv
  <2> QED
    BY <1>1, <2>1, <2>2, <2>3
<1>2. CASE UNCHANGED tail
  BY <1>2 DEF LoopInv
<1>3. \/ UNCHANGED tail
      \/ \E n \in Runner : EndRun(n) \/ CheckThrottled(n) \/ AddSource(n) \/ EndLoop(n)
  <2>1. ASSUME NEW t \in Thread, Continue(t)
        PROVE  UNCHANGED tail
    <3>1. ASSUME NEW e \in Stream,
                 \/ UpdateThrottledNodes(t, e) \/ AddPacketTo(t, e)
                 \/ CloseStream(t, e) \/ TakePacket(t, e)
          PROVE  UNCHANGED tail
      BY <3>1 DEF UpdateThrottledNodes, AddPacketTo, CloseStream, TakePacket, taskVars
    <3>2. CASE \E s \in Source : ScheduleUnthrottled(t, s)
      BY <3>2 DEF ScheduleUnthrottled
    <3>3. ASSUME NEW n \in Node, CheckNode(t, n) \/ AddReadyNode(t, n)
          PROVE  UNCHANGED tail
      BY <3>3 DEF CheckNode, AddReadyNode
    <3> QED
      BY <2>1, <3>1, <3>2, <3>3 DEF Continue
  <2>2. ASSUME NEW n \in Runner, Run(n) \/ EndClose(n)
        PROVE  UNCHANGED tail
    BY <2>2 DEF Run, EndClose
  <2>3. CASE Handle
    BY <2>3 DEF Handle, HandleIdle, FindFullStreams, ReadQueueSize, GrowStream,
       Relock, taskVars
  <2>4. CASE ContinueCall \/ Cancel \/ \E i \in Input : BeginAdd(i) \/ CloseInput(i)
    BY <2>4
       DEF ContinueCall, EndWait, AddPacket, AddedPacket, ClosedInput, Cancel,
           BeginAdd, CloseInput, taskVars
  <2>5. CASE \E e \in Stream : Poll(e)
    BY <2>5 DEF Poll, taskVars
  <2>6. CASE UNCHANGED vars
    BY <2>6 DEF vars, taskVars
  <2> QED
    BY <2>1, <2>2, <2>3, <2>4, <2>5, <2>6 DEF Next, Work, RunTask
<1> QED
  BY <1>1, <1>2, <1>3

\* The call keeps what AddPacketToInputStream has looked at.
LEMMA CallStep ==
  ASSUME WorkTypes, CallInv, [Next]_vars
  PROVE  CallInv'
<1> USE DEF CallInv
<1>1. ASSUME UNCHANGED <<ticks, at>>, pc' \in {pc, "none", "handling"}
      PROVE  CallInv'
  BY <1>1
<1>2. ASSUME NEW t \in Thread, Continue(t)
      PROVE  CallInv'
  <2>1. ASSUME NEW e \in Stream,
               \/ UpdateThrottledNodes(t, e) \/ AddPacketTo(t, e)
               \/ CloseStream(t, e) \/ TakePacket(t, e)
        PROVE  UNCHANGED <<ticks, pc, at>>
    BY <2>1 DEF UpdateThrottledNodes, AddPacketTo, CloseStream, TakePacket, appVars
  <2>2. CASE \E s \in Source : ScheduleUnthrottled(t, s)
    BY <2>2 DEF ScheduleUnthrottled, appVars
  <2>3. ASSUME NEW n \in Node, CheckNode(t, n) \/ AddReadyNode(t, n)
        PROVE  UNCHANGED <<ticks, pc, at>>
    BY <2>3 DEF CheckNode, AddReadyNode, appVars
  <2> QED
    BY <1>2, <2>1, <2>2, <2>3 DEF Continue
<1>3. ASSUME NEW n \in Runner, Run(n)
      PROVE  CallInv'
  <2>1. UNCHANGED <<pc, at>>
    BY <1>3 DEF Run, appVars
  <2>2. UNCHANGED ticks \/ (n \in Source /\ ticks' = [ticks EXCEPT ![n] = ticks[n] - 1])
    BY <1>3 DEF Run
  <2>3. \A i \in Input : ticks'[i] = ticks[i]
    BY <2>2, Runners DEF WorkTypes
  <2> QED
    BY <2>1, <2>3
<1>4. ASSUME NEW n \in Runner,
             EndRun(n) \/ EndClose(n) \/ CheckThrottled(n) \/ AddSource(n) \/ EndLoop(n)
      PROVE  CallInv'
  BY <1>4, <1>1 DEF EndRun, EndClose, CheckThrottled, AddSource, EndLoop, FinishTask,
     EnterHandleIdle, appVars
<1>5. CASE Handle
  BY <1>5, <1>1 DEF Handle, HandleIdle, FindFullStreams, ReadQueueSize, GrowStream, Relock,
     LeaveHandleIdle, appVars
<1>6. CASE EndWait
  <2>1. at \in Input /\ ticks[at] > 0 /\ UNCHANGED <<ticks, at>>
    BY <1>6 DEF EndWait, Calls
  <2> QED
    BY <2>1
<1>7. CASE AddPacket
  BY <1>7 DEF AddPacket
<1>8. CASE AddedPacket \/ ClosedInput \/ Cancel
  BY <1>8, <1>1 DEF AddedPacket, ClosedInput, Cancel, EnterHandleIdle
<1>9. ASSUME NEW i \in Input, BeginAdd(i) \/ CloseInput(i)
      PROVE  CallInv'
  BY <1>9 DEF BeginAdd, CloseInput
<1>10. CASE \E e \in Stream : Poll(e)
  BY <1>10 DEF Poll, appVars
<1>11. CASE UNCHANGED vars
  BY <1>11 DEF vars, appVars
<1> QED
  BY <1>2, <1>3, <1>4, <1>5, <1>6, <1>7, <1>8, <1>9, <1>10, <1>11
     DEF Next, Work, RunTask, ContinueCall

\* A thread that frees sources has no callback to make, and when it is inside
\* HandleIdle no stream to grow.
FreesInv ==
  /\ \A t \in Thread : owes[t] # {} => frees[t] = {}
  /\ growing # <<>> => frees[Handler] = {}

\* Steps that do not free, that owe, and all of them.
LEMMA SameFrees ==
  ASSUME FreesInv, UNCHANGED <<owes, frees, growing>>
  PROVE  FreesInv'
  BY DEF FreesInv

LEMMA OwesFrees ==
  ASSUME FreesInv, WorkTypes, NEW t \in Thread, frees[t] = {}, NEW S,
         owes' = [owes EXCEPT ![t] = S], UNCHANGED frees,
         growing' \in {growing, <<>>}
  PROVE  FreesInv'
  BY DEF FreesInv, WorkTypes

LEMMA FreesStep ==
  ASSUME WorkTypes, HandlerInv, FreesInv, [Next]_vars
  PROVE  FreesInv'
<1> USE Threads
<1>1. ASSUME NEW t \in Thread, NEW e \in Stream, UpdateThrottledNodes(t, e)
      PROVE  FreesInv'
  <2>1. /\ owes[t] # {} /\ owes' = [owes EXCEPT ![t] = {}] /\ UNCHANGED growing
        /\ t = Handler => growing = <<>>
    BY <1>1 DEF UpdateThrottledNodes, HandlerInv, idleVars
  <2>2. PICK S : frees' = frees \/ frees' = [frees EXCEPT ![t] = S]
    BY <1>1 DEF UpdateThrottledNodes
  <2> QED
    BY <2>1, <2>2 DEF FreesInv, WorkTypes
<1>2. ASSUME NEW t \in Thread, NEW e \in Stream, AddPacketTo(t, e)
      PROVE  FreesInv'
  <2>1. PICK S : owes' = [owes EXCEPT ![t] = S]
    BY <1>2 DEF AddPacketTo, Owe
  <2>2. frees[t] = {} /\ UNCHANGED <<frees, growing>>
    BY <1>2 DEF AddPacketTo, CalledBack, idleVars
  <2> QED
    BY <2>1, <2>2, OwesFrees
<1>3. ASSUME NEW t \in Thread, NEW e \in Stream, TakePacket(t, e)
      PROVE  FreesInv'
  <2>1. PICK S : owes' = [owes EXCEPT ![t] = S]
    BY <1>3 DEF TakePacket, Owe
  <2>2. frees[t] = {} /\ UNCHANGED <<frees, growing>>
    BY <1>3 DEF TakePacket, CalledBack, idleVars
  <2> QED
    BY <2>1, <2>2, OwesFrees
<1>4. ASSUME NEW t \in Thread, NEW e \in Stream, CloseStream(t, e)
      PROVE  FreesInv'
  BY <1>4, SameFrees DEF CloseStream, idleVars
<1>5. ASSUME NEW t \in Thread, NEW s \in Source, ScheduleUnthrottled(t, s)
      PROVE  FreesInv'
  <2>1. UNCHANGED <<owes, growing>> /\ frees' = [frees EXCEPT ![t] = frees[t] \ {s}]
    BY <1>5 DEF ScheduleUnthrottled, idleVars
  <2> QED
    BY <2>1 DEF FreesInv, WorkTypes
<1>6. ASSUME NEW t \in Thread, NEW n \in Node, CheckNode(t, n) \/ AddReadyNode(t, n)
      PROVE  FreesInv'
  BY <1>6, SameFrees DEF CheckNode, AddReadyNode, idleVars
<1>7. ASSUME NEW n \in Runner, RunTask(n)
      PROVE  FreesInv'
  BY <1>7, SameFrees DEF RunTask, Run, EndRun, EndClose, CheckThrottled, AddSource,
     EndLoop, workVars, idleVars
<1>8. CASE HandleIdle \/ FindFullStreams \/ Relock
  BY <1>8, SameFrees DEF HandleIdle, FindFullStreams, Relock, workVars
<1>9. ASSUME NEW e \in Stream, ReadQueueSize(e)
      PROVE  FreesInv'
  BY <1>9 DEF ReadQueueSize, CalledBack, FreesInv, workVars
<1>10. CASE GrowStream
  <2>1. PICK S : owes' = [owes EXCEPT ![Handler] = S]
    BY <1>10 DEF GrowStream, Owe
  <2>2. frees[Handler] = {} /\ UNCHANGED frees /\ growing' = <<>>
    BY <1>10 DEF GrowStream, FreesInv
  <2> QED
    BY <2>1, <2>2, OwesFrees
<1>11. ASSUME NEW e \in Stream, Poll(e)
      PROVE  FreesInv'
  <2>1. PICK S : owes' = [owes EXCEPT ![Poller] = S]
    BY <1>11 DEF Poll, Owe
  <2>2. frees[Poller] = {} /\ UNCHANGED <<frees, growing>>
    BY <1>11 DEF Poll, CalledBack, idleVars
  <2> QED
    BY <2>1, <2>2, OwesFrees
<1>12. CASE ContinueCall \/ Cancel \/ \E i \in Input : BeginAdd(i) \/ CloseInput(i)
  BY <1>12, SameFrees
     DEF ContinueCall, EndWait, AddPacket, AddedPacket, ClosedInput, Cancel,
         BeginAdd, CloseInput, workVars, idleVars
<1>13. CASE UNCHANGED vars
  BY <1>13, SameFrees DEF vars, workVars, idleVars
<1> QED
  BY <1>1, <1>2, <1>3, <1>4, <1>5, <1>6, <1>7, <1>8, <1>9, <1>10, <1>11, <1>12, <1>13
     DEF Next, Handle, Work, Continue

\* A source that is not throttled is being added, or its worker is about to look.
Served(s) ==
  \/ \E t \in Thread : s \in frees[t]
  \/ {<<s, "check">>, <<s, "add">>} \cap tail # {}
SourcesServed ==
  \A s \in Source : status[s] = "open" /\ full[s] = {} /\ ~hasError => Served(s)

\* Steps that keep the sources served, and all of them.
LEMMA KeepServed ==
  ASSUME SourcesServed,
         \A s \in Source : status'[s] = "open" /\ full'[s] = {} /\ ~hasError' =>
           \/ status[s] = "open" /\ full[s] = {} /\ ~hasError /\ (Served(s) => Served(s)')
           \/ Served(s)'
  PROVE  SourcesServed'
  BY DEF SourcesServed

LEMMA SameServed ==
  ASSUME SourcesServed, UNCHANGED <<full, frees, tail>>,
         \A s \in Source : status'[s] = "open" => status[s] = "open",
         hasError => hasError'
  PROVE  SourcesServed'
  BY DEF SourcesServed, Served

LEMMA ServedStep ==
  ASSUME WorkTypes, FreesInv, ThrottlingIsCurrent, SourcesServed, [Next]_vars
  PROVE  SourcesServed'
<1> USE Runners
<1>1. ASSUME NEW t \in Thread, NEW e \in Stream, UpdateThrottledNodes(t, e)
      PROVE  SourcesServed'
  <2> DEFINE now == IF Full(e) THEN [f \in Upstream(e) |-> full[f] \cup {e}]
                    ELSE [f \in Upstream(e) |-> full[f] \ {e}]
             freed == {f \in Upstream(e) : now[f] = {}}
             R == {s \in freed \cap Source : status[s] # "closed"}
  <2>1. /\ frees[t] = {} /\ UNCHANGED <<tail, status, hasError>>
    BY <1>1 DEF UpdateThrottledNodes, FreesInv, taskVars, flags
  <2>2. CASE UNCHANGED <<tableVars, frees>>
    BY <2>1, <2>2, SameServed DEF tableVars
  <2>3. CASE /\ full' = [f \in Feeder |-> IF f \in Upstream(e) THEN now[f] ELSE full[f]]
             /\ frees' = [frees EXCEPT ![t] = R]
    <3> SUFFICES ASSUME NEW s \in Source, status[s] = "open", full'[s] = {}, ~hasError
                 PROVE  Served(s)'
      BY <2>1 DEF SourcesServed
    <3>1. CASE s \in Upstream(e)
      <4>1. s \in freed
        BY <2>3, <3>1
      <4>2. s \in R
        BY <4>1
      <4>3. frees'[t] = R
        BY <2>3 DEF WorkTypes
      <4> QED
        BY <4>2, <4>3 DEF Served
    <3>2. CASE s \notin Upstream(e)
      <4>1. full[s] = {}
        BY <2>3, <3>2
      <4>2. Served(s)
        BY <4>1 DEF SourcesServed
      <4>3. \A u \in Thread : s \in frees[u] => s \in frees'[u]
        BY <2>1, <2>3 DEF WorkTypes
      <4> QED
        BY <2>1, <4>2, <4>3 DEF Served
    <3> QED
      BY <3>1, <3>2
  <2> QED
    BY <1>1, <2>2, <2>3 DEF UpdateThrottledNodes
<1>2. ASSUME NEW t \in Thread, NEW s \in Source, ScheduleUnthrottled(t, s)
      PROVE  SourcesServed'
  <2>1. /\ UNCHANGED <<full, tail, hasError>>
        /\ frees' = [frees EXCEPT ![t] = frees[t] \ {s}]
        /\ ~hasError => status'[s] # "open"
        /\ \A x \in Source : x # s => status'[x] = status[x]
    BY <1>2 DEF ScheduleUnthrottled, AddNode, WorkTypes, tableVars, flags
  <2>2. \A x \in Source : x # s /\ Served(x) => Served(x)'
    BY <2>1 DEF Served, WorkTypes
  <2> QED
    BY <2>1, <2>2, KeepServed
<1>3. ASSUME NEW n \in Runner, EndRun(n)
      PROVE  SourcesServed'
  <2>1. /\ UNCHANGED <<full, frees, hasError>> /\ tail \subseteq tail'
        /\ \A x \in Source : x # n => status'[x] = status[x]
        /\ {<<n, "check">>, <<n, "add">>} \cap tail' # {}
    BY <1>3 DEF EndRun, WorkTypes, tableVars, flags
  <2>2. \A x \in Source : Served(x) => Served(x)'
    BY <2>1 DEF Served
  <2>3. n \in Source => Served(n)'
    BY <2>1 DEF Served
  <2> QED
    BY <2>1, <2>2, <2>3, KeepServed
<1>4. ASSUME NEW n \in Runner, CheckThrottled(n)
      PROVE  SourcesServed'
  <2>1. /\ UNCHANGED <<full, frees, status, hasError>>
        /\ full[n] = {} => <<n, "add">> \in tail'
        /\ \A x, w : x # n /\ <<x, w>> \in tail => <<x, w>> \in tail'
    BY <1>4 DEF CheckThrottled, IsNodeThrottled, tableVars, workVars, flags
  <2>2. \A x \in Source : (x = n => full[n] = {}) /\ Served(x) => Served(x)'
    BY <2>1 DEF Served
  <2> QED
    BY <2>1, <2>2, KeepServed
<1>5. ASSUME NEW n \in Runner, AddSource(n)
      PROVE  SourcesServed'
  <2>1. /\ UNCHANGED <<full, frees, hasError>>
        /\ ~hasError => status'[n] # "open"
        /\ \A x \in Source : x # n => status'[x] = status[x]
        /\ \A x, w : x # n /\ <<x, w>> \in tail => <<x, w>> \in tail'
    BY <1>5 DEF AddSource, AddNode, WorkTypes, tableVars, workVars, flags
  <2>2. \A x \in Source : x # n /\ Served(x) => Served(x)'
    BY <2>1 DEF Served
  <2> QED
    BY <2>1, <2>2, KeepServed
<1>6. ASSUME NEW n \in Runner, EndLoop(n)
      PROVE  SourcesServed'
  <2>1. /\ UNCHANGED <<full, frees, status, hasError>>
        /\ \A x, w : x \in Source /\ <<x, w>> \in tail => <<x, w>> \in tail'
    BY <1>6 DEF EndLoop, tableVars, workVars, flags
  <2>2. \A x \in Source : Served(x) => Served(x)'
    BY <2>1 DEF Served
  <2> QED
    BY <2>1, <2>2, KeepServed
<1>7. ASSUME NEW t \in Thread, NEW n \in Node, CheckNode(t, n) \/ AddReadyNode(t, n)
      PROVE  SourcesServed'
  <2>1. UNCHANGED <<full, frees, tail, hasError>>
    BY <1>7 DEF CheckNode, AddReadyNode, tableVars, flags
  <2>2. \A s \in Source : status'[s] = status[s]
    BY <1>7 DEF CheckNode, AddReadyNode, AddNode, WorkTypes
  <2> QED
    BY <2>1, <2>2, SameServed
<1>8. ASSUME NEW n \in Runner, Run(n) \/ EndClose(n)
      PROVE  SourcesServed'
  <2>1. UNCHANGED <<full, frees, tail, hasError>>
    BY <1>8 DEF Run, EndClose, tableVars, flags, workVars
  <2>2. \A s \in Source : status'[s] = "open" => status[s] = "open"
    BY <1>8 DEF Run, EndClose, WorkTypes
  <2> QED
    BY <2>1, <2>2, SameServed
<1>9. ASSUME NEW t \in Thread, NEW e \in Stream,
             AddPacketTo(t, e) \/ CloseStream(t, e) \/ TakePacket(t, e)
      PROVE  SourcesServed'
  BY <1>9, SameServed DEF AddPacketTo, CloseStream, TakePacket, tableVars, taskVars, flags
<1>10. CASE Handle
  BY <1>10, SameServed
     DEF Handle, HandleIdle, FindFullStreams, ReadQueueSize, GrowStream, Relock,
         tableVars, workVars, taskVars, flags
<1>11. CASE ContinueCall \/ Cancel \/ \E i \in Input : BeginAdd(i) \/ CloseInput(i)
  <2>1. CASE EndWait \/ \E i \in Input : BeginAdd(i) \/ CloseInput(i)
    BY <2>1, SameServed
       DEF EndWait, BeginAdd, CloseInput, tableVars, workVars, taskVars, flags
  <2>2. CASE AddPacket
    BY <2>2, SameServed DEF AddPacket, tableVars, taskVars
  <2>3. CASE AddedPacket
    BY <2>3, SameServed DEF AddedPacket, tableVars, workVars, taskVars, flags
  <2>4. CASE ClosedInput
    BY <2>4, SameServed DEF ClosedInput, tableVars, workVars, taskVars
  <2>5. CASE Cancel
    BY <2>5, SameServed DEF Cancel, tableVars, workVars, taskVars
  <2> QED
    BY <1>11, <2>1, <2>2, <2>3, <2>4, <2>5 DEF ContinueCall
<1>12. ASSUME NEW e \in Stream, Poll(e)
       PROVE  SourcesServed'
  BY <1>12, SameServed DEF Poll, tableVars, taskVars, flags
<1>13. CASE UNCHANGED vars
  BY <1>13, SameServed DEF vars, tableVars, workVars, taskVars, flags
<1> QED
  BY <1>1, <1>2, <1>3, <1>4, <1>5, <1>6, <1>7, <1>8, <1>9, <1>10, <1>11, <1>12, <1>13
     DEF Next, Work, Continue, RunTask

\* A call waits for an input that is held back, unless it has been woken.
WaitInv == pc = "wait" /\ ~woken => full[at] # {}

\* No wake-up is lost between the look at the table and the wait.
LEMMA WaitStep ==
  ASSUME WorkTypes, ControlTypes, CallInv, WaitInv, [Next]_vars
  PROVE  WaitInv'
<1> USE Runners DEF WaitInv
<1>1. ASSUME UNCHANGED <<full, woken, at>>, pc' = "wait" => pc = "wait"
      PROVE  WaitInv'
  BY <1>1
<1>2. ASSUME NEW t \in Thread, NEW e \in Stream, UpdateThrottledNodes(t, e)
      PROVE  WaitInv'
  <2> DEFINE now == IF Full(e) THEN [f \in Upstream(e) |-> full[f] \cup {e}]
                    ELSE [f \in Upstream(e) |-> full[f] \ {e}]
             freed == {f \in Upstream(e) : now[f] = {}}
  <2>1. UNCHANGED <<pc, at>>
    BY <1>2 DEF UpdateThrottledNodes, appVars
  <2>2. CASE UNCHANGED <<tableVars, frees>>
    BY <1>1, <2>1, <2>2 DEF tableVars
  <2>3. CASE /\ full' = [f \in Feeder |-> IF f \in Upstream(e) THEN now[f] ELSE full[f]]
             /\ woken' = (woken \/ Wakes(freed))
    <3> SUFFICES ASSUME pc = "wait", ~woken', full'[at] = {} PROVE FALSE
      BY <2>1
    <3>1. at \in Input /\ at \in Feeder /\ ~woken /\ ~Wakes(freed)
      <4>1. woken' <=> (woken \/ Wakes(freed))
        BY <2>3
      <4> QED
        BY <4>1 DEF CallInv
    <3>2. full[at] # {}
      BY <3>1
    <3>3. at \in Upstream(e) /\ now[at] = {}
      BY <2>3, <3>1, <3>2
    <3>4. at \in freed \cap Input
      BY <3>1, <3>3
    <3> QED
      BY <3>1, <3>4 DEF Wakes
  <2> QED
    BY <1>2, <2>2, <2>3 DEF UpdateThrottledNodes
<1>3. ASSUME NEW t \in Thread, Continue(t), ~\E e \in Stream : UpdateThrottledNodes(t, e)
      PROVE  WaitInv'
  <2>1. ASSUME NEW e \in Stream,
               AddPacketTo(t, e) \/ CloseStream(t, e) \/ TakePacket(t, e)
        PROVE  UNCHANGED <<full, woken, pc, at>>
    BY <2>1 DEF AddPacketTo, CloseStream, TakePacket, appVars, tableVars
  <2>2. CASE \E s \in Source : ScheduleUnthrottled(t, s)
    BY <2>2, <1>1 DEF ScheduleUnthrottled, appVars, tableVars
  <2>3. ASSUME NEW n \in Node, CheckNode(t, n) \/ AddReadyNode(t, n)
        PROVE  UNCHANGED <<full, woken, pc, at>>
    BY <2>3 DEF CheckNode, AddReadyNode, appVars, tableVars
  <2> QED
    BY <1>1, <1>3, <2>1, <2>2, <2>3 DEF Continue
<1>4. ASSUME NEW n \in Runner, RunTask(n)
      PROVE  WaitInv'
  BY <1>4, <1>1 DEF RunTask, Run, EndRun, EndClose, CheckThrottled, AddSource, EndLoop,
     FinishTask, EnterHandleIdle, appVars, tableVars
<1>5. CASE Handle
  BY <1>5, <1>1 DEF Handle, HandleIdle, FindFullStreams, ReadQueueSize, GrowStream, Relock,
     LeaveHandleIdle, appVars, tableVars
<1>6. ASSUME NEW i \in Input, UNCHANGED full, at' = i, Look(i)
      PROVE  WaitInv'
  BY <1>6 DEF Look
<1>7. CASE EndWait
  BY <1>6, <1>7 DEF EndWait, Calls, CallInv
<1>8. CASE AddPacket
  BY <1>8 DEF AddPacket
<1>9. CASE AddedPacket \/ ClosedInput \/ Cancel
  BY <1>9, <1>1 DEF AddedPacket, ClosedInput, Cancel, EnterHandleIdle, tableVars
<1>10. ASSUME NEW i \in Input, BeginAdd(i) \/ CloseInput(i)
       PROVE  WaitInv'
  BY <1>6, <1>10 DEF BeginAdd, CloseInput
<1>11. CASE \E e \in Stream : Poll(e)
  BY <1>11, <1>1 DEF Poll, appVars, tableVars
<1>12. CASE UNCHANGED vars
  BY <1>12, <1>1 DEF vars, appVars, tableVars
<1> QED
  BY <1>2, <1>3, <1>4, <1>5, <1>7, <1>8, <1>9, <1>10, <1>11, <1>12
     DEF Next, Work, ContinueCall

\* The invariant behind NobodyForgotten.
ServedInv ==
  /\ WorkTypes /\ ControlTypes /\ PreparedInv /\ TasksInv /\ LoopInv /\ CallInv
  /\ FreesInv /\ SourcesServed /\ WaitInv

\* It holds at the start of the run, and from there on.
LEMMA InitServed == Init => ServedInv
<1> SUFFICES ASSUME Init PROVE ServedInv
  OBVIOUS
<1> USE Runners, Threads, ThrottlingAssumption DEF Init
<1>1. WorkTypes
  <2>1. Nat \cup {NoLimit} = Nat \cup {NoLimit} /\ 0 \in Nat
    OBVIOUS
  <2>2. queue \in [Stream -> Nat] /\ limit \in [Stream -> Nat \cup {NoLimit}]
    OBVIOUS
  <2>3. reported \subseteq Stream /\ full \in [Feeder -> SUBSET Stream]
    OBVIOUS
  <2>4. status \in [Runner -> {"open", "prepared", "queued", "toClose", "running",
                               "closing", "closed"}]
    OBVIOUS
  <2>5. ticks \in [Feeder -> Nat] /\ \A f \in Feeder : ticks[f] <= MaxPackets[f]
    OBVIOUS
  <2> QED
    BY <2>2, <2>3, <2>4, <2>5 DEF WorkTypes
<1>2. ControlTypes
  BY DEF ControlTypes
<1>3. PreparedInv /\ LoopInv /\ CallInv /\ FreesInv /\ WaitInv
  BY DEF PreparedInv, LoopInv, CallInv, FreesInv, WaitInv
<1>4. TasksInv
  <2>1. InFlight = {n \in Runner : status[n] = "queued"}
    BY DEF InFlight
  <2>2. Cardinality(tail) = 0
    BY FS_EmptySet
  <2> QED
    BY <1>1, <2>1, <2>2, CountsFinite DEF TasksInv
<1>5. SourcesServed
  BY DEF SourcesServed, IsNodeThrottled
<1> QED
  BY <1>1, <1>2, <1>3, <1>4, <1>5 DEF ServedInv

LEMMA TableInvariant == Spec => []IInv
BY InitIInv, NextIInv, PTL DEF Spec

LEMMA ServedInvariant == Spec => []ServedInv
<1>1. IInv /\ IInv' /\ ServedInv /\ [Next]_vars => ServedInv'
  <2> SUFFICES ASSUME IInv, IInv', ServedInv, [Next]_vars
               PROVE  ServedInv'
    OBVIOUS
  <2> USE DEF ServedInv
  <2>1. TableTypes' /\ HandlerInv /\ ThrottlingIsCurrent
    BY DEF IInv
  <2>2. WorkTypes' /\ ControlTypes'
    BY <2>1, WorkTypesStep, ControlStep
  <2>3. PreparedInv'
    BY PreparedStep DEF WorkTypes, PreparedTypes
  <2>4. TasksInv' /\ LoopInv' /\ CallInv'
    BY TasksStep, LoopStep, CallStep
  <2>5. FreesInv' /\ SourcesServed' /\ WaitInv'
    BY <2>1, FreesStep, ServedStep, WaitStep
  <2> QED
    BY <2>2, <2>3, <2>4, <2>5
<1> QED
  BY <1>1, InitServed, TableInvariant, PTL DEF Spec

\* The types follow: the counters of tasks and of throttled inputs are bounded
\* by what they count.
LEMMA TypesFollow == IInv /\ ServedInv => TypeOK
<1> SUFFICES ASSUME IInv, ServedInv PROVE TypeOK
  OBVIOUS
<1>1. throttled \in 0 .. Cardinality(Input)
  <2> DEFINE held == {i \in Input : full[i] # {}}
  <2>1. IsFiniteSet(Input)
    <3>1. Input \subseteq Feeder
      BY DEF Feeder
    <3> QED
      BY <3>1, ThrottlingAssumption, FS_Subset
  <2>2. held \subseteq Input
    OBVIOUS
  <2>3. throttled = Cardinality(held)
    BY DEF IInv, ThrottlingIsCurrent
  <2> HIDE DEF held
  <2>4. /\ Cardinality(held) <= Cardinality(Input)
        /\ Cardinality(held) \in Nat /\ Cardinality(Input) \in Nat
    BY <2>1, <2>2, FS_Subset, FS_CardinalityType
  <2> QED
    BY <2>3, <2>4
<1>2. tasks \in Nat /\ ending \in 0 .. tasks
  BY CountsFinite DEF ServedInv, TasksInv, WorkTypes
<1>3. /\ queue \in [Stream -> Nat] /\ limit \in [Stream -> Nat \cup {NoLimit}]
      /\ closed \subseteq Stream /\ reported \subseteq Stream
      /\ full \in [Feeder -> SUBSET Stream]
      /\ owes \in [Thread -> SUBSET Stream] /\ frees \in [Thread -> SUBSET Source]
      /\ sends \in [Thread -> SUBSET (Stream \X {"packet", "close"})]
      /\ checks \in [Thread -> SUBSET (Request \X Node)]
      /\ takes \in [Thread -> SUBSET Stream]
      /\ status \in [Runner -> {"open", "prepared", "queued", "toClose", "running",
                                "closing", "closed"}]
      /\ toGrow \subseteq Stream /\ growing \in {<<>>} \cup (Stream \X Nat)
  BY DEF ServedInv, WorkTypes
<1>4. tail \subseteq Runner \X {"check", "add"}
  BY Runners DEF ServedInv, WorkTypes
<1>5. \A f \in Feeder : ticks[f] \in 0 .. MaxPackets[f]
  <2> SUFFICES ASSUME NEW f \in Feeder PROVE ticks[f] \in 0 .. MaxPackets[f]
    OBVIOUS
  <2>1. ticks[f] \in Nat /\ ticks[f] <= MaxPackets[f]
    BY DEF ServedInv, WorkTypes
  <2>2. MaxPackets[f] \in Nat
    BY ThrottlingAssumption
  <2> QED
    BY <2>1, <2>2
<1> QED
  BY <1>1, <1>2, <1>3, <1>4, <1>5 DEF TypeOK, ServedInv, ControlTypes

\* UpdateThrottledNodes, the scheduling loop of a source and
\* WaitUntilGraphInputStreamUnthrottled lose nobody between them: an unthrottled
\* source is queued, running, or about to be added, and a call waits only for an
\* input that is held back or has been woken, for every graph and every limit.
THEOREM NobodyIsForgotten == Spec => []NobodyForgotten
<1>1. IInv /\ ServedInv => NobodyForgotten
  BY TypesFollow, Zenon DEF NobodyForgotten, ServedInv, SourcesServed, Served, WaitInv
<1> QED
  BY <1>1, TableInvariant, ServedInvariant, PTL
==============================================================================
