------------------------- MODULE ParallelNode_proofs -------------------------
(***************************************************************************)
(* A node with parallel invocations, for any number of executor threads,   *)
(* any max_in_flight_ greater than one and any number of timestamps: one   *)
(* thread schedules and one propagates, the checks of the output stream    *)
(* handler hold, when no thread is in the node nothing waits, and the node *)
(* looks from outside like one that answers its packets one by one.        *)
(***************************************************************************)
EXTENDS ParallelNode, SequenceTheorems, WellFoundedInduction, FiniteSetTheorems, TLAPS

-----------------------------------------------------------------------------
\* One stream: what its operations do to its queue and its bound, for any number of
\* timestamps, and facts about the order of timestamps.  GraphOutput_proofs
\* has the same lemmas: it is about other variables and cannot share them.

\* The packets of a stream wait in the order of their timestamps, below the
\* bound.
Ordered(s) ==
  /\ s \in Stream
  /\ Increasing(s.queue)
  /\ \A i \in 1 .. Len(s.queue) : s.queue[i] < s.bound

\* Where the next allowed timestamp of a packet is, and the previous one of a
\* bound.
LEMMA TimestampValues ==
  /\ PreStream = 0 /\ Unset = -2 /\ Unstarted = -1 /\ MinTs = 1
  /\ MaxTs \in Int /\ MaxTs >= 1
  /\ PostStream = MaxTs + 1 /\ OneOverPostStream = MaxTs + 2 /\ Done = MaxTs + 3
  BY LatestAssumption DEF PreStream, PostStream,
     Done, MinTs, MaxTs, Unstarted, OneOverPostStream, Unset

LEMMA TimestampOrder ==
  /\ \A t \in PreStream .. PostStream :
       NextAllowedInStream(t) \in t + 1 .. OneOverPostStream
  /\ \A t \in PreStream .. Done : /\ PreviousAllowedInStream(t) \in Unstarted .. MaxTs
                                  /\ PreviousAllowedInStream(t) < t
  BY TimestampValues DEF NextAllowedInStream, PreviousAllowedInStream

\* Adding one packet.
LEMMA AddOne ==
  ASSUME NEW s \in Stream, NEW p \in PreStream .. PostStream,
         NEW done, done = AddPackets(s, <<p>>)
  PROVE  \/ /\ done.stream = s /\ ~done.notify
            /\ s.closed \/ done.refused
         \/ /\ p >= s.bound /\ ~s.closed /\ ~done.refused
            /\ done.stream =
                 [s EXCEPT !.queue = Append(@, p), !.bound = NextAllowedInStream(p),
                           !.added = TRUE]
            /\ done.notify <=> s.queue = <<>>
<1> DEFINE ps == <<p>>
           Fits(k) == /\ \A i \in 1 .. k : Accepts(s, ps, i)
                      /\ k = Len(ps) \/ ~Accepts(s, ps, k + 1)
           n == CHOOSE k \in 0 .. Len(ps) : Fits(k)
           queue == s.queue \o SubSeq(ps, 1, n)
           bound == NextAllowedInStream(ps[n])
           more == [s EXCEPT !.queue = queue, !.bound = bound, !.added = TRUE]
           result == AddPackets(s, ps)
<1>0. done = result
  OBVIOUS
<1> HIDE DEF result
<1>1. Len(ps) = 1 /\ ps[1] = p /\ ps # <<>> /\ ps \in Seq(PreStream .. PostStream)
  OBVIOUS
<1>2. result = IF s.closed \/ n = 0
             THEN [stream |-> s, notify |-> FALSE, refused |-> ~s.closed /\ ps # <<>>]
             ELSE [stream |-> more, notify |-> n = Len(ps) /\ s.queue = <<>>,
                   refused |-> n < Len(ps)]
  BY Zenon DEF result, AddPackets
<1> HIDE DEF n, queue, bound, more
<1>3. CASE s.closed \/ n = 0
  <2>1. result = [stream |-> s, notify |-> FALSE, refused |-> ~s.closed /\ ps # <<>>]
    BY <1>2, <1>3
  <2>2. result.stream = s /\ result.notify = FALSE /\ result.refused = (~s.closed /\ ps # <<>>)
    BY <2>1, Zenon
  <2>3. QED
    BY <2>2, <1>1, <1>0
<1>4. CASE ~s.closed /\ n # 0
  <2>1. Accepts(s, ps, 1)
    <3>1. SUFFICES ASSUME ~Accepts(s, ps, 1) PROVE FALSE
      OBVIOUS
    <3>2. Fits(0) /\ ~Fits(1)
      BY <1>1, <3>1
    <3>3. n = 0
      BY <1>1, <3>2 DEF n
    <3>4. QED
      BY <3>3, <1>4
  <2>2. Fits(1) /\ ~Fits(0)
    BY <1>1, <2>1
  <2>3. n = 1
    BY <1>1, <2>2 DEF n
  <2>4. p >= s.bound
    BY <1>1, <2>1 DEF Accepts
  <2>5. queue = Append(s.queue, p) /\ bound = NextAllowedInStream(p)
    <3>1. s.queue \in Seq(PreStream .. PostStream)
      BY DEF Stream
    <3>2. SubSeq(ps, 1, n) = ps
      <4>1. SubSeq(<<p>>, 1, 1) = <<p>>
        BY <1>1, SubSeqFull
      <4>2. QED
        BY <4>1, <2>3
    <3>3. ps[n] = p
      BY <2>3, <1>1
    <3>4. queue = s.queue \o <<p>>
      BY <3>2 DEF queue
    <3>5. queue = Append(s.queue, p)
      BY <3>1, <3>4, AppendIsConcat
    <3>6. QED
      BY <3>3, <3>5 DEF bound
  <2>6. more = [s EXCEPT !.queue = Append(@, p), !.bound = NextAllowedInStream(p),
                         !.added = TRUE]
    BY <2>5, Zenon DEF more
  <2>7. result = [stream |-> more, notify |-> n = Len(ps) /\ s.queue = <<>>,
                refused |-> n < Len(ps)]
    BY <1>2, <1>4
  <2>8. result.stream = more /\ result.notify = (n = Len(ps) /\ s.queue = <<>>)
        /\ result.refused = (n < Len(ps))
    BY <2>7, Zenon
  <2>9. ~result.refused /\ (result.notify <=> s.queue = <<>>)
    <3>1. n = Len(ps) /\ ~(n < Len(ps))
      BY <2>3, <1>1
    <3>2. QED
      BY <2>8, <3>1, Zenon
  <2>10. QED
    BY <2>4, <2>6, <2>8, <2>9, <1>4, <1>0
<1>5. QED
  BY <1>3, <1>4

\* The packets of a queue that is not empty.
LEMMA QueueOf ==
  ASSUME NEW q \in Seq(PreStream .. PostStream), q # <<>>
  PROVE  /\ Len(q) \in Nat /\ Len(q) >= 1
         /\ Head(q) = q[1]
         /\ \A i \in 1 .. Len(q) : q[i] \in PreStream .. PostStream /\ q[i] \in Int
<1>1. Len(q) \in Nat /\ Len(q) >= 1 /\ Head(q) = q[1]
  OBVIOUS
<1>2. \A i \in 1 .. Len(q) : q[i] \in PreStream .. PostStream
  BY ElementOfSeq
<1>3. QED
  BY <1>1, <1>2, TimestampValues

\* Taking the first packet takes it alone.
LEMMA PopHead ==
  ASSUME NEW s, Ordered(s), s.queue # <<>>
  PROVE  PopAt(s, Head(s.queue)).stream =
           [s EXCEPT !.queue = Tail(@), !.selected = Head(s.queue)]
<1> DEFINE q == s.queue
           t == Head(q)
           Fits(k) == /\ \A i \in 1 .. k : q[i] <= t
                      /\ k = Len(q) \/ q[k + 1] > t
           n == CHOOSE k \in 0 .. Len(q) : Fits(k)
<1>1. /\ q \in Seq(PreStream .. PostStream) /\ Len(q) \in Nat /\ Len(q) >= 1
      /\ t = q[1]
      /\ \A i \in 1 .. Len(q) : q[i] \in Int
  <2>1. q \in Seq(PreStream .. PostStream) /\ q # <<>>
    BY DEF Ordered, Stream
  <2> HIDE DEF q
  <2>2. QED
    BY <2>1, QueueOf
<1>2. \A i \in 2 .. Len(q) : q[i] > t
  <2> SUFFICES ASSUME NEW i \in 2 .. Len(q) PROVE q[i] > t
    OBVIOUS
  <2>1. 1 \in 1 .. Len(q) /\ i \in 1 .. Len(q) /\ 1 < i
    BY <1>1
  <2>2. q[1] < q[i] /\ q[1] \in Int /\ q[i] \in Int
    BY <1>1, <2>1 DEF Ordered, Increasing
  <2>3. QED
    BY <2>2, <1>1
<1>3. Fits(1)
  <2>1. \A i \in 1 .. 1 : q[i] <= t
    BY <1>1
  <2>2. ASSUME 1 # Len(q) PROVE q[1 + 1] > t
    <3>1. \A m \in Nat : m >= 1 /\ 1 # m => 1 + 1 \in 2 .. m
      OBVIOUS
    <3>2. 1 + 1 \in 2 .. Len(q)
      BY <3>1, <1>1, <2>2, Zenon
    <3>3. QED
      BY <3>2, <1>2, Zenon
  <2>3. QED
    BY <2>1, <2>2
<1>4. \A k \in 0 .. Len(q) : Fits(k) => k = 1
  <2> SUFFICES ASSUME NEW k \in 0 .. Len(q), Fits(k) PROVE k = 1
    OBVIOUS
  <2>1. k # 0
    BY <1>1
  <2>2. ~(k >= 2)
    BY <1>1, <1>2
  <2>3. QED
    BY <2>1, <2>2, <1>1
<1>5. n = 1
  BY <1>1, <1>3, <1>4
<1>6. s.bound > t /\ s.bound \in Int
  BY <1>1, LatestAssumption DEF Ordered, Stream, PreStream, Done
<1>7. PopAt(s, t).stream = [s EXCEPT !.queue = SubSeq(@, n + 1, Len(@)), !.selected = t,
                                     !.bound = IF @ <= t THEN NextAllowedInStream(t) ELSE @]
  BY DEF PopAt
<1> HIDE DEF n
<1>8. SubSeq(q, n + 1, Len(q)) = Tail(q)
  BY <1>1, <1>5, TailIsSubSeq
<1>9. (IF s.bound <= t THEN NextAllowedInStream(t) ELSE s.bound) = s.bound
  BY <1>6, <1>1
<1>10. [s EXCEPT !.queue = Tail(q), !.selected = t, !.bound = s.bound] =
         [s EXCEPT !.queue = Tail(q), !.selected = t]
  BY DEF Ordered, Stream
<1>11. QED
  BY <1>7, <1>8, <1>9, <1>10, Zenon

\* What an accepted packet leaves.
LEMMA OrderedGrows ==
  ASSUME NEW s, Ordered(s), NEW p \in PreStream .. PostStream, p >= s.bound,
         NEW r, r = [s EXCEPT !.queue = Append(@, p), !.bound = NextAllowedInStream(p),
                              !.added = TRUE]
  PROVE  /\ Ordered(r)
         /\ MinTimestampOrBound(r) >= MinTimestampOrBound(s)
         /\ r.queue # <<>> /\ r.closed = s.closed
         /\ s.queue # <<>> => Head(r.queue) = Head(s.queue)
<1>1. /\ s.queue \in Seq(PreStream .. PostStream)
      /\ s.bound \in PreStream .. Done
      /\ r.queue = Append(s.queue, p) /\ r.bound = NextAllowedInStream(p)
      /\ r.selected = s.selected /\ r.closed = s.closed /\ r.added = TRUE
  BY DEF Ordered, Stream
<1>2. /\ r.bound \in p + 1 .. OneOverPostStream
      /\ PreStream = 0 /\ OneOverPostStream < Done
      /\ OneOverPostStream \in Int /\ PostStream \in Int
      /\ Done \in Int
  <2>1. NextAllowedInStream(p) \in p + 1 .. OneOverPostStream
    BY TimestampOrder
  <2>2. /\ PreStream = 0 /\ OneOverPostStream < Done
        /\ OneOverPostStream \in Int /\ PostStream \in Int
        /\ Done \in Int
    BY TimestampValues
  <2>3. QED
    BY <1>1, <2>1, <2>2, Zenon
<1>3. /\ r.queue \in Seq(PreStream .. PostStream) /\ r.queue # <<>>
      /\ Len(r.queue) = Len(s.queue) + 1
      /\ \A i \in 1 .. Len(s.queue) : r.queue[i] = s.queue[i]
      /\ r.queue[Len(s.queue) + 1] = p
  BY <1>1, AppendProperties
<1>4. r \in Stream
  <2>1. r = [queue |-> r.queue, bound |-> r.bound, selected |-> s.selected,
             added |-> TRUE, closed |-> s.closed]
    BY <1>1 DEF Ordered, Stream
  <2>2. r.bound \in PreStream .. Done
    BY <1>2
  <2>3. s.selected \in Unstarted .. Done /\ s.closed \in BOOLEAN
    BY DEF Ordered, Stream
  <2>4. QED
    BY <2>1, <2>2, <2>3, <1>3 DEF Stream
<1>5. \A i \in 1 .. Len(s.queue) : s.queue[i] < p /\ s.queue[i] \in Int
  BY <1>1, <1>2 DEF Ordered
<1>6. Increasing(r.queue)
  BY <1>3, <1>5, <1>1 DEF Increasing, Ordered
<1>7. \A i \in 1 .. Len(r.queue) : r.queue[i] < r.bound
  <2> SUFFICES ASSUME NEW i \in 1 .. Len(r.queue) PROVE r.queue[i] < r.bound
    OBVIOUS
  <2>1. r.bound \in Int /\ p \in Int /\ p < r.bound
    BY <1>2
  <2>2. CASE i \in 1 .. Len(s.queue)
    BY <2>1, <2>2, <1>3, <1>5
  <2>3. CASE i = Len(s.queue) + 1
    BY <2>1, <2>3, <1>3
  <2>4. QED
    BY <2>2, <2>3, <1>3, <1>1
<1>8. s.queue # <<>> => Head(r.queue) = Head(s.queue)
  BY <1>1, HeadTailAppend
<1>9. s.queue = <<>> => Head(r.queue) = p
  BY <1>1, HeadTailAppend
<1>10. MinTimestampOrBound(r) >= MinTimestampOrBound(s)
  <2>1. CASE s.queue = <<>>
    BY <2>1, <1>9, <1>3 DEF MinTimestampOrBound
  <2>2. CASE s.queue # <<>>
    <3>1. Head(s.queue) \in PreStream .. PostStream
      BY <1>1, <2>2, HeadTailProperties
    <3>2. QED
      BY <2>2, <3>1, <1>8, <1>3, <1>2 DEF MinTimestampOrBound
  <2>3. QED
    BY <2>1, <2>2
<1>11. QED
  BY <1>1, <1>3, <1>4, <1>6, <1>7, <1>8, <1>10 DEF Ordered

\* What a new bound leaves.
LEMMA OrderedBound ==
  ASSUME NEW s, Ordered(s), NEW b \in PreStream .. Done,
         NEW r, r = SetNextTimestampBound(s, b).stream
  PROVE  /\ Ordered(r)
         /\ MinTimestampOrBound(r) >= MinTimestampOrBound(s)
         /\ r.queue = s.queue /\ r.closed = s.closed
<1>1. /\ s.queue \in Seq(PreStream .. PostStream)
      /\ s.bound \in PreStream .. Done /\ PreStream \in Int
      /\ Done \in Int /\ PostStream \in Int
  BY LatestAssumption DEF Ordered, Stream, PreStream, Done, PostStream
<1>2. r = s \/ (r = [s EXCEPT !.bound = b] /\ b > s.bound)
  BY DEF SetNextTimestampBound
<1>3. CASE r = s
  <2>1. MinTimestampOrBound(s) \in Int
    BY <1>1, HeadTailProperties DEF MinTimestampOrBound
  <2>2. QED
    BY <1>3, <2>1
<1>4. CASE r = [s EXCEPT !.bound = b] /\ b > s.bound
  <2>1. r \in Stream /\ r.queue = s.queue /\ r.bound = b /\ r.closed = s.closed
    BY <1>4 DEF Ordered, Stream
  <2>2. \A i \in 1 .. Len(r.queue) : r.queue[i] < r.bound
    BY <2>1, <1>4, <1>1 DEF Ordered
  <2>3. MinTimestampOrBound(r) >= MinTimestampOrBound(s)
    BY <2>1, <1>4, <1>1, HeadTailProperties DEF MinTimestampOrBound
  <2>4. QED
    BY <2>1, <2>2, <2>3 DEF Ordered
<1>5. QED
  BY <1>2, <1>3, <1>4

\* What the first packet leaves when it is taken.
LEMMA OrderedPop ==
  ASSUME NEW s, Ordered(s), s.queue # <<>>,
         NEW r, r = PopAt(s, Head(s.queue)).stream
  PROVE  /\ Ordered(r)
         /\ MinTimestampOrBound(r) > Head(s.queue)
         /\ r.queue = Tail(s.queue) /\ r.closed = s.closed
<1>1. r = [s EXCEPT !.queue = Tail(@), !.selected = Head(s.queue)]
  BY PopHead
<1>2. /\ s.queue \in Seq(PreStream .. PostStream)
      /\ s.bound \in PreStream .. Done
      /\ PreStream = 0 /\ Unstarted = -1 /\ PostStream < Done
      /\ PostStream \in Int /\ Done \in Int
  BY TimestampValues DEF Ordered, Stream
<1>3. /\ Head(s.queue) \in PreStream .. PostStream
      /\ Tail(s.queue) \in Seq(PreStream .. PostStream)
      /\ Len(Tail(s.queue)) = Len(s.queue) - 1
      /\ \A i \in 1 .. Len(Tail(s.queue)) : Tail(s.queue)[i] = s.queue[i + 1]
  BY <1>2, HeadTailProperties
<1>4. /\ r \in Stream /\ r.queue = Tail(s.queue) /\ r.bound = s.bound
      /\ r.closed = s.closed
  <2> DEFINE tail == Tail(s.queue)
             head == Head(s.queue)
  <2>1. r = [s EXCEPT !.queue = tail, !.selected = head]
    BY <1>1
  <2>2. tail \in Seq(PreStream .. PostStream) /\ head \in Unstarted .. Done
    BY <1>2, <1>3
  <2>3. s \in Stream
    BY DEF Ordered
  <2> HIDE DEF tail, head
  <2>4. r \in Stream /\ r.queue = tail /\ r.bound = s.bound /\ r.closed = s.closed
    BY <2>1, <2>2, <2>3 DEF Stream
  <2>5. QED
    BY <2>4 DEF tail
<1>5. /\ Len(s.queue) \in Nat /\ Len(s.queue) >= 1
      /\ Head(s.queue) = s.queue[1]
      /\ Len(r.queue) = Len(s.queue) - 1
      /\ \A i \in 1 .. Len(r.queue) : r.queue[i] = s.queue[i + 1]
  <2>1. Len(s.queue) \in Nat /\ Len(s.queue) >= 1 /\ Head(s.queue) = s.queue[1]
    BY <1>2
  <2>2. QED
    BY <2>1, <1>3, <1>4
<1>6. Increasing(r.queue)
  <2> SUFFICES ASSUME NEW i \in 1 .. Len(r.queue), NEW j \in 1 .. Len(r.queue), i < j
               PROVE  r.queue[i] < r.queue[j]
    BY DEF Increasing
  <2>1. i + 1 \in 1 .. Len(s.queue) /\ j + 1 \in 1 .. Len(s.queue) /\ i + 1 < j + 1
    BY <1>5
  <2>2. QED
    BY <2>1, <1>5 DEF Ordered, Increasing
<1>7. \A i \in 1 .. Len(r.queue) : r.queue[i] < r.bound
  <2> SUFFICES ASSUME NEW i \in 1 .. Len(r.queue) PROVE r.queue[i] < r.bound
    OBVIOUS
  <2>1. i + 1 \in 1 .. Len(s.queue)
    BY <1>5
  <2>2. QED
    BY <2>1, <1>4, <1>5 DEF Ordered
<1>8. MinTimestampOrBound(r) > Head(s.queue)
  <2>1. CASE r.queue = <<>>
    BY <2>1, <1>3, <1>4, <1>5 DEF MinTimestampOrBound, Ordered
  <2>2. CASE r.queue # <<>>
    <3>1. Head(r.queue) = s.queue[2] /\ 2 \in 1 .. Len(s.queue)
      <4>1. r.queue \in Seq(PreStream .. PostStream)
        BY <1>3, <1>4
      <4>2. Len(r.queue) >= 1 /\ Head(r.queue) = r.queue[1]
        BY <4>1, <2>2
      <4>3. QED
        BY <4>2, <1>5
    <3>2. s.queue[1] < s.queue[2] /\ s.queue[1] \in Int /\ s.queue[2] \in Int
      BY <3>1, <1>2, <1>5 DEF Ordered, Increasing
    <3>3. QED
      BY <3>1, <3>2, <2>2, <1>5 DEF MinTimestampOrBound, Ordered, Increasing
  <2>3. QED
    BY <2>1, <2>2
<1>9. QED
  BY <1>4, <1>6, <1>7, <1>8 DEF Ordered

\* Queues as sets.

\* Two sequences that differ by a last value.
LEMMA AppendValues ==
  ASSUME NEW q \in Seq(PreStream .. PostStream), NEW p \in PreStream .. PostStream
  PROVE  Values(Append(q, p)) = Values(q) \cup {p}
<1> DEFINE r == Append(q, p)
<1>1. /\ Len(q) \in Nat /\ Len(r) = Len(q) + 1 /\ r[Len(q) + 1] = p
      /\ \A i \in 1 .. Len(q) : r[i] = q[i]
  BY AppendProperties
<1> HIDE DEF r
<1>2. 1 .. Len(r) = (1 .. Len(q)) \cup {Len(q) + 1}
  BY <1>1
<1>3. QED
  BY <1>1, <1>2 DEF Values, r

LEMMA AppendIncreases ==
  ASSUME NEW q \in Seq(PreStream .. PostStream), NEW p \in PreStream .. PostStream,
         Increasing(q), \A m \in Values(q) : m < p
  PROVE  Increasing(Append(q, p))
<1> DEFINE r == Append(q, p)
<1>1. /\ Len(q) \in Nat /\ Len(r) = Len(q) + 1 /\ r[Len(q) + 1] = p
      /\ \A i \in 1 .. Len(q) : r[i] = q[i]
  BY AppendProperties
<1> HIDE DEF r
<1> SUFFICES ASSUME NEW i \in 1 .. Len(r), NEW k \in 1 .. Len(r), i < k
             PROVE  r[i] < r[k]
  BY DEF Increasing, r
<1>2. i \in 1 .. Len(q) /\ (k \in 1 .. Len(q) \/ k = Len(q) + 1)
  BY <1>1
<1>3. CASE k \in 1 .. Len(q)
  BY <1>1, <1>2, <1>3 DEF Increasing
<1>4. CASE k = Len(q) + 1
  <2>1. q[i] \in Values(q)
    BY <1>2 DEF Values
  <2>2. QED
    BY <1>1, <1>2, <1>4, <2>1
<1>5. QED
  BY <1>2, <1>3, <1>4

LEMMA TailValues ==
  ASSUME NEW q \in Seq(PreStream .. PostStream), q # <<>>
  PROVE  Values(q) = Values(Tail(q)) \cup {Head(q)}
<1> DEFINE r == Tail(q)
<1>1. /\ Len(q) \in Nat /\ Len(q) >= 1 /\ Len(r) = Len(q) - 1 /\ Head(q) = q[1]
      /\ \A i \in 1 .. Len(r) : r[i] = q[i + 1]
  BY HeadTailProperties
<1> HIDE DEF r
<1>2. \A i \in 1 .. Len(q) : i = 1 \/ (i - 1 \in 1 .. Len(r) /\ r[i - 1] = q[i])
  BY <1>1
<1>3. \A i \in 1 .. Len(r) : i + 1 \in 1 .. Len(q) /\ r[i] = q[i + 1]
  BY <1>1
<1>4. 1 \in 1 .. Len(q)
  BY <1>1
<1>5. ASSUME NEW m \in Values(q) PROVE m \in Values(r) \cup {Head(q)}
  BY <1>1, <1>2 DEF Values
<1>6. ASSUME NEW m \in Values(r) \cup {Head(q)} PROVE m \in Values(q)
  BY <1>1, <1>3, <1>4 DEF Values
<1>7. QED
  BY <1>5, <1>6 DEF r

-----------------------------------------------------------------------------
\* The values of the variables, and the steps.

\* The places of a thread: the scheduling thread's, those of the propagation
\* thread with packets and with a bound, and those of a worker in an invocation.
SchedPc == {"loop", "schedule", "bound", "loopEnd"}
PacketPc == {"send", "recycle", "sent"}
BoundPc == {"tryBound", "raise", "tried"}
PropPc == PacketPc \cup BoundPc
ClosePc == {"close", "closeSend", "closeBound", "closeOutput", "closed"}
WorkPc == {"process", "end"} \cup ClosePc
Places == {"idle", "check"} \cup SchedPc \cup PropPc \cup WorkPc

\* The values of the variables.
Shape ==
  /\ pc \in [Thread -> Places]
  /\ Ordered(in) /\ Ordered(mirror) /\ ~mirror.closed
  /\ status \in {"opened", "closed"}
  /\ schedState \in {"Idle", "Scheduling", "Pending"}
  /\ inFlight \in Int /\ allowance \in Int
  /\ inputBound \in {Unset} \cup (PreStream .. Done)
  /\ taskBound \in {Unset} \cup (PreStream .. Done)
  /\ carried \in {Unset} \cup (PreStream .. Done)
  /\ contexts \subseteq PreStream .. PostStream
  /\ completed \subseteq PreStream .. PostStream
  /\ output \subseteq PreStream .. PostStream
  /\ prepared \in BOOLEAN
  /\ scheduled \subseteq (PreStream .. PostStream) \cup {Done}
  /\ work \in [Worker -> {Unset} \cup (PreStream .. PostStream) \cup {Done}]
  /\ propState \in {"Idle", "Packets", "Bound", "Pending"}
  /\ manager \in [bound : PreStream .. Done, closed : BOOLEAN]
  /\ offsetEnabled \in BOOLEAN /\ hasError \in BOOLEAN

\* Whether worker t has an invocation.
Busy(t) == t \in Worker /\ work[t] # Unset

\* A thread has an invocation where it runs one, and none where it schedules.
WorkInv ==
  /\ \A t \in Thread : pc[t] \in WorkPc => Busy(t)
  /\ \A t \in Thread : pc[t] \in {"idle", "check"} \cup SchedPc => ~Busy(t)
  /\ \A t \in Thread : pc[t] \in ClosePc => work[t] = Done
  /\ \A t \in Thread : pc[t] = "process" => work[t] # Done

\* Where the propagation leaves its thread.
LEMMA Propagations ==
  ASSUME NEW t \in Thread, NEW done, NEW bound
  PROVE  /\ PropagationLoop(t, done, bound) =>
              \/ contexts = {} /\ propState' = "Bound" /\ carried' = bound /\ Go(t, "tryBound")
              \/ FrontIn(done) /\ propState' = "Packets" /\ carried' = Least(contexts)
                 /\ Go(t, "send")
              \/ contexts # {} /\ ~FrontIn(done) /\ propState' = "Idle" /\ carried' = carried
                 /\ Go(t, Home(t))
         /\ Home(t) = IF Busy(t) THEN "end" ELSE "loopEnd"
  BY DEF PropagationLoop, Propagate, GoIdle, Home, Busy

\* A thread that keeps its invocation.
LEMMA WorkMoves ==
  ASSUME Shape, WorkInv, NEW t \in Thread, NEW x, Go(t, x), work' = work,
         x \in WorkPc => Busy(t),
         x \in {"idle", "check"} \cup SchedPc => ~Busy(t),
         x \in ClosePc => work[t] = Done, x # "process"
  PROVE  WorkInv'
<1>1. Busy(t)' = Busy(t) /\ \A u \in Thread : Busy(u)' = Busy(u)
  BY DEF Busy
<1>2. pc'[t] = x /\ \A u \in Thread : u # t => pc'[u] = pc[u]
  BY DEF Go, Shape
<1>3. QED
  BY <1>1, <1>2 DEF WorkInv

\* The kinds of steps: of the node before this one, of a scheduling thread, of
\* the propagation, and of a worker.

\* The steps, by what they work on.
Receives ==
  \/ \E ts \in PreStream .. PostStream : ReceivePacket(ts)
  \/ \E b \in MinTs .. Done : ReceiveBound(b)

Schedules(t) ==
  \/ CheckIfBecameReady(t) \/ SchedulingLoop(t) \/ ScheduleInvocation(t) \/ EndOfLoop(t)

Propagates(t) ==
  \/ UpdateTaskTimestampBound(t) \/ PropagateOutputPackets(t) \/ RecycleCalculatorContext(t)
  \/ PacketsPropagated(t) \/ TryPropagateTimestampBound(t) \/ RaiseMirrorBound(t)
  \/ BoundPropagated(t)

Closes(w) ==
  \/ CloseInputStreams(w) \/ CloseCalculator(w) \/ CloseMirror(w) \/ CloseManager(w)
  \/ SetClosed(w)

\* Every step is of one of these kinds.
LEMMA Steps ==
  ASSUME [Next]_vars
  PROVE  \/ UNCHANGED vars
         \/ Receives
         \/ \E t \in Thread : Schedules(t)
         \/ \E t \in Thread : Propagates(t)
         \/ \E w \in Worker : Closes(w)
         \/ \E w \in Worker : w \in Thread /\ ProcessNode(w)
         \/ \E w \in Worker : w \in Thread /\ Begin(w)
         \/ \E w \in Worker : w \in Thread /\ EndScheduling(w)
<1>1. \A t \in Thread : Continue(t) => Schedules(t) \/ Propagates(t)
  BY Zenon DEF Continue, Schedules, Propagates
<1>2. \A w \in Worker : Run(w) => Closes(w) \/ ProcessNode(w) \/ Begin(w) \/ EndScheduling(w)
  BY Zenon DEF Run, Closes
<1>3. \A w \in Worker : w \in Thread
  BY DEF Thread
<1>4. QED
  BY <1>1, <1>2, <1>3, Zenon DEF Next, Receives

\* The invocations that threads have.
LEMMA NextWork ==
  ASSUME Shape, WorkInv, [Next]_vars
  PROVE  WorkInv'
<1> USE DEF SchedPc, PacketPc, BoundPc, PropPc, ClosePc, WorkPc, Places
<1>1. CASE Receives
  <2>1. Upstream \in Thread /\ ~Busy(Upstream)
    BY ParallelNodeAssumption DEF Thread, Busy
  <2>2. work' = work /\ (Go(Upstream, "check") \/ Go(Upstream, "idle"))
    BY <1>1 DEF Receives, ReceivePacket, ReceiveBound, Receive, invocations
  <2>3. QED
    BY <2>1, <2>2, WorkMoves
<1>2. ASSUME NEW t \in Thread, Schedules(t) PROVE WorkInv'
  <2>1. PICK x \in {"loop", "idle", "schedule", "loopEnd", "bound"} : Go(t, x) \/ pc' = pc
    BY <1>2
    DEF Schedules, CheckIfBecameReady, SchedulingLoop, ScheduleInvocation, EndOfLoop, AfterScheduling
  <2>2. pc[t] \in {"check", "loop", "schedule", "loopEnd"} /\ work' = work
    BY <1>2
    DEF Schedules, CheckIfBecameReady, SchedulingLoop, ScheduleInvocation, EndOfLoop, invocations
  <2>3. ~Busy(t)
    BY <2>2 DEF WorkInv
  <2>4. CASE Go(t, x)
    BY <2>2, <2>3, <2>4, WorkMoves
  <2>5. CASE pc' = pc
    BY <2>2, <2>5 DEF WorkInv, Busy
  <2>6. QED
    BY <2>1, <2>4, <2>5
<1>3. ASSUME NEW t \in Thread, Propagates(t) \/ (t \in Worker /\ ProcessNode(t)) PROVE WorkInv'
  <2>1. PICK x : Go(t, x) /\ (x \in PropPc \/ x = Home(t) \/ (x = "loopEnd" /\ pc[t] = "bound"))
    BY <1>3
    DEF Propagates, UpdateTaskTimestampBound, PropagateOutputPackets, RecycleCalculatorContext,
        PacketsPropagated, TryPropagateTimestampBound, RaiseMirrorBound, BoundPropagated,
        ProcessNode, StartPropagation, PropagationLoop, Propagate, GoIdle
  <2>2. work' = work
    BY <1>3
    DEF Propagates, UpdateTaskTimestampBound, PropagateOutputPackets, RecycleCalculatorContext,
        PacketsPropagated, TryPropagateTimestampBound, RaiseMirrorBound, BoundPropagated,
        ProcessNode, invocations
  <2>3. /\ x = Home(t) => x = IF Busy(t) THEN "end" ELSE "loopEnd"
        /\ pc[t] = "bound" => ~Busy(t)
    BY Propagations DEF WorkInv
  <2>4. QED
    BY <2>1, <2>2, <2>3, WorkMoves
<1>4. ASSUME NEW w \in Worker, Closes(w) PROVE WorkInv'
  <2>1. /\ \E x \in {"closeSend", "closeBound", "closeOutput", "closed", "end"} : Go(w, x)
        /\ work' = work /\ pc[w] \in ClosePc
    BY <1>4
    DEF Closes, CloseInputStreams, CloseCalculator, CloseMirror, CloseManager, SetClosed, invocations
  <2>2. w \in Thread
    BY DEF Thread
  <2>3. Busy(w) /\ work[w] = Done
    BY <2>1, <2>2 DEF WorkInv
  <2>4. QED
    BY <2>1, <2>2, <2>3, WorkMoves
<1>5. ASSUME NEW w \in Worker, Begin(w) \/ EndScheduling(w) PROVE WorkInv'
  <2>1. w \in Thread /\ Worker \subseteq Thread /\ (\A u \in Thread : u # w => u \in Worker \/ u \notin Worker)
    BY DEF Thread
  <2>2. PICK x, y : /\ Go(w, x) /\ work' = [work EXCEPT ![w] = y]
                    /\ \/ y = Unset /\ x \in {"loop", "idle"}
                       \/ y = Done /\ x = "close"
                       \/ y # Done /\ y \in scheduled /\ x = "process"
    BY <1>5 DEF Begin, EndScheduling
  <2>3. y # Unset \/ x \in {"loop", "idle"}
    BY <2>2, TimestampValues DEF Shape
  <2>4. pc'[w] = x /\ \A u \in Thread : u # w => pc'[u] = pc[u]
    BY <2>1, <2>2 DEF Go, Shape
  <2>5. work'[w] = y /\ \A u \in Worker : u # w => work'[u] = work[u]
    BY <2>2 DEF Shape
  <2>6. \A u \in Thread : u # w => Busy(u)' = Busy(u)
    BY <2>5 DEF Busy
  <2>7. Busy(w)' <=> y # Unset
    BY <2>5 DEF Busy
  <2>8. \A u \in Thread : pc[u] \in ClosePc \cup {"process"} => u \in Worker
    BY DEF WorkInv, Busy
  <2>9. QED
    BY <2>1, <2>2, <2>3, <2>4, <2>5, <2>6, <2>7, <2>8, TimestampValues DEF WorkInv
<1>6. CASE UNCHANGED vars
  BY <1>6 DEF vars, invocations, WorkInv, Busy
<1>7. QED
  <2>1. \/ UNCHANGED vars
        \/ Receives
        \/ \E t \in Thread : Schedules(t)
        \/ \E t \in Thread : Propagates(t)
        \/ \E w \in Worker : Closes(w)
        \/ \E w \in Worker : w \in Thread /\ ProcessNode(w)
        \/ \E w \in Worker : w \in Thread /\ Begin(w)
        \/ \E w \in Worker : w \in Thread /\ EndScheduling(w)
    BY Steps, Zenon
  <2>2. CASE \E t \in Thread : Schedules(t)
    BY <1>2, <2>2, Zenon
  <2>3. CASE \E t \in Thread : Propagates(t)
    BY <1>3, <2>3, Zenon
  <2>4. CASE \E w \in Worker : Closes(w)
    BY <1>4, <2>4, Zenon
  <2>5. CASE \E w \in Worker : w \in Thread /\ ProcessNode(w)
    BY <1>3, <2>5, Zenon
  <2>6. CASE \E w \in Worker : w \in Thread /\ Begin(w)
    BY <1>5, <2>6, Zenon
  <2>7. CASE \E w \in Worker : w \in Thread /\ EndScheduling(w)
    BY <1>5, <2>7, Zenon
  <2>8. QED
    BY <1>1, <1>6, <2>1, <2>2, <2>3, <2>4, <2>5, <2>6, <2>7, Zenon

-----------------------------------------------------------------------------
\* The thread that schedules and the thread that propagates.

\* The scheduling threads: also those that propagate a bound for one.
Sched(t) == pc[t] \in SchedPc \/ (pc[t] \in PropPc /\ ~Busy(t))

\* scheduling_state_ is kIdle when no thread schedules, and one does otherwise.
SchedInv ==
  /\ \A t, u \in Thread : Sched(t) /\ Sched(u) => t = u
  /\ schedState = "Idle" <=> \A t \in Thread : ~Sched(t)

\* propagation_state_ and the propagation threads.
TurnInv ==
  /\ \A t, u \in Thread : pc[t] \in PropPc /\ pc[u] \in PropPc => t = u
  /\ propState = "Idle" <=> \A t \in Thread : pc[t] \notin PropPc
  /\ \A t \in Thread : pc[t] \in PacketPc => propState = "Packets"
  /\ \A t \in Thread : pc[t] \in BoundPc => propState \in {"Bound", "Pending"}

\* One thread moves.
LEMMA SchedMoves ==
  ASSUME SchedInv, NEW t \in Thread,
         \A u \in Thread : u # t => (Sched(u)' <=> Sched(u)),
         Sched(t)' => Sched(t) \/ schedState = "Idle",
         schedState' = "Idle" <=> ~Sched(t)' /\ (Sched(t) \/ schedState = "Idle")
  PROVE  SchedInv'
  BY DEF SchedInv

\* One thread moves, and takes or leaves the propagation as the state says.
LEMMA TurnMoves ==
  ASSUME TurnInv, NEW t \in Thread,
         \A u \in Thread : u # t => pc'[u] = pc[u],
         pc'[t] \in PropPc => pc[t] \in PropPc \/ propState = "Idle",
         propState' = "Idle" <=> pc'[t] \notin PropPc /\ (pc[t] \in PropPc \/ propState = "Idle"),
         pc'[t] \in PacketPc => propState' = "Packets",
         pc'[t] \in BoundPc => propState' \in {"Bound", "Pending"},
         propState' = propState \/ pc'[t] \in PropPc \/ propState' = "Idle"
           \/ (propState = "Bound" /\ propState' = "Pending")
  PROVE  TurnInv'
<1>1. \A u \in Thread : u # t /\ pc'[u] \in PropPc => propState # "Idle" /\ pc[t] \notin PropPc
  BY DEF TurnInv
<1>2. \A u \in Thread : u # t /\ pc'[u] \in PropPc => pc'[t] \notin PropPc /\ propState' # "Idle"
  BY <1>1
<1>3. /\ \A u, v \in Thread : pc'[u] \in PropPc /\ pc'[v] \in PropPc => u = v
      /\ propState' = "Idle" <=> \A u \in Thread : pc'[u] \notin PropPc
  BY <1>1, <1>2 DEF TurnInv
<1>4. \A u \in Thread : /\ pc'[u] \in PacketPc => propState' = "Packets"
                        /\ pc'[u] \in BoundPc => propState' \in {"Bound", "Pending"}
  BY <1>1, <1>2 DEF TurnInv, PropPc, PacketPc, BoundPc
<1>5. QED
  BY <1>3, <1>4 DEF TurnInv

\* A step that moves one thread, with its invocation, leaves the others.
LEMMA Elsewhere ==
  ASSUME Shape, NEW t \in Thread, NEW x, Go(t, x), work' = work
  PROVE  /\ pc'[t] = x
         /\ \A u \in Thread : u # t => pc'[u] = pc[u] /\ (Sched(u)' <=> Sched(u))
         /\ \A u \in Thread : Busy(u)' <=> Busy(u)
         /\ Sched(t)' <=> x \in SchedPc \/ (x \in PropPc /\ ~Busy(t))
<1>1. pc'[t] = x /\ \A u \in Thread : u # t => pc'[u] = pc[u]
  BY DEF Go, Shape
<1>2. \A u \in Thread : Busy(u)' <=> Busy(u)
  BY DEF Busy
<1>3. QED
  BY <1>1, <1>2 DEF Sched

\* The steps that are not of the propagation leave it alone.
Others == \/ Receives
          \/ \E t \in Thread : Schedules(t)
          \/ \E w \in Worker : Closes(w)
          \/ \E w \in Worker : w \in Thread /\ Begin(w)
          \/ \E w \in Worker : w \in Thread /\ EndScheduling(w)

\* The other steps stay out of the propagation.
LEMMA OthersAt ==
  ASSUME Shape, Others
  PROVE  /\ UNCHANGED propagation
         /\ \E t \in Thread : \E x \in Places \ PropPc : pc[t] \notin PropPc /\ Go(t, x)
<1> USE DEF SchedPc, PacketPc, BoundPc, PropPc, ClosePc, WorkPc, Places
<1>1. CASE Receives
  BY <1>1, ParallelNodeAssumption
  DEF Receives, ReceivePacket, ReceiveBound, Receive, Thread
<1>2. ASSUME NEW t \in Thread, Schedules(t)
      PROVE  UNCHANGED propagation /\ \E x \in Places \ PropPc : pc[t] \notin PropPc /\ Go(t, x)
  <2>1. CASE ScheduleInvocation(t)
    <3>1. UNCHANGED propagation /\ pc[t] = "schedule"
      BY <2>1 DEF ScheduleInvocation
    <3>2. Go(t, "loopEnd") \/ Go(t, "bound") \/ pc' = pc
      BY <2>1 DEF ScheduleInvocation, AfterScheduling
    <3>3. pc' = pc => Go(t, "schedule")
      BY <3>1 DEF Go, Shape
    <3>4. QED
      BY <3>1, <3>2, <3>3
  <2>2. QED
    BY <1>2, <2>1 DEF Schedules, CheckIfBecameReady, SchedulingLoop, EndOfLoop
<1>3. ASSUME NEW w \in Worker, Closes(w) \/ Begin(w) \/ EndScheduling(w)
      PROVE  UNCHANGED propagation /\ \E x \in Places \ PropPc : pc[w] \notin PropPc /\ Go(w, x)
  <2>1. CASE Closes(w)
    BY <2>1 DEF Closes, CloseInputStreams, CloseCalculator, CloseMirror, CloseManager, SetClosed
  <2>2. CASE Begin(w) \/ EndScheduling(w)
    BY <2>2 DEF Begin, EndScheduling
  <2>3. QED
    BY <1>3, <2>1, <2>2
<1>4. \A w \in Worker : w \in Thread
  BY DEF Thread
<1>5. CASE \E t \in Thread : Schedules(t)
  BY <1>2, <1>5
<1>6. CASE \E w \in Worker : Closes(w) \/ Begin(w) \/ EndScheduling(w)
  BY <1>3, <1>4, <1>6
<1>7. QED
  BY <1>1, <1>5, <1>6 DEF Others

\* Where a propagation step leads, and with which state.
LEMMA PropagatesAt ==
  ASSUME NEW t \in Thread, Propagates(t) \/ (t \in Worker /\ ProcessNode(t))
  PROVE  /\ UNCHANGED <<in, scheduling, work, scheduled, prepared>>
         /\ \E x \in PropPc \cup {"end", "loopEnd"} :
              /\ Go(t, x)
              /\ x \in {"end", "loopEnd"} =>
                   x = Home(t) \/ (x = "loopEnd" /\ pc[t] = "bound")
              /\ \/ pc[t] \in PropPc /\ x \in PropPc /\ propState' = propState
                    /\ (pc[t] \in PacketPc <=> x \in PacketPc)
                 \/ /\ pc[t] \in PropPc \/ propState = "Idle"
                    /\ \/ x \in PacketPc /\ propState' = "Packets"
                       \/ x \in BoundPc /\ propState' = "Bound"
                       \/ x \notin PropPc /\ propState' = "Idle"
                 \/ /\ pc[t] \in {"bound", "process"} /\ x \notin PropPc
                    /\ propState' = IF propState = "Bound" THEN "Pending" ELSE propState
                 \/ /\ pc[t] = "bound" /\ x \notin PropPc /\ propState' = propState
<1> USE DEF SchedPc, PacketPc, BoundPc, PropPc, ClosePc, WorkPc, Places
<1>1. Home(t) \in {"end", "loopEnd"}
  BY DEF Home
<1>2. CASE PropagateOutputPackets(t) \/ RecycleCalculatorContext(t)
           \/ TryPropagateTimestampBound(t) \/ RaiseMirrorBound(t)
  BY <1>2
  DEF PropagateOutputPackets, RecycleCalculatorContext, TryPropagateTimestampBound,
      RaiseMirrorBound, invocations, propagation
<1>3. CASE PacketsPropagated(t) \/ BoundPropagated(t)
  BY <1>1, <1>3 DEF PacketsPropagated, BoundPropagated, invocations, GoIdle, Propagate
<1>4. ASSUME NEW done, NEW bound, StartPropagation(t, done, bound)
      PROVE  \E x \in PropPc \cup {"end", "loopEnd"} :
              /\ Go(t, x)
              /\ x \in {"end", "loopEnd"} => x = Home(t)
              /\ \/ /\ propState = "Idle"
                    /\ \/ x \in PacketPc /\ propState' = "Packets"
                       \/ x \in BoundPc /\ propState' = "Bound"
                       \/ x \notin PropPc /\ propState' = "Idle"
                 \/ /\ x \notin PropPc
                    /\ propState' = IF propState = "Bound" THEN "Pending" ELSE propState
  BY <1>1, <1>4 DEF StartPropagation, PropagationLoop, GoIdle, Propagate
<1>5. CASE UpdateTaskTimestampBound(t)
  <2>1. UNCHANGED <<in, scheduling, work, scheduled, prepared>> /\ pc[t] = "bound"
    BY <1>5 DEF UpdateTaskTimestampBound, invocations
  <2>2. CASE Go(t, "loopEnd") /\ propState' = propState
    BY <2>1, <2>2
  <2>3. CASE StartPropagation(t, completed, inputBound)
    BY <1>4, <2>1, <2>3
  <2>4. QED
    BY <1>5, <2>2, <2>3 DEF UpdateTaskTimestampBound
<1>6. CASE ProcessNode(t)
  <2>1. UNCHANGED <<in, scheduling, work, scheduled, prepared>> /\ pc[t] = "process"
    BY <1>6 DEF ProcessNode
  <2>2. StartPropagation(t, completed', taskBound)
    BY <1>6 DEF ProcessNode
  <2>3. QED
    BY <1>4, <2>1, <2>2
<1>7. QED
  BY <1>2, <1>3, <1>5, <1>6 DEF Propagates

\* The propagation has one thread: StartPropagation enters when it is idle.
LEMMA NextTurn ==
  ASSUME Shape, TurnInv, [Next]_vars
  PROVE  TurnInv'
<1>1. CASE UNCHANGED vars
  BY <1>1 DEF TurnInv, vars, propagation
<1>2. CASE Others
  <2>1. propState' = propState
    BY <1>2, OthersAt DEF propagation
  <2>2. PICK t \in Thread, x \in Places \ PropPc : pc[t] \notin PropPc /\ Go(t, x)
    BY <1>2, OthersAt
  <2>3. pc'[t] = x /\ \A u \in Thread : u # t => pc'[u] = pc[u]
    BY <2>2 DEF Go, Shape
  <2>4. x \notin PropPc /\ x \notin PacketPc /\ x \notin BoundPc
    BY DEF PropPc
  <2>5. QED
    BY <2>1, <2>2, <2>3, <2>4, TurnMoves
<1>3. ASSUME NEW t \in Thread, Propagates(t) \/ (t \in Worker /\ ProcessNode(t))
      PROVE  TurnInv'
  <2>1. PICK x \in PropPc \cup {"end", "loopEnd"} :
          /\ Go(t, x)
          /\ \/ pc[t] \in PropPc /\ x \in PropPc /\ propState' = propState
                /\ (pc[t] \in PacketPc <=> x \in PacketPc)
             \/ /\ pc[t] \in PropPc \/ propState = "Idle"
                /\ \/ x \in PacketPc /\ propState' = "Packets"
                   \/ x \in BoundPc /\ propState' = "Bound"
                   \/ x \notin PropPc /\ propState' = "Idle"
             \/ /\ pc[t] \in {"bound", "process"} /\ x \notin PropPc
                /\ propState' = IF propState = "Bound" THEN "Pending" ELSE propState
             \/ /\ pc[t] = "bound" /\ x \notin PropPc /\ propState' = propState
    BY <1>3, PropagatesAt
  <2>2. pc'[t] = x /\ \A u \in Thread : u # t => pc'[u] = pc[u]
    BY <2>1 DEF Go, Shape
  <2>3. /\ propState \in {"Idle", "Packets", "Bound", "Pending"}
        /\ pc[t] \in PropPc => propState # "Idle"
        /\ pc[t] \in PacketPc => propState = "Packets"
        /\ pc[t] \in BoundPc => propState \in {"Bound", "Pending"}
        /\ \A y \in PropPc : y \in PacketPc <=> y \notin BoundPc
        /\ "bound" \notin PropPc /\ "process" \notin PropPc
        /\ PacketPc \subseteq PropPc /\ BoundPc \subseteq PropPc
    BY DEF Shape, TurnInv, PropPc, PacketPc, BoundPc
  <2>4. QED
    BY <2>1, <2>2, <2>3, TurnMoves
<1>4. QED
  BY <1>1, <1>2, <1>3, Steps, Zenon DEF Others

\* The scheduling has one thread: only EndScheduling and CheckIfBecameReady
\* begin it, and only when scheduling_state_ is kIdle.
LEMMA NextSched ==
  ASSUME Shape, WorkInv, TurnInv, SchedInv, [Next]_vars
  PROVE  SchedInv'
<1>1. CASE UNCHANGED vars
  BY <1>1 DEF SchedInv, Sched, Busy, vars, scheduling, invocations
<1>2. CASE Receives
  <2>1. Upstream \in Thread /\ pc[Upstream] = "idle"
    BY <1>2, ParallelNodeAssumption
    DEF Receives, ReceivePacket, ReceiveBound, Receive, Thread
  <2>2. PICK x \in {"check", "idle"} : Go(Upstream, x)
    BY <1>2 DEF Receives, ReceivePacket, ReceiveBound, Receive
  <2>3. UNCHANGED <<scheduling, work>>
    BY <1>2 DEF Receives, ReceivePacket, ReceiveBound, Receive, invocations
  <2>4. ~Sched(Upstream) /\ ~Sched(Upstream)'
    BY <2>1, <2>2, <2>3, Elsewhere DEF Sched, SchedPc, PropPc, PacketPc, BoundPc
  <2>5. QED
    BY <2>1, <2>2, <2>3, <2>4, Elsewhere, SchedMoves DEF scheduling
<1>3. ASSUME NEW t \in Thread, Schedules(t) PROVE SchedInv'
  <2>1. work' = work
    BY <1>3 DEF Schedules, CheckIfBecameReady, SchedulingLoop, ScheduleInvocation, EndOfLoop,
       invocations
  <2>2. PICK x : /\ Go(t, x)
                 /\ \/ x \in SchedPc /\ schedState' # "Idle" /\ (pc[t] \in SchedPc \/ schedState = "Idle")
                    \/ x = "idle" /\ schedState' = "Idle" /\ pc[t] \in SchedPc
                    \/ x = "idle" /\ pc[t] = "check" /\ (schedState' = "Idle" <=> schedState = "Idle")
    <3>1. pc[t] \in SchedPc => schedState # "Idle"
      BY DEF SchedInv, Sched
    <3>2. CASE ScheduleInvocation(t)
      <4>1. pc[t] = "schedule" /\ schedState' = schedState
        BY <3>2 DEF ScheduleInvocation
      <4>2. Go(t, "loopEnd") \/ Go(t, "bound") \/ pc' = pc
        BY <3>2 DEF ScheduleInvocation, AfterScheduling
      <4>3. pc' = pc => Go(t, "schedule")
        BY <4>1 DEF Go, Shape
      <4>4. QED
        BY <3>1, <4>1, <4>2, <4>3 DEF SchedPc
    <3>3. CASE CheckIfBecameReady(t)
      BY <3>3 DEF CheckIfBecameReady, SchedPc
    <3>4. CASE SchedulingLoop(t) \/ EndOfLoop(t)
      BY <3>1, <3>4 DEF SchedulingLoop, EndOfLoop, SchedPc
    <3>5. QED
      BY <1>3, <3>2, <3>3, <3>4 DEF Schedules
  <2>3. ~Busy(t) \/ pc[t] \notin SchedPc \cup {"check"}
    BY DEF WorkInv
  <2>4. /\ Sched(t)' <=> x \in SchedPc
        /\ Sched(t) <=> pc[t] \in SchedPc
    BY <1>3, <2>1, <2>2, <2>3, Elsewhere
    DEF Sched, Schedules, CheckIfBecameReady, SchedulingLoop, ScheduleInvocation, EndOfLoop,
        SchedPc, PropPc, PacketPc, BoundPc
  <2>5. x = "idle" => x \notin SchedPc
    BY DEF SchedPc
  <2>6. pc[t] = "check" => pc[t] \notin SchedPc
    BY DEF SchedPc
  <2>7. \A u \in Thread : u # t => (Sched(u)' <=> Sched(u))
    BY <2>1, <2>2, Elsewhere
  <2>8. QED
    BY <2>2, <2>4, <2>5, <2>6, <2>7, SchedMoves
<1>4. ASSUME NEW t \in Thread, Propagates(t) \/ (t \in Worker /\ ProcessNode(t))
      PROVE  SchedInv'
  <2>1. PICK x \in PropPc \cup {"end", "loopEnd"} :
          /\ Go(t, x)
          /\ x \in {"end", "loopEnd"} => x = Home(t) \/ (x = "loopEnd" /\ pc[t] = "bound")
    BY <1>4, PropagatesAt
  <2>2. UNCHANGED <<scheduling, work>>
    BY <1>4, PropagatesAt
  <2>3. Home(t) = IF Busy(t) THEN "end" ELSE "loopEnd"
    BY Propagations
  <2>4. pc[t] \in PropPc \cup {"bound", "process"}
    BY <1>4
    DEF Propagates, UpdateTaskTimestampBound, PropagateOutputPackets, RecycleCalculatorContext,
        PacketsPropagated, TryPropagateTimestampBound, RaiseMirrorBound, BoundPropagated,
        ProcessNode, PropPc, PacketPc, BoundPc
  <2>5. (pc[t] = "bound" => ~Busy(t)) /\ (pc[t] = "process" => Busy(t))
    BY DEF WorkInv, SchedPc, WorkPc
  <2>6. Sched(t) <=> ~Busy(t)
    BY <2>4, <2>5 DEF Sched, SchedPc, PropPc, PacketPc, BoundPc
  <2>7. Sched(t)' <=> ~Busy(t)
    BY <2>1, <2>2, <2>3, <2>5, Elsewhere DEF SchedPc, PropPc, PacketPc, BoundPc
  <2>8. Sched(t) => schedState # "Idle"
    BY DEF SchedInv
  <2>9. QED
    BY <2>1, <2>2, <2>6, <2>7, <2>8, Elsewhere, SchedMoves DEF scheduling
<1>5. ASSUME NEW w \in Worker, Closes(w) PROVE SchedInv'
  <2>1. w \in Thread
    BY DEF Thread
  <2>2. pc[w] \in ClosePc /\ UNCHANGED <<schedState, work>>
    BY <1>5
    DEF Closes, CloseInputStreams, CloseCalculator, CloseMirror, CloseManager, SetClosed,
        invocations, scheduling, ClosePc
  <2>3. PICK x \in WorkPc : Go(w, x)
    BY <1>5
    DEF Closes, CloseInputStreams, CloseCalculator, CloseMirror, CloseManager, SetClosed, WorkPc,
        ClosePc
  <2>4. ~Sched(w) /\ ~Sched(w)'
    BY <2>1, <2>2, <2>3, Elsewhere DEF Sched, SchedPc, PropPc, PacketPc, BoundPc, ClosePc, WorkPc
  <2>5. QED
    BY <2>1, <2>2, <2>3, <2>4, Elsewhere, SchedMoves
<1>6. ASSUME NEW w \in Worker, w \in Thread, Begin(w) \/ EndScheduling(w) PROVE SchedInv'
  <2>1. PICK x, y :
          /\ x \in {"loop", "idle", "close", "process"}
          /\ Go(w, x) /\ work' = [work EXCEPT ![w] = y] /\ pc[w] \in {"idle", "end"}
          /\ \/ x = "loop" /\ schedState = "Idle" /\ schedState' # "Idle"
             \/ x # "loop" /\ (schedState' = "Idle" <=> schedState = "Idle")
    BY <1>6 DEF Begin, EndScheduling, scheduling
  <2>2. pc'[w] = x /\ \A u \in Thread : u # w => pc'[u] = pc[u]
    BY <1>6, <2>1 DEF Go, Shape
  <2>3. \A u \in Worker : u # w => work'[u] = work[u]
    BY <2>1 DEF Shape
  <2>4. \A u \in Thread : u # w => (Sched(u)' <=> Sched(u))
    BY <2>2, <2>3 DEF Sched, Busy
  <2>5. ~Sched(w) /\ (Sched(w)' <=> x = "loop")
    BY <2>1, <2>2 DEF Sched, SchedPc, PropPc, PacketPc, BoundPc
  <2>6. QED
    BY <1>6, <2>1, <2>4, <2>5, SchedMoves
<1>7. QED
  BY <1>1, <1>2, <1>3, <1>4, <1>5, <1>6, Steps, Zenon

-----------------------------------------------------------------------------
\* The streams.

\* A packet or a bound arrives.
LEMMA Arrival ==
  ASSUME Shape, Receives
  PROVE  /\ Ordered(in') /\ in'.closed = in.closed /\ in'.bound > in.bound
         /\ \/ in'.queue = in.queue
            \/ \E p \in PreStream .. PostStream :
                 /\ p >= in.bound
                 /\ in'.queue = Append(in.queue, p)
                 /\ in'.bound = NextAllowedInStream(p)
         /\ pc[Upstream] = "idle"
         /\ Go(Upstream, IF in.queue = <<>> THEN "check" ELSE "idle")
         /\ UNCHANGED <<scheduling, invocations, propagation, downstream, offsetEnabled>>
<1>1. Ordered(in) /\ in \in Stream
  BY DEF Shape, Ordered
<1>2. in.bound \in Int /\ PreStream .. Done \subseteq Int
  BY <1>1, TimestampValues DEF Stream
<1>3. ASSUME NEW p \in PreStream .. PostStream, NEW done, done = AddPackets(in, <<p>>), Receive(done)
      PROVE  /\ Ordered(in') /\ in'.closed = in.closed /\ in'.bound > in.bound
             /\ \E q \in PreStream .. PostStream :
                 /\ q >= in.bound
                 /\ in'.queue = Append(in.queue, q)
                 /\ in'.bound = NextAllowedInStream(q)
             /\ Go(Upstream, IF in.queue = <<>> THEN "check" ELSE "idle")
  <2>1. ~done.refused /\ done.stream # in /\ in' = done.stream
        /\ Go(Upstream, IF done.notify THEN "check" ELSE "idle")
    BY <1>3 DEF Receive
  <2>2. /\ p >= in.bound
        /\ in' = [in EXCEPT !.queue = Append(@, p), !.bound = NextAllowedInStream(p),
                            !.added = TRUE]
        /\ done.notify <=> in.queue = <<>>
    BY <1>1, <1>3, <2>1, AddOne
  <2>3. Ordered(in') /\ in'.closed = in.closed
    BY <1>1, <2>2, OrderedGrows
  <2>4. in'.queue = Append(in.queue, p) /\ in'.bound = NextAllowedInStream(p)
    BY <1>1, <2>2 DEF Stream
  <2>5. in'.bound > in.bound
    BY <1>2, <2>2, <2>4, TimestampOrder, TimestampValues
  <2>6. Go(Upstream, IF in.queue = <<>> THEN "check" ELSE "idle")
    BY <2>1, <2>2
  <2>7. QED
    BY <2>2, <2>3, <2>4, <2>5, <2>6
<1>4. ASSUME NEW b \in MinTs .. Done, NEW done, done = SetNextTimestampBound(in, b), Receive(done)
      PROVE  /\ Ordered(in') /\ in'.closed = in.closed /\ in'.bound > in.bound
             /\ in'.queue = in.queue
             /\ Go(Upstream, IF in.queue = <<>> THEN "check" ELSE "idle")
  <2>1. done.stream # in /\ in' = done.stream
        /\ Go(Upstream, IF done.notify THEN "check" ELSE "idle")
    BY <1>4 DEF Receive
  <2>2. /\ ~in.closed /\ b > in.bound /\ in' = [in EXCEPT !.bound = b]
        /\ done.notify <=> in.queue = <<>>
    BY <1>4, <2>1 DEF SetNextTimestampBound
  <2>3. b \in PreStream .. Done
    BY TimestampValues
  <2>4. Ordered(in')
    BY <1>1, <1>4, <2>1, <2>3, OrderedBound
  <2>5. in'.queue = in.queue /\ in'.closed = in.closed /\ in'.bound = b
    BY <1>1, <2>2 DEF Stream
  <2>6. Go(Upstream, IF in.queue = <<>> THEN "check" ELSE "idle")
    BY <2>1, <2>2
  <2>7. QED
    BY <2>2, <2>4, <2>5, <2>6
<1>5. PICK done : Receive(done) /\
         \/ \E p \in PreStream .. PostStream : done = AddPackets(in, <<p>>)
         \/ \E b \in MinTs .. Done : done = SetNextTimestampBound(in, b)
  BY DEF Receives, ReceivePacket, ReceiveBound
<1>6. /\ pc[Upstream] = "idle"
      /\ UNCHANGED <<scheduling, invocations, propagation, downstream, offsetEnabled>>
  BY <1>5 DEF Receive
<1>7. QED
  BY <1>3, <1>4, <1>5, <1>6

\* The earliest of some timestamps.
LEMMA LeastIs ==
  ASSUME NEW S, S \subseteq PreStream .. PostStream, S # {}
  PROVE  Least(S) \in S /\ \A x \in S : Least(S) <= x
<1>1. S \subseteq Nat
  BY TimestampValues
<1>2. IsWellFoundedOn(OpToRel(<, Nat), Nat)
  BY NatLessThanWellFounded
<1>3. \A x, y \in Nat : y < x => <<y, x>> \in OpToRel(<, Nat)
  BY DEF OpToRel
<1> DEFINE R == OpToRel(<, Nat)
<1>4. IsWellFoundedOn(R, Nat) /\ \A x, y \in Nat : y < x => <<y, x>> \in R
  BY <1>2, <1>3
<1> HIDE DEF R
<1>5. PICK x \in S : \A y \in S : ~ (<<y, x>> \in R)
  BY <1>1, <1>4, WFMin
<1>6. \A y \in S : ~ (y < x)
  BY <1>1, <1>4, <1>5
<1>7. \A y \in S : x <= y
  BY <1>1, <1>6
<1>8. QED
  BY <1>7 DEF Least

\* The contexts' and the completed timestamps' earliest one.
LEMMA LeastOne ==
  ASSUME NEW S, S \subseteq PreStream .. PostStream, NEW x \in S, \A y \in S : x <= y
  PROVE  Least(S) = x
<1>1. Least(S) \in S /\ \A y \in S : Least(S) <= y
  BY LeastIs
<1>2. PreStream .. PostStream \subseteq Int
  BY TimestampValues
<1>3. x \in Int /\ Least(S) \in Int
  BY <1>1, <1>2
<1>4. QED
  BY <1>1, <1>3

\* What is sent downstream keeps the stream there in order, and its bound never
\* comes down.
LEMMA PacketsKeep ==
  ASSUME Shape, NEW p \in PreStream .. PostStream,
         NEW r, r = AddPackets(mirror, <<p>>).stream
  PROVE  /\ Ordered(r) /\ ~r.closed /\ r.bound >= mirror.bound
         /\ p < MaxTs => r.bound > p
<1> DEFINE done == AddPackets(mirror, <<p>>)
<1>1. Ordered(mirror) /\ mirror \in Stream /\ ~mirror.closed
  BY DEF Shape, Ordered
<1>2. mirror.bound \in Int /\ PreStream .. Done \subseteq Int
  BY <1>1, TimestampValues DEF Stream
<1>3. CASE p >= mirror.bound
           /\ r = [mirror EXCEPT !.queue = Append(@, p), !.bound = NextAllowedInStream(p),
                                 !.added = TRUE]
  <2>1. Ordered(r) /\ ~r.closed
    BY <1>1, <1>3, OrderedGrows
  <2>2. r.bound = NextAllowedInStream(p)
    BY <1>1, <1>3 DEF Stream
  <2>3. QED
    BY <1>2, <1>3, <2>1, <2>2, TimestampOrder, TimestampValues
<1>4. CASE r = mirror /\ done.refused
  <2>1. p < MaxTs => p < mirror.bound
    <3>1. SUFFICES ASSUME p < MaxTs, p >= mirror.bound PROVE ~done.refused
      BY <1>2, <1>4, TimestampValues
    <3>2. /\ Len(<<p>>) = 1 /\ <<p>>[1] = p /\ IsAllowedInStream(p) /\ p # PostStream
      BY <3>1, TimestampValues DEF IsAllowedInStream
    <3>3. Accepts(mirror, <<p>>, 1)
      BY <3>1, <3>2 DEF Accepts
    <3> DEFINE ps == <<p>>
               Fits(k) == /\ \A i \in 1 .. k : Accepts(mirror, ps, i)
                          /\ k = Len(ps) \/ ~Accepts(mirror, ps, k + 1)
               n == CHOOSE k \in 0 .. Len(ps) : Fits(k)
               more == [mirror EXCEPT !.queue = @ \o SubSeq(ps, 1, n),
                                      !.bound = NextAllowedInStream(ps[n]), !.added = TRUE]
    <3>4. Len(ps) = 1 /\ Accepts(mirror, ps, 1)
      BY <3>2, <3>3
    <3>5. done = IF mirror.closed \/ n = 0
                 THEN [stream |-> mirror, notify |-> FALSE, refused |-> ~mirror.closed /\ ps # <<>>]
                 ELSE [stream |-> more, notify |-> n = Len(ps) /\ mirror.queue = <<>>,
                       refused |-> n < Len(ps)]
      BY Zenon DEF AddPackets
    <3>6. n = 1
      <4> HIDE DEF ps
      <4>1. Fits(1) /\ ~Fits(0) /\ 0 .. Len(ps) = {0, 1}
        BY <3>4
      <4> HIDE DEF Fits
      <4>2. QED
        BY <4>1
    <3> HIDE DEF more, n, ps, done
    <3>7. ~(n < Len(ps))
      BY <3>4, <3>6
    <3>8. ~(mirror.closed \/ n = 0)
      BY <1>1, <3>6
    <3>9. QED
      BY <3>5, <3>7, <3>8, Zenon
  <2>2. QED
    BY <1>1, <1>2, <1>4, <2>1, TimestampValues
<1>5. QED
  BY <1>1, <1>3, <1>4, AddOne

\* The mirror after an update of its bound.
LEMMA BoundKeeps ==
  ASSUME Shape, NEW b \in PreStream .. Done,
         NEW r, r = SetNextTimestampBound(mirror, b).stream
  PROVE  Ordered(r) /\ ~r.closed /\ r.bound >= mirror.bound /\ r.bound >= b
         /\ r.queue = mirror.queue
<1>1. Ordered(mirror) /\ mirror \in Stream /\ ~mirror.closed
  BY DEF Shape, Ordered
<1>2. mirror.bound \in Int /\ b \in Int
  BY <1>1, TimestampValues DEF Stream
<1>3. Ordered(r) /\ ~r.closed /\ r.queue = mirror.queue
  BY <1>1, OrderedBound
<1>4. r = IF b > mirror.bound THEN [mirror EXCEPT !.bound = b] ELSE mirror
  BY <1>1 DEF SetNextTimestampBound
<1>5. r.bound = IF b > mirror.bound THEN b ELSE mirror.bound
  BY <1>1, <1>4 DEF Stream
<1>6. QED
  BY <1>2, <1>3, <1>5

\* The output of one invocation.
LEMMA UpdateKeeps ==
  ASSUME Shape, NEW ts \in {Unset} \cup (PreStream .. Done),
         NEW r, r = Update(ts).stream
  PROVE  /\ Ordered(r) /\ ~r.closed /\ r.bound >= mirror.bound
         /\ OutputTimestampBound(ts) \in {Unset} \cup (PreStream .. Done)
         /\ ts \in MinTs .. MaxTs - 1 /\ offsetEnabled =>
              r.bound >= ts + 1 /\ OutputTimestampBound(ts) = ts + 1
<1>1. /\ mirror.bound \in PreStream .. Done
      /\ output \subseteq PreStream .. PostStream
      /\ PreStream .. Done \subseteq Int
  BY TimestampValues DEF Shape, Ordered, Stream
<1>2. /\ InputBound(ts) \in PreStream .. Done /\ NextAllowedInStream(ts) \in PreStream .. Done
      /\ ts \in MinTs .. MaxTs - 1 => InputBound(ts) = ts + 1 /\ NextAllowedInStream(ts) = ts + 1
  BY TimestampValues DEF InputBound, NextAllowedInStream
<1>3. OutputTimestampBound(ts) = IF ts \in output THEN NextAllowedInStream(ts)
                                 ELSE IF offsetEnabled THEN InputBound(ts) ELSE Unset
  BY DEF OutputTimestampBound
<1>4. CASE ts \in output
  <2>1. r = AddPackets(mirror, <<ts>>).stream /\ ts \in PreStream .. PostStream
    BY <1>1, <1>4 DEF Update
  <2>2. /\ Ordered(r) /\ ~r.closed /\ r.bound >= mirror.bound
        /\ ts < MaxTs => r.bound > ts
    BY <2>1, PacketsKeep
  <2>3. r.bound \in Int
    BY <1>1, <2>2 DEF Ordered, Stream
  <2>4. QED
    BY <1>2, <1>3, <1>4, <2>2, <2>3, TimestampValues
<1>5. CASE ts \notin output
  <2> DEFINE b == IF offsetEnabled THEN InputBound(ts) ELSE mirror.bound
  <2>1. r = SetNextTimestampBound(mirror, b).stream
    BY <1>5 DEF Update
  <2>2. b \in PreStream .. Done /\ (offsetEnabled => b = InputBound(ts))
    BY <1>1, <1>2
  <2> HIDE DEF b
  <2>3. Ordered(r) /\ ~r.closed /\ r.bound >= mirror.bound /\ r.bound >= b
    BY <2>1, <2>2, BoundKeeps
  <2>4. QED
    BY <1>2, <1>3, <1>5, <2>2, <2>3, TimestampValues
<1>6. QED
  BY <1>4, <1>5

\* A bound that is raised is a range value.
RaiseInv == \A t \in Thread : pc[t] = "raise" => carried \in MinTs .. MaxTs

\* The steps of a thread that propagates.
Own(u) ==
  \/ PropagateOutputPackets(u) \/ RecycleCalculatorContext(u) \/ PacketsPropagated(u)
  \/ TryPropagateTimestampBound(u) \/ RaiseMirrorBound(u) \/ BoundPropagated(u)

\* What a propagation thread works with changes only by its own steps.
LEMMA PropagatorAlone ==
  ASSUME Shape, TurnInv, [Next]_vars, NEW u \in Thread, pc[u] \in PropPc
  PROVE  \/ Own(u)
         \/ /\ pc'[u] = pc[u] /\ carried' = carried
            /\ propState' = propState \/ (propState = "Bound" /\ propState' = "Pending")
            /\ contexts \subseteq contexts'
<1>1. CASE UNCHANGED vars
  BY <1>1 DEF vars, propagation, invocations
<1>2. CASE Others
  <2>1. UNCHANGED propagation
    BY <1>2, OthersAt
  <2>2. pc'[u] = pc[u]
    BY <1>2, OthersAt DEF Go, Shape
  <2>3. contexts \subseteq contexts'
    <3>1. CASE Receives
      BY <3>1 DEF Receives, ReceivePacket, ReceiveBound, Receive, invocations
    <3>2. CASE \E t \in Thread : Schedules(t)
      BY <3>2
      DEF Schedules, CheckIfBecameReady, SchedulingLoop, ScheduleInvocation, EndOfLoop, invocations
    <3>3. CASE \E w \in Worker : Closes(w)
      BY <3>3
      DEF Closes, CloseInputStreams, CloseCalculator, CloseMirror, CloseManager, SetClosed,
          invocations
    <3>4. CASE \E w \in Worker : Begin(w) \/ EndScheduling(w)
      BY <3>4 DEF Begin, EndScheduling
    <3>5. QED
      BY <1>2, <3>1, <3>2, <3>3, <3>4, Zenon DEF Others
  <2>4. QED
    BY <2>1, <2>2, <2>3 DEF propagation
<1>3. ASSUME NEW t \in Thread, Own(t) PROVE Own(u)
  <2>1. pc[t] \in PropPc
    BY <1>3
    DEF Own, PropagateOutputPackets, RecycleCalculatorContext, PacketsPropagated,
        TryPropagateTimestampBound, RaiseMirrorBound, BoundPropagated, PropPc, PacketPc, BoundPc
  <2>2. t = u
    BY <2>1 DEF TurnInv
  <2>3. QED
    BY <1>3, <2>2
<1>4. ASSUME NEW t \in Thread, UpdateTaskTimestampBound(t) \/ (t \in Worker /\ ProcessNode(t))
      PROVE  /\ pc'[u] = pc[u] /\ carried' = carried /\ contexts' = contexts
             /\ propState' = propState \/ (propState = "Bound" /\ propState' = "Pending")
  <2>1. propState # "Idle" /\ u # t
    BY <1>4 DEF TurnInv, UpdateTaskTimestampBound, ProcessNode, PropPc, PacketPc, BoundPc
  <2>2. /\ contexts' = contexts
        /\ \/ \E done, bound : StartPropagation(t, done, bound)
           \/ Go(t, "loopEnd") /\ UNCHANGED <<propState, carried>>
    BY <1>4 DEF UpdateTaskTimestampBound, ProcessNode, invocations
  <2>3. /\ Go(t, Home(t)) \/ Go(t, "loopEnd")
        /\ carried' = carried
        /\ propState' = propState \/ (propState = "Bound" /\ propState' = "Pending")
    BY <2>1, <2>2 DEF StartPropagation
  <2>4. QED
    BY <2>1, <2>2, <2>3 DEF Go, Shape
<1>5. ASSUME NEW t \in Thread, Propagates(t)
      PROVE  Own(t) \/ UpdateTaskTimestampBound(t)
  BY <1>5, Zenon DEF Propagates, Own
<1>6. QED
  BY <1>1, <1>2, <1>3, <1>4, <1>5, Steps, Zenon DEF Others

\* Where a propagation thread begins.
LEMMA Enters ==
  ASSUME Shape, [Next]_vars, NEW u \in Thread, pc[u] \notin PropPc, pc'[u] \in PropPc
  PROVE  /\ UpdateTaskTimestampBound(u) \/ (u \in Worker /\ ProcessNode(u))
         /\ pc'[u] \in {"send", "tryBound"}
<1>1. pc'[u] # pc[u]
  OBVIOUS
<1>2. CASE UNCHANGED vars
  BY <1>1, <1>2 DEF vars
<1>3. CASE Others
  BY <1>1, <1>3, OthersAt DEF Go, Shape
<1>4. ASSUME NEW t \in Thread, Propagates(t) \/ (t \in Worker /\ ProcessNode(t))
      PROVE  t = u
  BY <1>1, <1>4, PropagatesAt DEF Go, Shape
<1>5. ASSUME Own(u) PROVE FALSE
  BY <1>5
  DEF Own, PropagateOutputPackets, RecycleCalculatorContext, PacketsPropagated,
      TryPropagateTimestampBound, RaiseMirrorBound, BoundPropagated, PropPc, PacketPc, BoundPc
<1>6. UpdateTaskTimestampBound(u) \/ (u \in Worker /\ ProcessNode(u))
  <2>1. ASSUME NEW t \in Thread, Propagates(t)
        PROVE  UpdateTaskTimestampBound(u)
    BY <1>4, <1>5, <2>1, Zenon DEF Propagates, Own
  <2>2. QED
    BY <1>2, <1>3, <1>4, <2>1, Steps, Zenon DEF Others
<1>7. Home(u) \notin PropPc /\ "loopEnd" \notin PropPc
  BY DEF Home, PropPc, PacketPc, BoundPc
<1>8. PICK x \in {"send", "tryBound", Home(u), "loopEnd"} : Go(u, x)
  BY <1>6
  DEF UpdateTaskTimestampBound, ProcessNode, StartPropagation, PropagationLoop, Propagate, GoIdle
<1>9. QED
  BY <1>6, <1>7, <1>8 DEF Go, Shape

\* RaiseMirrorBound follows the check of TryPropagateTimestampBound.
LEMMA NextRaise ==
  ASSUME Shape, TurnInv, RaiseInv, [Next]_vars
  PROVE  RaiseInv'
<1>1. SUFFICES ASSUME NEW u \in Thread, pc'[u] = "raise" PROVE carried' \in MinTs .. MaxTs
  BY DEF RaiseInv, MinTs, MaxTs
<1>2. pc[u] \in PropPc
  BY <1>1, Enters DEF PropPc, BoundPc
<1>3. CASE Own(u)
  <2>1. CASE TryPropagateTimestampBound(u)
    <3>1. IsRangeValue(carried) /\ carried' = carried
      BY <1>1, <2>1 DEF TryPropagateTimestampBound, Go, Shape, propagation
    <3>2. carried \in Int
      BY TimestampValues DEF Shape
    <3>3. QED
      BY <3>1, <3>2, TimestampValues DEF IsRangeValue
  <2>2. CASE ~TryPropagateTimestampBound(u)
    <3>1. PICK x \in {"recycle", "sent", "tried", "send", "tryBound", Home(u)} : Go(u, x)
      BY <1>3, <2>2
      DEF Own, PropagateOutputPackets, RecycleCalculatorContext, PacketsPropagated,
          RaiseMirrorBound, BoundPropagated, Propagate, GoIdle
    <3>2. QED
      BY <1>1, <3>1 DEF Go, Shape, Home
  <2>3. QED
    BY <2>1, <2>2
<1>4. CASE pc'[u] = pc[u] /\ carried' = carried
  BY <1>1, <1>4 DEF RaiseInv, MinTs, MaxTs
<1>5. QED
  BY <1>2, <1>3, <1>4, PropagatorAlone

\* The stream downstream.
LEMMA Downstream ==
  ASSUME Shape, RaiseInv, [Next]_vars
  PROVE  /\ Ordered(mirror') /\ ~mirror'.closed /\ mirror'.bound >= mirror.bound
         /\ manager' \in [bound : PreStream .. Done, closed : BOOLEAN]
         /\ hasError' \in BOOLEAN
<1>1. /\ Ordered(mirror) /\ ~mirror.closed /\ mirror.bound \in Int
      /\ manager \in [bound : PreStream .. Done, closed : BOOLEAN]
      /\ hasError \in BOOLEAN
      /\ PreStream .. Done \subseteq Int /\ Done \in PreStream .. Done
  BY TimestampValues DEF Shape, Ordered, Stream
<1>2. CASE UNCHANGED downstream
  BY <1>1, <1>2 DEF downstream
<1>3. ASSUME NEW t \in Thread, PropagateOutputPackets(t) \/ RaiseMirrorBound(t)
      PROVE  /\ Ordered(mirror') /\ ~mirror'.closed /\ mirror'.bound >= mirror.bound
             /\ manager' \in [bound : PreStream .. Done, closed : BOOLEAN]
             /\ hasError' \in BOOLEAN
  <2>1. CASE PropagateOutputPackets(t)
    <3>1. carried \in {Unset} \cup (PreStream .. Done)
      BY DEF Shape
    <3> DEFINE b == OutputTimestampBound(carried)
               done == Update(carried)
    <3>2. /\ Ordered(done.stream) /\ ~done.stream.closed /\ done.stream.bound >= mirror.bound
          /\ b \in {Unset} \cup (PreStream .. Done)
      BY <3>1, UpdateKeeps
    <3>3. \/ UNCHANGED downstream
          \/ /\ manager' = IF b = Unset THEN manager ELSE [manager EXCEPT !.bound = b]
             /\ mirror' = done.stream
             /\ hasError' = (hasError \/ done.refused)
      BY <2>1 DEF PropagateOutputPackets
    <3> HIDE DEF b, done
    <3>4. CASE UNCHANGED downstream
      BY <1>2, <3>4
    <3>5. hasError' = (hasError \/ done.refused) => hasError' \in BOOLEAN
      OBVIOUS
    <3>6. QED
      BY <1>1, <3>2, <3>3, <3>4, <3>5
  <2>2. CASE RaiseMirrorBound(t)
    <3>1. carried \in PreStream .. Done
      BY <2>2, TimestampValues DEF RaiseMirrorBound, RaiseInv
    <3> DEFINE done == SetNextTimestampBound(mirror, carried)
    <3>2. Ordered(done.stream) /\ ~done.stream.closed /\ done.stream.bound >= mirror.bound
      BY <3>1, BoundKeeps
    <3>3. /\ manager' = [manager EXCEPT !.bound = carried]
          /\ mirror' = done.stream
          /\ hasError' = (hasError \/ done.refused)
      BY <2>2 DEF RaiseMirrorBound
    <3> HIDE DEF done
    <3>4. hasError' \in BOOLEAN
      BY <3>3
    <3>5. QED
      BY <1>1, <3>1, <3>2, <3>3, <3>4
  <2>3. QED
    BY <1>3, <2>1, <2>2
<1>4. ASSUME NEW w \in Worker, CloseCalculator(w) \/ CloseMirror(w) \/ CloseManager(w)
      PROVE  /\ Ordered(mirror') /\ ~mirror'.closed /\ mirror'.bound >= mirror.bound
             /\ manager' \in [bound : PreStream .. Done, closed : BOOLEAN]
             /\ hasError' \in BOOLEAN
  <2>1. CASE CloseCalculator(w)
    <3>1. manager' = [manager EXCEPT !.bound = Done] /\ hasError' = hasError
      BY <2>1 DEF CloseCalculator
    <3>2. mirror' = mirror \/ \E p \in manager.bound .. PostStream :
                                 mirror' = AddPackets(mirror, <<p>>).stream
      BY <2>1 DEF CloseCalculator
    <3>3. manager.bound \in PreStream .. Done
      BY <1>1
    <3>4. \A p \in manager.bound .. PostStream : p \in PreStream .. PostStream
      BY <3>3, TimestampValues
    <3>5. Ordered(mirror') /\ ~mirror'.closed /\ mirror'.bound >= mirror.bound
      <4>1. ASSUME NEW p \in manager.bound .. PostStream,
                   mirror' = AddPackets(mirror, <<p>>).stream
            PROVE  Ordered(mirror') /\ ~mirror'.closed /\ mirror'.bound >= mirror.bound
        BY <3>4, <4>1, PacketsKeep
      <4>2. mirror.bound >= mirror.bound
        BY <1>1
      <4>3. QED
        BY <1>1, <3>2, <4>1, <4>2
    <3>6. QED
      BY <1>1, <3>1, <3>5
  <2>2. CASE CloseMirror(w)
    BY <1>1, <2>2, BoundKeeps DEF CloseMirror
  <2>3. CASE CloseManager(w)
    BY <1>1, <2>3 DEF CloseManager
  <2>4. QED
    BY <1>4, <2>1, <2>2, <2>3
<1>5. CASE Receives
  BY <1>2, <1>5 DEF Receives, ReceivePacket, ReceiveBound, Receive
<1>6. ASSUME NEW t \in Thread,
             Schedules(t) \/ UpdateTaskTimestampBound(t) \/ RecycleCalculatorContext(t)
             \/ PacketsPropagated(t) \/ TryPropagateTimestampBound(t) \/ BoundPropagated(t)
      PROVE  UNCHANGED downstream
  BY <1>6
  DEF Schedules, CheckIfBecameReady, SchedulingLoop, ScheduleInvocation, EndOfLoop,
      UpdateTaskTimestampBound, RecycleCalculatorContext, PacketsPropagated,
      TryPropagateTimestampBound, BoundPropagated
<1>7. ASSUME NEW w \in Worker,
             CloseInputStreams(w) \/ SetClosed(w) \/ Begin(w) \/ ProcessNode(w) \/ EndScheduling(w)
      PROVE  UNCHANGED downstream
  BY <1>7 DEF CloseInputStreams, SetClosed, Begin, ProcessNode, EndScheduling
<1>8. CASE UNCHANGED vars
  BY <1>2, <1>8 DEF vars
<1>9. CASE \E t \in Thread : Propagates(t)
  BY <1>2, <1>3, <1>6, <1>9, Zenon DEF Propagates
<1>10. CASE \E w \in Worker : Closes(w)
  BY <1>2, <1>4, <1>7, <1>10, Zenon DEF Closes
<1>11. QED
  BY <1>2, <1>5, <1>6, <1>7, <1>8, <1>9, <1>10, Steps, Zenon

\* An invocation takes the first packet.
Takes(t) ==
  /\ pc[t] = "schedule" /\ allowance > 0 /\ in.queue # <<>>
  /\ contexts' = contexts \cup {Head(in.queue)}
  /\ scheduled' = scheduled \cup {Head(in.queue)}
  /\ in' = PopAt(in, Head(in.queue)).stream
  /\ allowance' = allowance - 1 /\ inFlight' = inFlight + 1
  /\ UNCHANGED <<pc, inputBound, prepared>>
  /\ UNCHANGED <<status, schedState, work, output, propagation, downstream, offsetEnabled>>

\* What happens to the input.
LEMMA Input ==
  ASSUME Shape, [Next]_vars
  PROVE  /\ Ordered(in') /\ in'.bound >= in.bound
         /\ \/ in' = in
            \/ Receives
            \/ /\ \E t \in Thread : Takes(t)
               /\ in.queue # <<>>
               /\ in'.queue = Tail(in.queue) /\ in'.bound = in.bound
            \/ /\ \E w \in Worker : CloseInputStreams(w)
               /\ in'.queue = in.queue /\ in'.bound = Done
<1>1. /\ Ordered(in) /\ in \in Stream /\ in.bound \in PreStream .. Done
      /\ PreStream .. Done \subseteq Int /\ in.bound >= in.bound
  BY TimestampValues DEF Shape, Ordered, Stream
<1>2. CASE Receives
  <2>1. Ordered(in') /\ in'.bound > in.bound
    BY <1>2, Arrival
  <2>2. in'.bound \in Int
    BY <1>1, <2>1 DEF Ordered, Stream
  <2>3. QED
    BY <1>1, <1>2, <2>1, <2>2
<1>3. ASSUME NEW t \in Thread, Takes(t)
      PROVE  /\ Ordered(in') /\ in'.bound = in.bound /\ in.queue # <<>>
             /\ in'.queue = Tail(in.queue)
  <2>1. in.queue # <<>> /\ in' = PopAt(in, Head(in.queue)).stream
    BY <1>3 DEF Takes
  <2>2. in' = [in EXCEPT !.queue = Tail(@), !.selected = Head(in.queue)]
    BY <1>1, <2>1, PopHead
  <2>3. Ordered(in')
    BY <1>1, <2>1, OrderedPop
  <2>4. in'.queue = Tail(in.queue) /\ in'.bound = in.bound
    BY <1>1, <2>2 DEF Stream
  <2>5. QED
    BY <2>1, <2>3, <2>4
<1>4. ASSUME NEW w \in Worker, CloseInputStreams(w)
      PROVE  Ordered(in') /\ in'.queue = in.queue /\ in'.bound = Done
  <2>1. in' = [in EXCEPT !.bound = Done, !.selected = Done, !.closed = TRUE]
    BY <1>4 DEF CloseInputStreams, CloseStream
  <2>2. Done \in PreStream .. Done /\ Done \in Unstarted .. Done
    BY TimestampValues
  <2>3. in' \in Stream /\ in'.queue = in.queue /\ in'.bound = Done
    BY <1>1, <2>1, <2>2 DEF Stream
  <2>4. \A i \in 1 .. Len(in.queue) : in.queue[i] \in PreStream .. PostStream
    BY <1>1, ElementOfSeq DEF Stream
  <2>5. \A i \in 1 .. Len(in.queue) : in.queue[i] < Done
    BY <2>4, TimestampValues
  <2>6. QED
    BY <1>1, <2>3, <2>5 DEF Ordered
<1>5. ASSUME NEW t \in Thread, Schedules(t)
      PROVE  in' = in \/ Takes(t)
  <2>1. ScheduleInvocation(t) => in' = in \/ Takes(t)
    BY DEF ScheduleInvocation, Takes
  <2>2. CheckIfBecameReady(t) \/ SchedulingLoop(t) \/ EndOfLoop(t) => in' = in
    BY DEF CheckIfBecameReady, SchedulingLoop, EndOfLoop
  <2>3. QED
    BY <1>5, <2>1, <2>2, Zenon DEF Schedules
<1>6. ASSUME NEW t \in Thread, Propagates(t) \/ (t \in Worker /\ ProcessNode(t))
      PROVE  in' = in
  BY <1>6, PropagatesAt
<1>7. ASSUME NEW w \in Worker, Closes(w) \/ Begin(w) \/ EndScheduling(w)
      PROVE  in' = in \/ CloseInputStreams(w)
  BY <1>7 DEF Closes, CloseCalculator, CloseMirror, CloseManager, SetClosed, Begin, EndScheduling
<1>8. UNCHANGED vars => in' = in
  BY DEF vars
<1>9. in' = in \/ Receives \/ (\E t \in Thread : Takes(t)) \/ (\E w \in Worker : CloseInputStreams(w))
  BY <1>5, <1>6, <1>7, <1>8, Steps, Zenon
<1>10. CASE in' = in
  BY <1>1, <1>10
<1>11. CASE \E t \in Thread : Takes(t)
  BY <1>1, <1>3, <1>11
<1>12. CASE \E w \in Worker : CloseInputStreams(w)
  <2>1. Ordered(in') /\ in'.queue = in.queue /\ in'.bound = Done
    BY <1>4, <1>12
  <2>2. in.bound <= Done
    BY <1>1, TimestampValues
  <2>3. in'.bound >= in.bound
    BY <1>1, <2>1, <2>2, TimestampValues
  <2>4. QED
    BY <1>12, <2>1, <2>3, Zenon
<1>13. QED
  BY <1>2, <1>9, <1>10, <1>11, <1>12, Zenon

\* The variables keep their types, the streams their order.
LEMMA NextShape ==
  ASSUME Shape, WorkInv, RaiseInv, [Next]_vars
  PROVE  Shape'
<1>1. /\ Ordered(in') /\ Ordered(mirror') /\ ~mirror'.closed
      /\ manager' \in [bound : PreStream .. Done, closed : BOOLEAN] /\ hasError' \in BOOLEAN
  BY Input, Downstream
<1>2. pc' \in [Thread -> Places]
  <2>1. CASE UNCHANGED vars
    BY <2>1 DEF Shape, vars
  <2>2. CASE Others
    BY <2>2, OthersAt DEF Go, Shape
  <2>3. ASSUME NEW t \in Thread, Propagates(t) \/ (t \in Worker /\ ProcessNode(t))
        PROVE  pc' \in [Thread -> Places]
    BY <2>3, PropagatesAt DEF Go, Shape, Places, SchedPc, WorkPc
  <2>4. QED
    BY <2>1, <2>2, <2>3, Steps, Zenon DEF Others
<1>3. /\ propState' \in {"Idle", "Packets", "Bound", "Pending"}
  <2>1. UNCHANGED vars => propState' = propState
    BY DEF vars, propagation
  <2>2. Others => propState' = propState
    BY OthersAt DEF propagation
  <2>3. ASSUME NEW t \in Thread, Propagates(t) \/ (t \in Worker /\ ProcessNode(t))
        PROVE  propState' \in {"Idle", "Packets", "Bound", "Pending"}
    BY <2>3, PropagatesAt DEF Shape
  <2>4. QED
    BY <2>1, <2>2, <2>3, Steps DEF Others, Shape
<1>4. in.bound \in PreStream .. Done /\ (in.queue # <<>> => Head(in.queue) \in PreStream .. PostStream)
  <2>1. in.bound \in PreStream .. Done /\ in.queue \in Seq(PreStream .. PostStream)
    BY DEF Shape, Ordered, Stream
  <2>2. in.queue # <<>> => 1 \in 1 .. Len(in.queue) /\ Head(in.queue) = in.queue[1]
    BY <2>1, QueueOf
  <2>3. QED
    BY <2>1, <2>2, QueueOf
<1>5. /\ status' \in {"opened", "closed"} /\ schedState' \in {"Idle", "Scheduling", "Pending"}
      /\ inFlight' \in Int /\ allowance' \in Int
      /\ inputBound' \in {Unset} \cup (PreStream .. Done)
  <2>1. CASE UNCHANGED scheduling
    BY <2>1 DEF Shape, scheduling
  <2>2. ASSUME NEW t \in Thread, CheckIfBecameReady(t) \/ SchedulingLoop(t) \/ EndOfLoop(t)
        PROVE  /\ status' \in {"opened", "closed"} /\ schedState' \in {"Idle", "Scheduling", "Pending"}
               /\ inFlight' \in Int /\ allowance' \in Int
               /\ inputBound' \in {Unset} \cup (PreStream .. Done)
    BY <2>2, ParallelNodeAssumption DEF CheckIfBecameReady, SchedulingLoop, EndOfLoop, Shape
  <2>3. ASSUME NEW t \in Thread, ScheduleInvocation(t)
        PROVE  /\ status' \in {"opened", "closed"} /\ schedState' \in {"Idle", "Scheduling", "Pending"}
               /\ inFlight' \in Int /\ allowance' \in Int
               /\ inputBound' \in {Unset} \cup (PreStream .. Done)
    BY <1>4, <2>3 DEF ScheduleInvocation, AfterScheduling, Shape
  <2>4. ASSUME NEW w \in Worker, EndScheduling(w) \/ SetClosed(w)
        PROVE  /\ status' \in {"opened", "closed"} /\ schedState' \in {"Idle", "Scheduling", "Pending"}
               /\ inFlight' \in Int /\ allowance' \in Int
               /\ inputBound' \in {Unset} \cup (PreStream .. Done)
    BY <2>4 DEF EndScheduling, SetClosed, Shape
  <2>5. Receives => UNCHANGED scheduling
    BY Arrival
  <2>6. \A t \in Thread : Propagates(t) \/ (t \in Worker /\ ProcessNode(t)) => UNCHANGED scheduling
    BY PropagatesAt
  <2>7. \A w \in Worker : Closes(w) \/ Begin(w) => UNCHANGED scheduling \/ SetClosed(w)
    BY DEF Closes, CloseInputStreams, CloseCalculator, CloseMirror, CloseManager, Begin
  <2>8. UNCHANGED vars => UNCHANGED scheduling
    BY DEF vars
  <2>9. QED
    BY <2>1, <2>2, <2>3, <2>4, <2>5, <2>6, <2>7, <2>8, Steps, Zenon DEF Schedules
<1>6. /\ taskBound' \in {Unset} \cup (PreStream .. Done)
      /\ carried' \in {Unset} \cup (PreStream .. Done)
      /\ completed' \subseteq PreStream .. PostStream
  <2>1. PreStream .. PostStream \subseteq PreStream .. Done
    BY TimestampValues
  <2>2. contexts # {} => Least(contexts) \in PreStream .. PostStream
    BY LeastIs DEF Shape
  <2>3. CASE UNCHANGED propagation
    BY <2>3 DEF Shape, propagation
  <2>4. ASSUME NEW t \in Thread, UpdateTaskTimestampBound(t)
        PROVE  /\ taskBound' \in {Unset} \cup (PreStream .. Done)
               /\ carried' \in {Unset} \cup (PreStream .. Done)
               /\ completed' \subseteq PreStream .. PostStream
    BY <2>1, <2>2, <2>4
    DEF UpdateTaskTimestampBound, StartPropagation, PropagationLoop, Propagate, GoIdle, FrontIn,
        Shape
  <2>5. ASSUME NEW w \in Worker, w \in Thread, ProcessNode(w)
        PROVE  /\ taskBound' \in {Unset} \cup (PreStream .. Done)
               /\ carried' \in {Unset} \cup (PreStream .. Done)
               /\ completed' \subseteq PreStream .. PostStream
    <3>1. work[w] \in PreStream .. PostStream
      <4>1. pc[w] = "process"
        BY <2>5 DEF ProcessNode
      <4>2. work[w] # Done /\ work[w] # Unset
        BY <2>5, <4>1 DEF WorkInv, WorkPc, Busy
      <4>3. QED
        BY <4>2 DEF Shape
    <3>2. /\ completed' = completed \cup {work[w]} /\ taskBound' = taskBound
          /\ StartPropagation(w, completed', taskBound)
      BY <2>5 DEF ProcessNode
    <3>3. carried' \in {Unset} \cup (PreStream .. Done)
      BY <2>1, <2>2, <3>2
      DEF StartPropagation, PropagationLoop, Propagate, GoIdle, FrontIn, Shape
    <3>4. QED
      BY <3>1, <3>2, <3>3 DEF Shape
  <2>6. ASSUME NEW t \in Thread, PacketsPropagated(t) \/ BoundPropagated(t)
        PROVE  /\ taskBound' \in {Unset} \cup (PreStream .. Done)
               /\ carried' \in {Unset} \cup (PreStream .. Done)
               /\ completed' \subseteq PreStream .. PostStream
    BY <2>1, <2>2, <2>6
    DEF PacketsPropagated, BoundPropagated, Propagate, GoIdle, FrontIn, Shape
  <2>7. \A t \in Thread :
          PropagateOutputPackets(t) \/ RecycleCalculatorContext(t)
          \/ TryPropagateTimestampBound(t) \/ RaiseMirrorBound(t) => UNCHANGED propagation
    BY DEF PropagateOutputPackets, RecycleCalculatorContext, TryPropagateTimestampBound,
           RaiseMirrorBound
  <2>8. UNCHANGED vars => UNCHANGED propagation
    BY DEF vars
  <2>9. Others => UNCHANGED propagation
    BY OthersAt
  <2>10. QED
    BY <2>3, <2>4, <2>5, <2>6, <2>7, <2>8, <2>9, Steps, Zenon DEF Propagates, Others
<1>7. /\ contexts' \subseteq PreStream .. PostStream
      /\ output' \subseteq PreStream .. PostStream
      /\ prepared' \in BOOLEAN
      /\ scheduled' \subseteq (PreStream .. PostStream) \cup {Done}
      /\ work' \in [Worker -> {Unset} \cup (PreStream .. PostStream) \cup {Done}]
      /\ offsetEnabled' \in BOOLEAN
  <2> DEFINE Good == /\ contexts' \subseteq PreStream .. PostStream
                    /\ output' \subseteq PreStream .. PostStream
                    /\ prepared' \in BOOLEAN
                    /\ scheduled' \subseteq (PreStream .. PostStream) \cup {Done}
                    /\ work' \in [Worker -> {Unset} \cup (PreStream .. PostStream) \cup {Done}]
                    /\ offsetEnabled' \in BOOLEAN
  <2>1. CASE UNCHANGED <<invocations, offsetEnabled>>
    BY <2>1 DEF Shape, invocations
  <2>2. ASSUME NEW t \in Thread, ScheduleInvocation(t) PROVE Good
    BY <1>4, <2>2 DEF ScheduleInvocation, AfterScheduling, Shape
  <2>3. ASSUME NEW w \in Worker, Begin(w) \/ EndScheduling(w) PROVE Good
    BY <2>3 DEF Begin, EndScheduling, Shape
  <2>4. ASSUME NEW w \in Worker, w \in Thread, ProcessNode(w) PROVE Good
    <3>1. work[w] \in PreStream .. PostStream
      <4>1. pc[w] = "process"
        BY <2>4 DEF ProcessNode
      <4>2. work[w] # Done /\ work[w] # Unset
        BY <2>4, <4>1 DEF WorkInv, WorkPc, Busy
      <4>3. QED
        BY <4>2 DEF Shape
    <3>2. UNCHANGED <<contexts, prepared, scheduled, work, offsetEnabled>>
          /\ output' \in {output, output \cup {work[w]}}
      BY <2>4 DEF ProcessNode
    <3>3. QED
      BY <3>1, <3>2 DEF Shape
  <2>5. ASSUME NEW t \in Thread, RecycleCalculatorContext(t) PROVE Good
    BY <2>5 DEF RecycleCalculatorContext, Shape
  <2>6. \A t \in Thread :
          Schedules(t) \/ Propagates(t) =>
            UNCHANGED <<invocations, offsetEnabled>> \/ ScheduleInvocation(t) \/ RecycleCalculatorContext(t)
    BY DEF Schedules, CheckIfBecameReady, SchedulingLoop, EndOfLoop, Propagates,
           UpdateTaskTimestampBound, PropagateOutputPackets, PacketsPropagated,
           TryPropagateTimestampBound, RaiseMirrorBound, BoundPropagated
  <2>7. \A w \in Worker : Closes(w) => UNCHANGED <<invocations, offsetEnabled>>
    BY DEF Closes, CloseInputStreams, CloseCalculator, CloseMirror, CloseManager, SetClosed
  <2>8. Receives => UNCHANGED <<invocations, offsetEnabled>>
    BY Arrival
  <2>9. UNCHANGED vars => UNCHANGED <<invocations, offsetEnabled>>
    BY DEF vars
  <2>10. QED
    BY <2>1, <2>2, <2>3, <2>4, <2>5, <2>6, <2>7, <2>8, <2>9, Steps, Zenon
<1>8. QED
  BY <1>1, <1>2, <1>3, <1>5, <1>6, <1>7 DEF Shape

-----------------------------------------------------------------------------
\* The close of the node.

\* The invocation of Close, in the scheduler queue or on a thread.
Closing == Done \in scheduled \/ \E t \in Thread : pc[t] \in ClosePc

\* Close is scheduled once, when the input has ended and no context is left;
\* the node is closed after the stream downstream.
CloseInv ==
  /\ prepared => in.queue = <<>> /\ in.bound >= OneOverPostStream /\ contexts = {}
  /\ status = "closed" => prepared /\ mirror.bound = Done
  /\ prepared /\ status = "opened" => Closing
  /\ Closing => prepared /\ status = "opened"
  /\ \A t \in Thread : pc[t] \in {"closeOutput", "closed"} => mirror.bound = Done
  /\ manager.closed => prepared
  /\ \A t, u \in Thread : pc[t] \in ClosePc /\ pc[u] \in ClosePc => t = u
  /\ \A t \in Thread : pc[t] \in ClosePc => Done \notin scheduled

\* A step that neither prepares, nor begins, nor ends Close.
CloseKept ==
  /\ prepared' = prepared /\ status' = status
  /\ Done \in scheduled' <=> Done \in scheduled
  /\ \A t \in Thread : pc'[t] \in ClosePc <=> pc[t] \in ClosePc
  /\ prepared => contexts' \subseteq contexts

\* A step that leaves the invocation of Close where it is.
LEMMA CloseMoves ==
  ASSUME CloseKept, CloseInv,
         prepared => in'.queue = <<>> /\ in'.bound >= OneOverPostStream,
         mirror.bound = Done => mirror'.bound = Done,
         \A t \in Thread : pc'[t] \in {"closeOutput", "closed"} =>
           pc[t] \in {"closeOutput", "closed"} \/ mirror'.bound = Done,
         manager'.closed => manager.closed \/ prepared
  PROVE  CloseInv'
<1>1. Closing' <=> Closing
  BY DEF Closing, CloseKept
<1>2. QED
  BY <1>1 DEF CloseInv, CloseKept

\* The ends of the streams stay.
LEMMA CloseStable ==
  ASSUME Shape, RaiseInv, CloseInv, [Next]_vars
  PROVE  /\ prepared => in'.queue = <<>> /\ in'.bound >= OneOverPostStream
         /\ mirror.bound = Done => mirror'.bound = Done
<1>1. /\ Ordered(in') /\ Ordered(mirror') /\ mirror'.bound >= mirror.bound
  BY Input, Downstream
<1>2. /\ in'.bound \in PreStream .. Done /\ mirror'.bound \in PreStream .. Done
      /\ Done \in Int /\ PreStream \in Int
  BY <1>1, TimestampValues DEF Ordered, Stream
<1>3. mirror.bound = Done => mirror'.bound = Done
  BY <1>1, <1>2
<1>4. ASSUME prepared PROVE in'.queue = <<>> /\ in'.bound >= OneOverPostStream
  <2>1. in.queue = <<>> /\ in.bound >= OneOverPostStream
    BY <1>4 DEF CloseInv
  <2>2. in.bound \in PreStream .. Done /\ in'.bound >= in.bound
    BY Input DEF Shape, Ordered, Stream
  <2>3. in'.bound >= OneOverPostStream
    BY <1>2, <2>1, <2>2, TimestampValues
  <2>4. in'.queue = in.queue
    <3>1. CASE Receives
      <4>1. ~\E p \in PreStream .. PostStream : p >= in.bound
        BY <2>1, <2>2, TimestampValues
      <4>2. QED
        BY <3>1, <4>1, Arrival
    <3>2. QED
      BY <2>1, <3>1, Input
  <2>5. QED
    BY <2>1, <2>3, <2>4
<1>5. QED
  BY <1>3, <1>4

\* Every step keeps the order of the close.
LEMMA NextClose ==
  ASSUME Shape, WorkInv, RaiseInv, CloseInv, [Next]_vars
  PROVE  CloseInv'
<1>1. /\ prepared => in'.queue = <<>> /\ in'.bound >= OneOverPostStream
      /\ mirror.bound = Done => mirror'.bound = Done
  BY CloseStable
<1>2. ASSUME CloseKept, ~\E w \in Worker : CloseMirror(w) \/ CloseManager(w),
             \A t \in Thread : pc'[t] \in {"closeOutput", "closed"} => pc'[t] = pc[t]
      PROVE  CloseInv'
  <2>1. manager'.closed => manager.closed
    <3>1. CASE UNCHANGED manager
      BY <3>1
    <3>2. CASE manager' # manager
      <4>1. PICK b : manager' = [manager EXCEPT !.bound = b]
        <5>1. ASSUME NEW t \in Thread, Propagates(t)
              PROVE  manager' = manager \/ \E b : manager' = [manager EXCEPT !.bound = b]
          <6>1. CASE PropagateOutputPackets(t)
            BY <6>1, Zenon DEF PropagateOutputPackets, downstream
          <6>2. CASE RaiseMirrorBound(t)
            BY <6>2, Zenon DEF RaiseMirrorBound
          <6>3. QED
            BY <5>1, <6>1, <6>2
            DEF Propagates, UpdateTaskTimestampBound, RecycleCalculatorContext, PacketsPropagated,
                TryPropagateTimestampBound, BoundPropagated, downstream
        <5>2. ASSUME NEW w \in Worker, Closes(w)
              PROVE  manager' = manager \/ \E b : manager' = [manager EXCEPT !.bound = b]
          <6>1. CASE CloseCalculator(w)
            BY <6>1, Zenon DEF CloseCalculator
          <6>2. QED
            BY <1>2, <5>2, <6>1 DEF Closes, CloseInputStreams, SetClosed, downstream
        <5>3. UNCHANGED vars \/ Receives \/ (\E t \in Thread : Schedules(t)) => manager' = manager
          BY Arrival
          DEF vars, downstream, Schedules, CheckIfBecameReady, SchedulingLoop, ScheduleInvocation,
              EndOfLoop
        <5>4. \A w \in Worker : ProcessNode(w) \/ Begin(w) \/ EndScheduling(w) => manager' = manager
          BY DEF ProcessNode, Begin, EndScheduling, downstream
        <5>5. QED
          BY <3>2, <5>1, <5>2, <5>3, <5>4, Steps, Zenon
      <4>2. QED
        BY <4>1 DEF Shape
    <3>3. QED
      BY <3>1, <3>2
  <2>2. QED
    BY <1>1, <1>2, <2>1, CloseMoves
<1>3. ASSUME NEW t \in Thread, NEW x, Go(t, x), pc[t] \notin ClosePc, x \notin ClosePc,
             UNCHANGED <<prepared, status>>, Done \in scheduled' <=> Done \in scheduled,
             prepared => contexts' \subseteq contexts,
             ~\E w \in Worker : CloseMirror(w) \/ CloseManager(w)
      PROVE  CloseInv'
  <2>1. pc'[t] = x /\ \A u \in Thread : u # t => pc'[u] = pc[u]
    BY <1>3 DEF Go, Shape
  <2>2. CloseKept
    BY <1>3, <2>1 DEF CloseKept
  <2>3. \A u \in Thread : pc'[u] \in {"closeOutput", "closed"} => pc'[u] = pc[u]
    BY <1>3, <2>1 DEF ClosePc
  <2>4. QED
    BY <1>2, <1>3, <2>2, <2>3
<1>4. ASSUME ~\E w \in Worker : Closes(w)
      PROVE  ~\E w \in Worker : CloseMirror(w) \/ CloseManager(w)
  BY <1>4, Zenon DEF Closes
<1>5. ASSUME NEW t \in Thread, Propagates(t) \/ (t \in Worker /\ ProcessNode(t)),
             ~\E w \in Worker : Closes(w)
      PROVE  CloseInv'
  <2>1. PICK x \in PropPc \cup {"end", "loopEnd"} : Go(t, x)
    BY <1>5, PropagatesAt
  <2>2. UNCHANGED <<scheduling, scheduled, prepared>>
    BY <1>5, PropagatesAt
  <2>3. pc[t] \in PropPc \cup {"bound", "process"} /\ contexts' \subseteq contexts
    BY <1>5
    DEF Propagates, UpdateTaskTimestampBound, PropagateOutputPackets, RecycleCalculatorContext,
        PacketsPropagated, TryPropagateTimestampBound, RaiseMirrorBound, BoundPropagated,
        ProcessNode, invocations, PropPc, PacketPc, BoundPc
  <2>4. pc[t] \notin ClosePc /\ x \notin ClosePc
    BY <2>3 DEF ClosePc, PropPc, PacketPc, BoundPc
  <2>5. QED
    BY <1>3, <1>4, <1>5, <2>1, <2>2, <2>3, <2>4 DEF scheduling
<1>6. CASE Receives /\ ~\E w \in Worker : Closes(w)
  <2>1. /\ UNCHANGED <<scheduling, invocations>> /\ pc[Upstream] = "idle" /\ Upstream \in Thread
        /\ \E x \in {"check", "idle"} : Go(Upstream, x)
    BY <1>6, Arrival DEF Thread
  <2>2. QED
    BY <1>3, <1>4, <1>6, <2>1 DEF scheduling, invocations, ClosePc
<1>7. ASSUME NEW t \in Thread, ScheduleInvocation(t), ~\E w \in Worker : Closes(w)
      PROVE  CloseInv'
  <2>1. pc[t] = "schedule" /\ UNCHANGED status
    BY <1>7 DEF ScheduleInvocation
  <2>2. PICK x \in {"schedule", "bound", "loopEnd"} : Go(t, x)
    <3>1. pc' = pc => Go(t, "schedule")
      BY <2>1 DEF Go, Shape
    <3>2. QED
      BY <1>7, <3>1 DEF ScheduleInvocation, AfterScheduling
  <2>3. pc[t] \notin ClosePc /\ x \notin ClosePc
    BY <2>1 DEF ClosePc
  <2>4. CASE UNCHANGED <<prepared, scheduled, contexts>>
    BY <1>3, <1>4, <1>7, <2>1, <2>2, <2>3, <2>4
  <2>5. CASE Takes(t)
    <3>1. in.queue # <<>> /\ scheduled' = scheduled \cup {Head(in.queue)} /\ prepared' = prepared
      BY <2>5 DEF Takes
    <3>2. ~prepared
      BY <3>1 DEF CloseInv
    <3>3. Head(in.queue) # Done
      <4>1. in.queue \in Seq(PreStream .. PostStream)
        BY DEF Shape, Ordered, Stream
      <4>2. 1 \in 1 .. Len(in.queue) /\ Head(in.queue) = in.queue[1]
        BY <3>1, <4>1, QueueOf
      <4>3. Head(in.queue) \in PreStream .. PostStream
        BY <3>1, <4>1, <4>2, QueueOf
      <4>4. QED
        BY <4>3, TimestampValues
    <3>4. QED
      BY <1>3, <1>4, <1>7, <2>1, <2>2, <2>3, <3>1, <3>2, <3>3
  <2>6. CASE CloseDue /\ scheduled' = scheduled \cup {Done} /\ prepared' = TRUE
             /\ UNCHANGED <<in, contexts, mirror, manager>>
    <3>1. ~prepared /\ in.queue = <<>> /\ in.bound >= OneOverPostStream /\ contexts = {}
      BY <2>6 DEF CloseDue, ReadyForClose
    <3>2. status = "opened" /\ ~Closing
      BY <3>1 DEF CloseInv, Shape
    <3>3. \A u \in Thread : pc[u] \notin ClosePc
      BY <3>2 DEF Closing
    <3>4. \A u \in Thread : pc'[u] \notin ClosePc
      BY <2>2, <2>3, <3>3 DEF Go, Shape
    <3>5. Closing'
      BY <2>6 DEF Closing
    <3>6. \A u \in Thread : pc'[u] \notin {"closeOutput", "closed"}
      BY <3>4 DEF ClosePc
    <3>7. QED
      BY <2>1, <2>6, <3>1, <3>2, <3>4, <3>5, <3>6 DEF CloseInv
  <2>7. QED
    BY <1>7, <2>4, <2>5, <2>6 DEF ScheduleInvocation, Takes, downstream
<1>8. ASSUME NEW t \in Thread, Schedules(t), ~\E w \in Worker : Closes(w)
      PROVE  CloseInv'
  <2>1. CASE CheckIfBecameReady(t) \/ SchedulingLoop(t) \/ EndOfLoop(t)
    <3>1. /\ UNCHANGED <<invocations, status>> /\ pc[t] \in {"check", "loop", "loopEnd"}
          /\ \E x \in {"loop", "idle", "schedule"} : Go(t, x)
      BY <2>1 DEF CheckIfBecameReady, SchedulingLoop, EndOfLoop
    <3>2. QED
      BY <1>3, <1>4, <1>8, <3>1 DEF invocations, ClosePc
  <2>2. QED
    BY <1>7, <1>8, <2>1, Zenon DEF Schedules
<1>9. ASSUME NEW w \in Worker, w \in Thread, Begin(w) \/ EndScheduling(w),
             ~\E v \in Worker : Closes(v)
      PROVE  CloseInv'
  <2>1. CASE EndScheduling(w)
    <3>1. /\ UNCHANGED <<prepared, status, scheduled, contexts>> /\ pc[w] = "end"
          /\ \E x \in {"loop", "idle"} : Go(w, x)
      BY <2>1 DEF EndScheduling
    <3>2. QED
      BY <1>3, <1>4, <1>9, <3>1 DEF ClosePc
  <2>2. CASE Begin(w)
    <3>1. PICK ts \in scheduled :
            /\ scheduled' = scheduled \ {ts}
            /\ Go(w, IF ts = Done THEN "close" ELSE "process")
      BY <2>2 DEF Begin
    <3>2. UNCHANGED <<prepared, status, contexts, in, mirror, manager>> /\ pc[w] = "idle"
      BY <2>2 DEF Begin, scheduling, downstream
    <3>3. CASE ts # Done
      <4>1. Go(w, "process") /\ (Done \in scheduled' <=> Done \in scheduled)
        BY <3>1, <3>3
      <4>2. pc[w] \notin ClosePc /\ "process" \notin ClosePc
        BY <3>2 DEF ClosePc
      <4>3. QED
        BY <1>3, <1>4, <1>9, <3>2, <4>1, <4>2
    <3>4. CASE ts = Done
      <4>1. Closing /\ Done \in scheduled /\ Done \notin scheduled'
        BY <3>1, <3>4 DEF Closing
      <4>2. prepared /\ status = "opened" /\ \A u \in Thread : pc[u] \notin ClosePc
        BY <4>1 DEF CloseInv
      <4>3. pc'[w] = "close" /\ \A u \in Thread : u # w => pc'[u] = pc[u]
        BY <1>9, <3>1, <3>4 DEF Go, Shape
      <4>4. Closing'
        BY <1>9, <4>3 DEF Closing, ClosePc
      <4>5. \A u \in Thread : pc'[u] \in ClosePc => u = w
        BY <4>2, <4>3
      <4>6. \A u \in Thread : pc'[u] \notin {"closeOutput", "closed"}
        BY <4>2, <4>3 DEF ClosePc
      <4>7. QED
        BY <3>2, <4>1, <4>2, <4>4, <4>5, <4>6 DEF CloseInv
    <3>5. QED
      BY <3>3, <3>4
  <2>3. QED
    BY <1>9, <2>1, <2>2
<1>10. ASSUME NEW w \in Worker, w \in Thread, Closes(w) PROVE CloseInv'
  <2>1. /\ pc[w] \in ClosePc
        /\ UNCHANGED invocations
    BY <1>10
    DEF Closes, CloseInputStreams, CloseCalculator, CloseMirror, CloseManager, SetClosed, ClosePc
  <2>2. prepared /\ status = "opened" /\ Done \notin scheduled
        /\ \A u \in Thread : pc[u] \in ClosePc => u = w
    BY <1>10, <2>1 DEF CloseInv, Closing
  <2>3. in.queue = <<>> /\ in.bound >= OneOverPostStream /\ contexts = {}
    BY <2>2 DEF CloseInv
  <2>4. PICK x \in {"closeSend", "closeBound", "closeOutput", "closed", "end"} : Go(w, x)
    BY <1>10
    DEF Closes, CloseInputStreams, CloseCalculator, CloseMirror, CloseManager, SetClosed
  <2>5. pc'[w] = x /\ \A u \in Thread : u # w => pc'[u] = pc[u]
    BY <1>10, <2>4 DEF Go, Shape
  <2>6. \A u \in Thread : pc'[u] \in ClosePc => u = w
    BY <2>2, <2>5
  <2>7. CASE SetClosed(w)
    <3>1. pc[w] = "closed" /\ status' = "closed" /\ pc'[w] = "end"
          /\ UNCHANGED <<in, mirror, manager>>
      BY <1>10, <2>7 DEF SetClosed, Go, Shape, downstream
    <3>2. mirror.bound = Done
      BY <1>10, <3>1 DEF CloseInv
    <3>3. \A u \in Thread : pc'[u] \notin ClosePc
      BY <2>6, <3>1 DEF ClosePc
    <3>4. ~Closing'
      BY <2>1, <2>2, <3>3 DEF Closing, invocations
    <3>5. \A u \in Thread : pc'[u] \notin {"closeOutput", "closed"}
      BY <3>3 DEF ClosePc
    <3>6. QED
      BY <2>1, <2>2, <2>3, <3>1, <3>2, <3>3, <3>4, <3>5 DEF CloseInv, invocations
  <2>8. CASE ~SetClosed(w)
    <3>1. /\ x \in {"closeSend", "closeBound", "closeOutput", "closed"}
          /\ x = "closed" => pc[w] = "closeOutput"
          /\ x = "closeOutput" => CloseMirror(w)
          /\ status' = status
      <4>1. CASE CloseInputStreams(w) \/ CloseCalculator(w)
        BY <1>10, <2>5, <4>1
        DEF CloseInputStreams, CloseCalculator, Go, Shape, scheduling
      <4>2. CASE CloseMirror(w) \/ CloseManager(w)
        BY <1>10, <2>5, <4>2 DEF CloseMirror, CloseManager, Go, Shape, scheduling
      <4>3. QED
        BY <1>10, <2>8, <4>1, <4>2 DEF Closes
    <3>2. ASSUME CloseMirror(w) PROVE mirror'.bound = Done
      <4>1. mirror' = SetNextTimestampBound(mirror, Done).stream /\ Done \in PreStream .. Done
        BY <3>2, TimestampValues DEF CloseMirror
      <4>2. Ordered(mirror') /\ mirror'.bound >= Done
        BY <4>1, BoundKeeps
      <4>3. mirror'.bound \in PreStream .. Done
        BY <4>2 DEF Ordered, Stream
      <4>4. QED
        BY <4>2, <4>3, TimestampValues
    <3>3. CloseKept
      BY <1>10, <2>1, <2>5, <3>1 DEF CloseKept, invocations, ClosePc
    <3>4. \A u \in Thread : pc'[u] \in {"closeOutput", "closed"} =>
            pc[u] \in {"closeOutput", "closed"} \/ mirror'.bound = Done
      BY <2>5, <3>1, <3>2
    <3>5. QED
      BY <1>1, <2>2, <3>3, <3>4, CloseMoves
  <2>9. QED
    BY <2>7, <2>8
<1>11. CASE UNCHANGED vars
  BY <1>11 DEF vars, scheduling, invocations, downstream, CloseInv, Closing
<1>12. CASE \E w \in Worker : Closes(w)
  <2>1. \A w \in Worker : w \in Thread
    BY DEF Thread
  <2>2. QED
    BY <1>10, <1>12, <2>1, Zenon
<1>13. CASE ~\E w \in Worker : Closes(w)
  BY <1>5, <1>6, <1>8, <1>9, <1>11, <1>13, Steps, Zenon
<1>14. QED
  BY <1>12, <1>13

-----------------------------------------------------------------------------
\* The invocations, from the input to the completed timestamps.

\* The timestamps of the invocations come before those that still wait, and the
\* bound of the input comes after both.
InputInv ==
  /\ \A i \in 1 .. Len(in.queue) : NextAllowedInStream(in.queue[i]) <= in.bound
  /\ \A c \in contexts \cup completed :
       NextAllowedInStream(c) <= in.bound /\ \A i \in 1 .. Len(in.queue) : c < in.queue[i]

\* The bounds that the node works with are bounds that the input has had.
BoundInv ==
  /\ taskBound <= in.bound
  /\ \A t \in Thread : pc[t] = "bound" =>
       inputBound \in PreStream .. Done /\ taskBound <= inputBound /\ inputBound <= in.bound

\* Each context is scheduled, runs, or is completed.
WhereInv ==
  /\ \A c \in contexts : \/ c \in scheduled \/ c \in completed
                          \/ \E w \in Worker : pc[w] = "process" /\ work[w] = c
  /\ \A c \in scheduled : c # Done => c \in contexts /\ c \notin completed
  /\ \A w \in Worker : pc[w] = "process" =>
       work[w] \in contexts /\ work[w] \notin completed /\ work[w] \notin scheduled
  /\ \A v, w \in Worker :
       pc[v] = "process" /\ pc[w] = "process" /\ work[v] = work[w] => v = w

\* The propagation thread is at the earliest context, which is completed, until
\* it has recycled it.
FrontInv ==
  /\ \A c \in completed : c \in contexts \/ \E t \in Thread : pc[t] = "sent" /\ c = carried
  /\ \A t \in Thread : pc[t] \in {"send", "recycle"} =>
       carried \in completed /\ carried \in contexts /\ \A c \in contexts : carried <= c
  /\ \A t \in Thread : pc[t] = "sent" =>
       carried \in completed /\ carried \notin contexts /\ \A c \in contexts : carried <= c

\* The first packet and the others.
LEMMA QueueFacts ==
  ASSUME Shape
  PROVE  /\ in.queue \in Seq(PreStream .. PostStream) /\ in.bound \in PreStream .. Done
         /\ PreStream .. PostStream \subseteq Int /\ PreStream .. Done \subseteq Int
         /\ PreStream .. PostStream \subseteq PreStream .. Done
         /\ Len(in.queue) \in Nat
         /\ \A i \in 1 .. Len(in.queue) :
              in.queue[i] \in PreStream .. PostStream /\ in.queue[i] < in.bound
         /\ Increasing(in.queue)
         /\ in.queue # <<>> =>
              /\ 1 \in 1 .. Len(in.queue) /\ Head(in.queue) = in.queue[1]
              /\ Head(in.queue) \in PreStream .. PostStream
              /\ Len(Tail(in.queue)) = Len(in.queue) - 1
              /\ \A i \in 1 .. Len(Tail(in.queue)) :
                   i + 1 \in 1 .. Len(in.queue) /\ Tail(in.queue)[i] = in.queue[i + 1]
<1>1. /\ in.queue \in Seq(PreStream .. PostStream) /\ in.bound \in PreStream .. Done
      /\ Increasing(in.queue) /\ \A i \in 1 .. Len(in.queue) : in.queue[i] < in.bound
  BY DEF Shape, Ordered, Stream
<1>2. /\ PreStream .. PostStream \subseteq Int /\ PreStream .. Done \subseteq Int
      /\ PreStream .. PostStream \subseteq PreStream .. Done
  BY TimestampValues
<1> DEFINE q == in.queue
<1>3. q \in Seq(PreStream .. PostStream)
  BY <1>1
<1> HIDE DEF q
<1>4. Len(q) \in Nat /\ \A i \in 1 .. Len(q) : q[i] \in PreStream .. PostStream
  <2>1. Len(q) \in Nat
    BY <1>3
  <2>2. QED
    BY <1>3, <2>1, ElementOfSeq
<1>5. ASSUME q # <<>>
      PROVE  /\ 1 \in 1 .. Len(q) /\ Head(q) = q[1]
             /\ Len(Tail(q)) = Len(q) - 1
             /\ \A i \in 1 .. Len(Tail(q)) :
                   i + 1 \in 1 .. Len(q) /\ Tail(q)[i] = q[i + 1]
  <2>1. Len(Tail(q)) = Len(q) - 1 /\ \A i \in 1 .. Len(Tail(q)) : Tail(q)[i] = q[i + 1]
    BY <1>3, <1>5, HeadTailProperties
  <2>2. Len(q) >= 1 /\ Head(q) = q[1]
    BY <1>3, <1>5, QueueOf
  <2>3. QED
    BY <1>4, <2>1, <2>2
<1>6. QED
  BY <1>1, <1>2, <1>4, <1>5 DEF q



\* How the invocations change.
LEMMA Invocations ==
  ASSUME Shape, [Next]_vars
  PROVE  \/ UNCHANGED <<contexts, scheduled, work, completed>>
         \/ \E t \in Thread : Takes(t) /\ UNCHANGED <<work, completed>>
         \/ \E t \in Thread : /\ ScheduleInvocation(t) /\ CloseDue
                               /\ scheduled' = scheduled \cup {Done}
                               /\ UNCHANGED <<contexts, work, completed>>
         \/ \E w \in Worker : Begin(w) /\ UNCHANGED <<contexts, completed>>
         \/ \E w \in Worker : /\ ProcessNode(w) /\ completed' = completed \cup {work[w]}
                               /\ UNCHANGED <<contexts, scheduled, work>>
         \/ \E w \in Worker : EndScheduling(w) /\ UNCHANGED <<contexts, scheduled, completed>>
         \/ \E t \in Thread : /\ RecycleCalculatorContext(t)
                               /\ contexts' = contexts \ {Least(contexts)}
                               /\ UNCHANGED <<scheduled, work, completed>>
         \/ \E t \in Thread : /\ PacketsPropagated(t)
                               /\ completed' = completed \ {Least(completed)}
                               /\ UNCHANGED <<contexts, scheduled, work>>
<1>1. CASE UNCHANGED vars
  BY <1>1 DEF vars, invocations, propagation
<1>2. CASE Receives
  BY <1>2, Arrival DEF invocations, propagation
<1>3. ASSUME NEW t \in Thread, Schedules(t)
      PROVE  \/ UNCHANGED <<contexts, scheduled, work, completed>>
             \/ Takes(t) /\ UNCHANGED <<work, completed>>
             \/ /\ ScheduleInvocation(t) /\ CloseDue /\ scheduled' = scheduled \cup {Done}
                /\ UNCHANGED <<contexts, work, completed>>
  <2>1. CASE ScheduleInvocation(t)
    BY <2>1 DEF ScheduleInvocation, Takes, propagation
  <2>2. CASE CheckIfBecameReady(t) \/ SchedulingLoop(t) \/ EndOfLoop(t)
    BY <2>2 DEF CheckIfBecameReady, SchedulingLoop, EndOfLoop, invocations, propagation
  <2>3. QED
    BY <1>3, <2>1, <2>2, Zenon DEF Schedules
<1>4. ASSUME NEW t \in Thread, Propagates(t)
      PROVE  \/ UNCHANGED <<contexts, scheduled, work, completed>>
             \/ /\ RecycleCalculatorContext(t) /\ contexts' = contexts \ {Least(contexts)}
                /\ UNCHANGED <<scheduled, work, completed>>
             \/ /\ PacketsPropagated(t) /\ completed' = completed \ {Least(completed)}
                /\ UNCHANGED <<contexts, scheduled, work>>
  BY <1>4
  DEF Propagates, UpdateTaskTimestampBound, PropagateOutputPackets, RecycleCalculatorContext,
      PacketsPropagated, TryPropagateTimestampBound, RaiseMirrorBound, BoundPropagated,
      invocations, propagation
<1>5. ASSUME NEW w \in Worker, Closes(w)
      PROVE  UNCHANGED <<contexts, scheduled, work, completed>>
  BY <1>5
  DEF Closes, CloseInputStreams, CloseCalculator, CloseMirror, CloseManager, SetClosed,
      invocations, propagation
<1>6. ASSUME NEW w \in Worker
      PROVE  /\ ProcessNode(w) => /\ completed' = completed \cup {work[w]}
                                  /\ UNCHANGED <<contexts, scheduled, work>>
             /\ Begin(w) => UNCHANGED <<contexts, completed>>
             /\ EndScheduling(w) => UNCHANGED <<contexts, scheduled, completed>>
  BY DEF ProcessNode, Begin, EndScheduling, propagation
<1>7. QED
  BY <1>1, <1>2, <1>3, <1>4, <1>5, <1>6, Steps, Zenon

\* The propagation thread removes what it has propagated.
LEMMA Removed ==
  ASSUME Shape, FrontInv, NEW t \in Thread
  PROVE  /\ pc[t] \in {"send", "recycle"} => Least(contexts) = carried
         /\ pc[t] = "sent" => Least(completed) = carried
<1>1. /\ contexts \subseteq PreStream .. PostStream /\ completed \subseteq PreStream .. PostStream
      /\ PreStream .. PostStream \subseteq Int
  BY TimestampValues DEF Shape
<1>2. CASE pc[t] \in {"send", "recycle"}
  <2>1. carried \in contexts /\ \A c \in contexts : carried <= c
    BY <1>2 DEF FrontInv
  <2>2. QED
    BY <1>1, <1>2, <2>1, LeastOne
<1>3. CASE pc[t] = "sent"
  <2>1. carried \in completed /\ \A c \in contexts : carried <= c
    BY <1>3 DEF FrontInv
  <2>2. \A c \in completed : c \in contexts \/ c = carried
    BY DEF FrontInv
  <2>3. \A c \in completed : carried <= c
    BY <1>1, <2>1, <2>2
  <2>4. QED
    BY <1>1, <1>3, <2>1, <2>3, LeastOne
<1>4. QED
  BY <1>2, <1>3

\* Contexts come from the front of the queue.
LEMMA NextInput ==
  ASSUME Shape, WhereInv, InputInv, [Next]_vars
  PROVE  InputInv'
<1> DEFINE Old == contexts \cup completed
           New == contexts' \cup completed'
<1>1. New \subseteq Old \/ (\E t \in Thread : Takes(t) /\ UNCHANGED completed)
  <2>1. ASSUME NEW w \in Worker, ProcessNode(w), completed' = completed \cup {work[w]},
               contexts' = contexts
        PROVE  New \subseteq Old
    <3>1. work[w] \in contexts
      BY <2>1 DEF ProcessNode, WhereInv
    <3>2. QED
      BY <2>1, <3>1
  <2>2. QED
    BY <2>1, Invocations
<1>2. /\ \A i \in 1 .. Len(in.queue) : NextAllowedInStream(in.queue[i]) <= in.bound
      /\ \A c \in Old : NextAllowedInStream(c) <= in.bound
                        /\ \A i \in 1 .. Len(in.queue) : c < in.queue[i]
  BY DEF InputInv
<1>3. /\ in.bound \in PreStream .. Done /\ in'.bound \in PreStream .. Done
      /\ in'.bound >= in.bound /\ Ordered(in')
      /\ PreStream .. Done \subseteq Int /\ PreStream .. PostStream \subseteq Int
      /\ Old \subseteq PreStream .. PostStream
      /\ \A c \in PreStream .. PostStream : NextAllowedInStream(c) \in Int /\ NextAllowedInStream(c) <= Done /\ NextAllowedInStream(c) > c
  <2>1. Ordered(in') /\ in'.bound >= in.bound /\ in'.bound \in PreStream .. Done
    BY Input DEF Ordered, Stream
  <2>2. \A c \in PreStream .. PostStream : /\ NextAllowedInStream(c) \in Int
                                           /\ NextAllowedInStream(c) <= Done
                                           /\ NextAllowedInStream(c) > c
    BY TimestampOrder, TimestampValues
  <2>3. Old \subseteq PreStream .. PostStream
    BY DEF Shape
  <2>4. QED
    BY <2>1, <2>2, <2>3, QueueFacts
<1>4. CASE in'.queue = in.queue /\ New \subseteq Old
  <2>1. \A c \in PreStream .. PostStream : NextAllowedInStream(c) <= in.bound => NextAllowedInStream(c) <= in'.bound
    BY <1>3
  <2>2. \A i \in 1 .. Len(in.queue) : in.queue[i] \in PreStream .. PostStream
    BY QueueFacts
  <2> HIDE DEF Old, New
  <2>3. QED
    BY <1>2, <1>3, <1>4, <2>1, <2>2 DEF InputInv, New
<1>5. ASSUME NEW p \in PreStream .. PostStream, p >= in.bound, New \subseteq Old,
             in'.queue = Append(in.queue, p), in'.bound = NextAllowedInStream(p)
      PROVE  InputInv'
  <2>1. \A c \in PreStream .. PostStream : NextAllowedInStream(c) <= in.bound =>
          NextAllowedInStream(c) <= in'.bound /\ c < p
    BY <1>3, <1>5
  <2>2. \A i \in 1 .. Len(in.queue) : in.queue[i] \in PreStream .. PostStream
    BY QueueFacts
  <2>3. /\ Len(in.queue) \in Nat /\ Len(in'.queue) = Len(in.queue) + 1
        /\ in'.queue[Len(in.queue) + 1] = p
        /\ \A i \in 1 .. Len(in.queue) : in'.queue[i] = in.queue[i]
    BY <1>5, QueueFacts, AppendProperties
  <2>4. \A i \in 1 .. Len(in'.queue) : i \in 1 .. Len(in.queue) \/ i = Len(in.queue) + 1
    BY <2>3
  <2>5. \A i \in 1 .. Len(in'.queue) : NextAllowedInStream(in'.queue[i]) <= in'.bound
    BY <1>2, <1>3, <1>5, <2>1, <2>2, <2>3, <2>4
  <2> HIDE DEF Old, New
  <2>6. \A c \in New : NextAllowedInStream(c) <= in'.bound
                       /\ \A i \in 1 .. Len(in'.queue) : c < in'.queue[i]
    BY <1>2, <1>3, <1>5, <2>1, <2>3, <2>4
  <2>7. QED
    BY <2>5, <2>6 DEF InputInv, New
<1>6. ASSUME NEW t \in Thread, Takes(t), UNCHANGED completed, in.queue # <<>>,
             in'.queue = Tail(in.queue), in'.bound = in.bound
      PROVE  InputInv'
  <2> DEFINE h == Head(in.queue)
  <2>1. contexts' = contexts \cup {h} /\ completed' = completed
    BY <1>6 DEF Takes
  <2>2. /\ 1 \in 1 .. Len(in.queue) /\ h = in.queue[1] /\ h \in PreStream .. PostStream
        /\ Len(in.queue) \in Nat /\ Len(Tail(in.queue)) = Len(in.queue) - 1
        /\ \A i \in 1 .. Len(Tail(in.queue)) :
              i + 1 \in 1 .. Len(in.queue) /\ Tail(in.queue)[i] = in.queue[i + 1]
    BY <1>6, QueueFacts
  <2>3. \A i \in 1 .. Len(Tail(in.queue)) : h < in.queue[i + 1]
    <3>1. \A i \in 1 .. Len(Tail(in.queue)) : 1 < i + 1 /\ i \in Int
      BY <2>2
    <3>2. QED
      BY <2>2, <3>1, QueueFacts DEF Increasing
  <2> HIDE DEF h, Old, New
  <2>4. New = Old \cup {h}
    BY <2>1 DEF Old, New
  <2>5. QED
    BY <1>2, <1>6, <2>2, <2>3, <2>4 DEF InputInv, New
<1>7. ASSUME NEW t \in Thread, Takes(t) PROVE in'.queue = Tail(in.queue) /\ in'.bound = in.bound /\ in.queue # <<>>
  <2>1. in' = PopAt(in, Head(in.queue)).stream /\ in.queue # <<>> /\ Ordered(in) /\ in \in Stream
    BY <1>7 DEF Takes, Shape, Ordered
  <2>2. in' = [in EXCEPT !.queue = Tail(@), !.selected = Head(in.queue)]
    BY <2>1, PopHead
  <2>3. QED
    BY <2>1, <2>2 DEF Stream
<1>8. CASE New \subseteq Old /\ Receives
  BY <1>4, <1>5, <1>8, Arrival
<1>9. CASE New \subseteq Old /\ ~Receives /\ ~\E t \in Thread : Takes(t)
  BY <1>4, <1>9, Input
<1>10. ASSUME NEW t \in Thread, Takes(t), ~UNCHANGED completed PROVE FALSE
  BY <1>10 DEF Takes, propagation
<1>11. QED
  BY <1>1, <1>6, <1>7, <1>8, <1>9, <1>10, Zenon

\* How the bounds change that the scheduling thread hands to the propagation.
LEMMA Bounds ==
  ASSUME Shape, [Next]_vars
  PROVE  \/ /\ UNCHANGED <<inputBound, taskBound>>
            /\ \A u \in Thread : pc'[u] = "bound" => pc[u] = "bound"
         \/ \E t \in Thread : /\ pc[t] \in SchedPc /\ taskBound' = taskBound
                              /\ \A u \in Thread : u # t => pc'[u] = pc[u]
                              /\ pc'[t] = "bound" => inputBound' = in.bound /\ in' = in
         \/ \E t \in Thread : /\ UpdateTaskTimestampBound(t) /\ pc[t] = "bound"
                              /\ taskBound' = inputBound /\ inputBound' = inputBound
                              /\ pc'[t] # "bound" /\ \A u \in Thread : u # t => pc'[u] = pc[u]
<1> DEFINE Same == /\ UNCHANGED <<inputBound, taskBound>>
                   /\ \A u \in Thread : pc'[u] = "bound" => pc[u] = "bound"
           Looks(t) == /\ pc[t] \in SchedPc /\ taskBound' = taskBound
                       /\ \A u \in Thread : u # t => pc'[u] = pc[u]
                       /\ pc'[t] = "bound" => inputBound' = in.bound /\ in' = in
           Hands(t) == /\ UpdateTaskTimestampBound(t) /\ pc[t] = "bound"
                       /\ taskBound' = inputBound /\ inputBound' = inputBound
                       /\ pc'[t] # "bound" /\ \A u \in Thread : u # t => pc'[u] = pc[u]
<1>1. UNCHANGED vars => Same
  BY DEF vars, scheduling, propagation
<1>2. ASSUME NEW t \in Thread, NEW x, Go(t, x), x # "bound", UNCHANGED <<inputBound, taskBound>>
      PROVE  Same
  BY <1>2 DEF Go, Shape
<1>3. Receives => Same
  <2>1. Upstream \in Thread
    BY DEF Thread
  <2>2. ASSUME Receives
        PROVE  /\ Go(Upstream, "check") \/ Go(Upstream, "idle")
               /\ UNCHANGED <<inputBound, taskBound>>
    BY <2>2, Arrival DEF scheduling, propagation
  <2>3. QED
    BY <1>2, <2>1, <2>2
<1>4. ASSUME NEW t \in Thread, Schedules(t) PROVE Same \/ Looks(t)
  <2>1. CASE CheckIfBecameReady(t)
    <3>1. (Go(t, "loop") \/ Go(t, "idle")) /\ UNCHANGED <<inputBound, taskBound>>
      BY <2>1 DEF CheckIfBecameReady, propagation
    <3>2. QED
      BY <1>2, <3>1
  <2>2. CASE SchedulingLoop(t) \/ EndOfLoop(t)
    <3>1. /\ pc[t] \in SchedPc /\ taskBound' = taskBound
          /\ \E x \in {"idle", "schedule"} : Go(t, x)
      BY <2>2 DEF SchedulingLoop, EndOfLoop, propagation, SchedPc
    <3>2. QED
      BY <3>1 DEF Go, Shape
  <2>3. CASE ScheduleInvocation(t)
    <3>1. pc[t] = "schedule" /\ taskBound' = taskBound
      BY <2>3 DEF ScheduleInvocation, propagation
    <3>2. \/ pc' = pc
          \/ Go(t, "loopEnd")
          \/ Go(t, "bound") /\ inputBound' = in.bound /\ in' = in
      BY <2>3 DEF ScheduleInvocation, AfterScheduling
    <3>3. QED
      BY <3>1, <3>2 DEF Go, Shape, SchedPc
  <2>4. QED
    BY <1>4, <2>1, <2>2, <2>3 DEF Schedules
<1>5. ASSUME NEW t \in Thread, Propagates(t) \/ (t \in Worker /\ ProcessNode(t))
      PROVE  Same \/ Hands(t)
  <2>1. PICK x \in PropPc \cup {"end", "loopEnd"} : Go(t, x)
    BY <1>5, PropagatesAt
  <2>2. UNCHANGED scheduling
    BY <1>5, PropagatesAt
  <2>3. x # "bound"
    BY DEF PropPc, PacketPc, BoundPc
  <2>4. CASE UpdateTaskTimestampBound(t)
    <3>1. pc[t] = "bound" /\ taskBound' = inputBound
      BY <2>4 DEF UpdateTaskTimestampBound
    <3>2. QED
      BY <2>1, <2>2, <2>3, <2>4, <3>1 DEF Go, Shape, scheduling
  <2>5. CASE ~UpdateTaskTimestampBound(t)
    <3>1. taskBound' = taskBound
      BY <1>5, <2>5
      DEF Propagates, PropagateOutputPackets, RecycleCalculatorContext, PacketsPropagated,
          TryPropagateTimestampBound, RaiseMirrorBound, BoundPropagated, ProcessNode, propagation
    <3>2. QED
      BY <1>2, <2>1, <2>2, <2>3, <3>1 DEF scheduling
  <2>6. QED
    BY <2>4, <2>5
<1>6. ASSUME NEW w \in Worker, w \in Thread, Closes(w) \/ Begin(w) \/ EndScheduling(w)
      PROVE  Same
  <2>1. PICK x \in Places : x # "bound" /\ Go(w, x)
    BY <1>6
    DEF Closes, CloseInputStreams, CloseCalculator, CloseMirror, CloseManager, SetClosed, Begin,
        EndScheduling, Places, WorkPc, ClosePc, SchedPc
  <2>2. UNCHANGED <<inputBound, taskBound>>
    BY <1>6
    DEF Closes, CloseInputStreams, CloseCalculator, CloseMirror, CloseManager, SetClosed, Begin,
        EndScheduling, scheduling, propagation
  <2>3. QED
    BY <1>2, <1>6, <2>1, <2>2
<1> HIDE DEF Same, Looks, Hands
<1>7. Same \/ (\E t \in Thread : Looks(t)) \/ (\E t \in Thread : Hands(t))
  <2>1. \A w \in Worker : w \in Thread
    BY DEF Thread
  <2>2. QED
    BY <1>1, <1>3, <1>4, <1>5, <1>6, <2>1, Steps, Zenon
<1>8. QED
  BY <1>7 DEF Same, Looks, Hands

\* Bounds of the input grow, and one thread passes them on.
LEMMA NextBound ==
  ASSUME Shape, SchedInv, BoundInv, [Next]_vars
  PROVE  BoundInv'
<1>1. /\ in.bound \in PreStream .. Done /\ in'.bound \in Int /\ in'.bound >= in.bound
      /\ PreStream .. Done \subseteq Int
      /\ taskBound \in {Unset} \cup (PreStream .. Done) /\ Unset \in Int
      /\ inputBound \in {Unset} \cup (PreStream .. Done)
  <2>1. Ordered(in') /\ in'.bound >= in.bound
    BY Input
  <2>2. in'.bound \in PreStream .. Done
    BY <2>1 DEF Ordered, Stream
  <2>3. QED
    BY <2>1, <2>2, QueueFacts, TimestampValues DEF Shape
<1>2. \A t, u \in Thread : pc[t] \in SchedPc /\ pc[u] \in SchedPc => t = u
  BY DEF SchedInv, Sched
<1>3. CASE /\ UNCHANGED <<inputBound, taskBound>>
           /\ \A u \in Thread : pc'[u] = "bound" => pc[u] = "bound"
  BY <1>1, <1>3 DEF BoundInv, PreStream, Done
<1>4. ASSUME NEW t \in Thread, pc[t] \in SchedPc, taskBound' = taskBound,
             \A u \in Thread : u # t => pc'[u] = pc[u],
             pc'[t] = "bound" => inputBound' = in.bound /\ in' = in
      PROVE  BoundInv'
  <2>1. \A u \in Thread : pc'[u] = "bound" => u = t
    BY <1>2, <1>4 DEF SchedPc
  <2>2. QED
    BY <1>1, <1>4, <2>1 DEF BoundInv, PreStream, Done
<1>5. ASSUME NEW t \in Thread, pc[t] = "bound", taskBound' = inputBound,
             pc'[t] # "bound", \A u \in Thread : u # t => pc'[u] = pc[u]
      PROVE  BoundInv'
  <2>1. \A u \in Thread : pc'[u] # "bound"
    BY <1>2, <1>5 DEF SchedPc
  <2>2. inputBound <= in.bound /\ inputBound \in Int
    BY <1>1, <1>5 DEF BoundInv
  <2>3. QED
    BY <1>1, <1>5, <2>1, <2>2 DEF BoundInv
<1>6. QED
  BY <1>3, <1>4, <1>5, Bounds, Zenon

\* A thread moves by its own steps only.
LEMMA Mover ==
  ASSUME Shape, [Next]_vars, NEW u \in Thread, pc'[u] # pc[u]
  PROVE  \/ u = Upstream /\ Receives
         \/ Schedules(u)
         \/ Propagates(u)
         \/ u \in Worker /\ (Closes(u) \/ ProcessNode(u) \/ Begin(u) \/ EndScheduling(u))
<1>1. UNCHANGED vars => FALSE
  BY DEF vars
<1>2. ASSUME NEW t \in Thread, \E x : Go(t, x) PROVE t = u
  BY <1>2 DEF Go, Shape
<1>3. Receives => u = Upstream
  BY <1>2, Arrival DEF Thread
<1>4. ASSUME NEW t \in Thread, Schedules(t) PROVE t = u
  <2>1. pc' = pc \/ \E x : Go(t, x)
    BY <1>4
    DEF Schedules, CheckIfBecameReady, SchedulingLoop, ScheduleInvocation, AfterScheduling, EndOfLoop
  <2>2. QED
    BY <1>2, <2>1
<1>5. ASSUME NEW t \in Thread, Propagates(t) \/ (t \in Worker /\ ProcessNode(t)) PROVE t = u
  <2>1. \E x : Go(t, x)
    BY <1>5, PropagatesAt
  <2>2. QED
    BY <1>2, <2>1
<1>6. ASSUME NEW w \in Worker, w \in Thread, Closes(w) \/ Begin(w) \/ EndScheduling(w) PROVE w = u
  <2>1. \E x : Go(w, x)
    BY <1>6
    DEF Closes, CloseInputStreams, CloseCalculator, CloseMirror, CloseManager, SetClosed, Begin,
        EndScheduling
  <2>2. QED
    BY <1>2, <1>6, <2>1
<1>7. \A w \in Worker : w \in Thread
  BY DEF Thread
<1>8. QED
  BY <1>1, <1>3, <1>4, <1>5, <1>6, <1>7, Steps, Zenon

\* A worker gets into Process when it takes an invocation, and leaves it with
\* PostProcess.
LEMMA InProcess ==
  ASSUME Shape, [Next]_vars, NEW w \in Worker, pc'[w] # pc[w]
  PROVE  /\ pc'[w] = "process" => Begin(w)
         /\ pc[w] = "process" => ProcessNode(w)
<1>1. w \in Thread /\ w # Upstream
  BY ParallelNodeAssumption DEF Thread
<1>2. CASE Schedules(w)
  <2>1. /\ pc' = pc \/ \E x \in {"loop", "idle", "schedule", "bound", "loopEnd"} : Go(w, x)
        /\ pc[w] \in {"check", "loop", "schedule", "loopEnd"}
    BY <1>2
    DEF Schedules, CheckIfBecameReady, SchedulingLoop, ScheduleInvocation, AfterScheduling, EndOfLoop
  <2>2. QED
    BY <1>1, <2>1 DEF Go, Shape
<1>3. CASE Propagates(w) \/ ProcessNode(w)
  <2>1. PICK x \in PropPc \cup {"end", "loopEnd"} : Go(w, x)
    BY <1>1, <1>3, PropagatesAt
  <2>2. x # "process"
    BY DEF PropPc, PacketPc, BoundPc
  <2>3. Propagates(w) => pc[w] # "process"
    BY DEF Propagates, UpdateTaskTimestampBound, PropagateOutputPackets, RecycleCalculatorContext,
           PacketsPropagated, TryPropagateTimestampBound, RaiseMirrorBound, BoundPropagated
  <2>4. QED
    BY <1>1, <1>3, <2>1, <2>2, <2>3 DEF Go, Shape
<1>4. CASE Closes(w) \/ EndScheduling(w)
  <2>1. /\ \E x \in {"closeSend", "closeBound", "closeOutput", "closed", "end", "loop", "idle"} : Go(w, x)
        /\ pc[w] # "process"
    BY <1>4
    DEF Closes, CloseInputStreams, CloseCalculator, CloseMirror, CloseManager, SetClosed,
        EndScheduling
  <2>2. QED
    BY <1>1, <2>1 DEF Go, Shape
<1>5. CASE Begin(w)
  BY <1>5 DEF Begin
<1>6. QED
  BY <1>1, <1>2, <1>3, <1>4, <1>5, Mover

\* No invocation gets lost between the queue, its thread and the completed
\* timestamps.
LEMMA NextWhere ==
  ASSUME Shape, WorkInv, InputInv, WhereInv, FrontInv, [Next]_vars
  PROVE  WhereInv'
<1>1. \A w \in Worker : pc'[w] = "process" => pc[w] = "process" \/ Begin(w)
  BY InProcess
<1>2. \A w \in Worker : pc[w] = "process" => pc'[w] = "process" \/ ProcessNode(w)
  BY InProcess
<1>3. contexts \subseteq PreStream .. PostStream /\ \A c \in PreStream .. PostStream : c # Done /\ c # Unset
  BY TimestampValues DEF Shape
<1>4. ASSUME NEW v \in Worker, NEW w \in Worker, ProcessNode(w) \/ Begin(w) \/ EndScheduling(w),
             v # w
      PROVE  pc'[v] = pc[v]
  <2>1. v \in Thread /\ w \in Thread
    BY DEF Thread
  <2>2. \E x : Go(w, x)
    BY <1>4, <2>1, PropagatesAt DEF Begin, EndScheduling
  <2>3. QED
    BY <1>4, <2>1, <2>2 DEF Go, Shape
<1>5. CASE UNCHANGED <<contexts, scheduled, work, completed>>
  <2>1. ~\E w \in Worker : Begin(w)
    BY <1>5 DEF Begin
  <2>2. ~\E w \in Worker : ProcessNode(w)
    BY <1>5 DEF ProcessNode, WhereInv
  <2>3. \A w \in Worker : pc'[w] = "process" <=> pc[w] = "process"
    BY <1>1, <1>2, <2>1, <2>2
  <2>4. QED
    BY <1>5, <2>3 DEF WhereInv
<1>6. ASSUME UNCHANGED work, \A w \in Worker : ~ProcessNode(w) /\ ~Begin(w)
      PROVE  UNCHANGED work /\ \A w \in Worker : pc'[w] = "process" <=> pc[w] = "process"
  BY <1>1, <1>2, <1>6
<1>7. ASSUME NEW t \in Thread, Takes(t), UNCHANGED <<work, completed>> PROVE WhereInv'
  <2> DEFINE h == Head(in.queue)
  <2>1. /\ contexts' = contexts \cup {h} /\ scheduled' = scheduled \cup {h} /\ pc' = pc
        /\ in.queue # <<>>
    BY <1>7 DEF Takes
  <2>2. 1 \in 1 .. Len(in.queue) /\ h = in.queue[1] /\ h \in PreStream .. PostStream
    BY <2>1, QueueFacts
  <2>3. h \notin contexts /\ h \notin completed
    <3>1. \A c \in contexts \cup completed : c < h
      BY <2>2 DEF InputInv
    <3>2. h \in Int
      BY <2>2, QueueFacts
    <3>3. QED
      BY <3>1, <3>2
  <2> HIDE DEF h
  <2>4. QED
    BY <1>7, <2>1, <2>3 DEF WhereInv
<1>8. ASSUME NEW t \in Thread, ScheduleInvocation(t), scheduled' = scheduled \cup {Done},
             UNCHANGED <<contexts, work, completed>>
      PROVE  WhereInv'
  <2>1. \A w \in Worker : ~ProcessNode(w) /\ ~Begin(w)
    <3>1. \A w \in Worker : ProcessNode(w) \/ Begin(w) => scheduled' \subseteq scheduled
      BY DEF ProcessNode, Begin
    <3>2. CASE Done \in scheduled
      BY <1>5, <1>8, <3>2 DEF ProcessNode, Begin, WhereInv
    <3>3. QED
      BY <1>8, <3>1, <3>2 DEF ProcessNode, Begin, WhereInv
  <2>2. \A w \in Worker : pc'[w] = "process" <=> pc[w] = "process"
    BY <1>6, <1>8, <2>1
  <2>3. QED
    BY <1>3, <1>8, <2>2 DEF WhereInv
<1>9. ASSUME NEW w \in Worker, Begin(w), UNCHANGED <<contexts, completed>> PROVE WhereInv'
  <2>1. PICK ts \in scheduled :
          /\ scheduled' = scheduled \ {ts} /\ work' = [work EXCEPT ![w] = ts]
          /\ Go(w, IF ts = Done THEN "close" ELSE "process")
    BY <1>9 DEF Begin
  <2>2. /\ work'[w] = ts /\ pc'[w] = (IF ts = Done THEN "close" ELSE "process")
        /\ \A v \in Worker : v # w => work'[v] = work[v] /\ pc'[v] = pc[v]
        /\ pc[w] = "idle"
    BY <1>4, <1>9, <2>1 DEF Begin, Go, Shape, Thread
  <2>3. ts # Done => ts \in contexts /\ ts \notin completed
    BY <2>1 DEF WhereInv
  <2>4. \A v \in Worker : pc[v] = "process" => work[v] # ts
    BY <2>1 DEF WhereInv
  <2>5. Done \notin contexts
    BY <1>3
  <2>6. QED
    BY <1>9, <2>1, <2>2, <2>3, <2>4, <2>5 DEF WhereInv
<1>10. ASSUME NEW w \in Worker, ProcessNode(w), completed' = completed \cup {work[w]},
              UNCHANGED <<contexts, scheduled, work>>
       PROVE  WhereInv'
  <2>1. pc[w] = "process" /\ \A v \in Worker : v # w => pc'[v] = pc[v]
    BY <1>4, <1>10 DEF ProcessNode
  <2>2. pc'[w] # "process"
    <3>1. w \in Thread
      BY DEF Thread
    <3>2. PICK x \in PropPc \cup {"end", "loopEnd"} : Go(w, x)
      BY <1>10, <3>1, PropagatesAt
    <3>3. QED
      BY <3>1, <3>2 DEF Go, Shape, PropPc, PacketPc, BoundPc
  <2>3. QED
    BY <1>10, <2>1, <2>2 DEF WhereInv
<1>11. ASSUME NEW w \in Worker, EndScheduling(w), UNCHANGED <<contexts, scheduled, completed>>
       PROVE  WhereInv'
  <2>1. /\ pc[w] = "end" /\ pc'[w] # "process"
        /\ \A v \in Worker : v # w => pc'[v] = pc[v] /\ work'[v] = work[v]
    BY <1>4, <1>11 DEF EndScheduling, Go, Shape, Thread
  <2>2. QED
    BY <1>11, <2>1 DEF WhereInv
<1>12. ASSUME NEW t \in Thread, RecycleCalculatorContext(t),
              contexts' = contexts \ {Least(contexts)}, UNCHANGED <<scheduled, work, completed>>
       PROVE  WhereInv'
  <2>1. Least(contexts) = carried /\ carried \in completed
    BY <1>12, Removed DEF RecycleCalculatorContext, FrontInv
  <2>2. \A w \in Worker : ~ProcessNode(w) /\ ~Begin(w)
    BY <1>12, <2>1 DEF ProcessNode, Begin, WhereInv
  <2>3. \A w \in Worker : pc'[w] = "process" <=> pc[w] = "process"
    BY <1>6, <1>12, <2>2
  <2>4. QED
    BY <1>12, <2>1, <2>3 DEF WhereInv
<1>13. ASSUME NEW t \in Thread, PacketsPropagated(t),
              completed' = completed \ {Least(completed)}, UNCHANGED <<contexts, scheduled, work>>
       PROVE  WhereInv'
  <2>1. Least(completed) = carried /\ carried \in completed /\ carried \notin contexts
    BY <1>13, Removed DEF PacketsPropagated, FrontInv
  <2>2. \A w \in Worker : ~ProcessNode(w) /\ ~Begin(w)
    BY <1>13, <2>1 DEF ProcessNode, Begin, WhereInv
  <2>3. \A w \in Worker : pc'[w] = "process" <=> pc[w] = "process"
    BY <1>6, <1>13, <2>2
  <2>4. QED
    BY <1>13, <2>1, <2>3 DEF WhereInv
<1>14. QED
  BY <1>5, <1>7, <1>8, <1>9, <1>10, <1>11, <1>12, <1>13, Invocations, Zenon

\* The front context is the first completed one.
LEMMA Front ==
  ASSUME Shape, NEW D, D \subseteq contexts
  PROVE  FrontIn(D) <=> contexts # {} /\ Least(contexts) \in D
<1>1. contexts \subseteq PreStream .. PostStream /\ D \subseteq PreStream .. PostStream
  BY DEF Shape
<1>2. contexts # {} => Least(contexts) \in contexts /\ \A c \in contexts : Least(contexts) <= c
  BY <1>1, LeastIs
<1>3. D # {} => Least(D) \in D
  BY <1>1, LeastIs
<1>4. ASSUME contexts # {}, Least(contexts) \in D PROVE Least(D) = Least(contexts)
  BY <1>1, <1>2, <1>4, LeastOne
<1>5. QED
  BY <1>3, <1>4 DEF FrontIn

\* While the outputs of a context are propagated nothing is removed.
LEMMA PropagatorSame ==
  ASSUME Shape, TurnInv, [Next]_vars, NEW u \in Thread, pc[u] \in PropPc, ~Own(u)
  PROVE  /\ completed \subseteq completed' /\ carried' = carried /\ pc'[u] = pc[u]
         /\ contexts' = contexts \/ (in.queue # <<>> /\ contexts' = contexts \cup {Head(in.queue)})
         /\ propState' = propState \/ (propState = "Bound" /\ propState' = "Pending")
<1>1. /\ carried' = carried /\ pc'[u] = pc[u]
      /\ propState' = propState \/ (propState = "Bound" /\ propState' = "Pending")
  BY PropagatorAlone
<1>2. ASSUME NEW t \in Thread, RecycleCalculatorContext(t) \/ PacketsPropagated(t) PROVE FALSE
  <2>1. pc[t] \in PropPc
    BY <1>2 DEF RecycleCalculatorContext, PacketsPropagated, PropPc, PacketPc
  <2>2. t = u
    BY <2>1 DEF TurnInv
  <2>3. QED
    BY <1>2, <2>2 DEF Own
<1>3. \A t \in Thread : Takes(t) => in.queue # <<>> /\ contexts' = contexts \cup {Head(in.queue)}
  BY DEF Takes
<1>4. /\ completed \subseteq completed'
      /\ contexts' = contexts \/ (in.queue # <<>> /\ contexts' = contexts \cup {Head(in.queue)})
  BY <1>2, <1>3, Invocations
<1>5. QED
  BY <1>1, <1>4


\* The front context stays the front one while its outputs are sent, with
\* timestamp_mutex_ released.
LEMMA NextFront ==
  ASSUME Shape, TurnInv, InputInv, WhereInv, FrontInv, [Next]_vars
  PROVE  FrontInv'
<1>1. contexts \subseteq PreStream .. PostStream /\ PreStream .. PostStream \subseteq Int
  BY QueueFacts DEF Shape
<1>2. contexts # {} => Least(contexts) \in contexts /\ \A c \in contexts : Least(contexts) <= c
  BY <1>1, LeastIs
<1>3. \A c \in contexts \cup completed : in.queue # <<>> => c < Head(in.queue)
  BY QueueFacts DEF InputInv
<1>4. ASSUME NEW u \in Thread, pc'[u] \in {"send", "recycle"}
      PROVE  carried' \in completed' /\ carried' \in contexts' /\ \A c \in contexts' : carried' <= c
  <2>1. CASE pc[u] \in PropPc /\ ~Own(u)
    <3>1. pc[u] \in {"send", "recycle"}
      BY <1>4, <2>1, PropagatorSame
    <3>2. carried \in completed /\ carried \in contexts /\ \A c \in contexts : carried <= c
      BY <3>1 DEF FrontInv
    <3>3. in.queue # <<>> => carried <= Head(in.queue)
      BY <1>1, <1>3, <3>2, QueueFacts
    <3>4. QED
      BY <2>1, <3>2, <3>3, PropagatorSame
  <2>2. CASE PropagateOutputPackets(u)
    <3>1. pc[u] = "send" /\ UNCHANGED <<carried, completed, contexts>>
      BY <2>2 DEF PropagateOutputPackets, invocations, propagation
    <3>2. QED
      BY <3>1 DEF FrontInv
  <2>3. CASE Own(u) /\ ~PropagateOutputPackets(u)
    <3>1. PICK x \in {"sent", "tried", "raise", "send", "tryBound", Home(u)} :
            Go(u, x) /\ (x = "send" => /\ carried' = Least(contexts) /\ FrontIn(completed')
                                       /\ contexts' = contexts)
      <4>1. CASE RecycleCalculatorContext(u) \/ TryPropagateTimestampBound(u) \/ RaiseMirrorBound(u)
        BY <4>1 DEF RecycleCalculatorContext, TryPropagateTimestampBound, RaiseMirrorBound
      <4>2. CASE PacketsPropagated(u) \/ BoundPropagated(u)
        <5>1. contexts' = contexts
          BY <4>2 DEF PacketsPropagated, BoundPropagated, invocations
        <5>2. \/ Go(u, Home(u))
              \/ \E b : Propagate(u, "Bound", b)
              \/ Propagate(u, "Packets", Least(contexts)) /\ FrontIn(completed')
          BY <4>2 DEF PacketsPropagated, BoundPropagated, GoIdle
        <5>3. Home(u) # "send"
          BY DEF Home
        <5>4. QED
          BY <5>1, <5>2, <5>3 DEF Propagate
      <4>3. QED
        BY <2>3, <4>1, <4>2 DEF Own
    <3>2. pc'[u] = x
      BY <3>1 DEF Go, Shape
    <3>3. x = "send"
      BY <1>4, <3>1, <3>2 DEF Home
    <3>4. contexts # {} /\ Least(contexts) = Least(completed') /\ completed' # {}
      BY <3>1, <3>3 DEF FrontIn
    <3>5. completed' \subseteq PreStream .. PostStream
      <4>1. completed' \subseteq completed
        BY <2>3
        DEF Own, RecycleCalculatorContext, PacketsPropagated, TryPropagateTimestampBound,
            RaiseMirrorBound, BoundPropagated, propagation
      <4>2. QED
        BY <4>1 DEF Shape
    <3>6. Least(completed') \in completed'
      BY <3>4, <3>5, LeastIs
    <3>7. QED
      BY <1>2, <3>1, <3>3, <3>4, <3>6
  <2>4. CASE pc[u] \notin PropPc
    <3>1. pc'[u] \in PropPc
      BY <1>4 DEF PropPc, PacketPc
    <3>2. pc'[u] = "send" /\ (UpdateTaskTimestampBound(u) \/ ProcessNode(u))
      BY <1>4, <2>4, <3>1, Enters
    <3>3. \E bound : StartPropagation(u, completed', bound) \/ Go(u, "loopEnd")
      BY <3>2 DEF UpdateTaskTimestampBound, ProcessNode
    <3>4. ~Go(u, "loopEnd") /\ ~Go(u, Home(u)) /\ ~Go(u, "tryBound")
      BY <3>2 DEF Go, Shape, Home
    <3>5. FrontIn(completed') /\ carried' = Least(contexts)
      BY <3>3, <3>4 DEF StartPropagation, PropagationLoop, Propagate, GoIdle
    <3>6. contexts' = contexts /\ completed' \subseteq PreStream .. PostStream
      <4>1. UpdateTaskTimestampBound(u) => completed' = completed
        BY DEF UpdateTaskTimestampBound
      <4>2. ProcessNode(u) /\ u \in Worker => completed' = completed \cup {work[u]} /\ work[u] \in contexts
        BY DEF ProcessNode, WhereInv
      <4>3. UpdateTaskTimestampBound(u) \/ (u \in Worker /\ ProcessNode(u))
        BY <2>4, <3>1, Enters
      <4>4. contexts' = contexts
        BY <4>3 DEF UpdateTaskTimestampBound, ProcessNode, invocations
      <4>5. QED
        BY <1>1, <4>1, <4>2, <4>3, <4>4 DEF Shape
    <3>7. contexts # {} /\ completed' # {} /\ Least(contexts) = Least(completed')
      BY <3>5 DEF FrontIn
    <3>8. Least(completed') \in completed'
      BY <3>6, <3>7, LeastIs
    <3>9. QED
      BY <1>2, <3>5, <3>6, <3>7, <3>8
  <2>5. QED
    BY <2>1, <2>2, <2>3, <2>4
<1>5. ASSUME NEW u \in Thread, pc'[u] = "sent"
      PROVE  /\ carried' \in completed' /\ carried' \notin contexts' /\ \A c \in contexts' : carried' <= c
             /\ carried' = carried
  <2>1. pc[u] \in PropPc
    BY <1>5, Enters DEF PropPc, PacketPc
  <2>2. CASE ~Own(u)
    <3>1. pc[u] = "sent"
      BY <1>5, <2>1, <2>2, PropagatorSame
    <3>2. carried \in completed /\ carried \notin contexts /\ \A c \in contexts : carried <= c
      BY <3>1 DEF FrontInv
    <3>3. in.queue # <<>> => carried <= Head(in.queue) /\ carried # Head(in.queue)
      <4>1. carried \in Int
        BY <3>2, QueueFacts DEF Shape
      <4>2. QED
        BY <1>3, <3>2, <4>1, QueueFacts
    <3>4. QED
      BY <2>1, <2>2, <3>2, <3>3, PropagatorSame
  <2>3. CASE Own(u)
    <3>1. RecycleCalculatorContext(u)
      <4>1. CASE PropagateOutputPackets(u) \/ TryPropagateTimestampBound(u) \/ RaiseMirrorBound(u)
        BY <1>5, <4>1
        DEF PropagateOutputPackets, TryPropagateTimestampBound, RaiseMirrorBound, Go, Shape
      <4>2. CASE PacketsPropagated(u) \/ BoundPropagated(u)
        <5>1. \E x \in {"send", "tryBound", "end", "loopEnd"} : Go(u, x)
          BY <4>2 DEF PacketsPropagated, BoundPropagated, GoIdle, Propagate, Home
        <5>2. QED
          BY <1>5, <5>1 DEF Go, Shape
      <4>3. QED
        BY <2>3, <4>1, <4>2 DEF Own
    <3>2. /\ pc[u] = "recycle" /\ contexts' = contexts \ {Least(contexts)}
          /\ UNCHANGED <<carried, completed>>
      BY <3>1 DEF RecycleCalculatorContext, propagation
    <3>3. Least(contexts) = carried
      BY <3>2, Removed
    <3>4. QED
      BY <3>2, <3>3 DEF FrontInv
  <2>4. QED
    BY <2>2, <2>3
<1>6. ASSUME NEW c \in completed', ~\E t \in Thread : pc'[t] = "sent" /\ c = carried'
      PROVE  c \in contexts'
  <2>1. CASE c \notin completed
    <3>1. PICK w \in Worker : c = work[w] /\ ProcessNode(w) /\ contexts' = contexts
      BY <2>1, <1>6, Invocations
    <3>2. QED
      BY <3>1 DEF ProcessNode, WhereInv
  <2>2. CASE c \in completed /\ c \in contexts
    <3>1. ASSUME c \notin contexts' PROVE FALSE
      <4>1. PICK t \in Thread : RecycleCalculatorContext(t) /\ c = Least(contexts)
        BY <2>2, <3>1, Invocations DEF Takes
      <4>2. pc'[t] = "sent" /\ carried' = carried /\ pc[t] = "recycle"
        BY <4>1 DEF RecycleCalculatorContext, Go, Shape, propagation
      <4>3. Least(contexts) = carried
        BY <4>2, Removed
      <4>4. QED
        BY <1>6, <4>1, <4>2, <4>3
    <3>2. QED
      BY <3>1
  <2>3. CASE c \in completed /\ c \notin contexts
    <3>1. PICK t \in Thread : pc[t] = "sent" /\ c = carried
      BY <2>3 DEF FrontInv
    <3>2. pc[t] \in PropPc
      BY <3>1 DEF PropPc, PacketPc
    <3>3. CASE ~Own(t)
      BY <1>6, <3>1, <3>2, <3>3, PropagatorSame
    <3>4. CASE Own(t)
      <4>1. PacketsPropagated(t)
        BY <3>1, <3>4
        DEF Own, PropagateOutputPackets, RecycleCalculatorContext, TryPropagateTimestampBound,
            RaiseMirrorBound, BoundPropagated
      <4>2. completed' = completed \ {Least(completed)} /\ Least(completed) = carried
        BY <3>1, <4>1, Removed DEF PacketsPropagated
      <4>3. QED
        BY <1>6, <3>1, <4>2
    <3>5. QED
      BY <3>3, <3>4
  <2>4. QED
    BY <2>1, <2>2, <2>3
<1>7. QED
  BY <1>4, <1>5, <1>6 DEF FrontInv

-----------------------------------------------------------------------------
\* The propagation goes on while something is ready.

\* What is propagated next: nothing that is ready is left when nobody
\* propagates, the bound when nothing is completed, and it again when it was
\* raised meanwhile.
PropInv ==
  /\ propState = "Idle" => contexts = {} \/ Least(contexts) \notin completed
  /\ propState = "Bound" => completed = {} /\ carried = taskBound
  /\ propState = "Pending" => carried <= taskBound /\ (contexts # {} \/ carried < taskBound)

\* The propagation stops only when nothing is ready.
LEMMA NextProp ==
  ASSUME Shape, TurnInv, InputInv, BoundInv, WhereInv, FrontInv, PropInv, [Next]_vars
  PROVE  PropInv'
<1>1. contexts \subseteq PreStream .. PostStream /\ PreStream .. PostStream \subseteq Int
  BY QueueFacts DEF Shape
<1>2. /\ taskBound \in Int /\ inputBound \in Int /\ carried \in Int
  BY QueueFacts, TimestampValues DEF Shape
<1>3. (\A t \in Thread : pc[t] # "sent") => completed \subseteq contexts
  BY DEF FrontInv
<1>4. propState # "Packets" => completed \subseteq contexts
  BY <1>3 DEF TurnInv, PacketPc
\* The propagation begins, or not.
<1>5. ASSUME NEW t \in Thread, NEW done, NEW bound, PropagationLoop(t, done, bound), done \subseteq contexts,
             contexts' = contexts, completed' = done, taskBound' = bound
      PROVE  PropInv'
  <2>1. CASE contexts = {} /\ propState' = "Bound" /\ carried' = bound
    <3>1. done = {}
      BY <1>5, <2>1
    <3>2. QED
      BY <1>5, <2>1, <3>1 DEF PropInv
  <2>2. CASE propState' = "Packets"
    BY <2>2 DEF PropInv
  <2>3. CASE contexts # {} /\ ~FrontIn(done) /\ propState' = "Idle"
    <3>1. Least(contexts) \notin done
      BY <1>5, <2>3, Front
    <3>2. QED
      BY <1>5, <2>3, <3>1 DEF PropInv
  <2>4. QED
    BY <1>5, <2>1, <2>2, <2>3, Propagations
<1>6. ASSUME NEW t \in Thread, UpdateTaskTimestampBound(t) PROVE PropInv'
  <2>1. /\ pc[t] = "bound" /\ taskBound' = inputBound /\ UNCHANGED <<contexts, completed>>
        /\ \/ taskBound = inputBound /\ UNCHANGED <<propState, carried>>
           \/ taskBound # inputBound /\ StartPropagation(t, completed, inputBound)
    BY <1>6 DEF UpdateTaskTimestampBound, invocations
  <2>2. taskBound <= inputBound
    BY <2>1 DEF BoundInv
  <2>3. CASE taskBound = inputBound /\ UNCHANGED <<propState, carried>>
    BY <2>1, <2>3 DEF PropInv
  <2>4. CASE taskBound # inputBound /\ propState = "Idle" /\ PropagationLoop(t, completed, inputBound)
    BY <1>4, <1>5, <2>1, <2>4
  <2>5. CASE /\ taskBound # inputBound /\ propState # "Idle" /\ carried' = carried
             /\ propState' = IF propState = "Bound" THEN "Pending" ELSE propState
    BY <1>2, <2>1, <2>2, <2>5 DEF PropInv
  <2>6. QED
    BY <2>1, <2>3, <2>4, <2>5 DEF StartPropagation
<1>7. ASSUME NEW w \in Worker, ProcessNode(w) PROVE PropInv'
  <2>1. /\ completed' = completed \cup {work[w]} /\ UNCHANGED <<contexts, taskBound>>
        /\ StartPropagation(w, completed', taskBound) /\ w \in Thread
    BY <1>7 DEF ProcessNode, Thread
  <2>2. work[w] \in contexts
    BY <1>7 DEF ProcessNode, WhereInv
  <2>3. CASE propState = "Idle" /\ PropagationLoop(w, completed', taskBound)
    <3>1. completed' \subseteq contexts
      BY <1>4, <2>1, <2>2, <2>3
    <3>2. QED
      BY <1>5, <2>1, <2>3, <3>1
  <2>4. CASE /\ propState # "Idle" /\ carried' = carried
             /\ propState' = IF propState = "Bound" THEN "Pending" ELSE propState
    BY <1>2, <2>1, <2>2, <2>4 DEF PropInv
  <2>5. QED
    BY <2>1, <2>3, <2>4 DEF StartPropagation
<1>8. ASSUME NEW t \in Thread, PacketsPropagated(t) PROVE PropInv'
  <2> DEFINE rest == completed \ {Least(completed)}
  <2>1. pc[t] = "sent" /\ completed' = rest /\ UNCHANGED <<contexts, taskBound>>
    BY <1>8 DEF PacketsPropagated, invocations
  <2>2. rest \subseteq contexts
    <3>1. Least(completed) = carried
      BY <2>1, Removed
    <3>2. QED
      BY <3>1 DEF FrontInv
  <2>3. \/ propState' = "Packets"
        \/ propState' = "Bound" /\ rest = {} /\ carried' = taskBound
        \/ propState' = "Idle" /\ rest = {} /\ contexts = {}
        \/ propState' = "Idle" /\ ~FrontIn(rest)
    BY <1>8 DEF PacketsPropagated, GoIdle, Propagate
  <2> HIDE DEF rest
  <2>4. FrontIn(rest) <=> contexts # {} /\ Least(contexts) \in rest
    BY <2>2, Front
  <2>5. QED
    BY <2>1, <2>3, <2>4 DEF PropInv
<1>9. ASSUME NEW t \in Thread, BoundPropagated(t) PROVE PropInv'
  <2>1. pc[t] = "tried" /\ UNCHANGED <<contexts, taskBound, completed>>
    BY <1>9 DEF BoundPropagated, invocations
  <2>2. propState \in {"Bound", "Pending"}
    BY <2>1 DEF TurnInv, BoundPc
  <2>3. completed \subseteq contexts
    BY <1>4, <2>2
  <2>4. \/ propState = "Bound" /\ propState' = "Idle"
        \/ propState' = "Bound" /\ contexts = {} /\ carried' = taskBound
        \/ propState' = "Packets"
        \/ propState' = "Idle" /\ ~FrontIn(completed)
    BY <1>9 DEF BoundPropagated, GoIdle, Propagate
  <2>5. FrontIn(completed) <=> contexts # {} /\ Least(contexts) \in completed
    BY <2>3, Front
  <2>6. QED
    BY <2>1, <2>3, <2>4, <2>5 DEF PropInv
<1>10. ASSUME NEW t \in Thread, RecycleCalculatorContext(t) PROVE PropInv'
  <2>1. propState' = "Packets"
    BY <1>10 DEF RecycleCalculatorContext, TurnInv, PacketPc, propagation
  <2>2. QED
    BY <2>1 DEF PropInv
<1>11. ASSUME NEW t \in Thread, Takes(t), UNCHANGED <<propState, carried, taskBound, completed>>
       PROVE  PropInv'
  <2> DEFINE h == Head(in.queue)
  <2>1. contexts' = contexts \cup {h} /\ in.queue # <<>>
    BY <1>11 DEF Takes
  <2>2. h \in PreStream .. PostStream /\ h \in Int /\ \A c \in contexts \cup completed : c < h
    BY <2>1, QueueFacts DEF InputInv
  <2> HIDE DEF h
  <2>3. CASE contexts = {}
    <3>1. contexts' = {h}
      BY <2>1, <2>3
    <3>2. {h} \subseteq PreStream .. PostStream /\ h \in {h} /\ \A c \in {h} : h <= c
      BY <2>2
    <3>3. Least({h}) = h
      BY <3>2, LeastOne
    <3>4. Least(contexts)' = h
      BY <3>1, <3>3, Zenon DEF Least
    <3>5. h \notin completed
      BY <2>2
    <3>6. QED
      BY <1>11, <2>1, <3>4, <3>5 DEF PropInv
  <2>4. CASE contexts # {}
    <3>1. Least(contexts) \in contexts /\ \A c \in contexts : Least(contexts) <= c
      BY <1>1, <2>4, LeastIs
    <3>2. contexts \cup {h} \subseteq PreStream .. PostStream /\ Least(contexts) \in contexts \cup {h}
          /\ \A c \in contexts \cup {h} : Least(contexts) <= c
      <4>1. Least(contexts) < h /\ Least(contexts) \in Int
        BY <1>1, <2>2, <3>1
      <4>2. Least(contexts) <= h
        BY <2>2, <4>1
      <4>3. QED
        BY <1>1, <2>2, <3>1, <4>2
    <3>3. Least(contexts \cup {h}) = Least(contexts)
      BY <3>2, LeastOne
    <3>4. Least(contexts)' = Least(contexts)
      BY <2>1, <3>3, Zenon DEF Least
    <3>5. QED
      BY <1>11, <2>1, <2>4, <3>4 DEF PropInv
  <2>5. QED
    BY <2>3, <2>4
<1>12. CASE UNCHANGED <<contexts, completed, propState, carried, taskBound>>
  BY <1>12 DEF PropInv, Least
<1>13. CASE UNCHANGED vars
  BY <1>12, <1>13 DEF vars, invocations, propagation
<1>14. CASE Others
  <2>1. UNCHANGED <<propState, carried, taskBound, completed>>
    BY <1>14, OthersAt DEF propagation
  <2>2. contexts' = contexts \/ (\E t \in Thread : Takes(t)) \/ \E t \in Thread : RecycleCalculatorContext(t)
    BY Invocations
  <2>3. QED
    BY <1>10, <1>11, <1>12, <2>1, <2>2
<1>15. ASSUME NEW t \in Thread,
              PropagateOutputPackets(t) \/ TryPropagateTimestampBound(t) \/ RaiseMirrorBound(t)
       PROVE  UNCHANGED <<contexts, completed, propState, carried, taskBound>>
  BY <1>15
  DEF PropagateOutputPackets, TryPropagateTimestampBound, RaiseMirrorBound, invocations, propagation
<1>16. CASE \E t \in Thread : Propagates(t)
  BY <1>6, <1>8, <1>9, <1>10, <1>12, <1>15, <1>16, Zenon DEF Propagates
<1>17. QED
  BY <1>7, <1>13, <1>14, <1>16, Steps, Zenon DEF Others

-----------------------------------------------------------------------------
\* The count of invocations.

\* The workers with an invocation.
BusyOnes == {w \in Worker : work[w] # Unset}

\* current_in_flight_ is the number of invocations that are scheduled or run,
\* and with what the scheduling thread may still schedule it is no more than
\* max_in_flight_.
CountInv ==
  /\ inFlight \in 0 .. MaxInFlight /\ allowance \in 0 .. MaxInFlight
  /\ \A t \in Thread : pc[t] = "schedule" => inFlight + allowance <= MaxInFlight
  /\ status = "opened" => inFlight = Cardinality(scheduled) + Cardinality(BusyOnes)

\* What is counted is finite.
LEMMA Finite ==
  ASSUME Shape
  PROVE  /\ IsFiniteSet(scheduled) /\ IsFiniteSet(BusyOnes)
         /\ Cardinality(scheduled) \in Nat /\ Cardinality(BusyOnes) \in Nat
<1>1. PreStream \in Int /\ Done \in Int /\ scheduled \subseteq PreStream .. Done
  BY TimestampValues DEF Shape
<1>2. IsFiniteSet(PreStream .. Done)
  BY <1>1, FS_Interval
<1>3. IsFiniteSet(scheduled)
  BY <1>1, <1>2, FS_Subset
<1>4. BusyOnes \subseteq Worker
  BY DEF BusyOnes
<1>5. IsFiniteSet(BusyOnes)
  BY <1>4, ParallelNodeAssumption, FS_Subset
<1>6. QED
  BY <1>3, <1>5, FS_CardinalityType

\* The scheduling thread and the count.
LEMMA CountMoves ==
  ASSUME CountInv, UNCHANGED <<inFlight, scheduled, work>>, status' = "opened" => status = "opened",
         allowance' \in 0 .. MaxInFlight,
         \A u \in Thread : pc'[u] = "schedule" => inFlight + allowance' <= MaxInFlight
  PROVE  CountInv'
  BY DEF CountInv, BusyOnes

\* ScheduleInvocation and EndScheduling count what they schedule and end.
LEMMA NextCount ==
  ASSUME Shape, WorkInv, SchedInv, CloseInv, InputInv, WhereInv, CountInv, [Next]_vars
  PROVE  CountInv'
<1>1. /\ inFlight \in 0 .. MaxInFlight /\ allowance \in 0 .. MaxInFlight /\ MaxInFlight \in Nat
      /\ inFlight \in Int /\ allowance \in Int
  BY ParallelNodeAssumption DEF CountInv
<1>2. \A t, u \in Thread : pc[t] \in SchedPc /\ pc[u] \in SchedPc => t = u
  BY DEF SchedInv, Sched
<1>3. ASSUME UNCHANGED <<inFlight, allowance, scheduled, work>>,
             status' = "opened" => status = "opened",
             \A u \in Thread : pc'[u] = "schedule" => pc[u] = "schedule"
      PROVE  CountInv'
  BY <1>1, <1>3, CountMoves DEF CountInv
<1>4. ASSUME NEW t \in Thread, NEW x, Go(t, x), x # "schedule",
             UNCHANGED <<inFlight, allowance, scheduled, work>>,
             status' = "opened" => status = "opened"
      PROVE  CountInv'
  BY <1>3, <1>4 DEF Go, Shape
<1>5. ASSUME NEW t \in Thread, CheckIfBecameReady(t) PROVE CountInv'
  <2>1. (Go(t, "loop") \/ Go(t, "idle")) /\ UNCHANGED <<inFlight, allowance, scheduled, work, status>>
    BY <1>5 DEF CheckIfBecameReady, invocations
  <2>2. QED
    BY <1>4, <2>1
<1>6. ASSUME NEW t \in Thread, SchedulingLoop(t) \/ EndOfLoop(t) PROVE CountInv'
  <2>1. /\ pc[t] \in SchedPc /\ UNCHANGED <<inFlight, scheduled, work, status>>
        /\ \/ Go(t, "idle") /\ (allowance' = allowance \/ allowance' = 0)
           \/ Go(t, "schedule") /\ allowance' = MaxInFlight - inFlight
    BY <1>6 DEF SchedulingLoop, EndOfLoop, invocations, SchedPc
  <2>2. allowance' \in 0 .. MaxInFlight
    BY <1>1, <2>1
  <2>3. \A u \in Thread : pc'[u] = "schedule" => u = t /\ allowance' = MaxInFlight - inFlight
    BY <1>2, <2>1 DEF Go, Shape, SchedPc
  <2>4. QED
    BY <1>1, <2>1, <2>2, <2>3, CountMoves
<1>7. ASSUME NEW t \in Thread, NEW s \in (PreStream .. PostStream) \cup {Done}, s \notin scheduled,
             pc[t] = "schedule", allowance > 0, scheduled' = scheduled \cup {s},
             inFlight' = inFlight + 1, allowance' \in {allowance, allowance - 1},
             allowance' = allowance => \A u \in Thread : pc'[u] # "schedule",
             \A u \in Thread : pc'[u] = "schedule" => pc[u] = "schedule",
             UNCHANGED <<work, status>>
      PROVE  CountInv'
  <2>1. Cardinality(scheduled') = Cardinality(scheduled) + 1
    BY <1>7, Finite, FS_AddElement
  <2>2. inFlight + allowance <= MaxInFlight
    BY <1>7 DEF CountInv
  <2>3. BusyOnes' = BusyOnes
    BY <1>7 DEF BusyOnes
  <2>4. inFlight' \in 0 .. MaxInFlight /\ allowance' \in 0 .. MaxInFlight
    BY <1>1, <1>7, <2>2
  <2>5. \A u \in Thread : pc'[u] = "schedule" => inFlight' + allowance' <= MaxInFlight
    <3>1. allowance' = allowance - 1 => inFlight' + allowance' <= MaxInFlight
      <4>1. inFlight + 1 + (allowance - 1) = inFlight + allowance
        BY <1>1
      <4>2. QED
        BY <1>7, <2>2, <4>1
    <3>2. QED
      BY <1>7, <3>1
  <2>6. status' = "opened" => inFlight' = Cardinality(scheduled') + Cardinality(BusyOnes')
    BY <1>1, <1>7, <2>1, <2>3, Finite DEF CountInv
  <2>7. QED
    BY <2>4, <2>5, <2>6 DEF CountInv
<1>8. ASSUME NEW t \in Thread, ScheduleInvocation(t) PROVE CountInv'
  <2>1. pc[t] = "schedule" /\ UNCHANGED <<status, work>>
    BY <1>8 DEF ScheduleInvocation
  <2>2. CASE Takes(t)
    <3> DEFINE h == Head(in.queue)
    <3>1. /\ in.queue # <<>> /\ allowance > 0 /\ scheduled' = scheduled \cup {h}
          /\ inFlight' = inFlight + 1 /\ allowance' = allowance - 1 /\ pc' = pc
      BY <2>2 DEF Takes
    <3>2. h \in PreStream .. PostStream /\ h # Done /\ \A c \in contexts : c < h
      BY <3>1, QueueFacts, TimestampValues DEF InputInv
    <3>3. h \notin scheduled
      <4>1. h \notin contexts
        BY <3>2, QueueFacts
      <4>2. QED
        BY <3>2, <4>1 DEF WhereInv
    <3>4. allowance' # allowance
      BY <1>1, <3>1
    <3> HIDE DEF h
    <3>5. QED
      BY <1>7, <2>1, <3>1, <3>2, <3>3, <3>4
  <2>3. CASE /\ allowance > 0 /\ CloseDue /\ scheduled' = scheduled \cup {Done}
             /\ inFlight' = inFlight + 1 /\ allowance' = allowance /\ Go(t, "loopEnd")
    <3>1. ~prepared
      BY <2>3 DEF CloseDue
    <3>2. Done \notin scheduled
      BY <3>1 DEF CloseInv, Closing
    <3>3. \A u \in Thread : pc'[u] # "schedule"
      BY <1>2, <2>1, <2>3 DEF Go, Shape, SchedPc
    <3>4. QED
      BY <1>7, <2>1, <2>3, <3>2, <3>3
  <2>4. CASE UNCHANGED <<inFlight, allowance, scheduled>> /\ (Go(t, "bound") \/ Go(t, "loopEnd"))
    BY <1>4, <2>1, <2>4
  <2>5. QED
    BY <1>8, <2>2, <2>3, <2>4 DEF ScheduleInvocation, Takes, AfterScheduling
<1>9. CASE Receives
  <2>1. /\ Upstream \in Thread /\ UNCHANGED <<inFlight, allowance, scheduled, work, status>>
        /\ Go(Upstream, "check") \/ Go(Upstream, "idle")
    BY <1>9, Arrival DEF Thread, scheduling, invocations
  <2>2. QED
    BY <1>4, <2>1
<1>10. ASSUME NEW t \in Thread, Propagates(t) \/ (t \in Worker /\ ProcessNode(t)) PROVE CountInv'
  <2>1. UNCHANGED <<inFlight, allowance, scheduled, work, status>>
    BY <1>10, PropagatesAt DEF scheduling
  <2>2. PICK x \in PropPc \cup {"end", "loopEnd"} : Go(t, x)
    BY <1>10, PropagatesAt
  <2>3. x # "schedule"
    BY DEF PropPc, PacketPc, BoundPc
  <2>4. QED
    BY <1>4, <2>1, <2>2, <2>3
<1>11. ASSUME NEW w \in Worker, w \in Thread, Closes(w) PROVE CountInv'
  <2>1. /\ UNCHANGED <<inFlight, allowance, scheduled, work>> /\ (status' = status \/ status' = "closed")
        /\ \E x \in {"closeSend", "closeBound", "closeOutput", "closed", "end"} : Go(w, x)
    BY <1>11
    DEF Closes, CloseInputStreams, CloseCalculator, CloseMirror, CloseManager, SetClosed,
        scheduling, invocations
  <2>2. QED
    BY <1>4, <1>11, <2>1
<1>12. ASSUME NEW w \in Worker, w \in Thread, Begin(w) PROVE CountInv'
  <2>1. PICK ts \in scheduled :
          /\ scheduled' = scheduled \ {ts} /\ work' = [work EXCEPT ![w] = ts]
          /\ \E x \in {"close", "process"} : Go(w, x)
    BY <1>12 DEF Begin
  <2>2. UNCHANGED <<inFlight, allowance, status>> /\ ~Busy(w)
    BY <1>12 DEF Begin, WorkInv, scheduling
  <2>3. ts # Unset
    BY TimestampValues DEF Shape
  <2>4. BusyOnes' = BusyOnes \cup {w} /\ w \notin BusyOnes
    BY <2>1, <2>2, <2>3 DEF BusyOnes, Busy, Shape
  <2>5. Cardinality(BusyOnes') = Cardinality(BusyOnes) + 1
    BY <2>4, Finite, FS_AddElement
  <2>6. Cardinality(scheduled') = Cardinality(scheduled) - 1
    BY <2>1, Finite, FS_RemoveElement
  <2>7. \A u \in Thread : pc'[u] = "schedule" => pc[u] = "schedule"
    BY <1>12, <2>1 DEF Go, Shape
  <2>8. QED
    BY <1>1, <2>2, <2>5, <2>6, <2>7, Finite DEF CountInv
<1>13. ASSUME NEW w \in Worker, w \in Thread, EndScheduling(w) PROVE CountInv'
  <2>1. /\ pc[w] = "end" /\ work' = [work EXCEPT ![w] = Unset]
        /\ inFlight' = IF status = "opened" THEN inFlight - 1 ELSE inFlight
        /\ UNCHANGED <<status, allowance, scheduled>>
        /\ \E x \in {"loop", "idle"} : Go(w, x)
    BY <1>13 DEF EndScheduling
  <2>2. BusyOnes' = BusyOnes \ {w} /\ w \in BusyOnes
    BY <1>13, <2>1 DEF BusyOnes, Busy, Shape, WorkInv, WorkPc
  <2>3. Cardinality(BusyOnes') = Cardinality(BusyOnes) - 1
    BY <2>2, Finite, FS_RemoveElement
  <2>4. Cardinality(BusyOnes) >= 1
    <3>1. IsFiniteSet(BusyOnes')
      BY <2>2, Finite, FS_Subset
    <3>2. Cardinality(BusyOnes') \in Nat
      BY <3>1, FS_CardinalityType
    <3>3. QED
      BY <2>3, <3>2, Finite
  <2>5. \A u \in Thread : pc'[u] = "schedule" => pc[u] = "schedule"
    BY <1>13, <2>1 DEF Go, Shape
  <2>6. QED
    BY <1>1, <2>1, <2>3, <2>4, <2>5, Finite DEF CountInv
<1>14. CASE UNCHANGED vars
  BY <1>14, <1>3 DEF vars, scheduling, invocations
<1>15. \A w \in Worker : w \in Thread
  BY DEF Thread
<1>16. QED
  BY <1>5, <1>6, <1>8, <1>9, <1>10, <1>11, <1>12, <1>13, <1>14, <1>15, Steps, Zenon DEF Schedules

-----------------------------------------------------------------------------
\* The input has its end while Close runs.

\* Where the input streams of the node are closed.
EndPc == {"closeSend", "closeBound", "closeOutput", "closed"}
EndInv == \A t \in Thread : pc[t] \in EndPc => in.bound = Done

LEMMA NextEnd ==
  ASSUME Shape, WorkInv, RaiseInv, EndInv, [Next]_vars
  PROVE  EndInv'
<1>1. in.bound = Done => in'.bound = Done
  <2>1. Ordered(in') /\ in'.bound >= in.bound
    BY Input
  <2>2. in'.bound \in PreStream .. Done
    BY <2>1 DEF Ordered, Stream
  <2>3. QED
    BY <2>1, <2>2, TimestampValues
<1>2. ASSUME NEW u \in Thread, pc'[u] # pc[u], pc'[u] \in EndPc
      PROVE  pc[u] \in EndPc \/ in'.bound = Done
  <2>1. pc' \in [Thread -> Places] /\ pc \in [Thread -> Places]
    BY NextShape DEF Shape
  <2>2. CASE u = Upstream /\ Receives
    <3>1. Go(u, "check") \/ Go(u, "idle")
      BY <2>2, Arrival
    <3>2. QED
      BY <1>2, <2>1, <3>1 DEF Go, EndPc
  <2>3. CASE Schedules(u)
    <3>1. pc' = pc \/ \E x \in {"loop", "idle", "schedule", "bound", "loopEnd"} : Go(u, x)
      BY <2>3
      DEF Schedules, CheckIfBecameReady, SchedulingLoop, ScheduleInvocation, AfterScheduling,
          EndOfLoop
    <3>2. QED
      BY <1>2, <2>1, <3>1 DEF Go, EndPc
  <2>4. CASE Propagates(u) \/ (u \in Worker /\ ProcessNode(u))
    <3>1. \E x \in PropPc \cup {"end", "loopEnd"} : Go(u, x)
      BY <2>4, PropagatesAt
    <3>2. QED
      BY <1>2, <2>1, <3>1 DEF Go, EndPc, PropPc, PacketPc, BoundPc
  <2>5. CASE u \in Worker /\ (Begin(u) \/ EndScheduling(u))
    <3>1. \E x \in {"close", "process", "loop", "idle"} : Go(u, x)
      BY <2>5 DEF Begin, EndScheduling
    <3>2. QED
      BY <1>2, <2>1, <3>1 DEF Go, EndPc
  <2>6. CASE CloseInputStreams(u)
    <3>1. in' = [in EXCEPT !.bound = Done, !.selected = Done, !.closed = TRUE]
      BY <2>6 DEF CloseInputStreams, CloseStream
    <3>2. in \in Stream
      BY DEF Shape, Ordered
    <3>3. QED
      BY <3>1, <3>2 DEF Stream
  <2>7. CASE CloseCalculator(u) \/ CloseMirror(u) \/ CloseManager(u) \/ SetClosed(u)
    BY <2>7 DEF CloseCalculator, CloseMirror, CloseManager, SetClosed, EndPc
  <2>8. QED
    BY <1>2, <2>2, <2>3, <2>4, <2>5, <2>6, <2>7, Mover, Zenon DEF Closes
<1>3. QED
  BY <1>1, <1>2 DEF EndInv

-----------------------------------------------------------------------------
\* The invariant, and OnePropagator.

\* The inductive invariant.
IInv == /\ Shape /\ WorkInv /\ RaiseInv /\ TurnInv /\ SchedInv /\ CloseInv
        /\ InputInv /\ BoundInv /\ WhereInv /\ FrontInv /\ PropInv /\ CountInv
        /\ EndInv

\* It holds at the beginning ...
LEMMA InitIInv == Init => IInv
<1> SUFFICES ASSUME Init PROVE IInv
  OBVIOUS
<1>1. /\ pc = [t \in Thread |-> IF t = Upstream THEN "check" ELSE "idle"]
      /\ in = FreshStream /\ mirror = FreshStream
      /\ status = "opened" /\ schedState = "Idle"
      /\ inFlight = 0 /\ allowance = 0 /\ inputBound = Unset
      /\ contexts = {} /\ prepared = FALSE /\ scheduled = {}
      /\ work = [w \in Worker |-> Unset]
      /\ output = {} /\ completed = {}
      /\ taskBound = Unset /\ propState = "Idle" /\ carried = Unset
      /\ manager = [bound |-> PreStream, closed |-> FALSE]
      /\ offsetEnabled \in BOOLEAN /\ hasError = FALSE
  BY DEF Init
<1>2. \A t \in Thread : pc[t] \in {"check", "idle"} /\ ~Busy(t)
  BY <1>1 DEF Busy
<1>3. Ordered(FreshStream) /\ FreshStream.queue = <<>> /\ FreshStream.bound = PreStream /\ ~FreshStream.closed
  BY TimestampValues DEF FreshStream, Ordered, Stream, Increasing
<1>4. PreStream \in PreStream .. Done
  BY TimestampValues
<1>5. Shape
  <2>1. pc \in [Thread -> Places]
    BY <1>1 DEF Places
  <2>2. work \in [Worker -> {Unset} \cup (PreStream .. PostStream) \cup {Done}]
    BY <1>1
  <2>3. manager \in [bound : PreStream .. Done, closed : BOOLEAN]
    BY <1>1, <1>4
  <2>4. /\ Ordered(in) /\ Ordered(mirror) /\ ~mirror.closed
        /\ inFlight \in Int /\ allowance \in Int
    BY <1>1, <1>3
  <2>5. QED
    BY <1>1, <2>1, <2>2, <2>3, <2>4 DEF Shape
<1>6. WorkInv /\ RaiseInv
  BY <1>2 DEF WorkInv, RaiseInv, WorkPc, ClosePc
<1>7. TurnInv /\ SchedInv
  BY <1>1, <1>2 DEF TurnInv, SchedInv, Sched, PropPc, PacketPc, BoundPc, SchedPc
<1>8. CloseInv
  BY <1>1, <1>2 DEF CloseInv, Closing, ClosePc
<1>9. InputInv /\ BoundInv
  <2>1. Len(in.queue) = 0 /\ Unset <= PreStream /\ in.bound = PreStream
    BY <1>1, <1>3, TimestampValues
  <2>2. QED
    BY <1>1, <1>2, <2>1 DEF InputInv, BoundInv
<1>10. WhereInv /\ FrontInv /\ PropInv
  <2>1. \A w \in Worker : pc[w] # "process"
    BY <1>2 DEF Thread
  <2>2. QED
    BY <1>1, <1>2, <2>1 DEF WhereInv, FrontInv, PropInv
<1>11. CountInv
  <2>1. BusyOnes = {}
    BY <1>1 DEF BusyOnes
  <2>2. QED
    BY <1>1, <1>2, <2>1, FS_EmptySet, ParallelNodeAssumption DEF CountInv
<1>12. EndInv
  BY <1>2 DEF EndInv, EndPc
<1>13. QED
  BY <1>5, <1>6, <1>7, <1>8, <1>9, <1>10, <1>11, <1>12 DEF IInv

\* ... every step keeps it ...
LEMMA NextIInv ==
  ASSUME IInv, [Next]_vars
  PROVE  IInv'
<1>1. /\ Shape /\ WorkInv /\ RaiseInv /\ TurnInv /\ SchedInv /\ CloseInv
      /\ InputInv /\ BoundInv /\ WhereInv /\ FrontInv /\ PropInv /\ CountInv
      /\ EndInv
  BY DEF IInv
<1>2. Shape' /\ WorkInv' /\ RaiseInv'
  BY <1>1, NextShape, NextWork, NextRaise
<1>3. TurnInv' /\ SchedInv' /\ CloseInv'
  BY <1>1, NextTurn, NextSched, NextClose
<1>4. InputInv' /\ BoundInv' /\ WhereInv'
  BY <1>1, NextInput, NextBound, NextWhere
<1>5. FrontInv' /\ PropInv' /\ CountInv'
  BY <1>1, NextFront, NextProp, NextCount
<1>6. EndInv'
  BY <1>1, NextEnd
<1>7. QED
  BY <1>2, <1>3, <1>4, <1>5, <1>6 DEF IInv

\* ... so that it always holds.
LEMMA IInvAlways == Spec => []IInv
BY InitIInv, NextIInv, PTL DEF Spec

\* It gives OnePropagator.
LEMMA IsOnePropagator == IInv => OnePropagator
<1> SUFFICES ASSUME IInv PROVE OnePropagator
  OBVIOUS
<1>1. /\ Shape /\ TurnInv /\ BoundInv /\ FrontInv /\ PropInv /\ CountInv
  BY DEF IInv
<1>2. TypeOK
  <2>1. /\ PreStream .. Done \subseteq Timestamp /\ Unset \in Timestamp /\ Done \in Timestamp
        /\ PreStream .. PostStream \subseteq Timestamp
    BY TimestampValues DEF Timestamp
  <2>2. pc \in [Thread -> {"idle", "check", "loop", "schedule", "bound",
               "loopEnd", "process", "end", "send", "recycle",
               "sent", "tryBound", "raise", "tried", "close",
               "closeSend", "closeBound", "closeOutput", "closed"}]
    BY <1>1 DEF Shape, Places, SchedPc, PropPc, PacketPc, BoundPc, WorkPc, ClosePc
  <2>3. completed \subseteq contexts \cup {carried}
    BY <1>1 DEF FrontInv
  <2>4. work \in [Worker -> Timestamp] /\ manager \in [bound : Timestamp, closed : BOOLEAN]
    BY <1>1, <2>1 DEF Shape
  <2>5. QED
    BY <1>1, <2>1, <2>2, <2>3, <2>4 DEF TypeOK, Shape, Ordered, CountInv
<1>3. Cardinality(Propagators) = IF propState = "Idle" THEN 0 ELSE 1
  <2>1. Propagators = {t \in Thread : pc[t] \in PropPc}
    BY DEF Propagators, PropPc, PacketPc, BoundPc
  <2>2. CASE propState = "Idle"
    BY <1>1, <2>1, <2>2, FS_EmptySet DEF TurnInv
  <2>3. CASE propState # "Idle"
    <3>1. PICK t \in Thread : pc[t] \in PropPc
      BY <1>1, <2>3 DEF TurnInv
    <3>2. Propagators = {t}
      BY <1>1, <2>1, <3>1 DEF TurnInv
    <3>3. QED
      BY <2>3, <3>2, FS_Singleton
  <2>4. QED
    BY <2>2, <2>3
<1>4. ASSUME contexts # {}, completed # {}, propState = "Idle"
      PROVE  Least(contexts) < Least(completed)
  <2>1. completed \subseteq contexts /\ Least(contexts) \notin completed
    BY <1>1, <1>4 DEF FrontInv, TurnInv, PacketPc, PropPc, PropInv
  <2>2. contexts \subseteq PreStream .. PostStream /\ PreStream .. PostStream \subseteq Int
    BY <1>1, QueueFacts DEF Shape
  <2>3. Least(completed) \in completed
    BY <1>4, <2>1, <2>2, LeastIs
  <2>4. Least(contexts) \in contexts /\ Least(contexts) <= Least(completed)
    BY <1>4, <2>1, <2>2, <2>3, LeastIs
  <2>5. Least(contexts) # Least(completed)
    BY <2>1, <2>3
  <2>6. Least(contexts) \in Int /\ Least(completed) \in Int
    BY <2>1, <2>2, <2>3, <2>4
  <2>7. QED
    BY <2>4, <2>5, <2>6
<1>5. ASSUME NEW t \in Thread
      PROVE  /\ pc[t] = "tried" => propState \in {"Bound", "Pending"}
             /\ pc[t] = "tried" /\ propState = "Pending" /\ contexts = {} => carried < taskBound
             /\ pc[t] = "bound" => inputBound >= taskBound
  <2>1. pc[t] = "bound" => inputBound >= taskBound
    <3>1. taskBound \in Int /\ inputBound \in Int
      BY <1>1, TimestampValues DEF Shape
    <3>2. QED
      BY <1>1, <3>1 DEF BoundInv
  <2>2. QED
    BY <1>1, <2>1 DEF TurnInv, BoundPc, PropInv
<1>6. QED
  BY <1>2, <1>3, <1>4, <1>5 DEF OnePropagator

\* There is one propagation thread while propagation_state_ is not kIdle, and
\* the checks of the output stream handler hold.
THEOREM PropagationIsExclusive == Spec => []OnePropagator
BY IInvAlways, IsOnePropagator, PTL

-----------------------------------------------------------------------------
\* Nothing waits unless somebody will look.

\* What the node has not looked at yet.
Waiting ==
  \/ in.queue # <<>>
  \/ in.bound >= OneOverPostStream /\ ~prepared
  \/ in.bound < OneOverPostStream /\ taskBound # in.bound

\* A thread is about to look, or the scheduling thread will look again.
Attention ==
  \/ \E t \in Thread : pc[t] \in {"check", "loop", "schedule"}
  \/ schedState = "Pending"

\* An invocation is scheduled or runs; EndScheduling will follow it.
InFlight == scheduled # {} \/ \E t \in Thread : Busy(t)

\* The scheduling thread has found the bound and will hand it on.
HandsOn ==
  in.queue = <<>> /\ in.bound < OneOverPostStream /\ \E t \in Thread : pc[t] = "bound" /\ inputBound = in.bound

\* The scheduling thread may schedule all that is allowed, or looks again.
AllowInv ==
  status = "opened" =>
    \A t \in Thread : pc[t] = "schedule" =>
      allowance + inFlight = MaxInFlight \/ schedState = "Pending"

\* Nothing waits in an open node unless somebody will look.
AttInv == status = "opened" /\ Waiting => Attention \/ InFlight \/ HandsOn

\* Whoever ends an invocation leaves word for the thread in the loop.
LEMMA NextAllow ==
  ASSUME IInv, AllowInv, [Next]_vars
  PROVE  AllowInv'
<1>1. /\ Shape /\ SchedInv
      /\ inFlight \in Int /\ allowance \in Int /\ MaxInFlight \in Int
  BY ParallelNodeAssumption DEF IInv, Shape
<1>2. \A t, u \in Thread : pc[t] \in SchedPc /\ pc[u] \in SchedPc => t = u
  BY <1>1 DEF SchedInv, Sched
<1>3. ASSUME UNCHANGED <<inFlight, allowance>>, status' = "opened" => status = "opened",
             schedState = "Pending" => schedState' = "Pending",
             \A u \in Thread : pc'[u] = "schedule" => pc[u] = "schedule"
      PROVE  AllowInv'
  BY <1>3 DEF AllowInv
<1>4. ASSUME NEW t \in Thread, NEW x, Go(t, x), x # "schedule", UNCHANGED <<inFlight, allowance>>,
             status' = "opened" => status = "opened",
             schedState = "Pending" => schedState' = "Pending"
      PROVE  AllowInv'
  BY <1>1, <1>3, <1>4 DEF Go, Shape
<1>5. ASSUME NEW t \in Thread, CheckIfBecameReady(t) PROVE AllowInv'
  <2>1. /\ Go(t, "loop") \/ Go(t, "idle")
        /\ UNCHANGED <<inFlight, allowance, status>>
        /\ schedState = "Pending" => schedState' = "Pending"
    BY <1>5 DEF CheckIfBecameReady
  <2>2. QED
    BY <1>4, <2>1
<1>6. ASSUME NEW t \in Thread, SchedulingLoop(t) \/ EndOfLoop(t) PROVE AllowInv'
  <2>1. /\ pc[t] \in SchedPc /\ UNCHANGED inFlight
        /\ \/ Go(t, "idle")
           \/ Go(t, "schedule") /\ allowance' = MaxInFlight - inFlight
    BY <1>6 DEF SchedulingLoop, EndOfLoop, SchedPc
  <2>2. \A u \in Thread : pc'[u] = "schedule" => u = t /\ allowance' = MaxInFlight - inFlight
    BY <1>1, <1>2, <2>1 DEF Go, Shape, SchedPc
  <2>3. allowance' = MaxInFlight - inFlight => allowance' + inFlight' = MaxInFlight
    BY <1>1, <2>1
  <2>4. QED
    BY <2>2, <2>3 DEF AllowInv
<1>7. ASSUME NEW t \in Thread, ScheduleInvocation(t) PROVE AllowInv'
  <2>1. pc[t] = "schedule" /\ UNCHANGED <<status, schedState>>
    BY <1>7 DEF ScheduleInvocation
  <2>2. CASE Takes(t)
    <3>1. allowance' + inFlight' = allowance + inFlight /\ pc' = pc
      BY <1>1, <2>2 DEF Takes
    <3>2. QED
      BY <2>1, <3>1 DEF AllowInv
  <2>3. CASE Go(t, "loopEnd") \/ Go(t, "bound")
    <3>1. \A u \in Thread : pc'[u] # "schedule"
      BY <1>1, <1>2, <2>1, <2>3 DEF Go, Shape, SchedPc
    <3>2. QED
      BY <3>1 DEF AllowInv
  <2>4. QED
    BY <1>7, <2>2, <2>3 DEF ScheduleInvocation, Takes, AfterScheduling
<1>8. CASE Receives
  <2>1. /\ Upstream \in Thread /\ UNCHANGED <<inFlight, allowance, status, schedState>>
        /\ Go(Upstream, "check") \/ Go(Upstream, "idle")
    BY <1>1, <1>8, Arrival DEF Thread, scheduling
  <2>2. QED
    BY <1>4, <2>1
<1>9. ASSUME NEW t \in Thread, Propagates(t) \/ (t \in Worker /\ ProcessNode(t)) PROVE AllowInv'
  <2>1. UNCHANGED <<inFlight, allowance, status, schedState>>
    BY <1>9, PropagatesAt DEF scheduling
  <2>2. PICK x \in PropPc \cup {"end", "loopEnd"} : Go(t, x)
    BY <1>9, PropagatesAt
  <2>3. x # "schedule"
    BY DEF PropPc, PacketPc, BoundPc
  <2>4. QED
    BY <1>4, <2>1, <2>2, <2>3
<1>10. ASSUME NEW w \in Worker, w \in Thread, Closes(w) \/ Begin(w) PROVE AllowInv'
  <2>1. /\ UNCHANGED <<inFlight, allowance, schedState>> /\ (status' = status \/ status' = "closed")
        /\ \E x \in {"closeSend", "closeBound", "closeOutput", "closed", "end", "close", "process"} : Go(w, x)
    BY <1>10
    DEF Closes, CloseInputStreams, CloseCalculator, CloseMirror, CloseManager, SetClosed, Begin,
        scheduling
  <2>2. QED
    BY <1>4, <1>10, <2>1
<1>11. ASSUME NEW w \in Worker, w \in Thread, EndScheduling(w) PROVE AllowInv'
  <2>1. /\ pc[w] = "end" /\ status' = status
        /\ status = "opened" =>
             schedState' = IF schedState = "Idle" THEN "Scheduling" ELSE "Pending"
        /\ \E x \in {"loop", "idle"} : Go(w, x)
    BY <1>11 DEF EndScheduling
  <2>2. \A u \in Thread : pc'[u] = "schedule" => pc[u] = "schedule"
    BY <1>1, <1>11, <2>1 DEF Go, Shape
  <2>3. \A u \in Thread : pc[u] = "schedule" => schedState # "Idle"
    BY <1>1 DEF SchedInv, Sched, SchedPc
  <2>4. QED
    BY <2>1, <2>2, <2>3 DEF AllowInv
<1>12. CASE UNCHANGED vars
  BY <1>3, <1>12 DEF vars, scheduling
<1>13. \A w \in Worker : w \in Thread
  BY DEF Thread
<1>14. QED
  BY <1>5, <1>6, <1>7, <1>8, <1>9, <1>10, <1>11, <1>12, <1>13, Steps, Zenon DEF Schedules

\* An invocation is in flight while the count says so.
LEMMA CountIs ==
  ASSUME IInv, status = "opened", inFlight > 0
  PROVE  InFlight
<1>1. /\ Shape /\ inFlight = Cardinality(scheduled) + Cardinality(BusyOnes)
  BY DEF IInv, CountInv
<1>2. scheduled = {} => Cardinality(scheduled) = 0
  BY FS_EmptySet
<1>3. scheduled = {} => BusyOnes # {}
  BY <1>1, <1>2, FS_EmptySet
<1>4. \A w \in BusyOnes : w \in Thread /\ Busy(w)
  BY DEF BusyOnes, Busy, Thread
<1>5. QED
  BY <1>3, <1>4 DEF InFlight

\* A context is in flight, or its propagation is a scheduling thread's.
LEMMA ContextIs ==
  ASSUME IInv, contexts # {}, NEW t \in Thread, pc[t] \in SchedPc
  PROVE  InFlight
<1>1. /\ Shape /\ SchedInv /\ TurnInv /\ WorkInv /\ WhereInv /\ FrontInv /\ PropInv
  BY DEF IInv
<1>2. CASE propState = "Idle"
  <2>1. Least(contexts) \in contexts /\ Least(contexts) \notin completed
    BY <1>1, <1>2, LeastIs DEF Shape, PropInv
  <2>2. \/ Least(contexts) \in scheduled
        \/ \E w \in Worker : pc[w] = "process"
    BY <1>1, <2>1 DEF WhereInv
  <2>3. \A w \in Worker : pc[w] = "process" => w \in Thread /\ Busy(w)
    BY <1>1 DEF WorkInv, WorkPc, Thread
  <2>4. QED
    BY <2>2, <2>3 DEF InFlight
<1>3. CASE propState # "Idle"
  <2>1. PICK u \in Thread : pc[u] \in PropPc
    BY <1>1, <1>3 DEF TurnInv
  <2>2. u # t
    BY <2>1 DEF PropPc, PacketPc, BoundPc, SchedPc
  <2>3. Busy(u)
    BY <1>1, <2>1, <2>2 DEF SchedInv, Sched
  <2>4. QED
    BY <2>3 DEF InFlight
<1>4. QED
  BY <1>2, <1>3

\* A step that keeps what waits and who attends to it.
LEMMA AttMoves ==
  ASSUME AttInv, status' = "opened" => status = "opened",
         Waiting' => Waiting,
         Attention => Attention' \/ InFlight',
         InFlight => InFlight' \/ Attention',
         HandsOn => HandsOn' \/ InFlight' \/ Attention' \/ ~Waiting'
  PROVE  AttInv'
  BY DEF AttInv

\* A thread that stops looking leaves an invocation in flight, or has seen all.
LEMMA NextAtt ==
  ASSUME IInv, AllowInv, AttInv, [Next]_vars
  PROVE  AttInv'
<1>1. /\ Shape /\ WorkInv /\ SchedInv /\ TurnInv /\ BoundInv /\ CloseInv /\ CountInv
      /\ MaxInFlight \in Nat /\ MaxInFlight > 0
      /\ inFlight \in Int /\ allowance \in Int
  BY ParallelNodeAssumption DEF IInv, Shape
<1>2. \A t, u \in Thread : pc[t] \in SchedPc /\ pc[u] \in SchedPc => t = u
  BY <1>1 DEF SchedInv, Sched
<1>3. CASE UNCHANGED vars
  BY <1>3
  DEF vars, scheduling, invocations, propagation, AttInv, Waiting, Attention, InFlight, HandsOn, Busy
<1>4. CASE Receives
  <2>1. /\ Upstream \in Thread /\ pc[Upstream] = "idle"
        /\ UNCHANGED <<scheduling, invocations, propagation>>
        /\ Go(Upstream, IF in.queue = <<>> THEN "check" ELSE "idle")
    BY <1>1, <1>4, Arrival DEF Thread
  <2>2. CASE in.queue = <<>>
    <3>1. pc'[Upstream] = "check"
      BY <1>1, <2>1, <2>2 DEF Go, Shape
    <3>2. QED
      BY <2>1, <3>1 DEF AttInv, Attention
  <2>3. CASE in.queue # <<>>
    <3>1. pc' = pc
      BY <1>1, <2>1, <2>3 DEF Go, Shape
    <3>2. /\ Attention' <=> Attention
          /\ InFlight' <=> InFlight
      BY <2>1, <3>1 DEF Attention, InFlight, Busy, scheduling, invocations
    <3>3. Waiting /\ ~HandsOn
      BY <2>3 DEF Waiting, HandsOn
    <3>4. QED
      BY <2>1, <3>2, <3>3 DEF AttInv, scheduling
  <2>4. QED
    BY <2>2, <2>3
<1>5. ASSUME NEW t \in Thread, NEW x, Go(t, x), UNCHANGED <<in, prepared, taskBound, inputBound>>,
             work' = work, scheduled' = scheduled,
             status' = "opened" => status = "opened",
             schedState = "Pending" => schedState' = "Pending" \/ InFlight \/ status' # "opened",
             pc[t] \in {"check", "loop", "schedule"} =>
               x \in {"check", "loop", "schedule"} \/ schedState' = "Pending" \/ InFlight
               \/ status' # "opened",
             pc[t] # "bound"
      PROVE  AttInv'
  <2>1. pc'[t] = x /\ \A u \in Thread : u # t => pc'[u] = pc[u]
    BY <1>1, <1>5 DEF Go, Shape
  <2>2. InFlight' <=> InFlight
    BY <1>5 DEF InFlight, Busy
  <2>3. Waiting' <=> Waiting
    BY <1>5 DEF Waiting
  <2>4. HandsOn => HandsOn'
    BY <1>5, <2>1 DEF HandsOn
  <2>5. Attention => Attention' \/ InFlight' \/ status' # "opened"
    BY <1>5, <2>1, <2>2 DEF Attention
  <2>6. QED
    BY <1>5, <2>2, <2>3, <2>4, <2>5 DEF AttInv
<1>6. ASSUME NEW t \in Thread, CheckIfBecameReady(t) PROVE AttInv'
  <2>1. /\ UNCHANGED <<in, prepared, taskBound, inputBound, work, scheduled, status>>
        /\ pc[t] = "check"
    BY <1>6 DEF CheckIfBecameReady, invocations, propagation
  <2>2. CASE status = "opened" /\ schedState = "Idle" /\ inFlight < MaxInFlight
    <3>1. Go(t, "loop")
      BY <1>6, <2>2 DEF CheckIfBecameReady
    <3>2. QED
      BY <1>1, <3>1 DEF AttInv, Attention, Go, Shape
  <2>3. CASE status = "opened" /\ ~(schedState = "Idle" /\ inFlight < MaxInFlight)
    <3>1. schedState' = IF schedState = "Scheduling" THEN "Pending" ELSE schedState
      BY <1>6, <2>3 DEF CheckIfBecameReady
    <3>2. schedState # "Idle" => schedState' = "Pending"
      BY <1>1, <3>1 DEF Shape
    <3>3. schedState = "Idle" => InFlight
      <4>1. schedState = "Idle" => inFlight > 0
        BY <1>1, <2>3
      <4>2. QED
        BY <2>3, <4>1, CountIs
    <3>4. (schedState' = "Pending" \/ InFlight) /\ Go(t, "idle")
      BY <1>6, <2>3, <3>2, <3>3 DEF CheckIfBecameReady
    <3>5. QED
      BY <1>5, <2>1, <3>4
  <2>4. CASE status # "opened"
    BY <2>1, <2>4 DEF AttInv
  <2>5. QED
    BY <2>2, <2>3, <2>4
<1>7. ASSUME NEW t \in Thread, SchedulingLoop(t) PROVE AttInv'
  <2>1. status' = status /\ (status = "closed" \/ Go(t, "schedule"))
    BY <1>7 DEF SchedulingLoop
  <2>2. QED
    BY <1>1, <2>1 DEF AttInv, Attention, Go, Shape
<1>8. ASSUME NEW t \in Thread, EndOfLoop(t) PROVE AttInv'
  <2> DEFINE again == schedState = "Pending" /\ inFlight < MaxInFlight
  <2>1. /\ pc[t] = "loopEnd" /\ status' = status
        /\ UNCHANGED <<in, prepared, taskBound, work, scheduled>>
        /\ Go(t, IF again THEN "schedule" ELSE "idle")
    BY <1>8 DEF EndOfLoop, invocations, propagation
  <2>2. CASE again
    BY <1>1, <2>1, <2>2 DEF AttInv, Attention, Go, Shape
  <2>3. CASE ~again
    <3>1. schedState = "Pending" /\ status = "opened" => InFlight
      <4>1. schedState = "Pending" => inFlight > 0
        BY <1>1, <2>3
      <4>2. QED
        BY <4>1, CountIs
    <3>2. ~HandsOn
      BY <1>2, <2>1 DEF HandsOn, SchedPc
    <3>3. pc'[t] = "idle" /\ \A u \in Thread : u # t => pc'[u] = pc[u]
      BY <1>1, <2>1, <2>3 DEF Go, Shape
    <3>4. (InFlight' <=> InFlight) /\ (Waiting' <=> Waiting)
      BY <2>1 DEF InFlight, Busy, Waiting
    <3>5. Attention /\ status = "opened" => Attention' \/ InFlight
      BY <2>1, <3>1, <3>3 DEF Attention
    <3>6. QED
      BY <2>1, <3>2, <3>4, <3>5 DEF AttInv
  <2>4. QED
    BY <2>2, <2>3
<1>9. ASSUME NEW t \in Thread, ScheduleInvocation(t) PROVE AttInv'
  <2>1. pc[t] = "schedule" /\ UNCHANGED <<status, schedState, work, taskBound>>
    BY <1>9 DEF ScheduleInvocation, propagation
  <2>2. CASE Takes(t)
    BY <2>1, <2>2 DEF Takes, AttInv, Attention
  <2>3. CASE allowance = 0 /\ AfterScheduling(t, Unset)
             /\ UNCHANGED <<in, inFlight, allowance, contexts, prepared, scheduled>>
    <3>1. status = "opened" => InFlight \/ schedState = "Pending"
      <4>1. status = "opened" => inFlight = MaxInFlight \/ schedState = "Pending"
        BY <1>1, <2>1, <2>3 DEF AllowInv
      <4>2. status = "opened" /\ inFlight = MaxInFlight => InFlight
        BY <1>1, CountIs
      <4>3. QED
        BY <4>1, <4>2
    <3>2. InFlight' <=> InFlight
      BY <2>1, <2>3 DEF InFlight, Busy
    <3>3. QED
      BY <2>1, <3>1, <3>2 DEF AttInv, Attention
  <2>4. CASE in.queue = <<>> /\ ~ReadyForClose /\ AfterScheduling(t, in.bound) /\ UNCHANGED in
    <3>0. in.bound < OneOverPostStream
      BY <1>1, <2>4, QueueFacts, TimestampValues DEF ReadyForClose
    <3>1. inputBound' = in.bound /\ Go(t, "bound")
      BY <1>1, <2>4, QueueFacts, TimestampValues DEF AfterScheduling
    <3>2. pc'[t] = "bound"
      BY <1>1, <3>1 DEF Go, Shape
    <3>3. HandsOn'
      BY <2>4, <3>0, <3>1, <3>2 DEF HandsOn
    <3>4. QED
      BY <3>3 DEF AttInv
  <2>5. CASE ReadyForClose /\ ~CloseDue /\ UNCHANGED <<in, contexts, prepared, scheduled>>
    <3>1. in.queue = <<>> /\ in.bound >= OneOverPostStream /\ (contexts # {} \/ prepared)
      BY <2>5 DEF ReadyForClose, CloseDue
    <3>2. CASE prepared
      <4>1. in.bound \in Int
        BY <1>1, QueueFacts
      <4>2. ~Waiting'
        BY <2>5, <3>1, <3>2, <4>1, TimestampValues DEF Waiting
      <4>3. QED
        BY <4>2 DEF AttInv
    <3>3. CASE contexts # {}
      <4>1. InFlight
        BY <2>1, <3>3, ContextIs DEF SchedPc
      <4>2. InFlight'
        BY <2>1, <2>5, <4>1 DEF InFlight, Busy
      <4>3. QED
        BY <4>2 DEF AttInv
    <3>4. QED
      BY <3>1, <3>2, <3>3
  <2>6. CASE scheduled' = scheduled \cup {Done}
    BY <2>6 DEF AttInv, InFlight
  <2>7. QED
    BY <1>9, <2>2, <2>3, <2>4, <2>5, <2>6 DEF ScheduleInvocation, Takes
<1>10. ASSUME NEW t \in Thread, UpdateTaskTimestampBound(t) PROVE AttInv'
  <2>1. /\ pc[t] = "bound" /\ taskBound' = inputBound
        /\ UNCHANGED <<in, status, schedState, work, scheduled, prepared>>
    BY <1>10 DEF UpdateTaskTimestampBound, scheduling, invocations
  <2>2. \A u \in Thread : u # t => pc'[u] = pc[u]
    BY <1>1, <1>10, PropagatesAt DEF Propagates, Go, Shape
  <2>3. inputBound \in PreStream .. Done /\ taskBound <= inputBound /\ inputBound <= in.bound
    BY <1>1, <2>1 DEF BoundInv
  <2>4. taskBound \in Int /\ inputBound \in Int /\ in.bound \in Int
    BY <1>1, QueueFacts, TimestampValues DEF Shape
  <2>5. Waiting' => Waiting
    BY <2>1, <2>3, <2>4 DEF Waiting
  <2>6. HandsOn => ~Waiting'
    BY <1>2, <2>1, <2>4, TimestampValues DEF HandsOn, Waiting, SchedPc
  <2>7. (Attention => Attention') /\ (InFlight' <=> InFlight)
    BY <2>1, <2>2 DEF Attention, InFlight, Busy
  <2>8. QED
    BY <2>1, <2>5, <2>6, <2>7, AttMoves
<1>11. ASSUME NEW t \in Thread, Own(t) \/ (t \in Worker /\ ProcessNode(t)) PROVE AttInv'
  <2>1. PICK x \in PropPc \cup {"end", "loopEnd"} : Go(t, x)
    BY <1>11, PropagatesAt, Zenon DEF Own, Propagates
  <2>2. UNCHANGED <<in, scheduling, work, scheduled, prepared>>
    BY <1>11, PropagatesAt, Zenon DEF Own, Propagates
  <2>3. taskBound' = taskBound /\ pc[t] \in PropPc \cup {"process"}
    BY <1>11
    DEF Own, PropagateOutputPackets, RecycleCalculatorContext, PacketsPropagated,
        TryPropagateTimestampBound, RaiseMirrorBound, BoundPropagated, ProcessNode, propagation,
        PropPc, PacketPc, BoundPc
  <2>4. pc[t] \notin {"check", "loop", "schedule", "bound"}
    BY <2>3 DEF PropPc, PacketPc, BoundPc
  <2>5. QED
    BY <1>5, <2>1, <2>2, <2>3, <2>4 DEF scheduling
<1>12. ASSUME NEW w \in Worker, w \in Thread, Closes(w) PROVE AttInv'
  <2>1. CASE CloseInputStreams(w)
    <3>1. in'.queue = <<>> /\ in'.bound >= OneOverPostStream /\ prepared' = prepared
      <4>1. prepared
        BY <1>12, <1>1, <2>1 DEF CloseInputStreams, CloseInv, Closing, ClosePc
      <4>2. prepared' = prepared
        BY <2>1 DEF CloseInputStreams, invocations
      <4>3. QED
        BY <1>1, <4>1, <4>2, CloseStable DEF IInv
    <3>2. prepared
      BY <1>12, <1>1, <2>1 DEF CloseInputStreams, CloseInv, Closing, ClosePc
    <3>3. in'.bound \in Int
      BY <1>1, Input, TimestampValues DEF Ordered, Stream
    <3>4. ~Waiting'
      BY <3>1, <3>2, <3>3, TimestampValues DEF Waiting
    <3>5. QED
      BY <3>4 DEF AttInv
  <2>2. CASE ~CloseInputStreams(w)
    <3>1. /\ UNCHANGED <<in, prepared, taskBound, inputBound, work, scheduled, schedState>>
          /\ status' = status \/ status' = "closed"
          /\ pc[w] \in ClosePc
      BY <1>12, <2>2
      DEF Closes, CloseCalculator, CloseMirror, CloseManager, SetClosed, scheduling, invocations,
          propagation, ClosePc
    <3>2. \E x : Go(w, x)
      BY <1>12, <2>2 DEF Closes, CloseCalculator, CloseMirror, CloseManager, SetClosed
    <3>3. pc[w] \notin {"check", "loop", "schedule", "bound"}
      BY <3>1 DEF ClosePc
    <3>4. QED
      BY <1>5, <1>12, <3>1, <3>2, <3>3
  <2>3. QED
    BY <2>1, <2>2
<1>13. ASSUME NEW w \in Worker, w \in Thread, Begin(w) PROVE AttInv'
  <2>1. PICK ts \in scheduled : work' = [work EXCEPT ![w] = ts]
    BY <1>13 DEF Begin
  <2>2. ts # Unset
    BY <1>1, TimestampValues DEF Shape
  <2>3. Busy(w)'
    BY <1>1, <2>1, <2>2 DEF Busy, Shape
  <2>4. QED
    BY <1>13, <2>3 DEF AttInv, InFlight
<1>14. ASSUME NEW w \in Worker, w \in Thread, EndScheduling(w) PROVE AttInv'
  <2>1. /\ status' = status
        /\ status = "opened" => schedState' = "Pending" \/ Go(w, "loop")
    BY <1>14 DEF EndScheduling
  <2>2. Go(w, "loop") => pc'[w] = "loop"
    BY <1>1, <1>14 DEF Go, Shape
  <2>3. QED
    BY <1>14, <2>1, <2>2 DEF AttInv, Attention
<1>15. \A w \in Worker : w \in Thread
  BY DEF Thread
<1>16. ASSUME NEW t \in Thread, Propagates(t) PROVE AttInv'
  BY <1>10, <1>11, <1>16, Zenon DEF Propagates, Own
<1>17. QED
  BY <1>3, <1>4, <1>6, <1>7, <1>8, <1>9, <1>11, <1>12, <1>13, <1>14, <1>15, <1>16, Steps, Zenon
  DEF Schedules

-----------------------------------------------------------------------------
\* The bound downstream.

\* The output has an offset, and the input is not at its end.
Follows == offsetEnabled /\ in.bound <= MaxTs

\* The bound downstream follows what was propagated: the bound of the output
\* stream, the invocation whose outputs have left, the bound that was tried, and
\* at the end the bound the node has looked at.
MirrorInv ==
  Follows =>
    /\ mirror.bound >= manager.bound
    /\ \A t \in Thread : pc[t] \in {"recycle", "sent"} => mirror.bound >= carried + 1
    /\ \A t \in Thread : pc[t] = "tried" => mirror.bound >= carried
    /\ propState = "Idle" /\ contexts = {} => mirror.bound >= taskBound

\* While the output follows the input the node is not closed, and what is
\* propagated is below the end.
LEMMA FollowsIs ==
  ASSUME IInv, Follows
  PROVE  /\ ~prepared /\ ~manager.closed /\ \A t \in Thread : pc[t] \notin ClosePc
         /\ taskBound <= MaxTs
         /\ \A t \in Thread : pc[t] \in PacketPc => carried \in MinTs .. MaxTs - 1
         /\ \A t \in Thread : pc[t] \in BoundPc => carried <= MaxTs
<1>1. /\ Shape /\ TurnInv /\ CloseInv /\ InputInv /\ BoundInv /\ FrontInv /\ PropInv
  BY DEF IInv
<1>2. /\ in.bound \in Int /\ taskBound \in Int /\ carried \in Int
      /\ in.bound <= MaxTs
  BY <1>1, QueueFacts, TimestampValues DEF Shape, Follows
<1>3. ~prepared
  BY <1>1, <1>2, TimestampValues DEF CloseInv
<1>4. ~manager.closed /\ \A t \in Thread : pc[t] \notin ClosePc
  BY <1>1, <1>3 DEF CloseInv, Closing
<1>5. taskBound <= MaxTs
  BY <1>1, <1>2, TimestampValues DEF BoundInv
<1>6. ASSUME NEW t \in Thread, pc[t] \in PacketPc PROVE carried \in MinTs .. MaxTs - 1
  <2>1. carried \in completed
    BY <1>1, <1>6 DEF FrontInv, PacketPc
  <2>2. carried \in PreStream .. PostStream /\ NextAllowedInStream(carried) <= MaxTs
    <3>1. NextAllowedInStream(carried) <= in.bound
      BY <1>1, <2>1 DEF InputInv
    <3>2. carried \in PreStream .. PostStream
      BY <1>1, <2>1 DEF Shape
    <3>3. NextAllowedInStream(carried) \in Int
      BY <3>2, TimestampValues DEF NextAllowedInStream
    <3>4. QED
      BY <1>2, <3>1, <3>2, <3>3, TimestampValues
  <2>3. QED
    BY <2>2, TimestampValues DEF NextAllowedInStream
<1>7. ASSUME NEW t \in Thread, pc[t] \in BoundPc PROVE carried <= MaxTs
  <2>1. carried <= taskBound
    BY <1>1, <1>2, <1>7 DEF TurnInv, PropInv
  <2>2. QED
    BY <1>2, <1>5, <2>1, TimestampValues
<1>8. QED
  BY <1>3, <1>4, <1>5, <1>6, <1>7

\* The stream downstream and its bound, unless the node is being closed.
LEMMA DownstreamMoves ==
  ASSUME Shape, [Next]_vars
  PROVE  /\ offsetEnabled' = offsetEnabled
         /\ \/ UNCHANGED downstream
            \/ \E t \in Thread : PropagateOutputPackets(t) \/ RaiseMirrorBound(t)
            \/ \E w \in Worker : w \in Thread /\ Closes(w) /\ pc[w] \in ClosePc
<1>1. CASE UNCHANGED vars
  BY <1>1 DEF vars
<1>2. CASE Receives
  BY <1>2, Arrival
<1>3. ASSUME NEW t \in Thread, Schedules(t)
      PROVE  offsetEnabled' = offsetEnabled /\ UNCHANGED downstream
  BY <1>3 DEF Schedules, CheckIfBecameReady, SchedulingLoop, ScheduleInvocation, EndOfLoop
<1>4. ASSUME NEW t \in Thread, Propagates(t)
      PROVE  /\ offsetEnabled' = offsetEnabled
             /\ UNCHANGED downstream \/ PropagateOutputPackets(t) \/ RaiseMirrorBound(t)
  BY <1>4
  DEF Propagates, UpdateTaskTimestampBound, PropagateOutputPackets, RecycleCalculatorContext,
      PacketsPropagated, TryPropagateTimestampBound, RaiseMirrorBound, BoundPropagated
<1>5. ASSUME NEW w \in Worker, Closes(w)
      PROVE  offsetEnabled' = offsetEnabled /\ pc[w] \in ClosePc /\ w \in Thread
  BY <1>5
  DEF Closes, CloseInputStreams, CloseCalculator, CloseMirror, CloseManager, SetClosed, ClosePc,
      Thread
<1>6. ASSUME NEW w \in Worker, ProcessNode(w) \/ Begin(w) \/ EndScheduling(w)
      PROVE  offsetEnabled' = offsetEnabled /\ UNCHANGED downstream
  BY <1>6 DEF ProcessNode, Begin, EndScheduling
<1>7. QED
  BY <1>1, <1>2, <1>3, <1>4, <1>5, <1>6, Steps, Zenon

\* The bound downstream keeps up with what was propagated.
LEMMA NextMirror ==
  ASSUME IInv, MirrorInv, [Next]_vars
  PROVE  MirrorInv'
<1>1. SUFFICES ASSUME Follows'
               PROVE  /\ mirror'.bound >= manager'.bound
                      /\ \A u \in Thread :
                           /\ pc'[u] \in {"recycle", "sent"} => mirror'.bound >= carried' + 1
                           /\ pc'[u] = "tried" => mirror'.bound >= carried'
                      /\ propState' = "Idle" /\ contexts' = {} => mirror'.bound >= taskBound'
  BY Zenon DEF MirrorInv
<1>2. /\ Shape /\ TurnInv /\ RaiseInv /\ FrontInv /\ PropInv
  BY DEF IInv
<1>3. offsetEnabled' = offsetEnabled
  BY <1>2, DownstreamMoves
<1>4. Follows
  <2>1. in'.bound \in Int /\ in.bound \in Int /\ in'.bound >= in.bound
    BY <1>2, Input, QueueFacts, TimestampValues DEF Ordered, Stream
  <2>2. QED
    BY <1>1, <1>3, <2>1, TimestampValues DEF Follows
<1>5. /\ ~manager.closed /\ \A t \in Thread : pc[t] \notin ClosePc
      /\ \A t \in Thread : pc[t] \in PacketPc => carried \in MinTs .. MaxTs - 1
      /\ \A t \in Thread : pc[t] \in BoundPc => carried <= MaxTs
  BY <1>4, FollowsIs
<1>6. /\ mirror'.bound \in Int /\ mirror.bound \in Int /\ mirror'.bound >= mirror.bound
      /\ mirror.bound >= PreStream
      /\ manager.bound \in Int /\ carried \in Int /\ taskBound \in Int
      /\ MaxTs \in Int /\ Ordered(mirror) /\ offsetEnabled
  BY <1>2, <1>4, Downstream, TimestampValues DEF Shape, Ordered, Stream, Follows
<1>7. /\ mirror.bound >= manager.bound
      /\ \A t \in Thread : pc[t] \in {"recycle", "sent"} => mirror.bound >= carried + 1
      /\ \A t \in Thread : pc[t] = "tried" => mirror.bound >= carried
      /\ propState = "Idle" /\ contexts = {} => mirror.bound >= taskBound
  BY <1>4 DEF MirrorInv
<1>8. ASSUME NEW t \in Thread, PropagateOutputPackets(t)
      PROVE  mirror'.bound >= carried + 1 /\ manager'.bound = carried + 1 /\ carried' = carried
  <2>1. pc[t] \in PacketPc
    BY <1>8 DEF PropagateOutputPackets, PacketPc
  <2>2. /\ mirror' = Update(carried).stream
        /\ manager' = IF OutputTimestampBound(carried) = Unset THEN manager
                      ELSE [manager EXCEPT !.bound = OutputTimestampBound(carried)]
        /\ carried' = carried
    BY <1>5, <1>8 DEF PropagateOutputPackets, propagation
  <2>3. /\ mirror'.bound >= carried + 1 /\ OutputTimestampBound(carried) = carried + 1
    BY <1>2, <1>5, <1>6, <2>1, <2>2, UpdateKeeps DEF Shape
  <2>4. carried + 1 # Unset
    BY <1>5, <2>1, TimestampValues
  <2>5. manager'.bound = carried + 1
    BY <1>2, <2>2, <2>3, <2>4 DEF Shape
  <2>6. QED
    BY <2>2, <2>3, <2>5
<1>9. ASSUME NEW t \in Thread, RaiseMirrorBound(t)
      PROVE  mirror'.bound >= carried /\ manager'.bound = carried /\ carried' = carried
  <2>1. carried \in PreStream .. Done
    BY <1>2, <1>9, TimestampValues DEF RaiseMirrorBound, RaiseInv
  <2>2. /\ mirror' = SetNextTimestampBound(mirror, carried).stream
        /\ manager' = [manager EXCEPT !.bound = carried] /\ carried' = carried
    BY <1>9 DEF RaiseMirrorBound, propagation
  <2>3. mirror'.bound >= carried
    BY <1>2, <2>1, <2>2, BoundKeeps
  <2>4. manager'.bound = carried
    BY <1>2, <2>2 DEF Shape
  <2>5. QED
    BY <2>2, <2>3, <2>4
<1>10. mirror'.bound >= manager'.bound
  <2>1. CASE UNCHANGED downstream
    BY <1>7, <2>1 DEF downstream
  <2>2. CASE ~UNCHANGED downstream
    <3>1. \E t \in Thread : PropagateOutputPackets(t) \/ RaiseMirrorBound(t)
      BY <1>2, <1>5, <2>2, DownstreamMoves
    <3>2. QED
      BY <1>8, <1>9, <3>1
  <2>3. QED
    BY <2>1, <2>2
<1>11. ASSUME NEW u \in Thread, pc'[u] \in {"recycle", "sent", "tried"}
       PROVE  /\ pc'[u] \in {"recycle", "sent"} => mirror'.bound >= carried' + 1
              /\ pc'[u] = "tried" => mirror'.bound >= carried'
  <2>1. pc[u] \in PropPc
    BY <1>2, <1>11, Enters DEF PropPc, PacketPc, BoundPc
  <2>2. CASE pc'[u] = pc[u] /\ carried' = carried
    BY <1>6, <1>7, <2>2
  <2>3. CASE PropagateOutputPackets(u)
    <3>1. pc'[u] = "recycle"
      BY <1>2, <2>3 DEF PropagateOutputPackets, Go, Shape
    <3>2. QED
      BY <1>8, <2>3, <3>1
  <2>4. CASE RecycleCalculatorContext(u)
    <3>1. pc[u] = "recycle" /\ pc'[u] = "sent" /\ carried' = carried
      BY <1>2, <2>4 DEF RecycleCalculatorContext, Go, Shape, propagation
    <3>2. QED
      BY <1>6, <1>7, <3>1
  <2>5. CASE RaiseMirrorBound(u)
    <3>1. pc'[u] = "tried"
      BY <1>2, <2>5 DEF RaiseMirrorBound, Go, Shape
    <3>2. QED
      BY <1>9, <2>5, <3>1
  <2>6. CASE TryPropagateTimestampBound(u)
    <3>1. /\ pc[u] = "tryBound" /\ carried' = carried
          /\ pc'[u] = "tried" \/ pc'[u] = "raise"
          /\ pc'[u] = "tried" =>
               ~IsRangeValue(carried) \/ carried <= manager.bound
      BY <1>2, <1>5, <1>6, <2>6 DEF TryPropagateTimestampBound, Go, Shape, propagation
    <3>2. carried <= MaxTs
      BY <1>5, <3>1 DEF BoundPc
    <3>3. pc'[u] = "tried" => carried < MinTs \/ carried <= manager.bound
      BY <1>6, <3>1, <3>2, TimestampValues DEF IsRangeValue
    <3>4. pc'[u] = "tried" => mirror'.bound >= carried'
      BY <1>6, <1>7, <3>1, <3>3, TimestampValues
    <3>5. QED
      BY <3>1, <3>4
  <2>7. CASE PacketsPropagated(u) \/ BoundPropagated(u)
    <3>1. \E x \in {"send", "tryBound", Home(u)} : Go(u, x)
      BY <2>7 DEF PacketsPropagated, BoundPropagated, Propagate, GoIdle
    <3>2. QED
      BY <1>2, <1>11, <3>1 DEF Go, Shape, Home
  <2>8. QED
    BY <1>2, <2>1, <2>2, <2>3, <2>4, <2>5, <2>6, <2>7, PropagatorAlone, Zenon DEF Own
<1>12. ASSUME propState' = "Idle", contexts' = {} PROVE mirror'.bound >= taskBound'
  <2>1. CASE propState = "Idle"
    <3>1. contexts = {}
      <4>1. ~\E t \in Thread : RecycleCalculatorContext(t)
        BY <1>2, <2>1 DEF RecycleCalculatorContext, TurnInv, PropPc, PacketPc
      <4>2. contexts' = contexts \/ \E t \in Thread : Takes(t)
        BY <1>2, <4>1, Invocations
      <4>3. QED
        BY <1>12, <4>2 DEF Takes
    <3>2. taskBound' = taskBound
      <4>1. ASSUME NEW t \in Thread, UpdateTaskTimestampBound(t) PROVE taskBound' = taskBound
        <5>1. /\ taskBound' = inputBound
              /\ taskBound = inputBound \/ PropagationLoop(t, completed, inputBound)
          BY <2>1, <4>1 DEF UpdateTaskTimestampBound, StartPropagation
        <5>2. ~PropagationLoop(t, completed, inputBound)
          BY <1>12, <3>1, Propagations
        <5>3. QED
          BY <5>1, <5>2
      <4>2. QED
        BY <1>2, <4>1, Bounds
    <3>3. QED
      BY <1>6, <1>7, <2>1, <3>1, <3>2
  <2>2. CASE propState # "Idle"
    <3>1. PICK u \in Thread : pc[u] \in PropPc
      BY <1>2, <2>2 DEF TurnInv
    <3>2. Own(u)
      BY <1>2, <1>12, <2>2, <3>1, PropagatorAlone
    <3>3. CASE PropagateOutputPackets(u) \/ RecycleCalculatorContext(u)
               \/ TryPropagateTimestampBound(u) \/ RaiseMirrorBound(u)
      BY <1>12, <2>2, <3>3
      DEF PropagateOutputPackets, RecycleCalculatorContext, TryPropagateTimestampBound,
          RaiseMirrorBound, propagation
    <3>4. CASE PacketsPropagated(u)
      <4>1. /\ pc[u] = "sent" /\ contexts = {} /\ taskBound' = taskBound
        BY <1>12, <3>4 DEF PacketsPropagated, invocations
      <4>2. completed \ {Least(completed)} = {}
        <5>1. \A t \in Thread : pc[t] = "sent" => t = u
          BY <1>2, <4>1 DEF TurnInv, PropPc, PacketPc
        <5>2. completed \subseteq {carried}
          BY <1>2, <4>1, <5>1 DEF FrontInv
        <5>3. Least(completed) = carried
          BY <1>2, <4>1, Removed
        <5>4. QED
          BY <5>2, <5>3
      <4>3. taskBound <= NextAllowedInStream(carried)
        BY <1>12, <3>4, <4>1, <4>2 DEF PacketsPropagated, Propagate
      <4>4. carried \in MinTs .. MaxTs - 1
        BY <1>5, <4>1 DEF PacketPc
      <4>5. NextAllowedInStream(carried) = carried + 1
        BY <4>4, TimestampValues DEF NextAllowedInStream
      <4>6. QED
        BY <1>6, <1>7, <4>1, <4>3, <4>4, <4>5
    <3>5. CASE BoundPropagated(u)
      <4>1. /\ pc[u] = "tried" /\ contexts = {} /\ taskBound' = taskBound
        BY <1>12, <3>5 DEF BoundPropagated, invocations
      <4>2. propState = "Bound"
        BY <1>12, <3>5, <4>1 DEF BoundPropagated, Propagate
      <4>3. QED
        BY <1>2, <1>6, <1>7, <4>1, <4>2 DEF PropInv
    <3>6. QED
      BY <3>2, <3>3, <3>4, <3>5 DEF Own
  <2>3. QED
    BY <2>1, <2>2
<1>13. QED
  BY <1>10, <1>11, <1>12

\* In the beginning NodeOpened is about to look.
LEMMA InitMirror == Init => AllowInv /\ AttInv /\ MirrorInv
<1> SUFFICES ASSUME Init PROVE AllowInv /\ AttInv /\ MirrorInv
  OBVIOUS
<1>1. /\ pc = [t \in Thread |-> IF t = Upstream THEN "check" ELSE "idle"]
      /\ mirror = FreshStream /\ taskBound = Unset
      /\ manager = [bound |-> PreStream, closed |-> FALSE]
  BY DEF Init
<1>2. \A t \in Thread : pc[t] \in {"check", "idle"}
  BY <1>1
<1>3. Upstream \in Thread /\ pc[Upstream] = "check"
  BY <1>1 DEF Thread
<1>4. AllowInv /\ AttInv
  BY <1>2, <1>3 DEF AllowInv, AttInv, Attention
<1>5. mirror.bound >= manager.bound /\ mirror.bound >= taskBound
  BY <1>1, TimestampValues DEF FreshStream
<1>6. QED
  BY <1>2, <1>4, <1>5 DEF MirrorInv

\* The two invariants always hold.
LEMMA AttAlways == Spec => [](IInv /\ AllowInv /\ AttInv /\ MirrorInv)
<1>1. Init => IInv /\ AllowInv /\ AttInv /\ MirrorInv
  BY InitIInv, InitMirror
<1>2. IInv /\ AllowInv /\ AttInv /\ MirrorInv /\ [Next]_vars
        => (IInv /\ AllowInv /\ AttInv /\ MirrorInv)'
  BY NextIInv, NextAllow, NextAtt, NextMirror
<1>3. QED
  BY <1>1, <1>2, PTL DEF Spec

\* When no thread is in the node nothing is in flight, and so nothing waits.
LEMMA IsNothingForgotten == IInv /\ AttInv /\ MirrorInv => NothingForgotten
<1> SUFFICES ASSUME IInv, AttInv, MirrorInv, \A t \in Thread : pc[t] = "idle", scheduled = {}
             PROVE  /\ in.queue = <<>> /\ contexts = {} /\ completed = {}
                    /\ offsetEnabled /\ IsRangeValue(in.bound) => mirror.bound >= in.bound
                    /\ in.bound >= OneOverPostStream => status = "closed" /\ mirror.bound = Done
  BY DEF NothingForgotten
<1>1. /\ Shape /\ WorkInv /\ TurnInv /\ SchedInv /\ CloseInv /\ WhereInv /\ FrontInv /\ PropInv
  BY DEF IInv
<1>2. ~InFlight /\ ~HandsOn
  BY <1>1 DEF InFlight, HandsOn, WorkInv
<1>3. schedState = "Idle" /\ propState = "Idle"
  BY <1>1 DEF SchedInv, Sched, SchedPc, TurnInv, PropPc, PacketPc, BoundPc
<1>4. contexts = {}
  <2>1. \A w \in Worker : pc[w] # "process"
    BY DEF Thread
  <2>2. contexts \subseteq completed
    BY <1>1, <2>1 DEF WhereInv
  <2>3. contexts # {} => Least(contexts) \in contexts
    BY <1>1, LeastIs DEF Shape
  <2>4. QED
    BY <1>1, <1>3, <2>2, <2>3 DEF PropInv
<1>5. completed = {}
  BY <1>1, <1>4 DEF FrontInv
<1>6. ~Closing
  BY DEF Closing, ClosePc
<1>7. CASE status = "opened"
  <2>1. ~prepared /\ ~Waiting
    BY <1>1, <1>2, <1>3, <1>6, <1>7 DEF CloseInv, AttInv, Attention
  <2>2. in.queue = <<>> /\ in.bound < OneOverPostStream /\ taskBound = in.bound
    BY <1>1, <2>1, QueueFacts, TimestampValues DEF Waiting
  <2>3. ASSUME offsetEnabled, IsRangeValue(in.bound) PROVE mirror.bound >= in.bound
    BY <1>3, <1>4, <2>2, <2>3 DEF MirrorInv, Follows, IsRangeValue
  <2>4. ~(in.bound >= OneOverPostStream)
    BY <1>1, <2>2, QueueFacts, TimestampValues
  <2>5. QED
    BY <1>4, <1>5, <2>2, <2>3, <2>4
<1>8. CASE status = "closed"
  <2>1. in.queue = <<>> /\ in.bound >= OneOverPostStream /\ mirror.bound = Done
    BY <1>1, <1>8 DEF CloseInv
  <2>2. ~IsRangeValue(in.bound)
    BY <1>1, <2>1, QueueFacts, TimestampValues DEF IsRangeValue
  <2>3. QED
    BY <1>4, <1>5, <1>8, <2>1, <2>2
<1>9. QED
  BY <1>1, <1>7, <1>8 DEF Shape

\* When no thread is in the node nothing waits: every input was answered, the
\* bound of the input is the one downstream when the output follows it, and at
\* the end of the input the node is closed.
THEOREM NodeForgetsNothing == Spec => []NothingForgotten
BY AttAlways, IsNothingForgotten, PTL

-----------------------------------------------------------------------------
\* Lists of packets in the order of time.

\* q lists S in the order of time.
Lists(q, S) == q \in [1 .. Cardinality(S) -> S] /\ Increasing(q) /\ Values(q) = S

\* Sets of timestamps are finite.
LEMMA TimesFinite ==
  ASSUME NEW S, S \subseteq PreStream .. PostStream
  PROVE  IsFiniteSet(S) /\ Cardinality(S) \in Nat /\ S \subseteq Int
<1>1. PreStream \in Int /\ PostStream \in Int
  BY TimestampValues
<1>2. IsFiniteSet(PreStream .. PostStream)
  BY <1>1, FS_Interval
<1>3. IsFiniteSet(S)
  BY <1>2, FS_Subset
<1>4. Cardinality(S) \in Nat
  BY <1>3, FS_CardinalityType
<1>5. QED
  BY <1>1, <1>3, <1>4

\* A list is a sequence.
LEMMA ListShape ==
  ASSUME NEW S, S \subseteq PreStream .. PostStream, NEW q, Lists(q, S)
  PROVE  /\ q \in Seq(S) /\ Len(q) = Cardinality(S) /\ Cardinality(S) \in Nat
         /\ \A i \in 1 .. Len(q) : q[i] \in S /\ q[i] \in Int
<1>1. Cardinality(S) \in Nat /\ S \subseteq Int
  BY TimesFinite
<1>2. q \in [1 .. Cardinality(S) -> S]
  BY DEF Lists
<1>3. q \in Seq(S)
  BY <1>1, <1>2, SeqDef
<1>4. Len(q) = Cardinality(S)
  <2>1. DOMAIN q = 1 .. Len(q) /\ Len(q) \in Nat
    BY <1>3, LenProperties
  <2>2. DOMAIN q = 1 .. Cardinality(S)
    BY <1>2
  <2>3. \A m, n \in Nat : 1 .. m = 1 .. n => m = n
    <3>1. \A m, n \in Nat : (m \in 1 .. m => m \in 1 .. n) /\ (n \in 1 .. n => n \in 1 .. m) => m = n
      OBVIOUS
    <3>2. QED
      BY <3>1, Zenon
  <2>4. QED
    BY <1>1, <2>1, <2>2, <2>3
<1>5. QED
  BY <1>1, <1>2, <1>3, <1>4

\* There is one list of a set.
LEMMA ListUnique ==
  ASSUME NEW S, S \subseteq PreStream .. PostStream,
         NEW p, Lists(p, S), NEW q, Lists(q, S)
  PROVE  p = q
<1> DEFINE n == Cardinality(S)
           D == {i \in 1 .. n : p[i] # q[i]}
           R == OpToRel(<, Nat)
<1>1. /\ n \in Nat /\ p \in [1 .. n -> S] /\ q \in [1 .. n -> S]
      /\ Len(p) = n /\ Len(q) = n
      /\ \A i \in 1 .. n : p[i] \in Int /\ q[i] \in Int
  BY ListShape DEF Lists
<1>2. SUFFICES ASSUME D # {} PROVE FALSE
  <2>1. D = {} => \A i \in 1 .. n : p[i] = q[i]
    OBVIOUS
  <2>2. QED
    BY <1>1, <1>2, <2>1
<1>3. IsWellFoundedOn(R, Nat) /\ \A x, y \in Nat : y < x => <<y, x>> \in R
  BY NatLessThanWellFounded DEF OpToRel
<1>4. D \subseteq Nat
  BY <1>1
<1> HIDE DEF R, n, D
<1>5. PICK x \in D : \A y \in D : ~ (<<y, x>> \in R)
  BY <1>2, <1>3, <1>4, WFMin
<1>6. x \in 1 .. n /\ p[x] # q[x] /\ \A y \in 1 .. n : y < x => p[y] = q[y]
  BY <1>1, <1>3, <1>4, <1>5 DEF D
<1>7. ASSUME NEW a, Lists(a, S), NEW b, Lists(b, S), a[x] < b[x],
             \A y \in 1 .. n : y < x => a[y] = b[y],
             Len(a) = n, Len(b) = n, \A i \in 1 .. n : a[i] \in Int /\ b[i] \in Int
      PROVE  FALSE
  <2>1. a[x] \in Values(b)
    BY <1>6, <1>7 DEF Lists, Values
  <2>2. PICK j \in 1 .. n : a[x] = b[j]
    BY <1>7, <2>1 DEF Values
  <2>3. ~(x < j) /\ x # j
    BY <1>1, <1>6, <1>7, <2>2 DEF Lists, Increasing
  <2>4. j < x
    BY <1>1, <1>6, <2>3
  <2>5. a[j] = b[j] /\ a[j] < a[x]
    BY <1>6, <1>7, <2>4 DEF Lists, Increasing
  <2>6. QED
    BY <1>6, <1>7, <2>2, <2>5
<1>8. p[x] < q[x] \/ q[x] < p[x]
  BY <1>1, <1>6
<1>9. QED
  BY <1>1, <1>6, <1>7, <1>8

\* Taking the first element off a list ...
LEMMA ListTail ==
  ASSUME NEW S, S \subseteq PreStream .. PostStream, S # {}, NEW q, Lists(q, S)
  PROVE  /\ q # <<>> /\ Head(q) = Least(S) /\ Least(S) \in S
         /\ Lists(Tail(q), S \ {Least(S)})
<1>1. /\ q \in Seq(S) /\ Len(q) = Cardinality(S) /\ Cardinality(S) \in Nat
      /\ \A i \in 1 .. Len(q) : q[i] \in S /\ q[i] \in Int
      /\ Increasing(q) /\ Values(q) = S
  BY ListShape DEF Lists
<1>2. q # <<>> /\ Len(q) >= 1 /\ 1 \in 1 .. Len(q)
  <2>1. Values(<<>>) = {}
    BY DEF Values
  <2>2. q # <<>>
    BY <1>1, <2>1
  <2>3. QED
    BY <1>1, <2>2, EmptySeq
<1>3. /\ Head(q) = q[1] /\ Tail(q) \in Seq(S)
      /\ Len(Tail(q)) = Len(q) - 1
      /\ \A i \in 1 .. Len(Tail(q)) : Tail(q)[i] = q[i + 1]
  BY <1>1, <1>2, HeadTailProperties
<1>4. \A i \in 2 .. Len(q) : q[1] < q[i]
  BY <1>1, <1>2 DEF Increasing
<1>5. \A d \in S : q[1] <= d
  <2>1. \A d \in S : \E i \in 1 .. Len(q) : d = q[i]
    BY <1>1 DEF Values
  <2>2. \A i \in 1 .. Len(q) : q[1] <= q[i]
    BY <1>1, <1>2, <1>4
  <2>3. QED
    BY <2>1, <2>2
<1>6. Least(S) = q[1]
  BY <1>1, <1>2, <1>5, LeastOne
<1> DEFINE r == Tail(q)
           T == S \ {q[1]}
<1>7. Cardinality(T) = Len(r) /\ Len(r) \in Nat
  <2>1. IsFiniteSet(S) /\ q[1] \in S
    BY <1>1, <1>2, TimesFinite
  <2>2. Cardinality(T) = Cardinality(S) - 1
    BY <2>1, FS_RemoveElement
  <2>3. QED
    BY <1>1, <1>2, <1>3, <2>2
<1>8. \A i \in 1 .. Len(r) : i + 1 \in 2 .. Len(q) /\ r[i] = q[i + 1]
  BY <1>1, <1>3
<1>9. \A i \in 1 .. Len(r) : r[i] \in T
  BY <1>1, <1>2, <1>4, <1>8
<1>10. r \in [1 .. Cardinality(T) -> T]
  <2>1. DOMAIN r = 1 .. Len(r) /\ r \in [1 .. Len(r) -> S]
    BY <1>3, LenProperties
  <2>2. QED
    BY <1>7, <1>9, <2>1
<1>11. Increasing(r)
  <2>1. SUFFICES ASSUME NEW i \in 1 .. Len(r), NEW j \in 1 .. Len(r), i < j
                 PROVE  r[i] < r[j]
    BY DEF Increasing
  <2>2. i + 1 \in 1 .. Len(q) /\ j + 1 \in 1 .. Len(q) /\ i + 1 < j + 1
    BY <1>1, <1>7, <1>8, <2>1
  <2>3. QED
    BY <1>1, <1>8, <2>1, <2>2 DEF Increasing
<1>12. Values(r) = T
  <2>1. \A d \in T : \E i \in 1 .. Len(q) : d = q[i] /\ i # 1
    BY <1>1 DEF Values
  <2>2. \A i \in 1 .. Len(q) : i # 1 => i - 1 \in 1 .. Len(r) /\ r[i - 1] = q[i]
    <3>1. \A i \in 1 .. Len(q) : i # 1 => i - 1 \in 1 .. Len(r) /\ (i - 1) + 1 = i
      BY <1>1, <1>3
    <3>2. QED
      BY <1>8, <3>1
  <2>3. \A d \in T : \E i \in 1 .. Len(r) : d = r[i]
    BY <2>1, <2>2
  <2>4. Values(r) \subseteq T /\ T \subseteq Values(r)
    BY <1>9, <2>3 DEF Values
  <2>5. QED
    BY <2>4
<1>13. Lists(r, T)
  BY <1>10, <1>11, <1>12 DEF Lists
<1>14. QED
  BY <1>1, <1>2, <1>3, <1>6, <1>13

\* ... and putting an element at its end.
LEMMA ListAppend ==
  ASSUME NEW S, S \subseteq PreStream .. PostStream, NEW q, Lists(q, S),
         NEW x \in PreStream .. PostStream, \A d \in S : d < x
  PROVE  Lists(Append(q, x), S \cup {x})
<1>1. /\ q \in Seq(S) /\ Len(q) = Cardinality(S) /\ Cardinality(S) \in Nat
      /\ Increasing(q) /\ Values(q) = S
  BY ListShape DEF Lists
<1>2. q \in Seq(PreStream .. PostStream)
  BY <1>1, SeqMonotonic
<1>3. x \notin S
  BY TimestampValues
<1>4. Cardinality(S \cup {x}) = Len(q) + 1
  BY <1>1, <1>3, TimesFinite, FS_AddElement
<1>5. Increasing(Append(q, x)) /\ Values(Append(q, x)) = S \cup {x}
  BY <1>1, <1>2, AppendIncreases, AppendValues
<1>6. Append(q, x) \in [1 .. Cardinality(S \cup {x}) -> S \cup {x}]
  <2>1. q \in Seq(S \cup {x})
    BY <1>1, SeqMonotonic
  <2>2. Append(q, x) \in Seq(S \cup {x}) /\ Len(Append(q, x)) = Len(q) + 1
    BY <2>1, AppendProperties
  <2>3. QED
    BY <1>4, <2>2, LenProperties
<1>7. QED
  BY <1>5, <1>6 DEF Lists

\* Putting an element in front of a list.
LEMMA ListPrepend ==
  ASSUME NEW S, S \subseteq PreStream .. PostStream, NEW q, Lists(q, S),
         NEW x \in PreStream .. PostStream, \A d \in S : x < d
  PROVE  Lists(<<x>> \o q, S \cup {x})
<1> DEFINE T == S \cup {x}
           r == <<x>> \o q
<1>1. /\ q \in Seq(S) /\ Len(q) = Cardinality(S) /\ Cardinality(S) \in Nat
      /\ Increasing(q) /\ Values(q) = S
      /\ \A i \in 1 .. Len(q) : q[i] \in S /\ q[i] \in Int
  BY ListShape DEF Lists
<1>2. x \in Int /\ x \notin S
  BY TimestampValues
<1>3. q \in Seq(T) /\ <<x>> \in Seq(T) /\ Len(<<x>>) = 1 /\ <<x>>[1] = x
  <2>1. q \in Seq(T)
    BY <1>1, SeqMonotonic
  <2>2. QED
    BY <2>1
<1>4. r \in Seq(T) /\ Len(r) = Len(q) + 1
      /\ \A i \in 1 .. Len(q) + 1 : r[i] = IF i <= 1 THEN x ELSE q[i - 1]
  <2>1. /\ r \in Seq(T) /\ Len(r) = Len(<<x>>) + Len(q)
        /\ \A i \in 1 .. Len(<<x>>) + Len(q) :
             r[i] = IF i <= Len(<<x>>) THEN <<x>>[i] ELSE q[i - Len(<<x>>)]
    BY <1>3, ConcatProperties
  <2> HIDE DEF r
  <2>2. Len(<<x>>) + Len(q) = Len(q) + 1
    BY <1>1, <1>3
  <2>3. \A i \in 1 .. Len(q) + 1 : i <= 1 => i = 1
    BY <1>1
  <2>4. QED
    BY <1>1, <1>3, <2>1, <2>2, <2>3
<1> HIDE DEF r
<1>5. Cardinality(T) = Len(q) + 1
  <2>1. IsFiniteSet(S)
    BY TimesFinite
  <2>2. x \notin S /\ Cardinality(S) = Len(q)
    BY <1>1, <1>2
  <2>3. Cardinality(S \cup {x}) = Cardinality(S) + 1
    BY <2>1, <2>2, FS_AddElement
  <2>4. QED
    BY <2>2, <2>3
<1>6. r \in [1 .. Cardinality(T) -> T]
  BY <1>4, <1>5, LenProperties
<1>7. Increasing(r)
  <2>1. SUFFICES ASSUME NEW i \in 1 .. Len(r), NEW j \in 1 .. Len(r), i < j
                 PROVE  r[i] < r[j]
    BY DEF Increasing
  <2>2. j - 1 \in 1 .. Len(q) /\ r[j] = q[j - 1]
    BY <1>1, <1>4, <2>1
  <2>3. CASE i = 1
    BY <1>1, <1>4, <2>2, <2>3
  <2>4. CASE i # 1
    <3>1. i - 1 \in 1 .. Len(q) /\ r[i] = q[i - 1] /\ i - 1 < j - 1
      BY <1>1, <1>4, <2>1, <2>4
    <3>2. QED
      BY <1>1, <2>2, <3>1 DEF Increasing
  <2>5. QED
    BY <2>3, <2>4
<1>8. Values(r) = T
  <2>1. \A i \in 1 .. Len(r) : r[i] \in T
    BY <1>4, ElementOfSeq
  <2>2. \A d \in T : \E i \in 1 .. Len(r) : d = r[i]
    <3>1. ASSUME NEW d \in T, d # x PROVE \E i \in 1 .. Len(r) : d = r[i]
      <4>1. PICK i \in 1 .. Len(q) : d = q[i]
        BY <1>1, <3>1 DEF Values
      <4>2. i + 1 \in 1 .. Len(r) /\ ~(i + 1 <= 1) /\ (i + 1) - 1 = i
        BY <1>1, <1>4
      <4>3. d = r[i + 1]
        BY <1>4, <4>1, <4>2
      <4>4. QED
        BY <4>2, <4>3
    <3>2. 1 \in 1 .. Len(r) /\ r[1] = x
      BY <1>1, <1>4
    <3>3. QED
      BY <3>1, <3>2
  <2>3. Values(r) \subseteq T /\ T \subseteq Values(r)
    BY <2>1, <2>2 DEF Values
  <2>4. QED
    BY <2>3
<1>9. QED
  BY <1>6, <1>7, <1>8 DEF Lists, r

\* Nothing to list.
LEMMA ListEmpty == Lists(<<>>, {})
<1>1. Cardinality({}) = 0 /\ Len(<<>>) = 0
  BY FS_EmptySet
<1>2. <<>> \in [1 .. 0 -> {}]
  BY EmptySeq, LenProperties
<1>3. Increasing(<<>>) /\ Values(<<>>) = {}
  BY DEF Increasing, Values
<1>4. QED
  BY <1>1, <1>2, <1>3 DEF Lists

\* Every set of timestamps has a list: a set without one, as small as possible,
\* would have an earliest element, and the others a list.
LEMMA ListExists ==
  ASSUME NEW S, S \subseteq PreStream .. PostStream
  PROVE  \E q : Lists(q, S)
<1> DEFINE Bad == {U \in SUBSET (PreStream .. PostStream) : ~ \E q : Lists(q, U)}
           Sizes == {Cardinality(U) : U \in Bad}
           R == OpToRel(<, Nat)
<1>1. SUFFICES ASSUME Bad # {} PROVE FALSE
  OBVIOUS
<1>2. IsWellFoundedOn(R, Nat) /\ \A x, y \in Nat : y < x => <<y, x>> \in R
  BY NatLessThanWellFounded DEF OpToRel
<1>3. \A U \in Bad : U \subseteq PreStream .. PostStream /\ Cardinality(U) \in Nat
  BY TimesFinite
<1>4. Sizes \subseteq Nat /\ Sizes # {}
  BY <1>1, <1>3
<1> HIDE DEF R, Sizes
<1>5. PICK n \in Sizes : \A m \in Sizes : ~ (<<m, n>> \in R)
  BY <1>2, <1>4, WFMin
<1>6. PICK U \in Bad : n = Cardinality(U)
  BY <1>5 DEF Sizes
<1>7. U \subseteq PreStream .. PostStream /\ ~ \E q : Lists(q, U)
  BY <1>6
<1>8. U # {}
  BY <1>7, ListEmpty
<1>9. Least(U) \in U /\ \A d \in U : Least(U) <= d
  BY <1>7, <1>8, LeastIs
<1> DEFINE x == Least(U)
           V == U \ {x}
<1> HIDE DEF x
<1>10. x \in U /\ \A d \in U : x <= d
  BY <1>9 DEF x
<1>11. Cardinality(V) = n - 1 /\ n \in Nat
  BY <1>3, <1>6, <1>7, <1>10, TimesFinite, FS_RemoveElement
<1>12. V \notin Bad
  <2>1. V \in Bad => Cardinality(V) \in Sizes
    BY DEF Sizes
  <2>2. V \in Bad => Cardinality(V) \in Nat
    BY <1>3
  <2> HIDE DEF V, Bad
  <2>3. n - 1 \in Nat => n - 1 < n
    BY <1>11
  <2>4. QED
    BY <1>2, <1>5, <1>11, <2>1, <2>2, <2>3
<1>13. PICK q : Lists(q, V)
  BY <1>7, <1>12
<1>14. x \in PreStream .. PostStream /\ \A d \in V : x < d
  <2>1. U \subseteq Int
    BY <1>7, TimesFinite
  <2>2. QED
    BY <1>7, <1>10, <2>1
<1>15. Lists(<<x>> \o q, V \cup {x}) /\ V \cup {x} = U
  <2>1. V \subseteq PreStream .. PostStream
    BY <1>7
  <2>2. V \cup {x} = U
    BY <1>10
  <2> HIDE DEF V
  <2>3. Lists(<<x>> \o q, V \cup {x})
    BY <1>13, <1>14, <2>1, ListPrepend
  <2>4. QED
    BY <2>2, <2>3
<1>16. QED
  BY <1>7, <1>15

\* InOrder is the list.
LEMMA InOrderLists ==
  ASSUME NEW S, S \subseteq PreStream .. PostStream
  PROVE  /\ Lists(InOrder(S), S)
         /\ \A q : Lists(q, S) => InOrder(S) = q
<1>1. PICK q : Lists(q, S)
  BY ListExists
<1>2. Lists(InOrder(S), S)
  BY <1>1, Zenon DEF InOrder, Lists
<1>3. QED
  BY <1>2, ListUnique

\* How the list changes with the set.
LEMMA InOrderChanges ==
  ASSUME NEW S, S \subseteq PreStream .. PostStream
  PROVE  /\ InOrder(S) \in Seq(PreStream .. PostStream) /\ Values(InOrder(S)) = S
         /\ S = {} => InOrder(S) = <<>>
         /\ S # {} => /\ InOrder(S) # <<>> /\ Head(InOrder(S)) = Least(S)
                      /\ Tail(InOrder(S)) = InOrder(S \ {Least(S)})
         /\ \A x \in PreStream .. PostStream :
              (\A d \in S : d < x) => InOrder(S \cup {x}) = Append(InOrder(S), x)
<1> DEFINE q == InOrder(S)
<1>1. Lists(q, S)
  BY InOrderLists
<1> HIDE DEF q
<1>2. q \in Seq(PreStream .. PostStream) /\ Values(q) = S
  <2>1. q \in Seq(S)
    BY <1>1, ListShape
  <2>2. q \in Seq(PreStream .. PostStream)
    BY <2>1, SeqMonotonic
  <2>3. QED
    BY <1>1, <2>2 DEF Lists
<1>3. ASSUME S = {} PROVE q = <<>>
  BY <1>1, <1>3, ListEmpty, ListUnique
<1>4. ASSUME S # {}
      PROVE q # <<>> /\ Head(q) = Least(S) /\ Tail(q) = InOrder(S \ {Least(S)})
  <2>1. q # <<>> /\ Head(q) = Least(S) /\ Lists(Tail(q), S \ {Least(S)})
    BY <1>1, <1>4, ListTail
  <2> DEFINE U == S \ {Least(S)}
  <2>2. U \subseteq PreStream .. PostStream /\ Lists(Tail(q), U)
    BY <2>1
  <2> HIDE DEF U
  <2>3. Tail(q) = InOrder(U)
    BY <2>2, InOrderLists
  <2>4. QED
    BY <2>1, <2>3 DEF U
<1>5. ASSUME NEW x \in PreStream .. PostStream, \A d \in S : d < x
      PROVE  InOrder(S \cup {x}) = Append(q, x)
  <2> DEFINE U == S \cup {x}
  <2>1. U \subseteq PreStream .. PostStream /\ Lists(Append(q, x), U)
    BY <1>1, <1>5, ListAppend
  <2> HIDE DEF U
  <2>2. InOrder(U) = Append(q, x)
    BY <2>1, InOrderLists
  <2>3. QED
    BY <2>2 DEF U
<1>6. QED
  BY <1>2, <1>3, <1>4, <1>5 DEF q

-----------------------------------------------------------------------------
\* The bounds between the packets.

\* The packets the node has yet to answer, or is answering.
Kept == contexts \cup Values(in.queue)

\* Packets are as far apart as their bounds, and the bounds that the node works
\* with do not pass a packet.
ChainInv ==
  /\ \A c, d \in Kept : c < d => NextAllowedInStream(c) <= d
  /\ \A d \in Values(in.queue) : taskBound <= d
  /\ \A t \in Thread : pc[t] = "bound" => \A d \in Values(in.queue) : inputBound <= d
  /\ \A t \in Thread : pc[t] \in BoundPc => \A d \in Kept : carried <= d

\* Packets move from the stream to the contexts and leave; new ones come after
\* the bound.
LEMMA KeptMoves ==
  ASSUME Shape, [Next]_vars
  PROVE  /\ Values(in.queue) \subseteq PreStream .. PostStream
         /\ \/ Kept' \subseteq Kept /\ Values(in'.queue) \subseteq Values(in.queue)
            \/ /\ Receives
               /\ \E p \in PreStream .. PostStream :
                    /\ p >= in.bound
                    /\ Kept' = Kept \cup {p} /\ Values(in'.queue) = Values(in.queue) \cup {p}
<1>1. in.queue \in Seq(PreStream .. PostStream)
  BY QueueFacts
<1>2. Values(in.queue) \subseteq PreStream .. PostStream
  BY <1>1, ElementOfSeq DEF Values
<1>3. in.queue # <<>> => Values(in.queue) = Values(Tail(in.queue)) \cup {Head(in.queue)}
  BY <1>1, TailValues
<1>4. \/ contexts' \subseteq contexts
      \/ in.queue # <<>> /\ contexts' = contexts \cup {Head(in.queue)}
  BY Invocations DEF Takes
<1>5. CASE Receives
  <2>1. contexts' = contexts
    BY <1>5, Arrival DEF invocations
  <2>2. CASE in'.queue = in.queue
    BY <1>2, <2>1, <2>2 DEF Kept
  <2>3. ASSUME NEW p \in PreStream .. PostStream, p >= in.bound, in'.queue = Append(in.queue, p)
        PROVE  Kept' = Kept \cup {p} /\ Values(in'.queue) = Values(in.queue) \cup {p}
    <3>1. Values(in'.queue) = Values(in.queue) \cup {p}
      BY <1>1, <2>3, AppendValues
    <3>2. QED
      BY <2>1, <3>1 DEF Kept
  <2>4. QED
    BY <1>2, <1>5, <2>2, <2>3, Arrival
<1>6. CASE ~Receives
  <2>1. in'.queue = in.queue \/ (in.queue # <<>> /\ in'.queue = Tail(in.queue))
    BY <1>6, Input
  <2>2. Values(in'.queue) \subseteq Values(in.queue)
    BY <1>3, <2>1
  <2>3. Kept' \subseteq Kept
    BY <1>3, <1>4, <2>2 DEF Kept
  <2>4. QED
    BY <1>2, <2>2, <2>3
<1>7. QED
  BY <1>5, <1>6

\* What the thread in the loop has found when it is about to pass on a bound.
LEMMA BoundSeen ==
  ASSUME Shape, SchedInv, [Next]_vars, NEW t \in Thread, pc'[t] = "bound"
  PROVE  \/ pc[t] = "bound" /\ inputBound' = inputBound
         \/ in.queue = <<>> /\ in' = in
<1>1. CASE pc[t] = "bound"
  <2>1. ASSUME NEW u \in Thread, Schedules(u) PROVE inputBound' = inputBound
    <3>1. pc[u] \notin SchedPc \ {"bound"}
      BY <1>1 DEF SchedInv, Sched, SchedPc
    <3>2. CheckIfBecameReady(u)
      BY <2>1, <3>1 DEF Schedules, SchedulingLoop, ScheduleInvocation, EndOfLoop, SchedPc
    <3>3. QED
      BY <3>2 DEF CheckIfBecameReady
  <2>2. ASSUME Receives \/ UNCHANGED vars PROVE inputBound' = inputBound
    BY <2>2, Arrival DEF vars, scheduling
  <2>3. ASSUME NEW u \in Thread, Propagates(u) \/ (u \in Worker /\ ProcessNode(u))
        PROVE  inputBound' = inputBound
    BY <2>3, PropagatesAt DEF scheduling
  <2>4. ASSUME NEW w \in Worker, Closes(w) \/ Begin(w) \/ EndScheduling(w)
        PROVE  inputBound' = inputBound
    BY <2>4
    DEF Closes, CloseInputStreams, CloseCalculator, CloseMirror, CloseManager, SetClosed, Begin,
        EndScheduling, scheduling
  <2>5. inputBound' = inputBound
    BY <2>1, <2>2, <2>3, <2>4, Steps, Zenon
  <2>6. QED
    BY <1>1, <2>5
<1>2. CASE pc[t] # "bound"
  <2>1. pc'[t] # pc[t]
    BY <1>2
  <2>2. ASSUME Receives PROVE pc'[t] # "bound"
    <3>1. \E x \in {"check", "idle"} : Go(Upstream, x)
      BY <2>2, Arrival
    <3>2. QED
      BY <1>2, <3>1 DEF Go, Shape
  <2>3. ASSUME Schedules(t) PROVE in.queue = <<>> /\ in' = in
    <3>1. CASE CheckIfBecameReady(t) \/ SchedulingLoop(t) \/ EndOfLoop(t)
      <4>1. \E x \in {"loop", "idle", "schedule"} : Go(t, x)
        BY <3>1 DEF CheckIfBecameReady, SchedulingLoop, EndOfLoop
      <4>2. QED
        BY <4>1 DEF Go, Shape
    <3>2. CASE ScheduleInvocation(t)
      <4>1. UNCHANGED pc \/ AfterScheduling(t, Unset) \/ (in.queue = <<>> /\ in' = in)
        BY <3>2 DEF ScheduleInvocation
      <4>2. AfterScheduling(t, Unset) => pc'[t] = "loopEnd"
        BY DEF AfterScheduling, Go, Shape
      <4>3. QED
        BY <2>1, <4>1, <4>2
    <3>3. QED
      BY <2>3, <3>1, <3>2 DEF Schedules
  <2>4. ASSUME Propagates(t) \/ (t \in Worker /\ ProcessNode(t)) PROVE FALSE
    <3>1. \E x \in PropPc \cup {"end", "loopEnd"} : Go(t, x)
      BY <2>4, PropagatesAt
    <3>2. QED
      BY <3>1 DEF Go, Shape, PropPc, PacketPc, BoundPc
  <2>5. ASSUME t \in Worker, Closes(t) \/ Begin(t) \/ EndScheduling(t) PROVE FALSE
    <3>1. \E x \in WorkPc \cup {"loop", "idle"} : Go(t, x)
      BY <2>5
      DEF Closes, CloseInputStreams, CloseCalculator, CloseMirror, CloseManager, SetClosed, Begin,
          EndScheduling, WorkPc, ClosePc
    <3>2. QED
      BY <3>1 DEF Go, Shape, WorkPc, ClosePc
  <2>6. QED
    BY <2>1, <2>2, <2>3, <2>4, <2>5, Mover
<1>3. QED
  BY <1>1, <1>2

\* Where the packets are between the bounds.
LEMMA KeptFacts ==
  ASSUME Shape, InputInv
  PROVE  /\ Kept \subseteq PreStream .. PostStream
         /\ \A c \in Kept : NextAllowedInStream(c) \in c + 1 .. in.bound
         /\ \A c \in contexts : \A d \in Values(in.queue) : c < d
         /\ in.queue # <<>> => Head(in.queue) \in Values(in.queue)
<1>1. Values(in.queue) \subseteq PreStream .. PostStream
  BY QueueFacts, ElementOfSeq DEF Values
<1>2. \A d \in Values(in.queue) : \E i \in 1 .. Len(in.queue) : d = in.queue[i]
  BY DEF Values
<1>3. Kept \subseteq PreStream .. PostStream
  BY <1>1 DEF Kept, Shape
<1>4. \A c \in Kept : NextAllowedInStream(c) <= in.bound
  BY <1>2 DEF Kept, InputInv
<1>5. \A c \in Kept : NextAllowedInStream(c) \in c + 1 .. OneOverPostStream /\ c \in Int
  <2>1. \A c \in PreStream .. PostStream : NextAllowedInStream(c) \in c + 1 .. OneOverPostStream
    BY TimestampOrder
  <2>2. PreStream .. PostStream \subseteq Int
    BY QueueFacts
  <2>3. QED
    BY <1>3, <2>1, <2>2
<1>6. \A c \in contexts : \A d \in Values(in.queue) : c < d
  BY <1>2 DEF InputInv
<1>7. in.queue # <<>> => Head(in.queue) \in Values(in.queue)
  BY QueueFacts DEF Values
<1>8. in.bound \in Int /\ OneOverPostStream \in Int
  BY QueueFacts, TimestampValues
<1>9. \A c \in Kept : NextAllowedInStream(c) \in c + 1 .. in.bound
  BY <1>4, <1>5, <1>8
<1>10. QED
  BY <1>3, <1>6, <1>7, <1>9

\* The bound that is on its way belongs to a time without contexts.
LEMMA CarriedChain ==
  ASSUME Shape, WorkInv, TurnInv, ChainInv, [Next]_vars, NEW u \in Thread, pc'[u] \in BoundPc,
         pc[u] \in PropPc => Own(u)
  PROVE  /\ contexts' = contexts /\ in' = in
         /\ \A d \in Kept : carried' <= d
<1>1. ASSUME contexts = {} PROVE Kept = Values(in.queue)
  BY <1>1 DEF Kept
<1>2. CASE pc[u] \in PropPc
  <2>1. Own(u)
    BY <1>2
  <2>2. ASSUME PropagateOutputPackets(u) \/ RecycleCalculatorContext(u) PROVE FALSE
    BY <2>2 DEF PropagateOutputPackets, RecycleCalculatorContext, Go, Shape, BoundPc
  <2>3. CASE TryPropagateTimestampBound(u) \/ RaiseMirrorBound(u)
    <3>1. /\ contexts' = contexts /\ in' = in /\ carried' = carried
          /\ pc[u] \in BoundPc
      BY <2>3 DEF TryPropagateTimestampBound, RaiseMirrorBound, invocations, propagation, BoundPc
    <3>2. QED
      BY <3>1 DEF ChainInv
  <2>4. ASSUME PacketsPropagated(u) \/ BoundPropagated(u)
        PROVE  contexts' = contexts /\ in' = in /\ contexts = {} /\ carried' = taskBound
    <3>1. contexts' = contexts /\ in' = in
      BY <2>4 DEF PacketsPropagated, BoundPropagated, invocations
    <3>2. Home(u) \in {"end", "loopEnd"}
      BY DEF Home
    <3>3. (contexts = {} /\ carried' = taskBound) \/ Go(u, Home(u)) \/ Go(u, "send")
      BY <2>4 DEF PacketsPropagated, BoundPropagated, Propagate, GoIdle
    <3>4. Go(u, Home(u)) \/ Go(u, "send") => pc'[u] \notin BoundPc
      BY <3>2 DEF Go, Shape, BoundPc
    <3>5. QED
      BY <3>1, <3>3, <3>4
  <2>5. QED
    BY <1>1, <2>1, <2>2, <2>3, <2>4 DEF Own, ChainInv
<1>3. CASE pc[u] \notin PropPc
  <2>1. pc'[u] \in PropPc
    BY DEF PropPc
  <2>2. /\ UpdateTaskTimestampBound(u) \/ (u \in Worker /\ ProcessNode(u))
        /\ pc'[u] \in {"send", "tryBound"}
    BY <1>3, <2>1, Enters
  <2>3. contexts' = contexts /\ in' = in
    BY <2>2 DEF UpdateTaskTimestampBound, ProcessNode, invocations
  <2>4. Home(u) \in {"end", "loopEnd"}
    BY DEF Home
  <2>5. Go(u, Home(u)) \/ Go(u, "send") \/ Go(u, "loopEnd") => pc'[u] \notin BoundPc
    BY <2>4 DEF Go, Shape, BoundPc
  <2>6. ASSUME NEW done, NEW bound, StartPropagation(u, done, bound)
        PROVE  contexts = {} /\ carried' = bound
    BY <2>5, <2>6 DEF StartPropagation, PropagationLoop, Propagate, GoIdle
  <2>7. CASE UpdateTaskTimestampBound(u)
    <3>1. contexts = {} /\ carried' = inputBound
      BY <2>5, <2>6, <2>7 DEF UpdateTaskTimestampBound
    <3>2. pc[u] = "bound"
      BY <2>7 DEF UpdateTaskTimestampBound
    <3>3. QED
      BY <1>1, <2>3, <3>1, <3>2 DEF ChainInv
  <2>8. CASE u \in Worker /\ ProcessNode(u)
    <3>1. contexts = {} /\ carried' = taskBound
      BY <2>6, <2>8 DEF ProcessNode
    <3>2. QED
      BY <1>1, <2>3, <3>1 DEF ChainInv
  <2>9. QED
    BY <2>2, <2>7, <2>8
<1>4. QED
  BY <1>2, <1>3

\* Every step keeps them so: a new packet comes after every bound.
LEMMA NextChain ==
  ASSUME IInv, ChainInv, [Next]_vars
  PROVE  ChainInv'
<1>1. Shape /\ WorkInv /\ TurnInv /\ SchedInv /\ InputInv /\ BoundInv /\ PropInv
  BY DEF IInv
<1>2. /\ Kept \subseteq PreStream .. PostStream
      /\ \A c \in Kept : NextAllowedInStream(c) \in c + 1 .. in.bound
  BY <1>1, KeptFacts
<1>3. /\ Values(in.queue) \subseteq Kept
      /\ PreStream .. PostStream \subseteq Int /\ in.bound \in Int
  BY <1>1, QueueFacts DEF Kept
<1>4. taskBound \in Int /\ inputBound \in Int /\ carried \in Int
  <2>1. \A x \in {Unset} \cup (PreStream .. Done) : x \in Int
    BY TimestampValues
  <2>2. QED
    BY <1>1, <2>1 DEF Shape
<1>5. \/ taskBound' = taskBound
      \/ \E t \in Thread : pc[t] = "bound" /\ taskBound' = inputBound
  BY <1>1, Bounds
<1>6. /\ \A d \in Values(in.queue) : taskBound' <= d
      /\ taskBound' <= in.bound
  BY <1>1, <1>5 DEF ChainInv, BoundInv
<1>7. ASSUME NEW t \in Thread, pc'[t] = "bound"
      PROVE  \/ /\ \A d \in Values(in.queue) : inputBound' <= d
                /\ inputBound' <= in.bound
             \/ Values(in'.queue) = {}
  <2>1. Values(<<>>) = {}
    BY DEF Values
  <2>2. \/ pc[t] = "bound" /\ inputBound' = inputBound
        \/ in.queue = <<>> /\ in' = in
    BY <1>1, <1>7, BoundSeen
  <2>3. QED
    BY <1>1, <2>1, <2>2 DEF ChainInv, BoundInv
<1>8. ASSUME NEW t \in Thread, pc'[t] \in BoundPc
      PROVE  \/ in' = in /\ contexts' = contexts /\ \A d \in Kept : carried' <= d
             \/ /\ \A d \in Kept : carried' <= d
                /\ carried' <= in.bound
  <2>1. CASE pc[t] \in PropPc => Own(t)
    BY <1>1, <1>8, <2>1, CarriedChain
  <2>2. CASE pc[t] \in PropPc /\ ~Own(t)
    <3>1. carried' = carried /\ pc'[t] = pc[t]
      BY <1>1, <2>2, PropagatorAlone
    <3>2. propState \in {"Bound", "Pending"}
      BY <1>1, <1>8, <3>1 DEF TurnInv
    <3>3. carried <= taskBound
      BY <1>1, <1>4, <3>2 DEF PropInv
    <3>4. QED
      BY <1>1, <1>3, <1>4, <1>8, <3>1, <3>3 DEF ChainInv, BoundInv
  <2>3. QED
    BY <2>1, <2>2
<1>9. CASE Kept' \subseteq Kept /\ Values(in'.queue) \subseteq Values(in.queue)
  <2>1. \A c, d \in Kept' : c < d => NextAllowedInStream(c) <= d
    BY <1>9 DEF ChainInv
  <2>2. \A d \in Values(in'.queue) : taskBound' <= d
    BY <1>6, <1>9
  <2>3. \A t \in Thread : pc'[t] = "bound" => \A d \in Values(in'.queue) : inputBound' <= d
    BY <1>7, <1>9
  <2>4. \A t \in Thread : pc'[t] \in BoundPc => \A d \in Kept' : carried' <= d
    BY <1>8, <1>9
  <2>5. QED
    BY <2>1, <2>2, <2>3, <2>4 DEF ChainInv
<1>10. ASSUME Receives, NEW p \in PreStream .. PostStream, p >= in.bound,
              Kept' = Kept \cup {p}, Values(in'.queue) = Values(in.queue) \cup {p}
       PROVE  ChainInv'
  <2>1. p \in Int /\ \A c \in Kept : c \in Int /\ c < p /\ NextAllowedInStream(c) <= p
    BY <1>2, <1>3, <1>10
  <2>2. NextAllowedInStream(p) \in Int
    BY TimestampOrder, TimestampValues
  <2>3. \A c, d \in Kept' : c < d => NextAllowedInStream(c) <= d
    BY <1>10, <2>1 DEF ChainInv
  <2>4. taskBound' \in Int
    BY <1>4, <1>5
  <2>5. \A d \in Values(in'.queue) : taskBound' <= d
    BY <1>3, <1>6, <1>10, <2>1, <2>4
  <2>6. inputBound' = inputBound /\ carried' = carried /\ contexts' = contexts
    BY <1>1, <1>10, Arrival DEF scheduling, propagation, invocations
  <2>7. \A t \in Thread : pc'[t] = "bound" => \A d \in Values(in'.queue) : inputBound' <= d
    BY <1>3, <1>4, <1>7, <1>10, <2>1, <2>6
  <2>8. ASSUME NEW t \in Thread, pc'[t] \in BoundPc PROVE \A d \in Kept' : carried' <= d
    <3>1. p \in Values(in'.queue) /\ p \notin Values(in.queue)
      BY <1>3, <1>10, <2>1
    <3>2. in' # in
      BY <3>1
    <3>3. (\A d \in Kept : carried' <= d) /\ carried' <= in.bound
      BY <1>8, <2>8, <3>2
    <3>4. QED
      BY <1>3, <1>4, <1>10, <2>1, <2>6, <3>3
  <2>9. QED
    BY <2>3, <2>5, <2>7, <2>8 DEF ChainInv
<1>11. \/ Kept' \subseteq Kept /\ Values(in'.queue) \subseteq Values(in.queue)
       \/ /\ Receives
          /\ \E p \in PreStream .. PostStream :
               /\ p >= in.bound
               /\ Kept' = Kept \cup {p} /\ Values(in'.queue) = Values(in.queue) \cup {p}
  BY <1>1, KeptMoves
<1>12. QED
  BY <1>9, <1>10, <1>11

\* The context that is being answered.
LEMMA UnsentIs ==
  ASSUME Shape, TurnInv, FrontInv
  PROVE  /\ Unsent \subseteq contexts
         /\ \A t \in Thread : pc[t] = "recycle" => Unsent = contexts \ {Least(contexts)}
         /\ \A t \in Thread : pc[t] = "send" =>
              /\ Unsent = contexts /\ carried \in Unsent /\ carried = Least(Unsent)
              /\ \A c \in Unsent : carried <= c
         /\ (\A t \in Thread : pc[t] # "recycle") => Unsent = contexts
<1>1. ASSUME NEW t \in Thread, pc[t] = "send"
      PROVE  /\ Unsent = contexts /\ carried \in Unsent /\ carried = Least(Unsent)
             /\ \A c \in Unsent : carried <= c
  <2>1. \A u \in Thread : pc[u] # "recycle"
    BY <1>1 DEF TurnInv, PropPc, PacketPc
  <2>2. Unsent = contexts
    BY <2>1 DEF Unsent
  <2>3. Least(contexts) = carried
    BY <1>1, Removed
  <2>4. QED
    BY <1>1, <2>2, <2>3 DEF FrontInv
<1>2. QED
  BY <1>1 DEF Unsent

\* Who is about to recycle.
LEMMA Recycles ==
  ASSUME Shape, TurnInv, [Next]_vars, NEW u \in Thread
  PROVE  /\ pc'[u] = "recycle" => pc[u] = "recycle" \/ PropagateOutputPackets(u)
         /\ pc[u] = "recycle" => pc'[u] = "recycle" \/ RecycleCalculatorContext(u)
<1>1. ASSUME pc[u] = "recycle", pc'[u] # "recycle" PROVE RecycleCalculatorContext(u)
  <2>1. pc[u] \in PropPc
    BY <1>1 DEF PropPc, PacketPc
  <2>2. Own(u)
    BY <1>1, <2>1, PropagatorAlone
  <2>3. QED
    BY <1>1, <2>2
    DEF Own, PropagateOutputPackets, PacketsPropagated, TryPropagateTimestampBound,
        RaiseMirrorBound, BoundPropagated
<1>2. ASSUME pc'[u] = "recycle", pc[u] # "recycle" PROVE PropagateOutputPackets(u)
  <2>1. pc'[u] \in PropPc
    BY <1>2 DEF PropPc, PacketPc
  <2>2. pc[u] \in PropPc
    BY <1>2, <2>1, Enters
  <2>3. Own(u)
    BY <1>2, <2>2, PropagatorAlone
  <2>4. Home(u) # "recycle"
    BY DEF Home
  <2>5. QED
    BY <1>2, <2>3, <2>4
    DEF Own, PacketsPropagated, RecycleCalculatorContext, TryPropagateTimestampBound,
        RaiseMirrorBound, BoundPropagated, GoIdle, Propagate, Go, Shape
<1>3. QED
  BY <1>1, <1>2

\* What happens to the packets that have not been answered.
LEMMA UnsentMoves ==
  ASSUME IInv, [Next]_vars
  PROVE  \/ /\ Unsent' = Unsent /\ \A t \in Thread : ~Takes(t) /\ ~PropagateOutputPackets(t)
         \/ \E t \in Thread : Takes(t) /\ Unsent' = Unsent \cup {Head(in.queue)}
         \/ \E t \in Thread : PropagateOutputPackets(t) /\ Unsent' = Unsent \ {Least(Unsent)}
<1>1. Shape /\ TurnInv /\ FrontInv /\ InputInv
  BY DEF IInv
<1>2. CASE \E t \in Thread : PropagateOutputPackets(t)
  <2>1. PICK t \in Thread : PropagateOutputPackets(t)
    BY <1>2
  <2>2. pc[t] = "send" /\ pc'[t] = "recycle" /\ contexts' = contexts
    BY <1>1, <2>1 DEF PropagateOutputPackets, invocations, Go, Shape
  <2>3. Unsent = contexts
    BY <1>1, <2>2, UnsentIs
  <2>4. Unsent' = contexts \ {Least(contexts)}
    BY <2>2, Zenon DEF Unsent, Least
  <2>5. QED
    BY <2>1, <2>3, <2>4
<1>3. CASE \E t \in Thread : RecycleCalculatorContext(t)
  <2>1. PICK t \in Thread : RecycleCalculatorContext(t)
    BY <1>3
  <2>2. /\ pc[t] = "recycle" /\ pc'[t] = "sent" /\ contexts' = contexts \ {Least(contexts)}
        /\ \A u \in Thread : u # t => pc'[u] = pc[u]
        /\ in' = in
    BY <1>1, <2>1 DEF RecycleCalculatorContext, Go, Shape
  <2>3. \A u \in Thread : pc'[u] # "recycle"
    BY <1>1, <2>2 DEF TurnInv, PropPc, PacketPc
  <2>4. Unsent' = contexts'
    BY <2>3 DEF Unsent
  <2>5. Unsent = contexts \ {Least(contexts)}
    BY <1>1, <2>2, UnsentIs
  <2>6. ASSUME NEW u \in Thread PROVE ~Takes(u) /\ ~PropagateOutputPackets(u)
    <3>1. ~PropagateOutputPackets(u)
      BY <1>1, <2>2 DEF PropagateOutputPackets, TurnInv, PropPc, PacketPc
    <3>2. Takes(u) => pc' = pc
      BY DEF Takes
    <3>3. QED
      BY <2>2, <3>1, <3>2
  <2>7. QED
    BY <2>2, <2>4, <2>5, <2>6
<1>4. ASSUME \A t \in Thread : ~PropagateOutputPackets(t) /\ ~RecycleCalculatorContext(t)
      PROVE  \/ /\ Unsent' = Unsent /\ \A t \in Thread : ~Takes(t) /\ ~PropagateOutputPackets(t)
             \/ \E t \in Thread : Takes(t) /\ Unsent' = Unsent \cup {Head(in.queue)}
  <2>1. \A u \in Thread : pc'[u] = "recycle" <=> pc[u] = "recycle"
    BY <1>1, <1>4, Recycles
  <2>2. CASE \E t \in Thread : Takes(t)
    <3>1. PICK t \in Thread : Takes(t)
      BY <2>2
    <3> DEFINE h == Head(in.queue)
    <3>2. /\ contexts' = contexts \cup {h} /\ h \in PreStream .. PostStream
          /\ \A c \in contexts : c < h
      BY <1>1, <3>1, KeptFacts, QueueFacts DEF Takes
    <3>3. CASE \A u \in Thread : pc[u] # "recycle"
      <4>1. Unsent = contexts /\ Unsent' = contexts'
        BY <2>1, <3>3 DEF Unsent
      <4>2. QED
        BY <3>1, <3>2, <4>1
    <3>4. CASE \E u \in Thread : pc[u] = "recycle"
      <4>1. PICK u \in Thread : pc[u] = "recycle"
        BY <3>4
      <4>2. contexts # {} /\ contexts \subseteq PreStream .. PostStream
        BY <1>1, <4>1 DEF FrontInv, Shape
      <4>3. Least(contexts) \in contexts /\ \A c \in contexts : Least(contexts) <= c
        BY <4>2, LeastIs
      <4>4. PreStream .. PostStream \subseteq Int
        BY <1>1, QueueFacts
      <4> HIDE DEF h
      <4> DEFINE all == contexts \cup {h}
      <4>5. all \subseteq PreStream .. PostStream /\ Least(contexts) \in all
            /\ \A c \in all : Least(contexts) <= c
        <5>1. Least(contexts) < h /\ Least(contexts) \in Int /\ h \in Int
          BY <3>2, <4>2, <4>3, <4>4
        <5>2. Least(contexts) <= h
          BY <5>1
        <5>3. \A c \in all : c \in contexts \/ c = h
          OBVIOUS
        <5>4. \A c \in all : Least(contexts) <= c
          BY <4>3, <5>2, <5>3, Zenon
        <5>5. all \subseteq PreStream .. PostStream /\ Least(contexts) \in all
          BY <3>2, <4>2, <4>3
        <5>6. QED
          BY <5>4, <5>5
      <4> HIDE DEF all
      <4>6. Least(all) = Least(contexts)
        BY <4>5, LeastOne
      <4>7. Unsent = contexts \ {Least(contexts)}
        BY <1>1, <4>1, UnsentIs
      <4>8. Unsent' = all \ {Least(all)}
        <5>1. contexts' = all
          BY <3>2 DEF all
        <5>2. Least(contexts)' = Least(all)
          BY <5>1, Zenon DEF Least
        <5>3. QED
          BY <2>1, <4>1, <5>1, <5>2, Zenon DEF Unsent
      <4>9. h # Least(contexts)
        BY <3>2, <4>2, <4>3, <4>4
      <4>10. Unsent' = Unsent \cup {h}
        BY <4>6, <4>7, <4>8, <4>9 DEF all
      <4>11. QED
        BY <3>1, <4>10 DEF h
    <3>5. QED
      BY <3>3, <3>4
  <2>3. CASE \A t \in Thread : ~Takes(t)
    <3>1. contexts' = contexts
      BY <1>1, <1>4, <2>3, Invocations
    <3>2. Unsent' = Unsent
      <4>1. Least(contexts)' = Least(contexts)
        BY <3>1, Zenon DEF Least
      <4>2. QED
        BY <2>1, <3>1, <4>1, Zenon DEF Unsent
    <3>3. QED
      BY <1>4, <2>3, <3>2
  <2>4. QED
    BY <2>2, <2>3
<1>5. QED
  BY <1>2, <1>3, <1>4

\* The bound downstream passes neither the bound of the input nor a packet that
\* has not been answered.
CeilInv ==
  /\ mirror.bound <= in.bound
  /\ \A d \in Unsent \cup Values(in.queue) : mirror.bound <= d

\* The bound that an answer at ts without a packet implies.
LEMMA InputBoundIs ==
  ASSUME NEW ts \in PreStream .. PostStream
  PROVE  InputBound(ts) \in PreStream .. Done /\ InputBound(ts) <= NextAllowedInStream(ts)
  BY TimestampValues DEF InputBound, NextAllowedInStream

\* What an invocation sends.
LEMMA Sends ==
  ASSUME IInv, NEW t \in Thread, PropagateOutputPackets(t)
  PROVE  /\ UNCHANGED in /\ carried \in PreStream .. PostStream
         /\ \/ /\ mirror'.queue = mirror.queue
               /\ \/ mirror'.bound = mirror.bound
                  \/ /\ mirror'.bound \in Int /\ mirror'.bound > mirror.bound
                     /\ mirror'.bound <= NextAllowedInStream(carried)
            \/ /\ mirror'.queue = Append(mirror.queue, carried)
               /\ mirror.bound <= carried /\ mirror'.bound = NextAllowedInStream(carried)
<1>1. Shape /\ FrontInv
  BY DEF IInv
<1>2. UNCHANGED in /\ pc[t] = "send"
  BY DEF PropagateOutputPackets
<1>3. carried \in PreStream .. PostStream
  BY <1>1, <1>2 DEF FrontInv, Shape
<1>4. mirror \in Stream /\ ~mirror.closed
  BY <1>1 DEF Shape, Ordered
<1>5. mirror' = mirror \/ mirror' = Update(carried).stream
  BY DEF PropagateOutputPackets, downstream
<1>6. CASE carried \in output
  <2> DEFINE done == AddPackets(mirror, <<carried>>)
  <2>1. \/ done.stream = mirror
        \/ /\ carried >= mirror.bound
           /\ done.stream =
                [mirror EXCEPT !.queue = Append(@, carried),
                               !.bound = NextAllowedInStream(carried), !.added = TRUE]
    BY <1>3, <1>4, AddOne
  <2>2. Update(carried).stream = done.stream
    BY <1>6 DEF Update
  <2> HIDE DEF done
  <2>3. CASE mirror' = mirror
    BY <1>2, <1>3, <2>3
  <2>4. CASE mirror' # mirror
    <3>1. mirror' = [mirror EXCEPT !.queue = Append(@, carried),
                               !.bound = NextAllowedInStream(carried), !.added = TRUE]
          /\ carried >= mirror.bound
      BY <1>5, <2>1, <2>2, <2>4
    <3>2. mirror'.queue = Append(mirror.queue, carried)
          /\ mirror'.bound = NextAllowedInStream(carried)
      BY <1>4, <3>1 DEF Stream
    <3>3. mirror.bound \in Int /\ carried \in Int
      BY <1>3, <1>4, TimestampValues DEF Stream
    <3>4. QED
      BY <1>2, <1>3, <3>1, <3>2, <3>3
  <2>5. QED
    BY <2>3, <2>4
<1>7. CASE carried \notin output
  <2> DEFINE b == IF offsetEnabled THEN InputBound(carried) ELSE mirror.bound
  <2>1. Update(carried).stream = SetNextTimestampBound(mirror, b).stream
    BY <1>7 DEF Update
  <2>2. b = mirror.bound \/ (b \in PreStream .. Done /\ b <= NextAllowedInStream(carried))
    BY <1>3, InputBoundIs
  <2> HIDE DEF b
  <2>3. SetNextTimestampBound(mirror, b).stream =
          IF ~mirror.closed /\ b > mirror.bound THEN [mirror EXCEPT !.bound = b] ELSE mirror
    BY DEF SetNextTimestampBound
  <2>4. mirror.bound \in Int /\ \A x \in PreStream .. Done : x \in Int
    BY <1>4, TimestampValues DEF Stream
  <2>5. mirror' = mirror \/ (b > mirror.bound /\ mirror' = [mirror EXCEPT !.bound = b])
    BY <1>5, <2>1, <2>3
  <2>6. CASE mirror' = mirror
    BY <1>2, <1>3, <2>6
  <2>7. CASE b > mirror.bound /\ mirror' = [mirror EXCEPT !.bound = b]
    <3>1. mirror'.queue = mirror.queue /\ mirror'.bound = b
      BY <1>4, <2>7 DEF Stream
    <3>2. b \in Int /\ b <= NextAllowedInStream(carried)
      BY <2>2, <2>4, <2>7
    <3>3. QED
      BY <1>2, <1>3, <2>7, <3>1, <3>2
  <2>8. QED
    BY <2>5, <2>6, <2>7
<1>8. QED
  BY <1>6, <1>7

\* The bound that is passed on.
LEMMA Raised ==
  ASSUME IInv, ChainInv, NEW t \in Thread, RaiseMirrorBound(t)
  PROVE  /\ UNCHANGED in /\ mirror'.queue = mirror.queue
         /\ carried <= in.bound /\ (\A d \in Kept : carried <= d)
         /\ \/ mirror'.bound = mirror.bound
            \/ /\ mirror'.bound = carried /\ carried \in Int
               /\ mirror'.bound > mirror.bound
<1>1. Shape /\ TurnInv /\ PropInv /\ BoundInv
  BY DEF IInv
<1>2. UNCHANGED in /\ pc[t] = "raise" /\ mirror' = SetNextTimestampBound(mirror, carried).stream
  BY DEF RaiseMirrorBound
<1>3. pc[t] \in BoundPc
  BY <1>2 DEF BoundPc
<1>4. \A d \in Kept : carried <= d
  BY <1>3 DEF ChainInv
<1>5. carried \in Int /\ taskBound \in Int /\ in.bound \in Int /\ mirror.bound \in Int
  <2>1. \A x \in {Unset} \cup (PreStream .. Done) : x \in Int
    BY TimestampValues
  <2>2. QED
    BY <1>1, <2>1 DEF Shape, Ordered, Stream
<1>6. carried <= taskBound
  BY <1>1, <1>3, <1>5 DEF TurnInv, PropInv
<1>7. carried <= in.bound
  BY <1>1, <1>5, <1>6 DEF BoundInv
<1>8. mirror' = mirror \/ (carried > mirror.bound /\ mirror' = [mirror EXCEPT !.bound = carried])
  BY <1>2 DEF SetNextTimestampBound
<1>9. mirror'.queue = mirror.queue /\ (mirror' = mirror \/ mirror'.bound = carried)
  BY <1>1, <1>8 DEF Shape, Ordered, Stream
<1>10. QED
  BY <1>2, <1>4, <1>5, <1>7, <1>8, <1>9

\* What Close sends.
LEMMA Closed ==
  ASSUME IInv, [Next]_vars, NEW w \in Worker, Closes(w)
  PROVE  /\ in'.queue = <<>> /\ in'.bound = Done /\ Unsent = {} /\ in.queue = <<>>
         /\ \/ mirror'.queue = mirror.queue /\ mirror'.bound \in mirror.bound .. Done
            \/ \E ts \in mirror.bound .. PostStream :
                 /\ mirror'.queue = Append(mirror.queue, ts)
                 /\ mirror'.bound = NextAllowedInStream(ts)
<1>1. Shape /\ WorkInv /\ TurnInv /\ FrontInv /\ RaiseInv /\ CloseInv /\ EndInv
  BY DEF IInv
<1>2. prepared
  <2>1. w \in Thread
    BY DEF Thread
  <2>2. pc[w] \in ClosePc
    BY DEF Closes, ClosePc, CloseInputStreams, CloseCalculator, CloseMirror, CloseManager, SetClosed
  <2>3. QED
    BY <1>1, <2>1, <2>2 DEF CloseInv, Closing
<1>3. in.queue = <<>> /\ in.bound >= OneOverPostStream /\ contexts = {}
  BY <1>1, <1>2 DEF CloseInv
<1>4. in'.queue = <<>> /\ in'.bound = Done
  <2>1. in'.queue = <<>> /\ w \in Thread /\ pc \in [Thread -> Places]
    BY <1>1, <1>2, CloseStable DEF Shape, Thread
  <2>2. CASE SetClosed(w)
    <3>1. pc[w] \in EndPc /\ in' = in
      BY <2>2 DEF SetClosed, EndPc
    <3>2. QED
      BY <1>1, <2>1, <3>1 DEF EndInv
  <2>3. CASE ~SetClosed(w)
    <3>1. pc'[w] \in EndPc
      BY <2>1, <2>3
      DEF Closes, CloseInputStreams, CloseCalculator, CloseMirror, CloseManager, Go, EndPc
    <3>2. EndInv'
      BY <1>1, NextEnd
    <3>3. QED
      BY <2>1, <3>1, <3>2 DEF EndInv
  <2>4. QED
    BY <2>2, <2>3
<1>5. Unsent = {}
  BY <1>1, <1>3, UnsentIs
<1>6. mirror \in Stream /\ ~mirror.closed /\ mirror.bound \in PreStream .. Done
  BY <1>1 DEF Shape, Ordered, Stream
<1>7. /\ PreStream = 0 /\ PostStream \in Int /\ PostStream < Done /\ Done \in Int
      /\ Done \in PreStream .. Done
  BY TimestampValues
<1>8. CASE mirror' = mirror
  BY <1>3, <1>4, <1>5, <1>6, <1>7, <1>8
<1>9. CASE CloseMirror(w)
  <2>1. mirror' = SetNextTimestampBound(mirror, Done).stream
    BY <1>9 DEF CloseMirror
  <2>2. Done \in PreStream .. Done
    BY <1>7
  <2>3. mirror'.queue = mirror.queue /\ mirror'.bound >= mirror.bound
        /\ mirror'.bound \in PreStream .. Done
    BY <1>1, <2>1, <2>2, BoundKeeps DEF Ordered, Stream
  <2>4. QED
    BY <1>3, <1>4, <1>5, <1>6, <1>7, <2>3
<1>10. CASE CloseCalculator(w) /\ mirror' # mirror
  <2>1. PICK ts \in manager.bound .. PostStream :
          mirror' = AddPackets(mirror, <<ts>>).stream
    BY <1>10 DEF CloseCalculator
  <2>2. ts \in PreStream .. PostStream
    BY <1>1, <1>7, <2>1 DEF Shape
  <2> DEFINE done == AddPackets(mirror, <<ts>>)
  <2>3. \/ done.stream = mirror
        \/ /\ ts >= mirror.bound
           /\ done.stream =
                [mirror EXCEPT !.queue = Append(@, ts),
                               !.bound = NextAllowedInStream(ts), !.added = TRUE]
    BY <1>6, <2>2, AddOne
  <2>4. ts \in mirror.bound .. PostStream
    BY <1>6, <1>7, <1>10, <2>1, <2>2, <2>3
  <2>5. mirror' = [mirror EXCEPT !.queue = Append(@, ts),
                               !.bound = NextAllowedInStream(ts), !.added = TRUE]
    BY <1>10, <2>1, <2>3
  <2>6. mirror'.queue = Append(mirror.queue, ts) /\ mirror'.bound = NextAllowedInStream(ts)
    BY <1>6, <2>5 DEF Stream
  <2>7. QED
    BY <1>3, <1>4, <1>5, <2>4, <2>6
<1>11. QED
  BY <1>8, <1>9, <1>10
  DEF Closes, CloseInputStreams, CloseManager, SetClosed, downstream

\* The packets that have not been answered.
Left == Unsent \cup Values(in.queue)

\* A packet leaves them when it is answered, and comes after the bound.
LEMMA LeftMoves ==
  ASSUME IInv, [Next]_vars
  PROVE  /\ Left \subseteq Kept
         /\ \/ Left' \subseteq Left
            \/ \E p \in PreStream .. PostStream : p >= in.bound /\ Left' = Left \cup {p}
         /\ \A t \in Thread : PropagateOutputPackets(t) =>
              carried \in Left /\ Left' = Left \ {carried} /\ \A d \in Left' : carried < d
<1>1. Shape /\ TurnInv /\ FrontInv /\ InputInv
  BY DEF IInv
<1>2. Unsent \subseteq contexts
  BY <1>1, UnsentIs
<1>3. Kept \subseteq PreStream .. PostStream /\ PreStream .. PostStream \subseteq Int
  BY <1>1, KeptFacts, QueueFacts
<1>4. Left \subseteq Kept
  BY <1>2 DEF Left, Kept
<1>5. ASSUME NEW t \in Thread, PropagateOutputPackets(t)
      PROVE  carried \in Left /\ Left' = Left \ {carried} /\ \A d \in Left' : carried < d
  <2>1. pc[t] = "send" /\ in' = in
    BY <1>5 DEF PropagateOutputPackets
  <2>2. /\ Unsent = contexts /\ carried \in Unsent /\ carried = Least(Unsent)
        /\ \A c \in Unsent : carried <= c
    BY <1>1, <2>1, UnsentIs
  <2>3. \A d \in Values(in.queue) : carried < d
    BY <1>1, <2>2, KeptFacts
  <2>4. \A v \in Thread : ~Takes(v)
    <3>1. pc' # pc
      BY <1>1, <1>5 DEF PropagateOutputPackets, Shape, Go
    <3>2. QED
      BY <3>1 DEF Takes
  <2>5. Unsent' = Unsent \ {carried}
    <3>1. \/ Unsent' = Unsent /\ ~PropagateOutputPackets(t)
          \/ \E v \in Thread : Takes(v)
          \/ Unsent' = Unsent \ {Least(Unsent)}
      BY UnsentMoves
    <3>2. QED
      BY <1>5, <2>2, <2>4, <3>1
  <2>6. carried \in Int /\ \A c \in Kept : c \in Int
    BY <1>2, <1>3, <2>2 DEF Kept
  <2>7. carried \notin Values(in.queue)
    BY <2>3, <2>6
  <2>8. carried \in Left /\ Left' = Left \ {carried}
    BY <2>1, <2>2, <2>5, <2>7 DEF Left
  <2>9. \A d \in Left' : carried < d
    BY <1>4, <2>2, <2>3, <2>6, <2>8 DEF Left
  <2>10. QED
    BY <2>8, <2>9
<1>6. ASSUME NEW t \in Thread, Takes(t), Unsent' = Unsent \cup {Head(in.queue)}
      PROVE  Left' \subseteq Left
  <2>1. in.queue # <<>> /\ in.queue \in Seq(PreStream .. PostStream)
    BY <1>1, <1>6, QueueFacts DEF Takes
  <2>2. ~Receives
    BY <1>1, <1>6, Arrival DEF Takes, scheduling
  <2>3. in'.queue = Tail(in.queue) \/ in'.queue = in.queue
    BY <1>1, <2>2, Input
  <2>4. Values(in.queue) = Values(Tail(in.queue)) \cup {Head(in.queue)}
    BY <2>1, TailValues
  <2>5. QED
    BY <1>6, <2>3, <2>4 DEF Left
<1>7. ASSUME Unsent' = Unsent
      PROVE  \/ Left' \subseteq Left
             \/ \E p \in PreStream .. PostStream : p >= in.bound /\ Left' = Left \cup {p}
  <2>1. \/ Values(in'.queue) \subseteq Values(in.queue)
        \/ \E p \in PreStream .. PostStream :
             p >= in.bound /\ Values(in'.queue) = Values(in.queue) \cup {p}
    BY <1>1, KeptMoves
  <2>2. QED
    BY <1>7, <2>1 DEF Left
<1>8. \/ Left' \subseteq Left
      \/ \E p \in PreStream .. PostStream : p >= in.bound /\ Left' = Left \cup {p}
  BY <1>5, <1>6, <1>7, UnsentMoves
<1>9. QED
  BY <1>4, <1>5, <1>8

\* No update of the stream downstream overtakes a packet.
LEMMA NextCeil ==
  ASSUME IInv, ChainInv, CeilInv, [Next]_vars
  PROVE  CeilInv'
<1>1. Shape /\ InputInv
  BY DEF IInv
<1>2. /\ in'.bound >= in.bound /\ in'.bound \in Int
      /\ in.bound \in Int /\ mirror.bound \in Int
  BY <1>1, Input, TimestampValues DEF Shape, Ordered, Stream
<1>3. /\ Left \subseteq Kept /\ Kept \subseteq Int
      /\ \A d \in Left : mirror.bound <= d
      /\ \A c \in Kept : NextAllowedInStream(c) \in c + 1 .. in.bound
      /\ mirror.bound <= in.bound
  BY <1>1, LeftMoves, KeptFacts, QueueFacts DEF CeilInv, Left
<1>4. \/ Left' \subseteq Left
      \/ \E p \in PreStream .. PostStream : p >= in.bound /\ Left' = Left \cup {p}
  BY LeftMoves
<1>5. SUFFICES mirror'.bound <= in'.bound /\ \A d \in Left' : mirror'.bound <= d
  BY Zenon DEF CeilInv, Left
<1>6. ASSUME NEW b \in Int, b <= in.bound, \A d \in Left : b <= d
      PROVE  b <= in'.bound /\ \A d \in Left' : b <= d
  <2>1. b <= in'.bound
    BY <1>2, <1>6
  <2>2. \A p \in PreStream .. PostStream : p >= in.bound => b <= p
    BY <1>1, <1>2, <1>6, QueueFacts
  <2>3. QED
    BY <1>4, <1>6, <2>1, <2>2
<1>7. CASE mirror'.bound = mirror.bound
  BY <1>2, <1>3, <1>6, <1>7
<1>8. ASSUME NEW t \in Thread, PropagateOutputPackets(t), mirror'.bound # mirror.bound
      PROVE  mirror'.bound <= in'.bound /\ \A d \in Left' : mirror'.bound <= d
  <2>1. /\ carried \in Left /\ Left' = Left \ {carried} /\ \A d \in Left' : carried < d
    BY <1>8, LeftMoves
  <2>2. mirror'.bound \in Int /\ mirror'.bound <= NextAllowedInStream(carried)
    BY <1>8, Sends, <1>3, <2>1, TimestampValues
  <2>3. carried \in Kept /\ carried \in Int /\ NextAllowedInStream(carried) \in carried + 1 .. in.bound
    BY <1>3, <2>1
  <2>4. mirror'.bound <= in'.bound
    BY <1>2, <2>2, <2>3
  <2>5. ASSUME NEW d \in Left' PROVE mirror'.bound <= d
    <3>1. d \in Kept /\ carried < d /\ d \in Int
      BY <1>3, <2>1
    <3>2. NextAllowedInStream(carried) <= d
      BY <2>3, <3>1 DEF ChainInv
    <3>3. QED
      BY <2>2, <2>3, <3>1, <3>2
  <2>6. QED
    BY <2>4, <2>5
<1>9. ASSUME NEW t \in Thread, RaiseMirrorBound(t), mirror'.bound # mirror.bound
      PROVE  mirror'.bound <= in'.bound /\ \A d \in Left' : mirror'.bound <= d
  <2>1. /\ mirror'.bound = carried /\ carried \in Int
        /\ carried <= in.bound /\ \A d \in Left : carried <= d
    BY <1>3, <1>9, Raised
  <2>2. QED
    BY <1>6, <2>1
<1>10. ASSUME NEW w \in Worker, Closes(w)
       PROVE  mirror'.bound <= in'.bound /\ \A d \in Left' : mirror'.bound <= d
  <2>1. /\ in'.queue = <<>> /\ in'.bound = Done /\ Unsent = {} /\ in.queue = <<>>
        /\ \/ mirror'.bound \in mirror.bound .. Done
           \/ \E ts \in mirror.bound .. PostStream : mirror'.bound = NextAllowedInStream(ts)
    BY <1>10, Closed
  <2>2. Values(<<>>) = {}
    BY DEF Values
  <2>3. Unsent' = {}
    <3>1. \A t \in Thread : ~Takes(t)
      BY <2>1 DEF Takes
    <3>2. QED
      BY <2>1, <3>1, UnsentMoves
  <2>4. Left' = {}
    BY <2>1, <2>2, <2>3 DEF Left
  <2>5. mirror'.bound <= Done
    <3>1. mirror.bound \in PreStream .. Done
      BY <1>1 DEF Shape, Ordered, Stream
    <3>2. \A ts \in mirror.bound .. PostStream : ts \in PreStream .. PostStream
      BY <3>1, TimestampValues
    <3>3. \A ts \in PreStream .. PostStream : NextAllowedInStream(ts) <= Done
      BY TimestampOrder, TimestampValues
    <3>4. Done \in Int
      BY TimestampValues
    <3>5. QED
      BY <1>2, <2>1, <3>2, <3>3, <3>4
  <2>6. QED
    BY <2>1, <2>4, <2>5
<1>11. \/ mirror'.bound = mirror.bound
       \/ \E t \in Thread : PropagateOutputPackets(t) \/ RaiseMirrorBound(t)
       \/ \E w \in Worker : Closes(w)
  BY <1>1, DownstreamMoves DEF downstream
<1>12. QED
  BY <1>7, <1>8, <1>9, <1>10, <1>11

-----------------------------------------------------------------------------
\* The refinement.

\* The packets that have not been answered, in the order of time.
Todo == InOrder(Unsent) \o in.queue

\* Moving an element from one of two sequences to the other changes nothing.
LEMMA ConcatMoves ==
  ASSUME NEW S, NEW q \in Seq(S), NEW r \in Seq(S)
  PROVE  /\ \A x \in S : q \o Append(r, x) = Append(q \o r, x)
         /\ r # <<>> => Append(q, Head(r)) \o Tail(r) = q \o r
         /\ q # <<>> => /\ q \o r # <<>> /\ Head(q \o r) = Head(q)
                        /\ Tail(q \o r) = Tail(q) \o r
<1>1. \A x \in S : <<x>> \in Seq(S)
  OBVIOUS
<1>2. ASSUME NEW x \in S PROVE q \o Append(r, x) = Append(q \o r, x)
  <2>1. q \o r \in Seq(S)
    BY ConcatProperties
  <2>2. Append(r, x) = r \o <<x>> /\ Append(q \o r, x) = (q \o r) \o <<x>>
    BY <2>1, AppendIsConcat
  <2>3. q \o (r \o <<x>>) = (q \o r) \o <<x>>
    BY <1>1, ConcatAssociative
  <2>4. QED
    BY <2>2, <2>3
<1>3. ASSUME NEW s \in Seq(S), s # <<>>
      PROVE  s = <<Head(s)>> \o Tail(s) /\ Head(s) \in S /\ Tail(s) \in Seq(S)
  <2>1. /\ Head(s) \in S /\ Tail(s) \in Seq(S) /\ Len(Tail(s)) = Len(s) - 1
        /\ \A i \in 1 .. Len(Tail(s)) : Tail(s)[i] = s[i + 1]
    BY <1>3, HeadTailProperties
  <2> DEFINE h == <<Head(s)>>
             u == h \o Tail(s)
  <2>2. h \in Seq(S) /\ Len(h) = 1 /\ h[1] = s[1]
    BY <2>1
  <2> HIDE DEF h
  <2>3. /\ u \in Seq(S) /\ Len(u) = Len(h) + Len(Tail(s))
        /\ \A i \in 1 .. Len(h) + Len(Tail(s)) :
             u[i] = IF i <= Len(h) THEN h[i] ELSE Tail(s)[i - Len(h)]
    <3>1. h \in Seq(S) /\ Tail(s) \in Seq(S)
      BY <2>1, <2>2
    <3>2. QED
      BY <3>1, ConcatProperties, Zenon
  <2> HIDE DEF u
  <2>4. Len(s) \in Nat /\ Len(u) = Len(s)
    BY <2>1, <2>2, <2>3, LenProperties
  <2>5. \A i \in 1 .. Len(s) : u[i] = s[i]
    BY <2>1, <2>2, <2>3, <2>4
  <2>6. u = s
    BY <2>3, <2>4, <2>5, SeqEqual
  <2>7. QED
    BY <2>1, <2>6 DEF u, h
<1>4. ASSUME r # <<>> PROVE Append(q, Head(r)) \o Tail(r) = q \o r
  <2>1. r = <<Head(r)>> \o Tail(r) /\ Head(r) \in S /\ Tail(r) \in Seq(S)
    BY <1>3, <1>4
  <2>2. Append(q, Head(r)) = q \o <<Head(r)>>
    BY <2>1, AppendIsConcat
  <2>3. (q \o <<Head(r)>>) \o Tail(r) = q \o (<<Head(r)>> \o Tail(r))
    BY <1>1, <2>1, ConcatAssociative
  <2>4. QED
    BY <2>1, <2>2, <2>3, Zenon
<1>5. ASSUME q # <<>>
      PROVE  q \o r # <<>> /\ Head(q \o r) = Head(q) /\ Tail(q \o r) = Tail(q) \o r
  <2>1. q = <<Head(q)>> \o Tail(q) /\ Head(q) \in S /\ Tail(q) \in Seq(S)
    BY <1>3, <1>5
  <2> DEFINE s == q \o r
  <2>2. s \in Seq(S) /\ s # <<>>
    BY <1>5, ConcatProperties, ConcatEqualIffEmpty
  <2>3. s = <<Head(s)>> \o Tail(s) /\ Head(s) \in S /\ Tail(s) \in Seq(S)
    BY <1>3, <2>2
  <2>4. s = <<Head(q)>> \o (Tail(q) \o r)
    <3>1. (<<Head(q)>> \o Tail(q)) \o r = <<Head(q)>> \o (Tail(q) \o r)
      BY <1>1, <2>1, ConcatAssociative
    <3>2. QED
      BY <2>1, <3>1
  <2>5. Head(s) = Head(q)
    BY <2>2, <1>5, ConcatProperties, EmptySeq, LenProperties
  <2>6. <<Head(q)>> \o Tail(s) = <<Head(q)>> \o (Tail(q) \o r)
    BY <2>3, <2>4, <2>5, Zenon
  <2>7. Tail(q) \o r \in Seq(S)
    BY <2>1, ConcatProperties
  <2>8. Tail(s) = Tail(q) \o r
    BY <1>1, <2>1, <2>3, <2>6, <2>7, ConcatSimplifications
  <2>9. QED
    BY <2>2, <2>5, <2>8
<1>6. QED
  BY <1>2, <1>4, <1>5

\* The bound downstream does not pass the first of them.
Under ==
  /\ mirror.bound \in PreStream .. Done /\ Sequential!Ceiling(Todo) \in Int
  /\ mirror.bound <= Sequential!Ceiling(Todo)

\* The module of the promise speaks of the same timestamps.
LEMMA SameTimes ==
  /\ Sequential!PreStream = PreStream /\ Sequential!PostStream = PostStream
  /\ Sequential!Done = Done
  /\ \A ts : Sequential!NextAllowedInStream(ts) = NextAllowedInStream(ts)
  BY DEF Sequential!PreStream, Sequential!PostStream, Sequential!Done,
         Sequential!NextAllowedInStream, Sequential!OneOverPostStream, Sequential!MinTs,
         Sequential!MaxTs, PreStream, PostStream, Done, NextAllowedInStream, OneOverPostStream,
         MinTs, MaxTs

\* What Todo is made of.
LEMMA TodoIs ==
  ASSUME Shape, TurnInv, FrontInv, InputInv
  PROVE  /\ Unsent \subseteq PreStream .. PostStream
         /\ InOrder(Unsent) \in Seq(PreStream .. PostStream)
         /\ in.queue \in Seq(PreStream .. PostStream)
         /\ Todo \in Seq(PreStream .. PostStream)
         /\ \A i \in 1 .. Len(Todo) : Todo[i] \in Left /\ Todo[i] < in.bound
<1>1. Unsent \subseteq PreStream .. PostStream
  BY UnsentIs DEF Shape
<1> DEFINE q == InOrder(Unsent)
<1>2. q \in Seq(PreStream .. PostStream) /\ Values(q) = Unsent
  BY <1>1, InOrderChanges
<1> HIDE DEF q
<1>3. in.queue \in Seq(PreStream .. PostStream)
  BY QueueFacts
<1>4. /\ q \o in.queue \in Seq(PreStream .. PostStream)
      /\ Len(q \o in.queue) = Len(q) + Len(in.queue)
      /\ \A i \in 1 .. Len(q) + Len(in.queue) :
           (q \o in.queue)[i] = IF i <= Len(q) THEN q[i] ELSE in.queue[i - Len(q)]
  BY <1>2, <1>3, ConcatProperties
<1>5. Len(q) \in Nat /\ Len(in.queue) \in Nat
  BY <1>2, <1>3, LenProperties
<1>6. ASSUME NEW i \in 1 .. Len(q) + Len(in.queue)
      PROVE  (q \o in.queue)[i] \in Left
  <2>1. CASE i <= Len(q)
    <3>1. i \in 1 .. Len(q) /\ (q \o in.queue)[i] = q[i]
      BY <1>4, <1>5, <2>1
    <3>2. QED
      BY <1>2, <3>1 DEF Left, Values
  <2>2. CASE ~(i <= Len(q))
    <3>1. i - Len(q) \in 1 .. Len(in.queue) /\ (q \o in.queue)[i] = in.queue[i - Len(q)]
      BY <1>4, <1>5, <2>2
    <3>2. QED
      BY <3>1 DEF Left, Values
  <2>3. QED
    BY <2>1, <2>2
<1>7. \A d \in Left : d < in.bound
  <2>1. Left \subseteq Kept
    BY UnsentIs DEF Left, Kept
  <2>2. \A c \in Kept : c \in Int /\ in.bound \in Int /\ NextAllowedInStream(c) \in c + 1 .. in.bound
    BY KeptFacts, QueueFacts
  <2>3. \A c \in Kept : c < in.bound
    BY <2>2
  <2>4. QED
    BY <2>1, <2>3
<1>8. Todo = q \o in.queue
  BY DEF Todo, q
<1>9. QED
  BY <1>1, <1>2, <1>3, <1>4, <1>6, <1>7, <1>8 DEF q

\* The first of the list is one of the packets.
LEMMA IsUnder == IInv /\ CeilInv => Under
<1>1. SUFFICES ASSUME IInv, CeilInv PROVE Under
  OBVIOUS
<1>2. Shape /\ TurnInv /\ FrontInv /\ InputInv
  BY <1>1 DEF IInv
<1>3. mirror.bound \in PreStream .. Done
  BY <1>2 DEF Shape, Ordered, Stream
<1>4. CASE Todo = <<>>
  <2>1. Sequential!Ceiling(Todo) = Done
    BY <1>4, SameTimes DEF Sequential!Ceiling
  <2>2. QED
    BY <1>3, <2>1, TimestampValues DEF Under
<1>5. CASE Todo # <<>>
  <2>1. Todo \in Seq(PreStream .. PostStream) /\ \A i \in 1 .. Len(Todo) : Todo[i] \in Left
    BY <1>2, TodoIs
  <2>2. 1 \in 1 .. Len(Todo) /\ Head(Todo) = Todo[1]
    BY <1>5, <2>1, EmptySeq, LenProperties
  <2>3. Head(Todo) \in Left
    BY <2>1, <2>2
  <2>4. mirror.bound <= Head(Todo)
    BY <1>1, <2>3 DEF CeilInv, Left
  <2>5. Sequential!Ceiling(Todo) = Head(Todo)
    BY <1>5 DEF Sequential!Ceiling
  <2>6. Head(Todo) \in Int
    BY <2>1, <2>2, TimestampValues, ElementOfSeq
  <2>7. QED
    BY <1>3, <2>4, <2>5, <2>6 DEF Under
<1>6. QED
  BY <1>4, <1>5

\* How the list of the packets changes.
LEMMA TodoMoves ==
  ASSUME IInv, [Next]_vars
  PROVE  /\ \A t \in Thread : PropagateOutputPackets(t) =>
              Todo # <<>> /\ Head(Todo) = carried /\ Todo' = Tail(Todo)
         /\ (\A t \in Thread : ~PropagateOutputPackets(t)) =>
              \/ Todo' = Todo
              \/ /\ Receives
                 /\ \E p \in PreStream .. PostStream :
                      Todo' = Append(Todo, p) /\ \A i \in 1 .. Len(Todo) : Todo[i] < p
<1>1. Shape /\ TurnInv /\ FrontInv /\ InputInv
  BY DEF IInv
<1> DEFINE q == InOrder(Unsent)
           U == Unsent
<1>2. /\ U \subseteq PreStream .. PostStream
      /\ q \in Seq(PreStream .. PostStream) /\ in.queue \in Seq(PreStream .. PostStream)
      /\ Todo = q \o in.queue
  BY <1>1, TodoIs DEF Todo
<1>3. ASSUME NEW t \in Thread, PropagateOutputPackets(t)
      PROVE  Todo # <<>> /\ Head(Todo) = carried /\ Todo' = Tail(Todo)
  <2>1. pc[t] = "send" /\ in' = in
    BY <1>3 DEF PropagateOutputPackets
  <2>2. carried \in U /\ carried = Least(U)
    BY <1>1, <2>1, UnsentIs
  <2>3. U' = U \ {Least(U)}
    <3>1. pc' # pc
      BY <1>1, <1>3 DEF PropagateOutputPackets, Shape, Go
    <3>2. \A v \in Thread : ~Takes(v)
      BY <3>1 DEF Takes
    <3>3. \/ U' = U /\ ~PropagateOutputPackets(t)
          \/ \E v \in Thread : Takes(v)
          \/ U' = U \ {Least(U)}
      BY UnsentMoves
    <3>4. QED
      BY <1>3, <3>2, <3>3
  <2>4. U # {}
    BY <2>2
  <2>5. /\ InOrder(U) # <<>> /\ Head(InOrder(U)) = Least(U)
        /\ Tail(InOrder(U)) = InOrder(U \ {Least(U)})
    BY <1>2, <2>4, InOrderChanges
  <2>6. q' = Tail(q)
    <3>1. q' = InOrder(U')
      OBVIOUS
    <3>2. QED
      BY <2>3, <2>5, <3>1, Zenon
  <2>7. /\ q \o in.queue # <<>> /\ Head(q \o in.queue) = Head(q)
        /\ Tail(q \o in.queue) = Tail(q) \o in.queue
    BY <1>2, <2>5, ConcatMoves
  <2>8. Todo' = q' \o in.queue
    BY <2>1 DEF Todo
  <2>9. QED
    BY <1>2, <2>2, <2>5, <2>6, <2>7, <2>8, Zenon
<1>4. ASSUME NEW t \in Thread, Takes(t), U' = U \cup {Head(in.queue)}
      PROVE  Todo' = Todo
  <2> DEFINE h == Head(in.queue)
  <2>1. in.queue # <<>>
    BY <1>4 DEF Takes
  <2>2. in' = [in EXCEPT !.queue = Tail(@), !.selected = h]
    <3>1. in' = PopAt(in, h).stream /\ Ordered(in)
      BY <1>1, <1>4 DEF Takes, Shape
    <3>2. PopAt(in, h).stream = [in EXCEPT !.queue = Tail(@), !.selected = h]
      BY <2>1, <3>1, PopHead, Zenon
    <3>3. QED
      BY <3>1, <3>2, Zenon
  <2>3. in'.queue = Tail(in.queue)
    BY <1>1, <2>2 DEF Shape, Ordered, Stream
  <2>4. h \in PreStream .. PostStream /\ \A d \in U : d < h
    <3>1. h \in PreStream .. PostStream
      BY <1>1, <2>1, QueueFacts
    <3>2. \A d \in contexts : d < h
      BY <1>1, <2>1, KeptFacts
    <3>3. U \subseteq contexts
      BY <1>1, UnsentIs
    <3>4. QED
      BY <3>1, <3>2, <3>3
  <2> HIDE DEF U, h
  <2>5. InOrder(U \cup {h}) = Append(InOrder(U), h)
    BY <1>2, <2>4, InOrderChanges
  <2>6. InOrder(U') = Append(InOrder(U), h)
    BY <1>4, <2>5 DEF h
  <2>7. q' = Append(q, h)
    BY <2>6, Zenon DEF U
  <2>8. Append(q, Head(in.queue)) \o Tail(in.queue) = q \o in.queue
    BY <1>2, <2>1, ConcatMoves
  <2>9. Todo' = q' \o in'.queue
    BY DEF Todo
  <2>10. QED
    BY <1>2, <2>3, <2>7, <2>8, <2>9, Zenon DEF h
<1>5. ASSUME U' = U, \A t \in Thread : ~Takes(t)
      PROVE  \/ Todo' = Todo
             \/ /\ Receives
                /\ \E p \in PreStream .. PostStream :
                     Todo' = Append(Todo, p) /\ \A i \in 1 .. Len(Todo) : Todo[i] < p
  <2>1. q' = q
    BY <1>5, Zenon
  <2>2. Todo' = q \o in'.queue
    BY <2>1 DEF Todo
  <2>3. CASE in'.queue = in.queue
    BY <1>2, <2>2, <2>3
  <2>4. ASSUME Receives, NEW p \in PreStream .. PostStream, p >= in.bound,
               in'.queue = Append(in.queue, p)
        PROVE  Todo' = Append(Todo, p) /\ \A i \in 1 .. Len(Todo) : Todo[i] < p
    <3>1. q \o Append(in.queue, p) = Append(q \o in.queue, p)
      BY <1>2, ConcatMoves
    <3>2. Todo \in Seq(PreStream .. PostStream) /\ \A i \in 1 .. Len(Todo) : Todo[i] < in.bound
      BY <1>1, TodoIs
    <3>3. \A i \in 1 .. Len(Todo) : Todo[i] \in PreStream .. PostStream
      BY <3>2, ElementOfSeq
    <3>4. in.bound \in Int /\ PreStream .. PostStream \subseteq Int
      BY <1>1, QueueFacts
    <3>5. \A i \in 1 .. Len(Todo) : Todo[i] < p
      BY <2>4, <3>2, <3>3, <3>4
    <3>6. QED
      BY <1>2, <2>2, <2>4, <3>1, <3>5
  <2>5. QED
    BY <1>1, <1>5, <2>3, <2>4, Input, Arrival
<1>6. QED
  BY <1>3, <1>4, <1>5, UnsentMoves

\* Every step is a step of the promise, or changes nothing of it.
LEMMA StepPromised ==
  ASSUME IInv, ChainInv, CeilInv, Under', [Next]_vars
  PROVE  [Sequential!Next]_(Sequential!svars)
<1>1. Shape /\ TurnInv /\ FrontInv /\ InputInv
  BY DEF IInv
<1>2. /\ mirror.bound \in Int /\ mirror'.bound \in Int
      /\ mirror'.bound <= Sequential!Ceiling(Todo')
      /\ Sequential!Ceiling(Todo') \in Int
  <2>1. /\ mirror'.bound \in PreStream .. Done /\ mirror'.bound <= Sequential!Ceiling(Todo')
        /\ Sequential!Ceiling(Todo') \in Int
    BY DEF Under, Sequential!Ceiling
  <2>2. mirror.bound \in PreStream .. Done
    BY <1>1 DEF Shape, Ordered, Stream
  <2>3. QED
    BY <2>1, <2>2, TimestampValues
<1>3. ASSUME Todo' = Todo, mirror'.queue = mirror.queue, mirror'.bound >= mirror.bound
      PROVE  [Sequential!Next]_(Sequential!svars)
  <2>1. CASE mirror'.bound = mirror.bound
    BY <1>3, <2>1 DEF Sequential!svars, Todo
  <2>2. CASE mirror'.bound # mirror.bound
    <3>1. mirror'.bound \in mirror.bound + 1 .. Sequential!Ceiling(Todo)
      BY <1>2, <1>3, <2>2
    <3>2. Sequential!RaiseBound
      BY <1>3, <3>1 DEF Sequential!RaiseBound, Todo
    <3>3. QED
      BY <3>2 DEF Sequential!Next
  <2>3. QED
    BY <2>1, <2>2
<1>4. ASSUME NEW t \in Thread, PropagateOutputPackets(t)
      PROVE  Sequential!Answer
  <2>1. Todo # <<>> /\ Head(Todo) = carried /\ Todo' = Tail(Todo)
    BY <1>4, TodoMoves
  <2>2. \/ /\ mirror'.queue = mirror.queue
           /\ \/ mirror'.bound = mirror.bound
              \/ /\ mirror'.bound \in Int /\ mirror'.bound > mirror.bound
        \/ /\ mirror'.queue = Append(mirror.queue, carried)
           /\ mirror.bound <= carried /\ mirror'.bound = NextAllowedInStream(carried)
    BY <1>4, Sends
  <2>3. CASE mirror'.queue = Append(mirror.queue, carried)
           /\ mirror.bound <= carried /\ mirror'.bound = NextAllowedInStream(carried)
    BY <2>1, <2>3, SameTimes DEF Sequential!Answer, Todo
  <2>4. CASE mirror'.queue = mirror.queue /\ mirror'.bound >= mirror.bound
    <3>1. mirror'.bound \in mirror.bound .. Sequential!Ceiling(Tail(Todo))
      BY <1>2, <1>3, <2>1, <2>4
    <3>2. QED
      BY <2>1, <2>4, <3>1 DEF Sequential!Answer, Todo
  <2>5. QED
    BY <1>2, <2>2, <2>3, <2>4
<1>5. ASSUME Receives, NEW p \in PreStream .. PostStream, Todo' = Append(Todo, p),
             \A i \in 1 .. Len(Todo) : Todo[i] < p
      PROVE  Sequential!Next
  <2>1. mirror' = mirror
    BY <1>1, <1>5, Arrival DEF downstream
  <2>2. Sequential!Accept(p)
    BY <1>5, <2>1, Zenon DEF Sequential!Accept, Todo
  <2>3. p \in Sequential!PreStream .. Sequential!PostStream
    BY SameTimes
  <2>4. QED
    BY <2>2, <2>3 DEF Sequential!Next
<1>6. ASSUME Todo' = Todo PROVE [Sequential!Next]_(Sequential!svars)
  <2>1. CASE mirror' = mirror
    BY <1>2, <1>3, <1>6, <2>1
  <2>2. ASSUME NEW t \in Thread, PropagateOutputPackets(t)
        PROVE  [Sequential!Next]_(Sequential!svars)
    BY <1>4, <2>2 DEF Sequential!Next
  <2>3. ASSUME NEW t \in Thread, RaiseMirrorBound(t)
        PROVE  [Sequential!Next]_(Sequential!svars)
    <3>1. mirror'.queue = mirror.queue /\ mirror'.bound >= mirror.bound
      BY <1>2, <2>3, Raised
    <3>2. QED
      BY <1>3, <1>6, <3>1
  <2>4. ASSUME NEW w \in Worker, Closes(w)
        PROVE  [Sequential!Next]_(Sequential!svars)
    <3>1. /\ in'.queue = <<>> /\ in.queue = <<>> /\ Unsent = {}
          /\ \/ mirror'.queue = mirror.queue /\ mirror'.bound \in mirror.bound .. Done
             \/ \E ts \in mirror.bound .. PostStream :
                  /\ mirror'.queue = Append(mirror.queue, ts)
                  /\ mirror'.bound = NextAllowedInStream(ts)
      BY <2>4, Closed
    <3>2. CASE mirror'.queue = mirror.queue /\ mirror'.bound \in mirror.bound .. Done
      <4>1. mirror'.bound >= mirror.bound
        BY <1>2, <3>2
      <4>2. QED
        BY <1>3, <1>6, <3>2, <4>1
    <3>3. ASSUME NEW ts \in mirror.bound .. PostStream,
                 mirror'.queue = Append(mirror.queue, ts),
                 mirror'.bound = NextAllowedInStream(ts)
          PROVE  Sequential!LastPacket
      <4>1. {} \subseteq PreStream .. PostStream
        OBVIOUS
      <4>2. InOrder({}) = <<>>
        BY <4>1, InOrderChanges
      <4>3. <<>> \o <<>> = <<>>
        BY EmptySeq, ConcatEmptySeq
      <4>4. Todo = <<>>
        BY <3>1, <4>2, <4>3 DEF Todo
      <4>5. ts \in mirror.bound .. Sequential!PostStream
        BY SameTimes
      <4>6. QED
        BY <1>6, <3>3, <4>4, <4>5, SameTimes DEF Sequential!LastPacket, Todo
    <3>4. QED
      BY <3>1, <3>2, <3>3 DEF Sequential!Next
  <2>5. QED
    BY <1>1, <2>1, <2>2, <2>3, <2>4, DownstreamMoves DEF downstream
<1>7. QED
  <2>1. CASE \E t \in Thread : PropagateOutputPackets(t)
    BY <1>4, <2>1 DEF Sequential!Next
  <2>2. CASE \A t \in Thread : ~PropagateOutputPackets(t)
    BY <1>5, <1>6, <2>2, TodoMoves
  <2>3. QED
    BY <2>1, <2>2

\* In the beginning there are no packets and no bounds.
LEMMA InitPromised == Init => ChainInv /\ CeilInv /\ Sequential!Init
<1>1. SUFFICES ASSUME Init PROVE ChainInv /\ CeilInv /\ Sequential!Init
  OBVIOUS
<1>2. /\ in.queue = <<>> /\ in.bound = PreStream /\ contexts = {}
      /\ mirror.queue = <<>> /\ mirror.bound = PreStream
      /\ \A t \in Thread : pc[t] \in {"check", "idle"}
  BY <1>1 DEF Init, FreshStream
<1>3. Values(<<>>) = {} /\ PreStream <= PreStream
  BY TimestampValues DEF Values
<1>4. Unsent = {}
  BY <1>2 DEF Unsent
<1>5. ChainInv
  BY <1>2, <1>3 DEF ChainInv, Kept, BoundPc
<1>6. CeilInv
  BY <1>2, <1>3, <1>4 DEF CeilInv
<1>7. {} \subseteq PreStream .. PostStream
  OBVIOUS
<1>8. InOrder({}) = <<>>
  BY <1>7, InOrderChanges
<1>9. <<>> \o <<>> = <<>>
  BY EmptySeq, ConcatEmptySeq
<1>10. Sequential!Init
  BY <1>2, <1>4, <1>8, <1>9, SameTimes DEF Sequential!Init
<1>11. QED
  BY <1>5, <1>6, <1>10

\* Refinement: parallel invocations look from outside like invocations one by
\* one, and the bound downstream never passes an invocation whose outputs have
\* not left.
THEOREM NodeLooksSequential == Spec => NodeIsSequential
<1> DEFINE Inv == IInv /\ ChainInv /\ CeilInv
<1>1. Init => Inv
  BY InitIInv, InitPromised
<1>2. Inv /\ [Next]_vars => Inv'
  <2>1. IInv /\ [Next]_vars => IInv'
    BY NextIInv
  <2>2. IInv /\ ChainInv /\ [Next]_vars => ChainInv'
    BY NextChain
  <2>3. IInv /\ ChainInv /\ CeilInv /\ [Next]_vars => CeilInv'
    BY NextCeil
  <2>4. QED
    BY <2>1, <2>2, <2>3
<1>3. Inv => Under
  BY IsUnder
<1>4. Init => Sequential!Init
  BY InitPromised
<1>5. Inv /\ Under' /\ [Next]_vars => [Sequential!Next]_(Sequential!svars)
  BY StepPromised
<1> HIDE DEF Inv
<1>6. QED
  BY <1>1, <1>2, <1>3, <1>4, <1>5, PTL DEF Spec, NodeIsSequential, Sequential!Spec
==============================================================================
