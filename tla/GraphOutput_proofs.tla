------------------------- MODULE GraphOutput_proofs -------------------------
(***************************************************************************)
(* One thread notifies the observer for all, for any number of threads,    *)
(* packets and runs, whatever the updates are and whether callbacks fail;  *)
(* what it and the poller are given comes in the order of time; nothing    *)
(* that can be observed stays behind, but for the packet that              *)
(* PacketsObserved excepts; and Next returns every packet before it ends.  *)
(***************************************************************************)
EXTENDS GraphOutput, SequenceTheorems, FiniteSetTheorems, TLAPS

-----------------------------------------------------------------------------
\* One stream: what its operations do to its queue and its bound, for any number of
\* timestamps, and facts about the order of timestamps.  ParallelNode_proofs
\* has the same lemmas: it is about other variables and cannot share them.

\* The packets of a stream wait in the order of their timestamps, below the
\* bound.
Ordered(s) ==
  /\ s \in Stream
  /\ Increasing(s.queue)
  /\ \A i \in 1 .. Len(s.queue) : s.queue[i] < s.bound

\* Where the next allowed timestamp of a packet is, and the previous one of a
\* bound.
LEMMA TimestampValues ==
  /\ PreStream = 0 /\ Unset = -2 /\ Unstarted = -1 /\ MinTs = 1
  /\ MaxTs \in Int /\ MaxTs >= 1
  /\ PostStream = MaxTs + 1 /\ OneOverPostStream = MaxTs + 2 /\ Done = MaxTs + 3
  BY LatestAssumption DEF PreStream, PostStream,
     Done, MinTs, MaxTs, Unstarted, OneOverPostStream, Unset

LEMMA TimestampOrder ==
  /\ \A t \in PreStream .. PostStream :
       NextAllowedInStream(t) \in t + 1 .. OneOverPostStream
  /\ \A t \in PreStream .. Done : /\ PreviousAllowedInStream(t) \in Unstarted .. MaxTs
                                  /\ PreviousAllowedInStream(t) < t
  BY TimestampValues DEF NextAllowedInStream, PreviousAllowedInStream

\* Adding one packet.
LEMMA AddOne ==
  ASSUME NEW s \in Stream, NEW p \in PreStream .. PostStream,
         NEW done, done = AddPackets(s, <<p>>)
  PROVE  \/ /\ done.stream = s /\ ~done.notify
            /\ s.closed \/ done.refused
         \/ /\ p >= s.bound /\ ~s.closed /\ ~done.refused
            /\ done.stream =
                 [s EXCEPT !.queue = Append(@, p), !.bound = NextAllowedInStream(p),
                           !.added = TRUE]
            /\ done.notify <=> s.queue = <<>>
<1> DEFINE ps == <<p>>
           Fits(k) == /\ \A i \in 1 .. k : Accepts(s, ps, i)
                      /\ k = Len(ps) \/ ~Accepts(s, ps, k + 1)
           n == CHOOSE k \in 0 .. Len(ps) : Fits(k)
           queue == s.queue \o SubSeq(ps, 1, n)
           bound == NextAllowedInStream(ps[n])
           more == [s EXCEPT !.queue = queue, !.bound = bound, !.added = TRUE]
           result == AddPackets(s, ps)
<1>0. done = result
  OBVIOUS
<1> HIDE DEF result
<1>1. Len(ps) = 1 /\ ps[1] = p /\ ps # <<>> /\ ps \in Seq(PreStream .. PostStream)
  OBVIOUS
<1>2. result = IF s.closed \/ n = 0
             THEN [stream |-> s, notify |-> FALSE, refused |-> ~s.closed /\ ps # <<>>]
             ELSE [stream |-> more, notify |-> n = Len(ps) /\ s.queue = <<>>,
                   refused |-> n < Len(ps)]
  BY Zenon DEF result, AddPackets
<1> HIDE DEF n, queue, bound, more
<1>3. CASE s.closed \/ n = 0
  <2>1. result = [stream |-> s, notify |-> FALSE, refused |-> ~s.closed /\ ps # <<>>]
    BY <1>2, <1>3
  <2>2. result.stream = s /\ result.notify = FALSE /\ result.refused = (~s.closed /\ ps # <<>>)
    BY <2>1, Zenon
  <2>3. QED
    BY <2>2, <1>1, <1>0
<1>4. CASE ~s.closed /\ n # 0
  <2>1. Accepts(s, ps, 1)
    <3>1. SUFFICES ASSUME ~Accepts(s, ps, 1) PROVE FALSE
      OBVIOUS
    <3>2. Fits(0) /\ ~Fits(1)
      BY <1>1, <3>1
    <3>3. n = 0
      BY <1>1, <3>2 DEF n
    <3>4. QED
      BY <3>3, <1>4
  <2>2. Fits(1) /\ ~Fits(0)
    BY <1>1, <2>1
  <2>3. n = 1
    BY <1>1, <2>2 DEF n
  <2>4. p >= s.bound
    BY <1>1, <2>1 DEF Accepts
  <2>5. queue = Append(s.queue, p) /\ bound = NextAllowedInStream(p)
    <3>1. s.queue \in Seq(PreStream .. PostStream)
      BY DEF Stream
    <3>2. SubSeq(ps, 1, n) = ps
      <4>1. SubSeq(<<p>>, 1, 1) = <<p>>
        BY <1>1, SubSeqFull
      <4>2. QED
        BY <4>1, <2>3
    <3>3. ps[n] = p
      BY <2>3, <1>1
    <3>4. queue = s.queue \o <<p>>
      BY <3>2 DEF queue
    <3>5. queue = Append(s.queue, p)
      BY <3>1, <3>4, AppendIsConcat
    <3>6. QED
      BY <3>3, <3>5 DEF bound
  <2>6. more = [s EXCEPT !.queue = Append(@, p), !.bound = NextAllowedInStream(p),
                         !.added = TRUE]
    BY <2>5, Zenon DEF more
  <2>7. result = [stream |-> more, notify |-> n = Len(ps) /\ s.queue = <<>>,
                refused |-> n < Len(ps)]
    BY <1>2, <1>4
  <2>8. result.stream = more /\ result.notify = (n = Len(ps) /\ s.queue = <<>>)
        /\ result.refused = (n < Len(ps))
    BY <2>7, Zenon
  <2>9. ~result.refused /\ (result.notify <=> s.queue = <<>>)
    <3>1. n = Len(ps) /\ ~(n < Len(ps))
      BY <2>3, <1>1
    <3>2. QED
      BY <2>8, <3>1, Zenon
  <2>10. QED
    BY <2>4, <2>6, <2>8, <2>9, <1>4, <1>0
<1>5. QED
  BY <1>3, <1>4

\* The packets of a queue that is not empty.
LEMMA QueueOf ==
  ASSUME NEW q \in Seq(PreStream .. PostStream), q # <<>>
  PROVE  /\ Len(q) \in Nat /\ Len(q) >= 1
         /\ Head(q) = q[1]
         /\ \A i \in 1 .. Len(q) : q[i] \in PreStream .. PostStream /\ q[i] \in Int
<1>1. Len(q) \in Nat /\ Len(q) >= 1 /\ Head(q) = q[1]
  OBVIOUS
<1>2. \A i \in 1 .. Len(q) : q[i] \in PreStream .. PostStream
  BY ElementOfSeq
<1>3. QED
  BY <1>1, <1>2, TimestampValues

\* Taking the first packet takes it alone.
LEMMA PopHead ==
  ASSUME NEW s, Ordered(s), s.queue # <<>>
  PROVE  PopAt(s, Head(s.queue)).stream =
           [s EXCEPT !.queue = Tail(@), !.selected = Head(s.queue)]
<1> DEFINE q == s.queue
           t == Head(q)
           Fits(k) == /\ \A i \in 1 .. k : q[i] <= t
                      /\ k = Len(q) \/ q[k + 1] > t
           n == CHOOSE k \in 0 .. Len(q) : Fits(k)
<1>1. /\ q \in Seq(PreStream .. PostStream) /\ Len(q) \in Nat /\ Len(q) >= 1
      /\ t = q[1]
      /\ \A i \in 1 .. Len(q) : q[i] \in Int
  <2>1. q \in Seq(PreStream .. PostStream) /\ q # <<>>
    BY DEF Ordered, Stream
  <2> HIDE DEF q
  <2>2. QED
    BY <2>1, QueueOf
<1>2. \A i \in 2 .. Len(q) : q[i] > t
  <2> SUFFICES ASSUME NEW i \in 2 .. Len(q) PROVE q[i] > t
    OBVIOUS
  <2>1. 1 \in 1 .. Len(q) /\ i \in 1 .. Len(q) /\ 1 < i
    BY <1>1
  <2>2. q[1] < q[i] /\ q[1] \in Int /\ q[i] \in Int
    BY <1>1, <2>1 DEF Ordered, Increasing
  <2>3. QED
    BY <2>2, <1>1
<1>3. Fits(1)
  <2>1. \A i \in 1 .. 1 : q[i] <= t
    BY <1>1
  <2>2. ASSUME 1 # Len(q) PROVE q[1 + 1] > t
    <3>1. \A m \in Nat : m >= 1 /\ 1 # m => 1 + 1 \in 2 .. m
      OBVIOUS
    <3>2. 1 + 1 \in 2 .. Len(q)
      BY <3>1, <1>1, <2>2, Zenon
    <3>3. QED
      BY <3>2, <1>2, Zenon
  <2>3. QED
    BY <2>1, <2>2
<1>4. \A k \in 0 .. Len(q) : Fits(k) => k = 1
  <2> SUFFICES ASSUME NEW k \in 0 .. Len(q), Fits(k) PROVE k = 1
    OBVIOUS
  <2>1. k # 0
    BY <1>1
  <2>2. ~(k >= 2)
    BY <1>1, <1>2
  <2>3. QED
    BY <2>1, <2>2, <1>1
<1>5. n = 1
  BY <1>1, <1>3, <1>4
<1>6. s.bound > t /\ s.bound \in Int
  BY <1>1, LatestAssumption DEF Ordered, Stream, PreStream, Done
<1>7. PopAt(s, t).stream = [s EXCEPT !.queue = SubSeq(@, n + 1, Len(@)), !.selected = t,
                                     !.bound = IF @ <= t THEN NextAllowedInStream(t) ELSE @]
  BY DEF PopAt
<1> HIDE DEF n
<1>8. SubSeq(q, n + 1, Len(q)) = Tail(q)
  BY <1>1, <1>5, TailIsSubSeq
<1>9. (IF s.bound <= t THEN NextAllowedInStream(t) ELSE s.bound) = s.bound
  BY <1>6, <1>1
<1>10. [s EXCEPT !.queue = Tail(q), !.selected = t, !.bound = s.bound] =
         [s EXCEPT !.queue = Tail(q), !.selected = t]
  BY DEF Ordered, Stream
<1>11. QED
  BY <1>7, <1>8, <1>9, <1>10, Zenon

\* What an accepted packet leaves.
LEMMA OrderedGrows ==
  ASSUME NEW s, Ordered(s), NEW p \in PreStream .. PostStream, p >= s.bound,
         NEW r, r = [s EXCEPT !.queue = Append(@, p), !.bound = NextAllowedInStream(p),
                              !.added = TRUE]
  PROVE  /\ Ordered(r)
         /\ MinTimestampOrBound(r) >= MinTimestampOrBound(s)
         /\ r.queue # <<>> /\ r.closed = s.closed
         /\ s.queue # <<>> => Head(r.queue) = Head(s.queue)
<1>1. /\ s.queue \in Seq(PreStream .. PostStream)
      /\ s.bound \in PreStream .. Done
      /\ r.queue = Append(s.queue, p) /\ r.bound = NextAllowedInStream(p)
      /\ r.selected = s.selected /\ r.closed = s.closed /\ r.added = TRUE
  BY DEF Ordered, Stream
<1>2. /\ r.bound \in p + 1 .. OneOverPostStream
      /\ PreStream = 0 /\ OneOverPostStream < Done
      /\ OneOverPostStream \in Int /\ PostStream \in Int
      /\ Done \in Int
  <2>1. NextAllowedInStream(p) \in p + 1 .. OneOverPostStream
    BY TimestampOrder
  <2>2. /\ PreStream = 0 /\ OneOverPostStream < Done
        /\ OneOverPostStream \in Int /\ PostStream \in Int
        /\ Done \in Int
    BY TimestampValues
  <2>3. QED
    BY <1>1, <2>1, <2>2, Zenon
<1>3. /\ r.queue \in Seq(PreStream .. PostStream) /\ r.queue # <<>>
      /\ Len(r.queue) = Len(s.queue) + 1
      /\ \A i \in 1 .. Len(s.queue) : r.queue[i] = s.queue[i]
      /\ r.queue[Len(s.queue) + 1] = p
  BY <1>1, AppendProperties
<1>4. r \in Stream
  <2>1. r = [queue |-> r.queue, bound |-> r.bound, selected |-> s.selected,
             added |-> TRUE, closed |-> s.closed]
    BY <1>1 DEF Ordered, Stream
  <2>2. r.bound \in PreStream .. Done
    BY <1>2
  <2>3. s.selected \in Unstarted .. Done /\ s.closed \in BOOLEAN
    BY DEF Ordered, Stream
  <2>4. QED
    BY <2>1, <2>2, <2>3, <1>3 DEF Stream
<1>5. \A i \in 1 .. Len(s.queue) : s.queue[i] < p /\ s.queue[i] \in Int
  BY <1>1, <1>2 DEF Ordered
<1>6. Increasing(r.queue)
  BY <1>3, <1>5, <1>1 DEF Increasing, Ordered
<1>7. \A i \in 1 .. Len(r.queue) : r.queue[i] < r.bound
  <2> SUFFICES ASSUME NEW i \in 1 .. Len(r.queue) PROVE r.queue[i] < r.bound
    OBVIOUS
  <2>1. r.bound \in Int /\ p \in Int /\ p < r.bound
    BY <1>2
  <2>2. CASE i \in 1 .. Len(s.queue)
    BY <2>1, <2>2, <1>3, <1>5
  <2>3. CASE i = Len(s.queue) + 1
    BY <2>1, <2>3, <1>3
  <2>4. QED
    BY <2>2, <2>3, <1>3, <1>1
<1>8. s.queue # <<>> => Head(r.queue) = Head(s.queue)
  BY <1>1, HeadTailAppend
<1>9. s.queue = <<>> => Head(r.queue) = p
  BY <1>1, HeadTailAppend
<1>10. MinTimestampOrBound(r) >= MinTimestampOrBound(s)
  <2>1. CASE s.queue = <<>>
    BY <2>1, <1>9, <1>3 DEF MinTimestampOrBound
  <2>2. CASE s.queue # <<>>
    <3>1. Head(s.queue) \in PreStream .. PostStream
      BY <1>1, <2>2, HeadTailProperties
    <3>2. QED
      BY <2>2, <3>1, <1>8, <1>3, <1>2 DEF MinTimestampOrBound
  <2>3. QED
    BY <2>1, <2>2
<1>11. QED
  BY <1>1, <1>3, <1>4, <1>6, <1>7, <1>8, <1>10 DEF Ordered

\* What a new bound leaves.
LEMMA OrderedBound ==
  ASSUME NEW s, Ordered(s), NEW b \in PreStream .. Done,
         NEW r, r = SetNextTimestampBound(s, b).stream
  PROVE  /\ Ordered(r)
         /\ MinTimestampOrBound(r) >= MinTimestampOrBound(s)
         /\ r.queue = s.queue /\ r.closed = s.closed
<1>1. /\ s.queue \in Seq(PreStream .. PostStream)
      /\ s.bound \in PreStream .. Done /\ PreStream \in Int
      /\ Done \in Int /\ PostStream \in Int
  BY LatestAssumption DEF Ordered, Stream, PreStream, Done, PostStream
<1>2. r = s \/ (r = [s EXCEPT !.bound = b] /\ b > s.bound)
  BY DEF SetNextTimestampBound
<1>3. CASE r = s
  <2>1. MinTimestampOrBound(s) \in Int
    BY <1>1, HeadTailProperties DEF MinTimestampOrBound
  <2>2. QED
    BY <1>3, <2>1
<1>4. CASE r = [s EXCEPT !.bound = b] /\ b > s.bound
  <2>1. r \in Stream /\ r.queue = s.queue /\ r.bound = b /\ r.closed = s.closed
    BY <1>4 DEF Ordered, Stream
  <2>2. \A i \in 1 .. Len(r.queue) : r.queue[i] < r.bound
    BY <2>1, <1>4, <1>1 DEF Ordered
  <2>3. MinTimestampOrBound(r) >= MinTimestampOrBound(s)
    BY <2>1, <1>4, <1>1, HeadTailProperties DEF MinTimestampOrBound
  <2>4. QED
    BY <2>1, <2>2, <2>3 DEF Ordered
<1>5. QED
  BY <1>2, <1>3, <1>4

\* What the first packet leaves when it is taken.
LEMMA OrderedPop ==
  ASSUME NEW s, Ordered(s), s.queue # <<>>,
         NEW r, r = PopAt(s, Head(s.queue)).stream
  PROVE  /\ Ordered(r)
         /\ MinTimestampOrBound(r) > Head(s.queue)
         /\ r.queue = Tail(s.queue) /\ r.closed = s.closed
<1>1. r = [s EXCEPT !.queue = Tail(@), !.selected = Head(s.queue)]
  BY PopHead
<1>2. /\ s.queue \in Seq(PreStream .. PostStream)
      /\ s.bound \in PreStream .. Done
      /\ PreStream = 0 /\ Unstarted = -1 /\ PostStream < Done
      /\ PostStream \in Int /\ Done \in Int
  BY TimestampValues DEF Ordered, Stream
<1>3. /\ Head(s.queue) \in PreStream .. PostStream
      /\ Tail(s.queue) \in Seq(PreStream .. PostStream)
      /\ Len(Tail(s.queue)) = Len(s.queue) - 1
      /\ \A i \in 1 .. Len(Tail(s.queue)) : Tail(s.queue)[i] = s.queue[i + 1]
  BY <1>2, HeadTailProperties
<1>4. /\ r \in Stream /\ r.queue = Tail(s.queue) /\ r.bound = s.bound
      /\ r.closed = s.closed
  <2> DEFINE tail == Tail(s.queue)
             head == Head(s.queue)
  <2>1. r = [s EXCEPT !.queue = tail, !.selected = head]
    BY <1>1
  <2>2. tail \in Seq(PreStream .. PostStream) /\ head \in Unstarted .. Done
    BY <1>2, <1>3
  <2>3. s \in Stream
    BY DEF Ordered
  <2> HIDE DEF tail, head
  <2>4. r \in Stream /\ r.queue = tail /\ r.bound = s.bound /\ r.closed = s.closed
    BY <2>1, <2>2, <2>3 DEF Stream
  <2>5. QED
    BY <2>4 DEF tail
<1>5. /\ Len(s.queue) \in Nat /\ Len(s.queue) >= 1
      /\ Head(s.queue) = s.queue[1]
      /\ Len(r.queue) = Len(s.queue) - 1
      /\ \A i \in 1 .. Len(r.queue) : r.queue[i] = s.queue[i + 1]
  <2>1. Len(s.queue) \in Nat /\ Len(s.queue) >= 1 /\ Head(s.queue) = s.queue[1]
    BY <1>2
  <2>2. QED
    BY <2>1, <1>3, <1>4
<1>6. Increasing(r.queue)
  <2> SUFFICES ASSUME NEW i \in 1 .. Len(r.queue), NEW j \in 1 .. Len(r.queue), i < j
               PROVE  r.queue[i] < r.queue[j]
    BY DEF Increasing
  <2>1. i + 1 \in 1 .. Len(s.queue) /\ j + 1 \in 1 .. Len(s.queue) /\ i + 1 < j + 1
    BY <1>5
  <2>2. QED
    BY <2>1, <1>5 DEF Ordered, Increasing
<1>7. \A i \in 1 .. Len(r.queue) : r.queue[i] < r.bound
  <2> SUFFICES ASSUME NEW i \in 1 .. Len(r.queue) PROVE r.queue[i] < r.bound
    OBVIOUS
  <2>1. i + 1 \in 1 .. Len(s.queue)
    BY <1>5
  <2>2. QED
    BY <2>1, <1>4, <1>5 DEF Ordered
<1>8. MinTimestampOrBound(r) > Head(s.queue)
  <2>1. CASE r.queue = <<>>
    BY <2>1, <1>3, <1>4, <1>5 DEF MinTimestampOrBound, Ordered
  <2>2. CASE r.queue # <<>>
    <3>1. Head(r.queue) = s.queue[2] /\ 2 \in 1 .. Len(s.queue)
      <4>1. r.queue \in Seq(PreStream .. PostStream)
        BY <1>3, <1>4
      <4>2. Len(r.queue) >= 1 /\ Head(r.queue) = r.queue[1]
        BY <4>1, <2>2
      <4>3. QED
        BY <4>2, <1>5
    <3>2. s.queue[1] < s.queue[2] /\ s.queue[1] \in Int /\ s.queue[2] \in Int
      BY <3>1, <1>2, <1>5 DEF Ordered, Increasing
    <3>3. QED
      BY <3>1, <3>2, <2>2, <1>5 DEF MinTimestampOrBound, Ordered, Increasing
  <2>3. QED
    BY <2>1, <2>2
<1>9. QED
  BY <1>4, <1>6, <1>7, <1>8 DEF Ordered

\* Queues as sets.

\* Two sequences that differ by a last value.
LEMMA AppendValues ==
  ASSUME NEW q \in Seq(PreStream .. PostStream), NEW p \in PreStream .. PostStream
  PROVE  Values(Append(q, p)) = Values(q) \cup {p}
<1> DEFINE r == Append(q, p)
<1>1. /\ Len(q) \in Nat /\ Len(r) = Len(q) + 1 /\ r[Len(q) + 1] = p
      /\ \A i \in 1 .. Len(q) : r[i] = q[i]
  BY AppendProperties
<1> HIDE DEF r
<1>2. 1 .. Len(r) = (1 .. Len(q)) \cup {Len(q) + 1}
  BY <1>1
<1>3. QED
  BY <1>1, <1>2 DEF Values, r

LEMMA AppendIncreases ==
  ASSUME NEW q \in Seq(PreStream .. PostStream), NEW p \in PreStream .. PostStream,
         Increasing(q), \A m \in Values(q) : m < p
  PROVE  Increasing(Append(q, p))
<1> DEFINE r == Append(q, p)
<1>1. /\ Len(q) \in Nat /\ Len(r) = Len(q) + 1 /\ r[Len(q) + 1] = p
      /\ \A i \in 1 .. Len(q) : r[i] = q[i]
  BY AppendProperties
<1> HIDE DEF r
<1> SUFFICES ASSUME NEW i \in 1 .. Len(r), NEW k \in 1 .. Len(r), i < k
             PROVE  r[i] < r[k]
  BY DEF Increasing, r
<1>2. i \in 1 .. Len(q) /\ (k \in 1 .. Len(q) \/ k = Len(q) + 1)
  BY <1>1
<1>3. CASE k \in 1 .. Len(q)
  BY <1>1, <1>2, <1>3 DEF Increasing
<1>4. CASE k = Len(q) + 1
  <2>1. q[i] \in Values(q)
    BY <1>2 DEF Values
  <2>2. QED
    BY <1>1, <1>2, <1>4, <2>1
<1>5. QED
  BY <1>2, <1>3, <1>4

LEMMA TailValues ==
  ASSUME NEW q \in Seq(PreStream .. PostStream), q # <<>>
  PROVE  Values(q) = Values(Tail(q)) \cup {Head(q)}
<1> DEFINE r == Tail(q)
<1>1. /\ Len(q) \in Nat /\ Len(q) >= 1 /\ Len(r) = Len(q) - 1 /\ Head(q) = q[1]
      /\ \A i \in 1 .. Len(r) : r[i] = q[i + 1]
  BY HeadTailProperties
<1> HIDE DEF r
<1>2. \A i \in 1 .. Len(q) : i = 1 \/ (i - 1 \in 1 .. Len(r) /\ r[i - 1] = q[i])
  BY <1>1
<1>3. \A i \in 1 .. Len(r) : i + 1 \in 1 .. Len(q) /\ r[i] = q[i + 1]
  BY <1>1
<1>4. 1 \in 1 .. Len(q)
  BY <1>1
<1>5. ASSUME NEW m \in Values(q) PROVE m \in Values(r) \cup {Head(q)}
  BY <1>1, <1>2 DEF Values
<1>6. ASSUME NEW m \in Values(r) \cup {Head(q)} PROVE m \in Values(q)
  BY <1>1, <1>3, <1>4 DEF Values
<1>7. QED
  BY <1>5, <1>6 DEF r

-----------------------------------------------------------------------------
\* The invariant.

\* The places inside the loop of Notify, and the others.
Loop == {"look", "callback", "recheck"}
Elsewhere == {"idle", "update", "enter", "failed", "signal"}

Inside(t) == pc[t] \in Loop

\* After a failed callback nobody enters again, because notifying_ stays.
IInv ==
  /\ pc \in [Thread -> Loop \cup Elsewhere]
  /\ notifying \in BOOLEAN /\ failed \in BOOLEAN
  /\ \A t, u \in Thread : Inside(t) /\ Inside(u) => t = u
  /\ failed => \A t \in Thread : ~Inside(t)
  /\ notifying <=> failed \/ \E t \in Thread : Inside(t)

\* A thread goes on to the next part of its update, or has none.
LEMMA OnwardType == \A j : Onward(j) \in {"idle", "update"}
  BY DEF Onward

\* A step that neither enters nor leaves the loop.
LEMMA Outside ==
  ASSUME IInv, NEW t \in Thread, NEW x \in Elsewhere,
         pc' = [pc EXCEPT ![t] = x],
         ~Inside(t),
         UNCHANGED <<notifying, failed>>
  PROVE  IInv'
<1>1. \A u \in Thread : Inside(u)' <=> Inside(u)
  BY DEF IInv, Inside, Loop, Elsewhere
<1>2. pc' \in [Thread -> Loop \cup Elsewhere]
  BY DEF IInv
<1>3. QED
  BY <1>1, <1>2 DEF IInv

\* A step of the loop.
LEMMA Stays ==
  ASSUME IInv, NEW t \in Thread, NEW x \in Loop,
         pc' = [pc EXCEPT ![t] = x], Inside(t),
         UNCHANGED <<notifying, failed>>
  PROVE  IInv'
<1>1. \A u \in Thread : Inside(u)' <=> Inside(u)
  BY DEF IInv, Inside, Loop, Elsewhere
<1>2. pc' \in [Thread -> Loop \cup Elsewhere]
  BY DEF IInv
<1>3. QED
  BY <1>1, <1>2 DEF IInv

\* The thread in the loop leaves it, and clears notifying_ or has failed.
LEMMA Leaves ==
  ASSUME IInv, NEW t \in Thread, NEW x \in Elsewhere,
         pc' = [pc EXCEPT ![t] = x], Inside(t),
         \/ notifying' = FALSE /\ failed' = failed
         \/ notifying' = notifying /\ failed' = TRUE
  PROVE  IInv'
<1>1. \A u \in Thread : ~Inside(u)'
  BY DEF IInv, Inside, Loop, Elsewhere
<1>2. pc' \in [Thread -> Loop \cup Elsewhere]
  BY DEF IInv
<1>3. notifying /\ ~failed
  BY DEF IInv
<1>4. CASE notifying' = FALSE /\ failed' = failed
  <2>1. ~notifying' /\ ~failed'
    BY <1>3, <1>4
  <2>2. notifying' \in BOOLEAN /\ failed' \in BOOLEAN
    BY <1>4 DEF IInv
  <2>3. QED
    BY <1>1, <1>2, <2>1, <2>2 DEF IInv
<1>5. CASE notifying' = notifying /\ failed' = TRUE
  <2>1. notifying' /\ failed'
    BY <1>3, <1>5
  <2>2. notifying' \in BOOLEAN /\ failed' \in BOOLEAN
    BY <1>5 DEF IInv
  <2>3. QED
    BY <1>1, <1>2, <2>1, <2>2 DEF IInv
<1>6. QED
  BY <1>4, <1>5

\* The invariant is about pc, notifying_ and the failure alone.
LEMMA Same ==
  ASSUME IInv, UNCHANGED <<pc, notifying, failed>>
  PROVE  IInv'
  BY DEF IInv, Inside, Loop, Elsewhere

\* The first state: nobody notifies.
LEMMA InitIInv == Init => IInv
  BY DEF Init, IInv, Inside, Loop, Elsewhere

\* Each step of a thread in an update keeps the invariant.
LEMMA ThreadSteps ==
  ASSUME IInv, NEW t \in Thread, Continue(t)
  PROVE  IInv'
<1>1. CASE UpdateMirror(t)
  <2>1. PICK x \in {"failed", "idle", "update", "enter", "signal"} :
          pc' = [pc EXCEPT ![t] = x]
    BY <1>1, OnwardType DEF UpdateMirror
  <2>2. ~Inside(t) /\ UNCHANGED <<notifying, failed>>
    BY <1>1 DEF UpdateMirror, Inside, observer, Loop, Elsewhere
  <2>3. QED
    BY <2>1, <2>2, Outside DEF Loop, Elsewhere
<1>2. CASE RecordError(t)
  <2>1. ~Inside(t) /\ UNCHANGED <<notifying, failed>>
    BY <1>2 DEF RecordError, Inside, observer, Loop, Elsewhere
  <2>2. QED
    BY <1>2, <2>1, Outside, OnwardType DEF RecordError, Loop, Elsewhere
<1>3. CASE Signal(t)
  <2>1. ~Inside(t) /\ UNCHANGED <<notifying, failed>>
    BY <1>3 DEF Signal, Inside, observer, Loop, Elsewhere
  <2>2. QED
    BY <1>3, <2>1, Outside, OnwardType DEF Signal, Loop, Elsewhere
<1>4. CASE Enter(t)
  <2>1. CASE notifying
    <3>1. ~Inside(t) /\ UNCHANGED <<notifying, failed>>
      BY <1>4, <2>1 DEF Enter, Inside, IInv, Loop, Elsewhere
    <3>2. QED
      BY <1>4, <2>1, <3>1, Outside, OnwardType DEF Enter, Loop, Elsewhere
  <2>2. CASE ~notifying
    <3>1. /\ pc' = [pc EXCEPT ![t] = "look"]
          /\ notifying' = TRUE /\ failed' = failed
      BY <1>4, <2>2 DEF Enter
    <3>2. ~failed /\ \A u \in Thread : ~Inside(u)
      BY <2>2 DEF IInv
    <3>3. \A u \in Thread : Inside(u)' <=> u = t
      BY <3>1, <3>2 DEF IInv, Inside, Loop, Elsewhere
    <3>4. pc' \in [Thread -> Loop \cup Elsewhere]
      BY <3>1 DEF IInv, Loop, Elsewhere
    <3>5. QED
      BY <3>1, <3>2, <3>3, <3>4 DEF IInv
  <2>3. QED
    BY <2>1, <2>2
<1>5. CASE Look(t)
  <2>1. Inside(t) /\ UNCHANGED <<notifying, failed>>
    BY <1>5 DEF Look, Inside, Loop, Elsewhere
  <2>2. PICK x \in {"recheck", "callback"} : pc' = [pc EXCEPT ![t] = x]
    BY <1>5 DEF Look
  <2>3. QED
    BY <2>1, <2>2, Stays DEF Loop, Elsewhere
<1>6. CASE CallbackReturns(t)
  <2>1. Inside(t) /\ UNCHANGED <<notifying, failed>>
    BY <1>6 DEF CallbackReturns, Inside, Loop, Elsewhere
  <2>2. PICK x \in {"look", "recheck"} : pc' = [pc EXCEPT ![t] = x]
    BY <1>6 DEF CallbackReturns
  <2>3. QED
    BY <2>1, <2>2, Stays DEF Loop, Elsewhere
<1>7. CASE CallbackFails(t)
  <2>1. /\ Inside(t) /\ pc' = [pc EXCEPT ![t] = "failed"]
        /\ notifying' = notifying /\ failed' = TRUE
    BY <1>7 DEF CallbackFails, Inside, Loop, Elsewhere
  <2>2. QED
    BY <2>1, Leaves DEF Loop, Elsewhere
<1>8. CASE Recheck(t)
  <2>1. Inside(t) /\ failed' = failed /\ notifying
    BY <1>8 DEF Recheck, Inside, IInv, Loop, Elsewhere
  <2>2. \/ notifying' = TRUE /\ pc' = [pc EXCEPT ![t] = "look"]
        \/ notifying' = FALSE /\ pc' = [pc EXCEPT ![t] = Onward(job[t])]
    BY <1>8 DEF Recheck
  <2>3. CASE notifying' = TRUE /\ pc' = [pc EXCEPT ![t] = "look"]
    BY <2>1, <2>3, Stays DEF IInv, Loop, Elsewhere
  <2>4. CASE notifying' = FALSE /\ pc' = [pc EXCEPT ![t] = Onward(job[t])]
    BY <2>1, <2>4, Leaves, OnwardType DEF Loop, Elsewhere
  <2>5. QED
    BY <2>2, <2>3, <2>4
<1>9. QED
  BY <1>1, <1>2, <1>3, <1>4, <1>5, <1>6, <1>7, <1>8 DEF Continue

\* The invariant is inductive.
LEMMA NextIInv == IInv /\ [Next]_vars => IInv'
<1> SUFFICES ASSUME IInv, [Next]_vars PROVE IInv'
  OBVIOUS
<1>1. ASSUME NEW t \in Thread, NEW ps, NEW b, StartUpdate(t, ps, b)
      PROVE  IInv'
  <2>1. /\ ~Inside(t) /\ pc' = [pc EXCEPT ![t] = "update"]
        /\ UNCHANGED <<notifying, failed>>
    BY <1>1 DEF StartUpdate, MayStart, Inside, observer, Loop, Elsewhere
  <2>2. QED
    BY <2>1, Outside DEF Loop, Elsewhere
<1>2. ASSUME GraphFails \/ CallNext \/ CheckStream \/ TakePacket \/ PrepareForRun
      PROVE  IInv'
  BY <1>2, Same
  DEF GraphFails, CallNext, CheckStream, TakePacket, PrepareForRun, observer
<1>3. CASE UNCHANGED vars
  BY <1>3, Same DEF vars, observer
<1>4. QED
  BY <1>1, <1>2, <1>3, ThreadSteps DEF Next, Continue

\* graph_output_stream.cc:88: the callback is never entered by two threads at
\* once, and notifying_ says whether one is inside or a callback has failed.
THEOREM OneThreadNotifies == Spec => []OneNotifier
<1>1. IInv => OneNotifier
  <2> SUFFICES ASSUME IInv PROVE OneNotifier
    OBVIOUS
  <2>1. \A t \in Thread : t \in Notifiers <=> Inside(t)
    BY DEF Notifiers, Inside, Loop
  <2>2. Notifiers = {} \/ \E t \in Thread : Notifiers = {t}
    BY <2>1 DEF IInv, Notifiers
  <2>3. Cardinality(Notifiers) <= 1
    <3>1. CASE Notifiers = {}
      BY <3>1, FS_EmptySet
    <3>2. CASE \E t \in Thread : Notifiers = {t}
      <4>1. Cardinality(Notifiers) = 1
        BY <3>2, FS_Singleton
      <4>2. QED
        BY <4>1
    <3>3. QED
      BY <2>2, <3>1, <3>2
  <2>4. notifying <=> Notifiers # {} \/ failed
    BY <2>1 DEF IInv, Notifiers
  <2>5. QED
    BY <2>3, <2>4 DEF OneNotifier
<1>2. QED
  BY <1>1, InitIInv, NextIInv, PTL DEF Spec

-----------------------------------------------------------------------------
\* Which values go together.

\* What a thread may still have to do.
Job ==
  {NoJob} \cup
  {j \in [packets : Updates, bound : MinTs .. Done, part : {"add", "bound"}] :
     j.part = "add" => j.packets # <<>>}

Min == MinTimestampOrBound(stream)

\* The parts of the invariant that says which values go together: the stream,
\* the updates, what the observer has seen and reported, the poller.
StreamShape == Ordered(stream) /\ ~stream.closed

JobShape ==
  /\ pc \in [Thread -> Loop \cup Elsewhere]
  /\ job \in [Thread -> Job]
  /\ \A t \in Thread : pc[t] = "update" => job[t] # NoJob

KindShape ==
  /\ kind \in {"observer", "poller"}
  /\ \A t \in Thread : pc[t] \in {"enter"} \cup Loop => kind = "observer"
  /\ pollPc # "idle" => kind = "poller"

SeenShape ==
  /\ seen \in [Thread -> Event]
  /\ \A t \in Thread : pc[t] = "callback" =>
       seen[t].ts \in PreStream .. (IF seen[t].packet THEN PostStream
                                    ELSE OneOverPostStream)
  /\ \A t \in Thread : pc[t] = "recheck" => ~seen[t].packet

ObserverShape ==
  lastProcessed \in Unstarted .. PostStream /\ observed \in Seq(Event)

PollerShape ==
  /\ pollPc \in {"idle", "check", "wait", "take", "end"}
  /\ outputTs \in Unstarted .. PostStream
  /\ polled \in Seq(Event)
  /\ pollPc = "take" => stream.queue # <<>> /\ outputTs = Head(stream.queue)

RestShape ==
  /\ outBound \in PreStream .. Done
  /\ sent \in Seq(PreStream .. PostStream)
  /\ bounds \in BOOLEAN /\ notifying \in BOOLEAN
  /\ carries \in BOOLEAN /\ hasError \in BOOLEAN
  /\ overlapped \in BOOLEAN /\ failed \in BOOLEAN
  /\ run \in 1 .. MaxRuns

Shape ==
  /\ StreamShape /\ JobShape /\ KindShape /\ SeenShape
  /\ ObserverShape /\ PollerShape /\ RestShape

\* The values go together at first.
LEMMA InitShape == Init => Shape
<1> SUFFICES ASSUME Init PROVE Shape
  OBVIOUS
<1>1. StreamShape
  <2>1. FreshStream \in Stream
    BY TimestampValues DEF FreshStream, Stream
  <2>2. QED
    BY <2>1 DEF Init, StreamShape, Ordered, Increasing, FreshStream
<1>2. JobShape /\ KindShape
  BY DEF Init, JobShape, KindShape, Job, Loop, Elsewhere
<1>3. SeenShape
  BY TimestampValues DEF Init, SeenShape, Event, Timestamp
<1>4. ObserverShape /\ PollerShape
  BY TimestampValues DEF Init, ObserverShape, PollerShape
<1>5. RestShape
  <2>1. outBound \in PreStream .. Done /\ run \in 1 .. MaxRuns
    BY TimestampValues, GraphOutputAssumption DEF Init
  <2>2. sent \in Seq(PreStream .. PostStream)
    BY DEF Init
  <2>3. QED
    BY <2>1, <2>2 DEF Init, RestShape
<1>6. QED
  BY <1>1, <1>2, <1>3, <1>4, <1>5 DEF Shape

\* The shape of the values is what the type invariant says, and more.
LEMMA ShapeTypes == Shape => TypeOK
<1> SUFFICES ASSUME Shape PROVE TypeOK
  OBVIOUS
<1>1. ASSUME NEW t \in Thread
      PROVE  /\ job[t].packets \in Seq(PreStream .. PostStream)
             /\ job[t].bound \in Timestamp
             /\ job[t].part \in {"none", "add", "bound"}
  <2>1. job[t] \in Job
    BY DEF Shape, JobShape
  <2>2. CASE job[t] = NoJob
    BY <2>2, TimestampValues DEF NoJob, Timestamp
  <2>3. CASE job[t] \in [packets : Updates, bound : MinTs .. Done, part : {"add", "bound"}]
    <3>1. /\ job[t].packets \in Updates /\ job[t].bound \in MinTs .. Done
          /\ job[t].part \in {"add", "bound"}
      BY <2>3
    <3>2. job[t].bound \in Timestamp
      BY <3>1, TimestampValues DEF Timestamp
    <3>3. Updates \subseteq Seq(PreStream .. PostStream)
      <4> SUFFICES ASSUME NEW u \in Updates PROVE u \in Seq(PreStream .. PostStream)
        OBVIOUS
      <4>1. u = <<>> \/ \E p \in PreStream .. PostStream : u = <<p>>
        BY DEF Updates
      <4>2. ASSUME NEW p \in PreStream .. PostStream
            PROVE  <<p>> \in Seq(PreStream .. PostStream)
        OBVIOUS
      <4>3. <<>> \in Seq(PreStream .. PostStream)
        OBVIOUS
      <4>4. QED
        BY <4>1, <4>2, <4>3, Zenon
    <3>4. QED
      BY <3>1, <3>2, <3>3
  <2>4. QED
    BY <2>1, <2>2, <2>3 DEF Job
<1>2. /\ kind \in {"observer", "poller"} /\ stream \in Stream
      /\ pc \in [Thread -> {"idle", "update", "enter", "look", "callback",
                            "recheck", "failed", "signal"}]
      /\ seen \in [Thread -> Event]
  BY DEF Shape, KindShape, StreamShape, Ordered, JobShape, SeenShape, Loop, Elsewhere
<1>3. QED
  BY <1>1, <1>2 DEF Shape, TypeOK, ObserverShape, PollerShape, RestShape

\* Where the bound that is reported lies.
LEMMA SettledOrder ==
  ASSUME NEW m \in PreStream .. Done
  PROVE  /\ Settled(m) \in Unstarted .. PostStream
         /\ m = PostStream => Settled(m) = PostStream
         /\ m # PostStream => Settled(m) < m /\ Settled(m) <= MaxTs
  BY TimestampOrder, TimestampValues DEF Settled

\* What the callback is given.
LEMMA ToldShape ==
  ASSUME Shape, NEW t \in Thread, pc[t] = "callback"
  PROVE  /\ Told(t) \in Event /\ Told(t).ts \in Unstarted .. PostStream
         /\ Told(t).packet = seen[t].packet
         /\ Told(t).ts = IF seen[t].packet THEN seen[t].ts ELSE Settled(seen[t].ts)
<1>1. seen[t] \in Event
  BY DEF Shape, SeenShape
<1>2. /\ seen[t].ts \in PreStream .. Done
      /\ seen[t].packet => seen[t].ts \in Unstarted .. PostStream
  BY TimestampValues DEF Shape, SeenShape
<1>3. Settled(seen[t].ts) \in Unstarted .. PostStream
  BY <1>2, SettledOrder
<1> DEFINE ts == IF seen[t].packet THEN seen[t].ts ELSE Settled(seen[t].ts)
<1>4. Told(t) = [seen[t] EXCEPT !.ts = ts]
  BY DEF Told
<1>5. ts \in Unstarted .. PostStream
  BY <1>2, <1>3
<1>6. ts \in Timestamp
  BY <1>5, TimestampValues DEF Timestamp
<1> HIDE DEF ts
<1>7. Told(t) \in Event /\ Told(t).ts = ts /\ Told(t).packet = seen[t].packet
  BY <1>1, <1>4, <1>6 DEF Event
<1>8. QED
  BY <1>5, <1>7 DEF ts

\* The update of the mirror keeps the packets in order, and who makes the first
\* packet or another bound of an empty queue visible enters Notify.
LEMMA Mirrors ==
  ASSUME Shape, NEW t \in Thread, UpdateMirror(t)
  PROVE  /\ StreamShape' /\ Min' >= Min
         /\ stream.queue # <<>> => /\ stream'.queue # <<>>
                                   /\ Head(stream'.queue) = Head(stream.queue)
         /\ kind = "observer" /\ stream.queue = <<>> /\ stream' # stream =>
              pc' = [pc EXCEPT ![t] = "enter"]
<1> DEFINE j == job[t]
           done == IF j.part = "add" THEN AddPackets(stream, j.packets)
                   ELSE SetNextTimestampBound(stream, j.bound)
<1>1. /\ stream' = done.stream /\ pc \in [Thread -> Loop \cup Elsewhere]
      /\ pc' = [pc EXCEPT ![t] =
                 IF done.refused THEN "failed"
                 ELSE IF ~done.notify THEN Onward(Advance(j))
                 ELSE IF kind = "observer" THEN "enter" ELSE "signal"]
      /\ Ordered(stream) /\ ~stream.closed
  BY DEF UpdateMirror, Shape, JobShape, StreamShape
<1>2. /\ j.packets \in Updates /\ j.bound \in MinTs .. Done
      /\ j.part \in {"add", "bound"}
      /\ j.part = "add" => j.packets # <<>>
  <2>1. j \in Job /\ j # NoJob
    BY DEF UpdateMirror, Shape, JobShape
  <2> HIDE DEF j
  <2>2. QED
    BY <2>1 DEF Job
<1>3. Min \in Int
  <2>1. stream.queue \in Seq(PreStream .. PostStream) /\ stream.bound \in PreStream .. Done
    BY <1>1 DEF Ordered, Stream
  <2>2. stream.queue # <<>> => Head(stream.queue) \in PreStream .. PostStream
    BY <2>1, HeadTailProperties
  <2>3. QED
    BY <2>1, <2>2, TimestampValues DEF Min, MinTimestampOrBound
<1>4. Min' = MinTimestampOrBound(stream')
  BY DEF Min
<1> HIDE DEF j
<1>5. CASE j.part = "add"
  <2>1. PICK p \in PreStream .. PostStream : j.packets = <<p>>
    BY <1>2, <1>5 DEF Updates
  <2>2. done = AddPackets(stream, <<p>>)
    BY <1>5, <2>1
  <2> HIDE DEF done
  <2>3. stream \in Stream
    BY <1>1 DEF Ordered
  <2>4. \/ done.stream = stream
        \/ /\ p >= stream.bound /\ ~done.refused
           /\ done.stream = [stream EXCEPT !.queue = Append(@, p),
                               !.bound = NextAllowedInStream(p), !.added = TRUE]
           /\ done.notify <=> stream.queue = <<>>
    BY <2>2, <2>3, AddOne
  <2>5. CASE stream' = stream
    <3>1. StreamShape'
      BY <2>5, <1>1 DEF StreamShape
    <3>2. Min' = Min
      BY <2>5, <1>4 DEF Min
    <3>3. QED
      BY <2>5, <3>1, <3>2, <1>3
  <2>6. CASE /\ p >= stream.bound /\ ~done.refused
             /\ done.stream = [stream EXCEPT !.queue = Append(@, p),
                                 !.bound = NextAllowedInStream(p), !.added = TRUE]
             /\ done.notify <=> stream.queue = <<>>
    <3>0. stream' = [stream EXCEPT !.queue = Append(@, p),
                                   !.bound = NextAllowedInStream(p), !.added = TRUE]
      BY <2>6, <1>1
    <3>1. /\ Ordered(stream')
          /\ MinTimestampOrBound(stream') >= MinTimestampOrBound(stream)
          /\ stream'.queue # <<>> /\ stream'.closed = stream.closed
          /\ stream.queue # <<>> => Head(stream'.queue) = Head(stream.queue)
      BY <2>6, <3>0, <1>1, OrderedGrows
    <3>2. StreamShape'
      BY <3>1, <1>1 DEF StreamShape
    <3>3. QED
      BY <3>1, <3>2, <2>6, <1>1, <1>4 DEF Min
  <2>7. QED
    BY <2>4, <2>5, <2>6, <1>1
<1>6. CASE j.part = "bound"
  <2>1. done = SetNextTimestampBound(stream, j.bound)
    BY <1>6
  <2>2. j.bound \in PreStream .. Done
    BY <1>2, TimestampValues
  <2>3. /\ Ordered(stream')
        /\ MinTimestampOrBound(stream') >= MinTimestampOrBound(stream)
        /\ stream'.queue = stream.queue /\ stream'.closed = stream.closed
    BY <1>1, <2>1, <2>2, OrderedBound
  <2>4. StreamShape'
    BY <2>3, <1>1 DEF StreamShape
  <2>5. ASSUME kind = "observer", stream.queue = <<>>, stream' # stream
        PROVE  pc' = [pc EXCEPT ![t] = "enter"]
    <3>1. j.bound > stream.bound /\ stream.bound \in Int /\ j.bound \in Int
      BY <2>1, <2>2, <2>5, <1>1, TimestampValues DEF SetNextTimestampBound, Ordered, Stream
    <3> HIDE DEF done
    <3>2. /\ done.notify = (~stream.closed /\ j.bound > stream.bound /\ stream.queue = <<>>)
          /\ done.refused = (~stream.closed /\ j.bound < stream.bound)
      BY <2>1, Zenon DEF SetNextTimestampBound
    <3>3. ~(j.bound < stream.bound)
      BY <3>1
    <3>4. done.notify /\ ~done.refused
      BY <3>1, <3>2, <3>3, <2>5, <1>1, Zenon
    <3>5. QED
      BY <3>4, <2>5, <1>1
  <2>6. QED
    BY <2>3, <2>4, <2>5, <1>4 DEF Min
<1>7. QED
  BY <1>2, <1>5, <1>6

\* Types of the first packet and of the bound.
LEMMA MinShape ==
  ASSUME Ordered(stream)
  PROVE  /\ stream.queue \in Seq(PreStream .. PostStream)
         /\ stream.bound \in PreStream .. Done
         /\ Min \in PreStream .. Done
         /\ stream.queue = <<>> => Min = stream.bound
         /\ stream.queue # <<>> => /\ Min = Head(stream.queue)
                                   /\ Min \in PreStream .. PostStream
<1>1. stream.queue \in Seq(PreStream .. PostStream) /\ stream.bound \in PreStream .. Done
  BY DEF Ordered, Stream
<1>2. stream.queue # <<>> => Head(stream.queue) \in PreStream .. PostStream
  BY <1>1, HeadTailProperties
<1>3. stream.queue = <<>> => Min = stream.bound
  BY DEF Min, MinTimestampOrBound
<1>4. stream.queue # <<>> => Min = Head(stream.queue)
  BY DEF Min, MinTimestampOrBound
<1>5. PreStream .. PostStream \subseteq PreStream .. Done
  BY TimestampValues
<1>6. QED
  BY <1>1, <1>2, <1>3, <1>4, <1>5

\* A look takes the first packet, when there is one.
LEMMA Looks ==
  ASSUME Shape, NEW t \in Thread, Look(t)
  PROVE  /\ StreamShape'
         /\ stream.queue = <<>> => stream' = stream
         /\ stream.queue # <<>> => Min' > Min
         /\ seen' = [seen EXCEPT ![t] = [ts |-> Min, packet |-> stream.queue # <<>>]]
<1>1. Ordered(stream) /\ ~stream.closed
  BY DEF Shape, StreamShape
<1>2. seen' = [seen EXCEPT ![t] = [ts |-> Min, packet |-> stream.queue # <<>>]]
  BY DEF Look, Min
<1>3. CASE stream.queue = <<>>
  <2>1. stream' = stream
    BY <1>3 DEF Look
  <2>2. StreamShape'
    BY <1>1, <2>1 DEF StreamShape
  <2>3. QED
    BY <1>2, <1>3, <2>1, <2>2
<1>4. CASE stream.queue # <<>>
  <2>1. stream' = PopAt(stream, Head(stream.queue)).stream /\ Min = Head(stream.queue)
    BY <1>4 DEF Look, Min, MinTimestampOrBound
  <2>2. /\ Ordered(stream') /\ MinTimestampOrBound(stream') > Head(stream.queue)
        /\ stream'.closed = stream.closed
    BY <1>1, <1>4, <2>1, OrderedPop
  <2>3. StreamShape'
    BY <1>1, <2>2 DEF StreamShape
  <2>4. Min' > Min
    BY <2>1, <2>2 DEF Min
  <2>5. QED
    BY <1>2, <1>4, <2>3, <2>4
<1>5. QED
  BY <1>3, <1>4

\* Next takes the first packet.
LEMMA Takes ==
  ASSUME Shape, TakePacket
  PROVE  StreamShape' /\ Min' > Min /\ Min = outputTs
<1>1. /\ Ordered(stream) /\ ~stream.closed
      /\ stream.queue # <<>> /\ outputTs = Head(stream.queue)
  BY DEF Shape, StreamShape, PollerShape, TakePacket
<1>2. stream' = PopAt(stream, Head(stream.queue)).stream /\ Min = Head(stream.queue)
  BY <1>1 DEF TakePacket, Min, MinTimestampOrBound
<1>3. /\ Ordered(stream') /\ MinTimestampOrBound(stream') > Head(stream.queue)
      /\ stream'.closed = stream.closed
  BY <1>1, <1>2, OrderedPop
<1>4. StreamShape'
  BY <1>1, <1>3 DEF StreamShape
<1>5. Min' > Min
  BY <1>2, <1>3 DEF Min
<1>6. QED
  BY <1>1, <1>2, <1>4, <1>5

\* A thread that moves outside Notify, with nothing to say about its job.
LEMMA JobMoves ==
  ASSUME JobShape, NEW t \in Thread, NEW j \in Job, NEW x \in Loop \cup Elsewhere,
         job' = [job EXCEPT ![t] = j], pc' = [pc EXCEPT ![t] = x],
         x = "update" => j # NoJob
  PROVE  JobShape'
<1>1. job' \in [Thread -> Job] /\ pc' \in [Thread -> Loop \cup Elsewhere]
  BY DEF JobShape
<1>2. ASSUME NEW u \in Thread, pc'[u] = "update" PROVE job'[u] # NoJob
  <2>1. CASE u = t
    BY <2>1, <1>2 DEF JobShape
  <2>2. CASE u # t
    BY <2>2, <1>2 DEF JobShape
  <2>3. QED
    BY <2>1, <2>2
<1>3. QED
  BY <1>1, <1>2 DEF JobShape

\* The same when the job stays.
LEMMA JobStays ==
  ASSUME JobShape, NEW t \in Thread, NEW x \in Loop \cup Elsewhere,
         job' = job, pc' = [pc EXCEPT ![t] = x], x = "update" => job[t] # NoJob
  PROVE  JobShape'
<1>1. job' = [job EXCEPT ![t] = job[t]] /\ job[t] \in Job
  BY DEF JobShape
<1>2. QED
  BY <1>1, JobMoves

\* Where a thread goes on.
LEMMA OnwardJob ==
  \A j : Onward(j) \in {"idle", "update"} /\ (Onward(j) = "update" => j # NoJob)
  BY DEF Onward

\* The next part of an update is one.
LEMMA AdvanceJob ==
  ASSUME NEW j \in Job
  PROVE  Advance(j) \in Job
<1>1. CASE j = NoJob
  BY <1>1 DEF Advance, Job, NoJob
<1>2. CASE /\ j \in [packets : Updates, bound : MinTs .. Done, part : {"add", "bound"}]
           /\ j.part = "add" => j.packets # <<>>
  <2>1. [j EXCEPT !.part = "bound"] \in Job
    BY <1>2 DEF Job
  <2>2. NoJob \in Job
    BY DEF Job
  <2>3. QED
    BY <2>1, <2>2 DEF Advance
<1>3. QED
  BY <1>1, <1>2 DEF Job

\* A thread that enters the observer only of an observer, and is there with
\* nothing seen.
LEMMA KindMoves ==
  ASSUME KindShape, NEW t \in Thread, NEW x,
         pc' = [pc EXCEPT ![t] = x], JobShape,
         x \in {"enter"} \cup Loop => kind = "observer",
         kind' = kind, pollPc' # "idle" => kind = "poller"
  PROVE  KindShape'
<1>1. ASSUME NEW u \in Thread, pc'[u] \in {"enter"} \cup Loop PROVE kind' = "observer"
  <2>1. CASE u = t
    BY <2>1, <1>1 DEF JobShape
  <2>2. CASE u # t
    BY <2>2, <1>1 DEF JobShape, KindShape
  <2>3. QED
    BY <2>1, <2>2
<1>2. QED
  BY <1>1 DEF KindShape

\* A step to neither the callback nor the last check leaves what was seen.
LEMMA SeenStays ==
  ASSUME SeenShape, JobShape, NEW t \in Thread, NEW x,
         pc' = [pc EXCEPT ![t] = x], x \notin {"callback", "recheck"}, seen' = seen
  PROVE  SeenShape'
<1>1. ASSUME NEW u \in Thread, pc'[u] \in {"callback", "recheck"}
      PROVE  pc'[u] = pc[u]
  BY <1>1 DEF JobShape
<1>2. QED
  BY <1>1 DEF SeenShape

\* The steps that leave the update of a stream where it is.
LEMMA ShapeStart ==
  ASSUME Shape, NEW t \in Thread, NEW ps \in Updates, NEW b \in MinTs .. Done,
         StartUpdate(t, ps, b)
  PROVE  Shape'
<1> DEFINE j == [packets |-> ps, bound |-> b,
                 part |-> IF ps # <<>> THEN "add" ELSE "bound"]
<1>1. j \in Job /\ j # NoJob
  BY DEF Job, NoJob
<1>2. /\ job' = [job EXCEPT ![t] = j] /\ pc' = [pc EXCEPT ![t] = "update"]
      /\ outBound' = b /\ sent' = sent \o ps /\ carries' = (ps # <<>>)
      /\ overlapped' = (overlapped \/ \E u \in Thread : pc[u] # "idle")
      /\ UNCHANGED <<stream, run, kind, bounds, notifying, lastProcessed, observed,
                     seen, failed, pollPc, outputTs, polled, hasError>>
  BY DEF StartUpdate, options, observer, poller
<1> HIDE DEF j
<1>3. JobShape'
  BY <1>1, <1>2, JobMoves DEF Shape, Elsewhere
<1>4. KindShape'
  <2>1. pollPc' # "idle" => kind = "poller"
    BY <1>2 DEF Shape, KindShape
  <2>2. QED
    BY <1>2, <2>1, KindMoves DEF Shape, Loop
<1>5. SeenShape'
  BY <1>2, SeenStays DEF Shape
<1>6. StreamShape' /\ ObserverShape' /\ PollerShape'
  BY <1>2 DEF Shape, StreamShape, ObserverShape, PollerShape
<1>7. RestShape'
  <2>1. outBound' \in PreStream .. Done
    BY <1>2, TimestampValues
  <2>2. sent' \in Seq(PreStream .. PostStream)
    <3>1. ps \in Seq(PreStream .. PostStream)
      <4>1. ps = <<>> \/ \E p \in PreStream .. PostStream : ps = <<p>>
        BY DEF Updates
      <4>2. ASSUME NEW p \in PreStream .. PostStream
            PROVE  <<p>> \in Seq(PreStream .. PostStream)
        OBVIOUS
      <4>3. <<>> \in Seq(PreStream .. PostStream)
        OBVIOUS
      <4>4. QED
        BY <4>1, <4>2, <4>3, Zenon
    <3>2. QED
      BY <1>2, <3>1, ConcatProperties DEF Shape, RestShape
  <2>3. carries' \in BOOLEAN /\ overlapped' \in BOOLEAN
    BY <1>2, Zenon
  <2>4. QED
    BY <1>2, <2>1, <2>2, <2>3 DEF Shape, RestShape
<1>8. QED
  BY <1>3, <1>4, <1>5, <1>6, <1>7 DEF Shape

\* An update of the mirror.
LEMMA ShapeMirror ==
  ASSUME Shape, NEW t \in Thread, UpdateMirror(t)
  PROVE  Shape'
<1>1. /\ job' = [job EXCEPT ![t] = Advance(job[t])]
      /\ UNCHANGED <<outBound, sent, carries, overlapped, run, kind, bounds, notifying,
                     lastProcessed, observed, seen, failed, pollPc, outputTs, polled,
                     hasError>>
  BY DEF UpdateMirror, source, options, observer, poller
<1>2. PICK x : /\ pc' = [pc EXCEPT ![t] = x]
               /\ \/ x \in {"failed", "signal"}
                  \/ x = "enter" /\ kind = "observer"
                  \/ x = Onward(Advance(job[t]))
  BY DEF UpdateMirror
<1>3. JobShape'
  <2>1. job[t] \in Job
    BY DEF Shape, JobShape
  <2>2. Advance(job[t]) \in Job
    BY <2>1, AdvanceJob
  <2>3. x \in Elsewhere /\ (x = "update" => Advance(job[t]) # NoJob)
    BY <1>2, OnwardJob DEF Elsewhere
  <2>4. QED
    BY <1>1, <1>2, <2>2, <2>3, JobMoves DEF Shape
<1>4. KindShape'
  <2>1. pollPc' # "idle" => kind = "poller"
    BY <1>1 DEF Shape, KindShape
  <2>2. x \in {"enter"} \cup Loop => kind = "observer"
    BY <1>2, OnwardJob DEF Loop
  <2>3. QED
    BY <1>1, <1>2, <2>1, <2>2, KindMoves DEF Shape
<1>5. SeenShape'
  <2>1. x \notin {"callback", "recheck"}
    BY <1>2, OnwardJob
  <2>2. QED
    BY <1>1, <1>2, <2>1, SeenStays DEF Shape
<1>6. StreamShape' /\ PollerShape'
  <2>1. StreamShape' /\ (stream.queue # <<>> => /\ stream'.queue # <<>>
                                                /\ Head(stream'.queue) = Head(stream.queue))
    BY Mirrors
  <2>2. QED
    BY <1>1, <2>1 DEF Shape, PollerShape
<1>7. ObserverShape' /\ RestShape'
  BY <1>1 DEF Shape, ObserverShape, RestShape
<1>8. QED
  BY <1>3, <1>4, <1>5, <1>6, <1>7 DEF Shape

\* RecordError and Signal wake the poller.
LEMMA ShapeTells ==
  ASSUME Shape, NEW t \in Thread, RecordError(t) \/ Signal(t)
  PROVE  Shape'
<1>1. /\ pollPc' = Woken /\ pc' = [pc EXCEPT ![t] = Onward(job[t])]
      /\ hasError' \in {hasError, TRUE}
      /\ UNCHANGED <<stream, job, outBound, sent, carries, overlapped, run, kind, bounds,
                     notifying, lastProcessed, observed, seen, failed, outputTs, polled>>
  BY DEF RecordError, Signal, source, options, observer
<1>2. /\ Onward(job[t]) \in {"idle", "update"}
      /\ Onward(job[t]) = "update" => job[t] # NoJob
  BY OnwardJob
<1>3. JobShape'
  BY <1>1, <1>2, JobStays DEF Shape, Elsewhere
<1>4. KindShape'
  <2>1. pollPc' # "idle" => kind = "poller"
    BY <1>1 DEF Shape, KindShape, Woken
  <2>2. QED
    BY <1>1, <1>2, <2>1, KindMoves DEF Shape, Loop
<1>5. SeenShape'
  BY <1>1, <1>2, SeenStays DEF Shape
<1>6. StreamShape' /\ ObserverShape'
  BY <1>1 DEF Shape, StreamShape, ObserverShape
<1>7. PollerShape'
  BY <1>1 DEF Shape, PollerShape, Woken
<1>8. RestShape'
  <2>1. hasError' \in BOOLEAN
    BY <1>1 DEF Shape, RestShape
  <2>2. QED
    BY <1>1, <2>1 DEF Shape, RestShape
<1>9. QED
  BY <1>3, <1>4, <1>5, <1>6, <1>7, <1>8 DEF Shape

\* A thread enters Notify, or finds another one there.
LEMMA ShapeEnter ==
  ASSUME Shape, NEW t \in Thread, Enter(t)
  PROVE  Shape'
<1>1. /\ notifying' = TRUE
      /\ UNCHANGED <<stream, job, outBound, sent, carries, overlapped, run, kind, bounds,
                     lastProcessed, observed, seen, failed, pollPc, outputTs, polled,
                     hasError>>
  BY DEF Enter, source, options, poller
<1> DEFINE x == IF notifying THEN Onward(job[t]) ELSE "look"
<1>2. /\ pc' = [pc EXCEPT ![t] = x]
      /\ x \in {"look", "idle", "update"}
      /\ x = "update" => job[t] # NoJob
  BY OnwardJob DEF Enter
<1> HIDE DEF x
<1>3. JobShape'
  BY <1>1, <1>2, JobStays DEF Shape, Elsewhere, Loop
<1>4. KindShape'
  <2>1. kind = "observer" /\ (pollPc' # "idle" => kind = "poller")
    BY <1>1 DEF Shape, KindShape, Enter
  <2>2. QED
    BY <1>1, <1>2, <2>1, KindMoves DEF Shape
<1>5. SeenShape'
  BY <1>1, <1>2, SeenStays DEF Shape
<1>6. StreamShape' /\ ObserverShape' /\ PollerShape'
  BY <1>1 DEF Shape, StreamShape, ObserverShape, PollerShape
<1>7. RestShape'
  BY <1>1 DEF Shape, RestShape
<1>8. QED
  BY <1>3, <1>4, <1>5, <1>6, <1>7 DEF Shape

\* A look at the stream.
LEMMA ShapeLook ==
  ASSUME Shape, NEW t \in Thread, Look(t)
  PROVE  Shape'
<1>1. UNCHANGED <<job, outBound, sent, carries, overlapped, run, kind, bounds, notifying,
                  lastProcessed, observed, failed, pollPc, outputTs, polled, hasError>>
  BY DEF Look, source, options, poller
<1> DEFINE empty == stream.queue = <<>>
           x == IF empty /\ ~ReportsBound(Min) THEN "recheck" ELSE "callback"
<1>2. pc' = [pc EXCEPT ![t] = x]
  BY DEF Look, Min
<1>3. kind = "observer" /\ pollPc = "idle"
  BY DEF Shape, KindShape, Look, Loop
<1>4. JobShape'
  <2>1. x \in {"recheck", "callback"}
    OBVIOUS
  <2> HIDE DEF x
  <2>2. QED
    BY <1>1, <1>2, <2>1, JobStays DEF Shape, Loop
<1>5. KindShape'
  BY <1>1, <1>2, <1>3, KindMoves DEF Shape, Loop
<1>6. SeenShape'
  <2> DEFINE e == [ts |-> Min, packet |-> ~empty]
  <2>1. seen' = [seen EXCEPT ![t] = e] /\ seen \in [Thread -> Event]
    BY Looks DEF Shape, SeenShape
  <2>2. /\ Min \in PreStream .. Done
        /\ ~empty => Min \in PreStream .. PostStream
    BY MinShape DEF Shape, StreamShape
  <2>3. e \in Event /\ e.ts = Min /\ e.packet = ~empty
    <3>1. Min \in Timestamp
      BY <2>2, TimestampValues DEF Timestamp
    <3>2. QED
      BY <3>1, Zenon DEF Event
  <2> HIDE DEF e
  <2>4. seen' \in [Thread -> Event]
    BY <2>1, <2>3
  <2>5. ASSUME NEW u \in Thread, pc'[u] = "callback"
        PROVE  seen'[u].ts \in PreStream .. (IF seen'[u].packet THEN PostStream
                                             ELSE OneOverPostStream)
    <3>1. CASE u = t
      <4>1. seen'[u] = e /\ x = "callback"
        BY <1>2, <2>1, <2>5, <3>1 DEF Shape, JobShape
      <4>2. CASE empty
        <5>1. Min < Done
          BY <4>1, <4>2 DEF ReportsBound
        <5>2. Min \in PreStream .. OneOverPostStream
          BY <5>1, <2>2, TimestampValues
        <5>3. ~e.packet
          BY <2>3, <4>2, Zenon
        <5>4. QED
          BY <5>2, <5>3, <4>1, <2>3
      <4>3. CASE ~empty
        BY <4>1, <4>3, <2>2, <2>3
      <4>4. QED
        BY <4>2, <4>3
    <3>2. CASE u # t
      BY <1>2, <2>1, <2>5, <3>2 DEF Shape, JobShape, SeenShape
    <3>3. QED
      BY <3>1, <3>2
  <2>6. ASSUME NEW u \in Thread, pc'[u] = "recheck" PROVE ~seen'[u].packet
    <3>1. CASE u = t
      <4>1. seen'[u] = e /\ x = "recheck"
        BY <1>2, <2>1, <2>6, <3>1 DEF Shape, JobShape
      <4>2. empty
        BY <4>1
      <4>3. QED
        BY <4>1, <4>2, <2>3
    <3>2. CASE u # t
      BY <1>2, <2>1, <2>6, <3>2 DEF Shape, JobShape, SeenShape
    <3>3. QED
      BY <3>1, <3>2
  <2>7. QED
    BY <2>4, <2>5, <2>6 DEF SeenShape
<1>7. StreamShape'
  BY Looks
<1>8. ObserverShape' /\ PollerShape'
  BY <1>1, <1>3 DEF Shape, ObserverShape, PollerShape
<1>9. RestShape'
  BY <1>1 DEF Shape, RestShape
<1>10. QED
  BY <1>4, <1>5, <1>6, <1>7, <1>8, <1>9 DEF Shape

\* The end of the callback.
LEMMA ShapeCallback ==
  ASSUME Shape, NEW t \in Thread, CallbackReturns(t) \/ CallbackFails(t)
  PROVE  Shape'
<1>1. /\ pc[t] = "callback" /\ observed' = Append(observed, Told(t))
      /\ lastProcessed' \in {lastProcessed, Told(t).ts}
      /\ failed' \in {failed, TRUE}
      /\ UNCHANGED <<stream, job, outBound, sent, carries, overlapped, run, kind, bounds,
                     notifying, seen, pollPc, outputTs, polled, hasError>>
  BY DEF CallbackReturns, CallbackFails, source, options, poller
<1>2. PICK x \in {"look", "recheck", "failed"} :
         /\ pc' = [pc EXCEPT ![t] = x]
         /\ x = "recheck" => ~seen[t].packet
  BY DEF CallbackReturns, CallbackFails
<1>3. JobShape'
  BY <1>1, <1>2, JobStays DEF Shape, Loop, Elsewhere
<1>4. KindShape'
  <2>1. kind = "observer" /\ (pollPc' # "idle" => kind = "poller")
    BY <1>1 DEF Shape, KindShape, Loop
  <2>2. QED
    BY <1>1, <1>2, <2>1, KindMoves DEF Shape
<1>5. SeenShape'
  <2>1. ASSUME NEW u \in Thread, pc'[u] = "recheck" PROVE ~seen'[u].packet
    <3>1. CASE u = t
      BY <1>1, <1>2, <2>1, <3>1 DEF Shape, JobShape
    <3>2. CASE u # t
      BY <1>1, <1>2, <2>1, <3>2 DEF Shape, JobShape, SeenShape
    <3>3. QED
      BY <3>1, <3>2
  <2>2. \A u \in Thread : pc'[u] = "callback" => pc[u] = "callback"
    BY <1>2 DEF Shape, JobShape
  <2>3. QED
    BY <1>1, <2>1, <2>2 DEF Shape, SeenShape
<1>6. ObserverShape'
  <2>1. Told(t) \in Event /\ Told(t).ts \in Unstarted .. PostStream
    BY <1>1, ToldShape
  <2>2. observed' \in Seq(Event)
    BY <1>1, <2>1, AppendProperties DEF Shape, ObserverShape
  <2>3. QED
    BY <1>1, <2>1, <2>2 DEF Shape, ObserverShape
<1>7. StreamShape' /\ PollerShape'
  BY <1>1 DEF Shape, StreamShape, PollerShape
<1>8. RestShape'
  <2>1. failed' \in BOOLEAN
    BY <1>1 DEF Shape, RestShape
  <2>2. QED
    BY <1>1, <2>1 DEF Shape, RestShape
<1>9. QED
  BY <1>3, <1>4, <1>5, <1>6, <1>7, <1>8 DEF Shape

\* The last check under mutex_.
LEMMA ShapeRecheck ==
  ASSUME Shape, NEW t \in Thread, Recheck(t)
  PROVE  Shape'
<1> DEFINE changed == MinTimestampOrBound(stream) # seen[t].ts
           x == IF changed THEN "look" ELSE Onward(job[t])
<1>1. /\ notifying' = changed /\ pc' = [pc EXCEPT ![t] = x]
      /\ UNCHANGED <<stream, job, outBound, sent, carries, overlapped, run, kind, bounds,
                     lastProcessed, observed, seen, failed, pollPc, outputTs, polled,
                     hasError>>
  BY DEF Recheck, source, options, poller
<1>2. x \in {"look", "idle", "update"} /\ (x = "update" => job[t] # NoJob)
  BY OnwardJob
<1>3. notifying' \in BOOLEAN
  BY <1>1, Zenon
<1> HIDE DEF x, changed
<1>4. JobShape'
  BY <1>1, <1>2, JobStays DEF Shape, Elsewhere, Loop
<1>5. KindShape'
  <2>1. kind = "observer" /\ (pollPc' # "idle" => kind = "poller")
    BY <1>1 DEF Shape, KindShape, Recheck, Loop
  <2>2. QED
    BY <1>1, <1>2, <2>1, KindMoves DEF Shape
<1>6. SeenShape'
  BY <1>1, <1>2, SeenStays DEF Shape
<1>7. StreamShape' /\ ObserverShape' /\ PollerShape'
  BY <1>1 DEF Shape, StreamShape, ObserverShape, PollerShape
<1>8. RestShape'
  BY <1>1, <1>3 DEF Shape, RestShape
<1>9. QED
  BY <1>4, <1>5, <1>6, <1>7, <1>8 DEF Shape

\* The steps in which no thread of the graph moves.
LEMMA ShapeFails ==
  ASSUME Shape, GraphFails \/ CallNext
  PROVE  Shape'
<1>1. /\ pollPc' \in {Woken, "check"} /\ (pollPc' # "idle" => kind = "poller")
      /\ hasError' \in {hasError, TRUE}
      /\ pollPc' = "take" => pollPc' = pollPc
      /\ UNCHANGED <<stream, pc, job, outBound, sent, carries, overlapped, run, kind,
                     bounds,
                     notifying, lastProcessed, observed, seen, failed, outputTs, polled>>
  BY DEF GraphFails, CallNext, Woken, source, options, observer, Shape, KindShape
<1>2. JobShape' /\ KindShape' /\ SeenShape' /\ StreamShape' /\ ObserverShape'
  BY <1>1 DEF Shape, JobShape, KindShape, SeenShape, StreamShape, ObserverShape
<1>3. PollerShape'
  BY <1>1 DEF Shape, PollerShape, Woken
<1>4. RestShape'
  <2>1. hasError' \in BOOLEAN
    BY <1>1 DEF Shape, RestShape
  <2>2. QED
    BY <1>1, <2>1 DEF Shape, RestShape
<1>5. QED
  BY <1>2, <1>3, <1>4 DEF Shape

\* Next looks at the stream.
LEMMA ShapeCheck ==
  ASSUME Shape, CheckStream
  PROVE  Shape'
<1> DEFINE previous == PreviousAllowedInStream(Min)
<1>1. /\ UNCHANGED <<stream, pc, job, outBound, sent, carries, overlapped, run, kind,
                     bounds,
                     notifying, lastProcessed, observed, seen, failed, hasError>>
      /\ pollPc = "check"
      /\ \/ pollPc' \in {"wait", "end"} /\ outputTs' = outputTs /\ polled' = polled
         \/ /\ stream.queue # <<>> /\ pollPc' = "take" /\ outputTs' = Min
            /\ polled' = polled
         \/ pollPc' = "end" /\ outputTs' = previous /\ polled' = polled
         \/ /\ pollPc' = "idle" /\ outputTs' = previous
            /\ polled' = Append(polled, [ts |-> previous, packet |-> FALSE])
  BY DEF CheckStream, Min, source, options, observer
<1>2. JobShape' /\ KindShape' /\ SeenShape' /\ StreamShape' /\ ObserverShape' /\ RestShape'
  BY <1>1 DEF Shape, JobShape, KindShape, SeenShape, StreamShape, ObserverShape, RestShape
<1>3. PollerShape'
  <2>1. /\ Min \in PreStream .. Done
        /\ stream.queue # <<>> => /\ Min = Head(stream.queue)
                                  /\ Min \in PreStream .. PostStream
    BY MinShape DEF Shape, StreamShape
  <2>2. previous \in Unstarted .. MaxTs
    BY <2>1, TimestampOrder
  <2>3. /\ [ts |-> previous, packet |-> FALSE] \in Event
        /\ previous \in Unstarted .. PostStream
    BY <2>2, TimestampValues DEF Event, Timestamp
  <2> HIDE DEF previous
  <2>4. Append(polled, [ts |-> previous, packet |-> FALSE]) \in Seq(Event)
    BY <2>3, AppendProperties DEF Shape, PollerShape
  <2>5. Min \in PreStream .. PostStream => Min \in Unstarted .. PostStream
    BY TimestampValues
  <2>6. CASE pollPc' \in {"wait", "end"} /\ outputTs' = outputTs /\ polled' = polled
    BY <1>1, <2>6 DEF Shape, PollerShape
  <2>7. CASE /\ stream.queue # <<>> /\ pollPc' = "take" /\ outputTs' = Min
             /\ polled' = polled
    BY <1>1, <2>1, <2>5, <2>7 DEF Shape, PollerShape
  <2>8. CASE pollPc' = "end" /\ outputTs' = previous /\ polled' = polled
    BY <1>1, <2>3, <2>8 DEF Shape, PollerShape
  <2>9. CASE /\ pollPc' = "idle" /\ outputTs' = previous
             /\ polled' = Append(polled, [ts |-> previous, packet |-> FALSE])
    BY <1>1, <2>3, <2>4, <2>9 DEF Shape, PollerShape
  <2>10. QED
    BY <1>1, <2>6, <2>7, <2>8, <2>9
<1>4. QED
  BY <1>2, <1>3 DEF Shape

\* Next takes a packet.
LEMMA ShapeTake ==
  ASSUME Shape, TakePacket
  PROVE  Shape'
<1>1. /\ pollPc = "take" /\ pollPc' = "idle"
      /\ polled' = Append(polled, [ts |-> outputTs, packet |-> TRUE])
      /\ UNCHANGED <<pc, job, outBound, sent, carries, overlapped, run, kind, bounds,
                     notifying, lastProcessed, observed, seen, failed, outputTs, hasError>>
  BY DEF TakePacket, source, options, observer
<1>2. JobShape' /\ KindShape' /\ SeenShape' /\ ObserverShape' /\ RestShape'
  BY <1>1 DEF Shape, JobShape, KindShape, SeenShape, ObserverShape, RestShape
<1>3. StreamShape'
  BY Takes
<1>4. PollerShape'
  <2>1. [ts |-> outputTs, packet |-> TRUE] \in Event
    BY TimestampValues DEF Shape, PollerShape, Event, Timestamp
  <2>2. polled' \in Seq(Event)
    BY <1>1, <2>1, AppendProperties DEF Shape, PollerShape
  <2>3. QED
    BY <1>1, <2>2 DEF Shape, PollerShape
<1>5. QED
  BY <1>2, <1>3, <1>4 DEF Shape

\* The next run.
LEMMA ShapePrepare ==
  ASSUME Shape, PrepareForRun
  PROVE  Shape'
<1>1. /\ run < MaxRuns /\ run' = run + 1 /\ stream' = FreshStream
      /\ outBound' = PreStream
      /\ sent' = <<>> /\ carries' = FALSE /\ observed' = <<>> /\ polled' = <<>>
      /\ pollPc' = "idle" /\ hasError' = FALSE /\ overlapped' = FALSE
      /\ seen' = [t \in Thread |-> [ts |-> Unset, packet |-> FALSE]]
      /\ \A t \in Thread : pc[t] = "idle"
      /\ UNCHANGED <<pc, job, kind, bounds, notifying, lastProcessed, failed, outputTs>>
  BY DEF PrepareForRun, options, Quiet
<1>2. JobShape' /\ KindShape'
  BY <1>1 DEF Shape, JobShape, KindShape
<1>3. SeenShape'
  <2>1. [ts |-> Unset, packet |-> FALSE] \in Event
    BY TimestampValues DEF Event, Timestamp
  <2>2. seen' \in [Thread -> Event]
    BY <1>1, <2>1
  <2>3. QED
    BY <1>1, <2>2 DEF SeenShape
<1>4. StreamShape'
  <2>1. FreshStream \in Stream
    BY TimestampValues DEF FreshStream, Stream
  <2>2. QED
    BY <1>1, <2>1 DEF StreamShape, Ordered, Increasing, FreshStream
<1>5. ObserverShape' /\ PollerShape'
  BY <1>1 DEF Shape, ObserverShape, PollerShape
<1>6. RestShape'
  <2>1. outBound' \in PreStream .. Done
    BY <1>1, TimestampValues
  <2>2. run' \in 1 .. MaxRuns
    BY <1>1, GraphOutputAssumption DEF Shape, RestShape
  <2>3. sent' \in Seq(PreStream .. PostStream)
    BY <1>1
  <2>4. QED
    BY <1>1, <2>1, <2>2, <2>3 DEF Shape, RestShape
<1>7. QED
  BY <1>2, <1>3, <1>4, <1>5, <1>6 DEF Shape

\* The values go together after every step.
LEMMA NextShape == Shape /\ [Next]_vars => Shape'
<1> SUFFICES ASSUME Shape, [Next]_vars PROVE Shape'
  OBVIOUS
<1>1. ASSUME NEW t \in Thread, NEW ps \in Updates, NEW b \in MinTs .. Done,
             StartUpdate(t, ps, b)
      PROVE  Shape'
  BY <1>1, ShapeStart
<1>2. ASSUME NEW t \in Thread, Continue(t) PROVE Shape'
  BY <1>2, ShapeMirror, ShapeTells, ShapeEnter, ShapeLook, ShapeRecheck, ShapeCallback
  DEF Continue
<1>3. CASE GraphFails \/ CallNext
  BY <1>3, ShapeFails
<1>4. CASE CheckStream
  BY <1>4, ShapeCheck
<1>5. CASE TakePacket
  BY <1>5, ShapeTake
<1>6. CASE PrepareForRun
  BY <1>6, ShapePrepare
<1>7. CASE UNCHANGED vars
  BY <1>7
  DEF vars, source, observer, poller, options, Shape, StreamShape, JobShape, KindShape,
              SeenShape, ObserverShape, PollerShape, RestShape
<1>8. QED
  BY <1>1, <1>2, <1>3, <1>4, <1>5, <1>6, <1>7 DEF Next, Continue

-----------------------------------------------------------------------------
\* The order of events.

\* Events in the order of time: PostStream reported as settled comes before its
\* packet, so that keys grow by steps of two and this one alone is odd.
SettledPostStream == [ts |-> PostStream, packet |-> FALSE]
Key(e) == IF e = SettledPostStream THEN 2 * e.ts - 1 ELSE 2 * e.ts

Rising(events) ==
  \A i, j \in 1 .. Len(events) : i < j => Key(events[i]) < Key(events[j])
Before(events, n) == events # <<>> => Key(LastOf(events)) < n

\* The observer was told of what lies before the first packet or the bound,
\* and so was what it is being told now.
ObservedInOrder ==
  /\ Rising(observed)
  /\ Before(observed, 2 * Min)
  /\ \A t \in Thread : pc[t] = "callback" => /\ Key(Told(t)) < 2 * Min
                                             /\ Before(observed, Key(Told(t)))
  /\ observed # <<>> /\ ~failed => LastOf(observed).ts = lastProcessed

\* The same for what Next returned; output_timestamp_ is that of the last of it.
PolledInOrder ==
  /\ Rising(polled)
  /\ Before(polled, 2 * Min)
  /\ polled # <<>> /\ pollPc \in {"idle", "check", "wait"} =>
       LastOf(polled).ts = outputTs

\* Keys of events.
LEMMA KeyOrder ==
  /\ \A e \in Event : /\ Key(e) \in Int /\ e.ts \in Int
                      /\ 2 * e.ts - 1 <= Key(e) /\ Key(e) <= 2 * e.ts
  /\ \A e, f \in Event :
       /\ e.ts < f.ts => Key(e) < Key(f)
       /\ Key(e) < Key(f) => \/ e.ts < f.ts
                             \/ e = SettledPostStream
                                /\ f = [ts |-> PostStream, packet |-> TRUE]
<1>1. ASSUME NEW e \in Event
      PROVE  Key(e) \in Int /\ 2 * e.ts - 1 <= Key(e) /\ Key(e) <= 2 * e.ts /\ e.ts \in Int
  BY TimestampValues DEF Key, Event, Timestamp
<1>2. ASSUME NEW e \in Event, NEW f \in Event
      PROVE  /\ e.ts < f.ts => Key(e) < Key(f)
             /\ Key(e) < Key(f) => \/ e.ts < f.ts
                                   \/ e = SettledPostStream
                                      /\ f = [ts |-> PostStream, packet |-> TRUE]
  <2>1. /\ Key(e) \in Int /\ 2 * e.ts - 1 <= Key(e) /\ Key(e) <= 2 * e.ts /\ e.ts \in Int
        /\ Key(f) \in Int /\ 2 * f.ts - 1 <= Key(f) /\ Key(f) <= 2 * f.ts /\ f.ts \in Int
    BY <1>1
  <2>2. e.ts < f.ts => Key(e) < Key(f)
    BY <2>1
  <2>3. ASSUME Key(e) < Key(f), ~(e.ts < f.ts)
        PROVE  e = SettledPostStream /\ f = [ts |-> PostStream, packet |-> TRUE]
    <3>1. e.ts = f.ts /\ Key(e) # 2 * e.ts
      BY <2>1, <2>3
    <3>2. e = SettledPostStream
      BY <3>1 DEF Key
    <3>3. f.ts = PostStream
      BY <3>1, <3>2 DEF SettledPostStream
    <3>4. f # SettledPostStream
      BY <2>1, <2>3, <3>2
    <3>5. f.packet \in BOOLEAN /\ f = [ts |-> f.ts, packet |-> f.packet]
      BY DEF Event
    <3>6. f.packet = TRUE
      BY <3>3, <3>4, <3>5 DEF SettledPostStream
    <3>7. QED
      BY <3>2, <3>3, <3>5, <3>6
  <2>4. QED
    BY <2>2, <2>3
<1>3. QED
  BY <1>1, <1>2

\* A later event may follow.
LEMMA RisingAppend ==
  ASSUME NEW events \in Seq(Event), NEW e \in Event, Rising(events),
         Before(events, Key(e))
  PROVE  /\ Rising(Append(events, e))
         /\ Append(events, e) # <<>> /\ LastOf(Append(events, e)) = e
<1> DEFINE more == Append(events, e)
           n == Len(events)
<1>1. /\ more \in Seq(Event) /\ more # <<>> /\ Len(more) = n + 1 /\ n \in Nat
      /\ \A i \in 1 .. n : more[i] = events[i]
      /\ more[n + 1] = e
  BY AppendProperties
<1>2. LastOf(more) = e
  BY <1>1 DEF LastOf
<1> HIDE DEF more, n
<1>3. Rising(more)
  <2> SUFFICES ASSUME NEW i \in 1 .. n + 1, NEW j \in 1 .. n + 1, i < j
               PROVE  Key(more[i]) < Key(more[j])
    BY <1>1 DEF Rising
  <2>1. i \in 1 .. n
    BY <1>1
  <2>2. CASE j \in 1 .. n
    BY <1>1, <2>1, <2>2 DEF Rising, n
  <2>3. CASE j = n + 1
    <3>1. more[i] = events[i] /\ more[j] = e
      BY <1>1, <2>1, <2>3
    <3>2. /\ events # <<>> /\ n \in 1 .. n /\ LastOf(events) = events[n]
      BY <1>1, <2>1 DEF LastOf, n
    <3>3. Key(events[n]) < Key(e)
      BY <3>2 DEF Before
    <3>4. events[n] \in Event /\ events[i] \in Event
      BY <2>1, <3>2 DEF n
    <3>5. i = n \/ Key(events[i]) < Key(events[n])
      BY <2>1, <3>2, <1>1 DEF Rising, n
    <3>6. Key(events[i]) \in Int /\ Key(events[n]) \in Int /\ Key(e) \in Int
      BY <3>4, KeyOrder
    <3>7. QED
      BY <3>1, <3>3, <3>5, <3>6
  <2>4. QED
    BY <2>2, <2>3, <1>1
<1>4. QED
  BY <1>1, <1>2, <1>3 DEF more

\* What has come stays before what is still to come.
LEMMA BeforeGrows ==
  ASSUME NEW events \in Seq(Event), NEW m \in Int, NEW n \in Int, m <= n,
         Before(events, m)
  PROVE  Before(events, n)
<1> SUFFICES ASSUME events # <<>> PROVE Key(LastOf(events)) < n
  BY DEF Before
<1>1. LastOf(events) \in Event
  BY DEF LastOf
<1>2. Key(LastOf(events)) \in Int
  BY <1>1, KeyOrder
<1>3. QED
  BY <1>2 DEF Before

\* The first packet or bound is a number, and twice it orders the same.
LEMMA MinInt == Shape => Min \in PreStream .. Done /\ Min \in Int
<1> SUFFICES ASSUME Shape PROVE Min \in PreStream .. Done /\ Min \in Int
  OBVIOUS
<1>1. Min \in PreStream .. Done
  BY MinShape DEF Shape, StreamShape
<1>2. QED
  BY <1>1, TimestampValues

LEMMA NextMinInt == Shape' => Min' \in Int
<1> DEFINE P == Min \in Int
<1>1. Shape => P
  BY MinInt
<1> HIDE DEF P
<1>2. Shape' => P'
  BY <1>1, PTL
<1>3. QED
  BY <1>2 DEF P

LEMMA Twice ==
  \A m, n \in Int : /\ 2 * m \in Int
                    /\ m <= n => 2 * m <= 2 * n
                    /\ m < n => 2 * m < 2 * n
                    /\ m < n => m <= n
  OBVIOUS

\* Steps that report nothing to the observer.
LEMMA ObservedStays ==
  ASSUME Shape, Shape', ObservedInOrder, Min' >= Min,
         UNCHANGED <<observed, lastProcessed, failed>>,
         \A t \in Thread : pc'[t] = "callback" => pc[t] = "callback" /\ seen'[t] = seen[t]
  PROVE  ObservedInOrder'
<1>1. Min \in Int /\ Min' \in Int /\ Min <= Min'
  <2>1. Min \in Int /\ Min' \in Int
    BY MinInt, NextMinInt
  <2>2. \A m, n \in Int : n >= m => m <= n
    OBVIOUS
  <2>3. QED
    BY <2>1, <2>2, Zenon
<1>2. 2 * Min \in Int /\ 2 * Min' \in Int /\ 2 * Min <= 2 * Min'
  BY <1>1, Twice, Zenon
<1>3. Before(observed, 2 * Min')
  BY <1>2, BeforeGrows DEF Shape, ObserverShape, ObservedInOrder
<1>4. ASSUME NEW t \in Thread, pc'[t] = "callback"
      PROVE  Key(Told(t)') < 2 * Min' /\ Before(observed, Key(Told(t)'))
  <2>1. pc[t] = "callback" /\ Told(t)' = Told(t)
    BY <1>4 DEF Told
  <2>2. Told(t) \in Event
    BY <2>1, ToldShape
  <2>3. Key(Told(t)) \in Int
    BY <2>2, KeyOrder
  <2>4. Key(Told(t)) < 2 * Min /\ Before(observed, Key(Told(t)))
    BY <2>1 DEF ObservedInOrder
  <2>5. QED
    BY <2>1, <2>3, <2>4, <1>2
<1>5. QED
  BY <1>3, <1>4 DEF ObservedInOrder, Rising, Before, Key, SettledPostStream

\* The event of what a look found.
LEMMA ToldOf ==
  ASSUME NEW s \in Event
  PROVE  LET e == [s EXCEPT !.ts = IF s.packet THEN @ ELSE Settled(@)] IN
         /\ s.packet => e = s
         /\ ~s.packet => e = [ts |-> Settled(s.ts), packet |-> FALSE]
<1>1. s = [ts |-> s.ts, packet |-> s.packet] /\ s.packet \in BOOLEAN
  BY DEF Event
<1>2. CASE s.packet
  BY <1>1, <1>2 DEF Event
<1>3. CASE ~s.packet
  <2> DEFINE y == Settled(s.ts)
  <2>1. s.packet = FALSE
    BY <1>1, <1>3
  <2>2. [s EXCEPT !.ts = IF s.packet THEN @ ELSE Settled(@)] = [s EXCEPT !.ts = y]
    BY <1>3
  <2> HIDE DEF y
  <2>3. [s EXCEPT !.ts = y] = [ts |-> y, packet |-> s.packet]
    BY <1>1 DEF Event
  <2>4. QED
    BY <1>3, <2>1, <2>2, <2>3, Zenon DEF y
<1>4. QED
  BY <1>2, <1>3

\* A look finds what is not before what was observed.
LEMMA ObservedLook ==
  ASSUME Shape, Shape', IInv, ObservedInOrder, NEW t \in Thread, Look(t)
  PROVE  ObservedInOrder'
<1>1. /\ pc[t] = "look" /\ UNCHANGED <<observed, lastProcessed, failed>>
      /\ pc' = [pc EXCEPT ![t] = IF stream.queue = <<>> /\ ~ReportsBound(Min) THEN "recheck"
                                 ELSE "callback"]
  BY DEF Look, Min
<1>2. /\ stream.queue = <<>> => stream' = stream
      /\ stream.queue # <<>> => Min' > Min
      /\ seen' = [seen EXCEPT ![t] = [ts |-> Min, packet |-> stream.queue # <<>>]]
  BY Looks
<1>3. /\ Min \in PreStream .. Done /\ Min \in Int /\ 2 * Min \in Int
      /\ Min' \in Int /\ 2 * Min' \in Int
  BY MinInt, NextMinInt, Twice, Zenon
<1>4. Min <= Min' /\ (stream.queue = <<>> => Min' = Min)
  <2>1. stream.queue = <<>> => Min' = Min
    BY <1>2 DEF Min
  <2>2. \A m, n \in Int : (n > m \/ n = m) => m <= n
    OBVIOUS
  <2>3. QED
    BY <1>2, <1>3, <2>1, <2>2, Zenon
<1>5. Inside(t) /\ ~failed /\ \A u \in Thread : Inside(u) => u = t
  BY <1>1 DEF IInv, Inside, Loop
<1>6. Before(observed, 2 * Min) /\ Before(observed, 2 * Min')
  <2>1. 2 * Min <= 2 * Min'
    BY <1>3, <1>4, Twice, Zenon
  <2>2. QED
    BY <1>3, <2>1, BeforeGrows DEF Shape, ObserverShape, ObservedInOrder
<1>7. ASSUME NEW u \in Thread, pc'[u] = "callback"
      PROVE  Key(Told(u)') < 2 * Min' /\ Before(observed, Key(Told(u)'))
  <2>0. seen'[t] \in Event
    BY DEF Shape, SeenShape
  <2>1. u = t
    <3>1. CASE u # t
      <4>1. pc[u] = "callback"
        BY <1>1, <1>7, <3>1 DEF IInv
      <4>2. QED
        BY <4>1, <1>5, <3>1 DEF Inside, Loop
    <3>2. QED
      BY <3>1
  <2>2. seen'[t] = [ts |-> Min, packet |-> stream.queue # <<>>]
    BY <1>2 DEF Shape, SeenShape
  <2>3. Told(t)' = [seen'[t] EXCEPT !.ts = IF seen'[t].packet THEN @ ELSE Settled(@)]
    BY DEF Told, Settled
  <2>4. stream.queue # <<>> \/ ReportsBound(Min)
    BY <1>1, <1>7, <2>1 DEF IInv
  <2>5. CASE stream.queue # <<>>
    <3>1. seen'[t] = [ts |-> Min, packet |-> TRUE]
      BY <2>2, <2>5, Zenon
    <3>2. Told(t)' = [ts |-> Min, packet |-> TRUE]
      <4>1. seen'[t].packet
        BY <3>1
      <4>2. QED
        BY <2>0, <2>3, <3>1, <4>1, ToldOf, Zenon
    <3>3. [ts |-> Min, packet |-> TRUE] # SettledPostStream
      BY DEF SettledPostStream
    <3>4. Key(Told(t)') = 2 * Min
      BY <3>2, <3>3 DEF Key
    <3>5. 2 * Min < 2 * Min'
      <4>1. \A m, n \in Int : n > m => 2 * m < 2 * n
        OBVIOUS
      <4>2. QED
        BY <4>1, <1>2, <1>3, <2>5, Zenon
    <3>6. QED
      BY <2>1, <3>4, <3>5, <1>6
  <2>6. CASE stream.queue = <<>> /\ ReportsBound(Min)
    <3> DEFINE e == [ts |-> Settled(Min), packet |-> FALSE]
    <3>1. seen'[t] = [ts |-> Min, packet |-> FALSE]
      BY <2>2, <2>6, Zenon
    <3>2. Told(t)' = e
      <4>1. ~seen'[t].packet /\ seen'[t].ts = Min
        BY <3>1
      <4>2. QED
        BY <2>0, <2>3, <4>1, ToldOf, Zenon
    <3>3. /\ Settled(Min) \in Unstarted .. PostStream
          /\ Min = PostStream => Settled(Min) = PostStream
          /\ Min # PostStream => Settled(Min) < Min /\ Settled(Min) <= MaxTs
      BY <1>3, SettledOrder
    <3>4. Settled(Min) \in Timestamp /\ Settled(Min) \in Int
      BY <3>3, TimestampValues DEF Timestamp
    <3>5. e \in Event /\ e.ts = Settled(Min)
      BY <3>4 DEF Event
    <3>6. Key(e) < 2 * Min
      <4>1. CASE Min = PostStream
        <5>1. Key(e) = 2 * PostStream - 1
          BY <4>1, <3>3 DEF Key, SettledPostStream
        <5>2. QED
          BY <4>1, <5>1, <1>3
      <4>2. CASE Min # PostStream
        <5>1. Key(e) \in Int /\ Key(e) <= 2 * Settled(Min)
          BY <3>5, KeyOrder
        <5>2. QED
          BY <4>2, <5>1, <3>3, <3>4, <1>3
      <4>3. QED
        BY <4>1, <4>2
    <3>7. Before(observed, Key(e))
      <4> SUFFICES ASSUME observed # <<>> PROVE Key(LastOf(observed)) < Key(e)
        BY DEF Before
      <4>1. LastOf(observed) \in Event
        BY DEF LastOf, Shape, ObserverShape
      <4>2. LastOf(observed).ts = lastProcessed
        BY <1>5 DEF ObservedInOrder
      <4>3. lastProcessed < Settled(Min)
        BY <2>6 DEF ReportsBound
      <4>4. QED
        BY <4>1, <4>2, <4>3, <3>5, KeyOrder
    <3> HIDE DEF e
    <3>8. QED
      BY <2>1, <2>6, <1>4, <3>2, <3>6, <3>7
  <2>7. QED
    BY <2>4, <2>5, <2>6
<1>8. QED
  BY <1>1, <1>6, <1>7 DEF ObservedInOrder, Rising, Before, Key, SettledPostStream

\* The callback is the event after the last.
LEMMA ObservedCallback ==
  ASSUME Shape, IInv, ObservedInOrder, NEW t \in Thread,
         CallbackReturns(t) \/ CallbackFails(t)
  PROVE  ObservedInOrder'
<1>1. /\ pc[t] = "callback" /\ observed' = Append(observed, Told(t)) /\ stream' = stream
      /\ \/ lastProcessed' = Told(t).ts
         \/ failed' = TRUE
  BY DEF CallbackReturns, CallbackFails
<1>2. PICK x : x # "callback" /\ pc' = [pc EXCEPT ![t] = x]
  BY DEF CallbackReturns, CallbackFails
<1>3. Told(t) \in Event
  BY <1>1, ToldShape
<1>4. Key(Told(t)) < 2 * Min /\ Before(observed, Key(Told(t))) /\ Rising(observed)
  BY <1>1 DEF ObservedInOrder
<1>5. Rising(observed') /\ observed' # <<>> /\ LastOf(observed') = Told(t)
  BY <1>1, <1>3, <1>4, RisingAppend DEF Shape, ObserverShape
<1>6. Min' = Min
  BY <1>1 DEF Min
<1>7. Before(observed', 2 * Min')
  BY <1>4, <1>5, <1>6 DEF Before
<1>8. ASSUME NEW u \in Thread PROVE pc'[u] # "callback"
  <2>1. CASE u = t
    BY <1>2, <2>1 DEF IInv
  <2>2. CASE u # t
    <3>1. ~Inside(u)
      BY <1>1, <2>2 DEF IInv, Inside, Loop
    <3>2. QED
      BY <1>2, <2>2, <3>1 DEF IInv, Inside, Loop
  <2>3. QED
    BY <2>1, <2>2
<1>9. observed' # <<>> /\ ~failed' => LastOf(observed').ts = lastProcessed'
  BY <1>1, <1>5
<1>10. QED
  BY <1>5, <1>7, <1>8, <1>9 DEF ObservedInOrder, Rising, Before, Key, SettledPostStream

\* No step but that of the next run goes back to an earlier packet or bound.
LEMMA MinGrows ==
  ASSUME Shape, Shape', [Next]_vars
  PROVE  PrepareForRun \/ Min' >= Min
<1>1. \A m \in Int : m >= m
  OBVIOUS
<1>2. \A m, n \in Int : m > n => m >= n
  OBVIOUS
<1>3. Min \in Int /\ Min' \in Int
  BY MinInt, NextMinInt
<1>4. ASSUME stream' = stream PROVE Min' >= Min
  <2>1. Min' = Min
    BY <1>4 DEF Min
  <2>2. QED
    BY <1>1, <1>3, <2>1
<1>5. ASSUME NEW t \in Thread, UpdateMirror(t) PROVE Min' >= Min
  BY <1>5, Mirrors
<1>6. ASSUME NEW t \in Thread, Look(t) PROVE Min' >= Min
  <2>1. CASE stream.queue = <<>>
    <3>1. stream' = stream
      BY <1>6, <2>1, Looks
    <3>2. QED
      BY <1>4, <3>1
  <2>2. CASE stream.queue # <<>>
    <3>1. Min' > Min
      BY <1>6, <2>2, Looks
    <3>2. QED
      BY <1>2, <1>3, <3>1, Zenon
  <2>3. QED
    BY <2>1, <2>2
<1>7. CASE TakePacket
  <2>1. Min' > Min
    BY <1>7, Takes
  <2>2. QED
    BY <1>2, <1>3, <2>1, Zenon
<1>8. stream' = stream \/ (\E t \in Thread : UpdateMirror(t) \/ Look(t)) \/ TakePacket
      \/ PrepareForRun
  BY DEF Next, vars, StartUpdate, RecordError, GraphFails, Enter, CallbackReturns,
         CallbackFails, Recheck, Signal, CallNext, CheckStream
<1>9. QED
  BY <1>4, <1>5, <1>6, <1>7, <1>8

\* The steps in which the observer is told nothing and nothing is looked at.
LEMMA ObservedApart ==
  ASSUME Shape, [Next]_vars,
         ~ \E t \in Thread : Look(t) \/ CallbackReturns(t) \/ CallbackFails(t),
         ~PrepareForRun
  PROVE  /\ UNCHANGED <<observed, lastProcessed, failed, seen>>
         /\ \A t \in Thread : pc'[t] = "callback" => pc[t] = "callback"
<1>1. CASE \E t \in Thread, ps \in Updates, b \in MinTs .. Done : StartUpdate(t, ps, b)
  BY <1>1 DEF StartUpdate, observer, Shape, JobShape
<1>2. CASE \E t \in Thread : UpdateMirror(t)
  <2>1. PICK t \in Thread : UpdateMirror(t)
    BY <1>2
  <2>2. UNCHANGED <<observed, lastProcessed, failed, seen>>
    BY <2>1 DEF UpdateMirror, observer
  <2>3. PICK x \in {"failed", "idle", "update", "enter", "signal"} :
          pc' = [pc EXCEPT ![t] = x]
    BY <2>1, OnwardJob DEF UpdateMirror
  <2>4. QED
    BY <2>2, <2>3 DEF Shape, JobShape
<1>3. CASE \E t \in Thread : RecordError(t) \/ Signal(t) \/ Enter(t) \/ Recheck(t)
  <2>1. PICK t \in Thread : RecordError(t) \/ Signal(t) \/ Enter(t) \/ Recheck(t)
    BY <1>3
  <2>2. UNCHANGED <<observed, lastProcessed, failed, seen>>
    BY <2>1 DEF RecordError, Signal, Enter, Recheck, observer
  <2>3. pc' = [pc EXCEPT ![t] = Onward(job[t])] \/ pc' = [pc EXCEPT ![t] = "look"]
    BY <2>1 DEF RecordError, Signal, Enter, Recheck
  <2>4. Onward(job[t]) # "callback"
    BY OnwardJob
  <2>5. QED
    BY <2>2, <2>3, <2>4 DEF Shape, JobShape
<1>4. CASE GraphFails \/ CallNext \/ CheckStream \/ TakePacket \/ UNCHANGED vars
  BY <1>4 DEF GraphFails, CallNext, CheckStream, TakePacket, vars, observer
<1>5. QED
  BY <1>1, <1>2, <1>3, <1>4 DEF Next

\* No step brings what was observed out of order.
LEMMA NextObserved ==
  ASSUME Shape, Shape', IInv, ObservedInOrder, [Next]_vars
  PROVE  ObservedInOrder'
<1>1. CASE \E t \in Thread : Look(t)
  BY <1>1, ObservedLook
<1>2. CASE \E t \in Thread : CallbackReturns(t) \/ CallbackFails(t)
  BY <1>2, ObservedCallback
<1>3. CASE PrepareForRun
  <2>1. observed' = <<>> /\ \A t \in Thread : pc'[t] = "idle"
    BY <1>3 DEF PrepareForRun, Quiet
  <2>2. QED
    BY <2>1 DEF ObservedInOrder, Rising, Before
<1>4. CASE /\ ~ \E t \in Thread : Look(t) \/ CallbackReturns(t) \/ CallbackFails(t)
           /\ ~PrepareForRun
  <2>1. /\ UNCHANGED <<observed, lastProcessed, failed, seen>>
        /\ \A t \in Thread : pc'[t] = "callback" => pc[t] = "callback"
    BY <1>4, ObservedApart
  <2>2. Min' >= Min
    BY <1>4, MinGrows
  <2>3. QED
    BY <2>1, <2>2, ObservedStays
<1>5. QED
  BY <1>1, <1>2, <1>3, <1>4

\* Steps that return nothing to the poller.
LEMMA PolledStays ==
  ASSUME Shape, Shape', PolledInOrder, Min' >= Min, polled' = polled,
         pollPc' \in {"idle", "check", "wait"} =>
           outputTs' = outputTs /\ pollPc \in {"idle", "check", "wait"}
  PROVE  PolledInOrder'
<1>1. Min \in Int /\ Min' \in Int
  BY MinInt, NextMinInt
<1>2. 2 * Min \in Int /\ 2 * Min' \in Int /\ 2 * Min <= 2 * Min'
  <2>1. \A m, n \in Int : n >= m => 2 * m \in Int /\ 2 * n \in Int /\ 2 * m <= 2 * n
    OBVIOUS
  <2>2. QED
    BY <1>1, <2>1, Zenon
<1>3. Before(polled, 2 * Min')
  BY <1>2, BeforeGrows DEF Shape, PollerShape, PolledInOrder
<1>4. QED
  BY <1>3 DEF PolledInOrder, Rising, Before, Key, SettledPostStream

\* Next returns a packet.
LEMMA PolledTake ==
  ASSUME Shape, Shape', PolledInOrder, TakePacket
  PROVE  PolledInOrder'
<1> DEFINE e == [ts |-> outputTs, packet |-> TRUE]
<1>1. polled' = Append(polled, e) /\ outputTs' = outputTs
  BY DEF TakePacket
<1>2. Min' > Min /\ Min = outputTs
  BY Takes
<1>3. e \in Event
  BY TimestampValues DEF Shape, PollerShape, Event, Timestamp
<1>4. Key(e) = 2 * Min
  <2>1. e # SettledPostStream
    BY DEF SettledPostStream
  <2>2. QED
    BY <1>2, <2>1 DEF Key
<1>5. e.ts = outputTs
  OBVIOUS
<1> HIDE DEF e
<1>6. Before(polled, Key(e)) /\ Rising(polled)
  BY <1>4 DEF PolledInOrder
<1>7. Rising(polled') /\ LastOf(polled') = e
  BY <1>1, <1>3, <1>6, RisingAppend DEF Shape, PollerShape
<1>8. 2 * Min < 2 * Min'
  <2>1. \A m, n \in Int : n > m => 2 * m < 2 * n
    OBVIOUS
  <2>2. QED
    BY <1>2, <2>1, MinInt, NextMinInt, Zenon
<1>9. QED
  BY <1>1, <1>4, <1>5, <1>7, <1>8 DEF PolledInOrder, Rising, Before, Key, SettledPostStream

\* Next looks at the stream, and may return its bound.
LEMMA PolledCheck ==
  ASSUME Shape, Shape', PolledInOrder, CheckStream
  PROVE  PolledInOrder'
<1> DEFINE previous == PreviousAllowedInStream(Min)
           e == [ts |-> previous, packet |-> FALSE]
<1>1. /\ stream' = stream /\ pollPc = "check"
      /\ \/ pollPc' \in {"wait", "end"} /\ outputTs' = outputTs /\ polled' = polled
         \/ pollPc' \in {"take", "end"} /\ polled' = polled
         \/ /\ pollPc' = "idle" /\ outputTs' = previous /\ outputTs < previous
            /\ polled' = Append(polled, e)
  BY DEF CheckStream, Min
<1>2. Min' = Min /\ Min \in PreStream .. Done /\ Min \in Int
  BY <1>1, MinInt DEF Min
<1>3. CASE polled' = polled /\ (pollPc' = "wait" => outputTs' = outputTs)
           /\ pollPc' \in {"wait", "take", "end"}
  <2>1. Min' >= Min
    <3>1. \A m \in Int : m >= m
      OBVIOUS
    <3>2. QED
      BY <1>2, <3>1
  <2>2. QED
    BY <1>1, <1>3, <2>1, PolledStays
<1>4. CASE /\ pollPc' = "idle" /\ outputTs' = previous /\ outputTs < previous
           /\ polled' = Append(polled, e)
  <2>1. previous \in Unstarted .. MaxTs /\ previous < Min
    BY <1>2, TimestampOrder
  <2>2. e \in Event
    BY <2>1, TimestampValues DEF Event, Timestamp
  <2>3. e.ts = previous
    OBVIOUS
  <2>4. e # SettledPostStream
    BY <2>1, TimestampValues DEF SettledPostStream
  <2>5. Key(e) = 2 * previous
    BY <2>3, <2>4 DEF Key
  <2> HIDE DEF e
  <2>6. Before(polled, Key(e))
    <3> SUFFICES ASSUME polled # <<>> PROVE Key(LastOf(polled)) < Key(e)
      BY DEF Before
    <3>1. LastOf(polled) \in Event
      BY DEF LastOf, Shape, PollerShape
    <3>2. LastOf(polled).ts = outputTs
      BY <1>1 DEF PolledInOrder
    <3>3. QED
      BY <1>4, <2>2, <2>3, <3>1, <3>2, KeyOrder
  <2>7. Rising(polled') /\ LastOf(polled') = e
    BY <1>4, <2>2, <2>6, RisingAppend DEF Shape, PollerShape, PolledInOrder
  <2>8. 2 * previous < 2 * Min'
    <3>1. previous \in Int
      BY <2>1, TimestampValues
    <3>2. QED
      BY <1>2, <2>1, <3>1, Twice, Zenon
  <2>9. QED
    BY <1>4, <2>3, <2>5, <2>7, <2>8
    DEF PolledInOrder, Rising, Before, Key, SettledPostStream
<1>5. QED
  BY <1>1, <1>3, <1>4

\* No step brings what was returned out of order.
LEMMA NextPolled ==
  ASSUME Shape, Shape', PolledInOrder, [Next]_vars
  PROVE  PolledInOrder'
<1>1. CASE TakePacket
  BY <1>1, PolledTake
<1>2. CASE CheckStream
  BY <1>2, PolledCheck
<1>3. CASE PrepareForRun
  BY <1>3 DEF PrepareForRun, PolledInOrder, Rising, Before
<1>4. CASE ~TakePacket /\ ~CheckStream /\ ~PrepareForRun
  <2>1. Min' >= Min
    BY <1>4, MinGrows
  <2>2. polled' = polled /\ outputTs' = outputTs /\ pollPc' \in {pollPc, Woken, "check"}
        /\ (pollPc' = pollPc \/ pollPc' = Woken \/ pollPc = "idle")
    BY <1>4 DEF Next, vars, StartUpdate, UpdateMirror, RecordError, GraphFails, Enter, Look,
         CallbackReturns, CallbackFails, Recheck, Signal, CallNext, poller
  <2>3. pollPc' \in {"idle", "check", "wait"} => pollPc \in {"idle", "check", "wait"}
    BY <2>2 DEF Woken
  <2>4. QED
    BY <2>1, <2>2, <2>3, PolledStays
<1>5. QED
  BY <1>1, <1>2, <1>3, <1>4

\* Increasing keys are events in order.
LEMMA RisingInOrder ==
  ASSUME NEW events \in Seq(Event), Rising(events)
  PROVE  InOrder(events)
<1> SUFFICES ASSUME NEW i \in 1 .. Len(events), NEW j \in 1 .. Len(events), i < j
             PROVE  \/ events[i].ts < events[j].ts
                    \/ events[i] = [ts |-> PostStream, packet |-> FALSE]
                       /\ events[j] = [ts |-> PostStream, packet |-> TRUE]
  BY DEF InOrder
<1>1. events[i] \in Event /\ events[j] \in Event
  BY ElementOfSeq
<1>2. Key(events[i]) < Key(events[j])
  BY DEF Rising
<1>3. QED
  BY <1>1, <1>2, KeyOrder DEF SettledPostStream

\* graph_output_stream.cc:107: what the observer and the poller are given comes
\* in the order of time, each timestamp once, and what was reported as settled
\* gets no packet later, but for PostStream.
THEOREM OutputInOrder == Spec => []EventsInOrder
<1> DEFINE Inv == Shape /\ IInv /\ ObservedInOrder /\ PolledInOrder
<1>1. Init => Inv
  <2>1. Init => ObservedInOrder /\ PolledInOrder
    BY DEF Init, ObservedInOrder, PolledInOrder, Rising, Before
  <2>2. QED
    BY <2>1, InitShape, InitIInv
<1>2. Inv /\ [Next]_vars => Inv'
  <2> SUFFICES ASSUME Inv, [Next]_vars PROVE Inv'
    OBVIOUS
  <2>1. Shape'
    BY NextShape
  <2>2. IInv'
    BY NextIInv
  <2>3. QED
    BY <2>1, <2>2, NextObserved, NextPolled
<1>3. Inv => EventsInOrder
  BY ShapeTypes, RisingInOrder
  DEF EventsInOrder, Shape, ObserverShape, PollerShape, ObservedInOrder, PolledInOrder
<1>4. QED
  BY <1>1, <1>2, <1>3, PTL DEF Spec

-----------------------------------------------------------------------------
\* What waits to be observed.

\* Two threads inside updates of the stream are the overlap with Close.
Together ==
  \A t, u \in Thread : pc[t] # "idle" /\ pc[u] # "idle" /\ t # u => overlapped

\* Somebody will look again.
Returns == \E t \in Thread : pc[t] \in {"enter", "look"}

\* A packet that waits will be looked at, because a thread is on its way, or is
\* about to find that the timestamp has changed; or it is the one that was
\* taken for no change.
PacketAttended ==
  kind = "observer" /\ stream.queue # <<>> /\ ~failed =>
    \/ Returns
    \/ \E t \in Thread : pc[t] = "callback" /\ seen[t].packet
    \/ \E t \in Thread : pc[t] \in {"callback", "recheck"} /\ seen[t].ts # Min
    \/ overlapped /\ \E t \in Thread : seen[t] = [ts |-> Min, packet |-> FALSE]

\* A bound seen has been reported, or is no later than what was reported; and
\* the bound that the stream has was seen, or will be.
BoundAttended ==
  /\ \A t \in Thread : pc[t] = "recheck" /\ bounds /\ seen[t].ts < Done =>
       lastProcessed >= Settled(seen[t].ts)
  /\ run = 1 /\ observed = <<>> => lastProcessed = Unstarted
  /\ /\ kind = "observer" /\ bounds /\ ~failed /\ run = 1
     /\ stream.queue = <<>> /\ Min # Done
     => \/ lastProcessed >= Settled(Min)
        \/ Returns
        \/ \E t \in Thread : pc[t] = "callback"
        \/ \E t \in Thread : pc[t] = "recheck" /\ seen[t].ts # Min

Attended == Together /\ PacketAttended /\ BoundAttended

\* A step of a thread outside the loop that leaves the packets and the bound.
LEMMA AttendedApart ==
  ASSUME Shape, Attended, NEW t \in Thread, NEW x,
         pc' = [pc EXCEPT ![t] = x],
         pc[t] \in {"idle", "update", "failed", "signal"},
         x # "recheck",
         Min' = Min, stream'.queue = <<>> <=> stream.queue = <<>>,
         UNCHANGED <<kind, bounds, failed, run, seen, lastProcessed, observed>>,
         pc[t] = "idle" => \A u \in Thread \ {t} : pc[u] # "idle" => overlapped',
         overlapped => overlapped'
  PROVE  Attended'
<1>1. \A u \in Thread : u # t => pc'[u] = pc[u]
  BY DEF Shape, JobShape
<1>2. pc'[t] = x
  BY DEF Shape, JobShape
<1>3. Returns => Returns'
  BY <1>1 DEF Returns
<1>4. Together'
  <2> SUFFICES ASSUME NEW u \in Thread, NEW w \in Thread,
                      pc'[u] # "idle", pc'[w] # "idle", u # w
               PROVE  overlapped'
    BY DEF Together
  <2>1. CASE pc[t] = "idle"
    BY <1>1, <2>1 DEF Attended, Together
  <2>2. CASE pc[t] # "idle"
    BY <1>1, <2>2 DEF Attended, Together
  <2>3. QED
    BY <2>1, <2>2
<1>5. PacketAttended'
  <2> SUFFICES ASSUME kind = "observer", stream.queue # <<>>, ~failed
               PROVE  \/ Returns'
                      \/ \E u \in Thread : pc'[u] = "callback" /\ seen[u].packet
                      \/ \E u \in Thread :
                           pc'[u] \in {"callback", "recheck"} /\ seen[u].ts # Min
                      \/ overlapped' /\ \E u \in Thread :
                                          seen[u] = [ts |-> Min, packet |-> FALSE]
    BY DEF PacketAttended
  <2>1. \/ Returns
        \/ \E u \in Thread : pc[u] = "callback" /\ seen[u].packet
        \/ \E u \in Thread : pc[u] \in {"callback", "recheck"} /\ seen[u].ts # Min
        \/ overlapped /\ \E u \in Thread : seen[u] = [ts |-> Min, packet |-> FALSE]
    BY DEF Attended, PacketAttended
  <2>2. QED
    BY <1>1, <1>3, <2>1
<1>6. BoundAttended'
  <2>1. ASSUME NEW u \in Thread, pc'[u] = "recheck", bounds, seen[u].ts < Done
        PROVE  lastProcessed >= Settled(seen[u].ts)
    BY <1>1, <1>2, <2>1 DEF Attended, BoundAttended
  <2>2. ASSUME kind = "observer", bounds, ~failed, run = 1, stream.queue = <<>>, Min # Done
        PROVE  \/ lastProcessed >= Settled(Min)
               \/ Returns'
               \/ \E u \in Thread : pc'[u] = "callback"
               \/ \E u \in Thread : pc'[u] = "recheck" /\ seen[u].ts # Min
    <3>1. \/ lastProcessed >= Settled(Min)
          \/ Returns
          \/ \E u \in Thread : pc[u] = "callback"
          \/ \E u \in Thread : pc[u] = "recheck" /\ seen[u].ts # Min
      BY <2>2 DEF Attended, BoundAttended
    <3>2. QED
      BY <1>1, <1>3, <3>1
  <2>3. run = 1 /\ observed = <<>> => lastProcessed = Unstarted
    BY DEF Attended, BoundAttended
  <2>4. QED
    BY <2>1, <2>2, <2>3 DEF BoundAttended, Settled
<1>7. QED
  BY <1>4, <1>5, <1>6 DEF Attended

\* A thread that is on its way in answers for everything.
LEMMA AttendedReturns ==
  ASSUME Shape, Attended, NEW t \in Thread, NEW x,
         pc' = [pc EXCEPT ![t] = x], x \in {"enter", "look"}, pc[t] # "idle",
         UNCHANGED <<kind, bounds, failed, run, seen, overlapped>>,
         run = 1 /\ observed' = <<>> => lastProcessed' = Unstarted,
         \/ lastProcessed' = lastProcessed
         \/ \A u \in Thread : Inside(u) => u = t
  PROVE  Attended'
<1>1. \A u \in Thread : u # t => pc'[u] = pc[u]
  BY DEF Shape, JobShape
<1>2. pc'[t] = x
  BY DEF Shape, JobShape
<1>3. Returns'
  BY <1>2 DEF Returns
<1>4. Together'
  BY <1>1 DEF Attended, Together
<1>5. PacketAttended'
  BY <1>3 DEF PacketAttended
<1>6. BoundAttended'
  <2>1. ASSUME NEW u \in Thread, pc'[u] = "recheck", bounds, seen[u].ts < Done
        PROVE  lastProcessed' >= Settled(seen[u].ts)
    <3>1. u # t /\ pc[u] = "recheck"
      BY <1>1, <1>2, <2>1
    <3>2. lastProcessed' = lastProcessed
      BY <3>1 DEF Inside, Loop
    <3>3. QED
      BY <2>1, <3>1, <3>2 DEF Attended, BoundAttended
  <2>2. QED
    BY <1>3, <2>1 DEF BoundAttended, Settled
<1>7. QED
  BY <1>4, <1>5, <1>6 DEF Attended

\* Nothing waits at first.
LEMMA InitAttended == Init => Attended
<1> SUFFICES ASSUME Init PROVE Attended
  OBVIOUS
<1>1. Together /\ PacketAttended
  BY DEF Init, Together, PacketAttended, FreshStream
<1>2. BoundAttended
  <2>1. Min = PreStream /\ lastProcessed = Unstarted /\ \A t \in Thread : pc[t] = "idle"
    BY DEF Init, FreshStream, Min, MinTimestampOrBound
  <2>2. Unstarted >= Settled(PreStream)
    BY TimestampValues DEF Settled, PreviousAllowedInStream
  <2>3. QED
    BY <2>1, <2>2 DEF BoundAttended
<1>3. QED
  BY <1>1, <1>2 DEF Attended

\* An update of the mirror sends the thread to Notify, or changes nothing that
\* the observer can see.
LEMMA AttendedMirror ==
  ASSUME Shape, Attended, NEW t \in Thread, UpdateMirror(t)
  PROVE  Attended'
<1>1. /\ pc[t] = "update"
      /\ UNCHANGED <<kind, bounds, failed, run, seen, lastProcessed, observed, overlapped>>
  BY DEF UpdateMirror, source, options, observer
<1>2. PICK x \in {"failed", "idle", "update", "enter", "signal"} :
        pc' = [pc EXCEPT ![t] = x]
  BY OnwardJob DEF UpdateMirror
<1>3. /\ StreamShape'
      /\ stream.queue # <<>> => /\ stream'.queue # <<>>
                                /\ Head(stream'.queue) = Head(stream.queue)
      /\ kind = "observer" /\ stream.queue = <<>> /\ stream' # stream =>
           pc' = [pc EXCEPT ![t] = "enter"]
  BY Mirrors
<1>4. CASE stream.queue # <<>> \/ stream' = stream
  <2>1. Min' = Min /\ (stream'.queue = <<>> <=> stream.queue = <<>>)
    BY <1>3, <1>4 DEF Min, MinTimestampOrBound
  <2>2. QED
    BY <1>1, <1>2, <2>1, AttendedApart
<1>5. CASE kind = "observer" /\ stream.queue = <<>> /\ stream' # stream
  BY <1>1, <1>3, <1>5, AttendedReturns DEF Attended, BoundAttended
<1>6. CASE kind # "observer"
  <2>1. \A u \in Thread : pc'[u] # "recheck"
    BY <1>2, <1>6 DEF Shape, JobShape, KindShape, Loop
  <2>2. Together'
    BY <1>1, <1>2 DEF Shape, JobShape, Attended, Together
  <2>3. PacketAttended' /\ BoundAttended'
    BY <1>1, <1>6, <2>1 DEF Attended, PacketAttended, BoundAttended
  <2>4. QED
    BY <2>2, <2>3 DEF Attended
<1>7. QED
  BY <1>4, <1>5, <1>6

\* A thread that finds notifying_ set leaves the rest to the one inside.
LEMMA AttendedEnter ==
  ASSUME Shape, IInv, Attended, NEW t \in Thread, Enter(t)
  PROVE  Attended'
<1>1. /\ pc[t] = "enter" /\ stream' = stream
      /\ UNCHANGED <<kind, bounds, failed, run, seen, lastProcessed, observed, overlapped>>
  BY DEF Enter, source, options
<1>2. CASE ~notifying
  <2>1. pc' = [pc EXCEPT ![t] = "look"]
    BY <1>2 DEF Enter
  <2>2. QED
    BY <1>1, <2>1, AttendedReturns DEF Attended, BoundAttended
<1>3. CASE notifying
  <2>1. PICK x \in {"idle", "update"} : pc' = [pc EXCEPT ![t] = x]
    BY <1>3, OnwardJob DEF Enter
  <2>2. \A u \in Thread : u # t => pc'[u] = pc[u]
    BY <2>1 DEF IInv
  <2>3. pc'[t] = x
    BY <2>1 DEF IInv
  <2>4. Min' = Min /\ stream'.queue = stream.queue
    BY <1>1 DEF Min
  <2>5. Together'
    BY <1>1, <2>2, <2>3 DEF Attended, Together
  <2>6. ASSUME ~failed
        PROVE  \E u \in Thread : Inside(u) /\ u # t
    <3>1. PICK u \in Thread : Inside(u)
      BY <1>3, <2>6 DEF IInv
    <3>2. u # t
      BY <1>1, <3>1 DEF Inside, Loop
    <3>3. QED
      BY <3>1, <3>2
  <2>7. PacketAttended'
    <3> SUFFICES ASSUME ~failed, kind = "observer", stream.queue # <<>>
                 PROVE  \/ Returns'
                        \/ \E u \in Thread : pc'[u] = "callback" /\ seen[u].packet
                        \/ \E u \in Thread :
                             pc'[u] \in {"callback", "recheck"} /\ seen[u].ts # Min
                        \/ overlapped /\ \E u \in Thread :
                                           seen[u] = [ts |-> Min, packet |-> FALSE]
      BY <1>1, <2>4 DEF PacketAttended
    <3>1. PICK u \in Thread : Inside(u) /\ u # t
      BY <2>6
    <3>2. pc'[u] = pc[u] /\ pc[u] \in {"look", "callback", "recheck"}
      BY <2>2, <3>1 DEF Inside, Loop
    <3>3. CASE pc[u] = "look"
      BY <3>2, <3>3 DEF Returns
    <3>4. CASE pc[u] \in {"callback", "recheck"} /\ seen[u].ts # Min
      BY <3>2, <3>4
    <3>5. CASE pc[u] = "callback" /\ seen[u].packet
      BY <3>2, <3>5
    <3>6. CASE pc[u] \in {"callback", "recheck"} /\ seen[u].ts = Min /\ ~seen[u].packet
      <4>1. overlapped
        BY <1>1, <3>1, <3>6 DEF Attended, Together
      <4>2. /\ seen[u] = [ts |-> seen[u].ts, packet |-> seen[u].packet]
            /\ seen[u].packet = FALSE
        BY <3>6 DEF Shape, SeenShape, Event
      <4>3. seen[u] = [ts |-> Min, packet |-> FALSE]
        BY <3>6, <4>2, Zenon
      <4>4. QED
        BY <4>1, <4>3
    <3>7. pc[u] = "recheck" => ~seen[u].packet
      BY DEF Shape, SeenShape
    <3>8. QED
      BY <3>2, <3>3, <3>4, <3>5, <3>6, <3>7
  <2>8. BoundAttended'
    <3>1. ASSUME NEW u \in Thread, pc'[u] = "recheck", bounds, seen[u].ts < Done
          PROVE  lastProcessed >= Settled(seen[u].ts)
      BY <2>2, <2>3, <3>1 DEF Attended, BoundAttended
    <3>2. ASSUME kind = "observer", bounds, ~failed, run = 1,
                 stream.queue = <<>>, Min # Done
          PROVE  \/ lastProcessed >= Settled(Min)
                 \/ Returns'
                 \/ \E u \in Thread : pc'[u] = "callback"
                 \/ \E u \in Thread : pc'[u] = "recheck" /\ seen[u].ts # Min
      <4>1. PICK u \in Thread : Inside(u) /\ u # t
        BY <2>6, <3>2
      <4>2. pc'[u] = pc[u] /\ pc[u] \in {"look", "callback", "recheck"}
        BY <2>2, <4>1 DEF Inside, Loop
      <4>3. CASE pc[u] = "recheck" /\ seen[u].ts = Min
        <5>1. Min \in PreStream .. Done
          BY MinInt
        <5>2. Min < Done
          BY <3>2, <5>1, TimestampValues
        <5>3. lastProcessed >= Settled(seen[u].ts)
          BY <3>2, <4>3, <5>2 DEF Attended, BoundAttended
        <5>4. QED
          BY <4>3, <5>3
      <4>4. QED
        BY <4>2, <4>3 DEF Returns
    <3>3. run = 1 /\ observed = <<>> => lastProcessed = Unstarted
      BY DEF Attended, BoundAttended
    <3>4. QED
      BY <1>1, <2>4, <3>1, <3>2, <3>3 DEF BoundAttended, Settled
  <2>9. QED
    BY <2>5, <2>7, <2>8 DEF Attended
<1>4. QED
  BY <1>2, <1>3

\* A look at a packet ends in the callback; a look at a bound in the callback,
\* or with nothing new to report.
LEMMA AttendedLook ==
  ASSUME Shape, IInv, Attended, NEW t \in Thread, Look(t)
  PROVE  Attended'
<1> DEFINE empty == stream.queue = <<>>
           x == IF empty /\ ~ReportsBound(Min) THEN "recheck" ELSE "callback"
<1>1. /\ pc[t] = "look"
      /\ UNCHANGED <<kind, bounds, failed, run, lastProcessed, observed, overlapped>>
      /\ pc' = [pc EXCEPT ![t] = x]
  BY DEF Look, Min, source, options
<1>2. /\ stream.queue = <<>> => stream' = stream
      /\ seen' = [seen EXCEPT ![t] = [ts |-> Min, packet |-> stream.queue # <<>>]]
  BY Looks
<1>3. /\ pc'[t] = x /\ seen'[t] = [ts |-> Min, packet |-> ~empty]
      /\ \A u \in Thread : u # t => pc'[u] = pc[u] /\ seen'[u] = seen[u] /\ ~Inside(u)
  BY <1>1, <1>2 DEF IInv, Inside, Loop, Shape, SeenShape
<1>4. seen'[t].ts = Min /\ (seen'[t].packet <=> ~empty)
  <2> HIDE DEF empty, x
  <2>1. seen'[t] = [ts |-> Min, packet |-> ~empty]
    BY <1>3
  <2>2. seen'[t].ts = Min
    BY <2>1
  <2>3. seen'[t].packet <=> ~empty
    <3>1. CASE empty
      <4>1. seen'[t] = [ts |-> Min, packet |-> FALSE]
        BY <2>1, <3>1, Zenon
      <4>2. QED
        BY <3>1, <4>1
    <3>2. CASE ~empty
      <4>1. seen'[t] = [ts |-> Min, packet |-> TRUE]
        BY <2>1, <3>2, Zenon
      <4>2. QED
        BY <3>2, <4>1
    <3>3. QED
      BY <3>1, <3>2
  <2>4. QED
    BY <2>2, <2>3
<1>5. Together'
  BY <1>1, <1>3 DEF Attended, Together
<1>6. \A u \in Thread : pc'[u] = "recheck" => u = t
  BY <1>3 DEF Inside, Loop
<1>7. CASE ~empty
  <2>1. pc'[t] = "callback" /\ seen'[t].packet
    BY <1>3, <1>4, <1>7
  <2>2. PacketAttended'
    BY <2>1 DEF PacketAttended
  <2>3. \A u \in Thread : pc'[u] # "recheck"
    BY <1>6, <2>1
  <2>4. BoundAttended'
    BY <1>1, <2>1, <2>3 DEF BoundAttended, Attended
  <2>5. QED
    BY <1>5, <2>2, <2>4 DEF Attended
<1>8. CASE empty
  <2>1. stream' = stream /\ Min' = Min
    BY <1>2, <1>8 DEF Min
  <2>2. PacketAttended'
    BY <1>8, <2>1 DEF PacketAttended
  <2>3. CASE x = "callback"
    <3>1. \A u \in Thread : pc'[u] # "recheck"
      BY <1>3, <1>6, <2>3
    <3>2. BoundAttended'
      BY <1>1, <1>3, <2>3, <3>1 DEF BoundAttended, Attended
    <3>3. QED
      BY <1>5, <2>2, <3>2 DEF Attended
  <2>4. CASE x = "recheck"
    <3>1. ASSUME bounds, Min < Done PROVE lastProcessed >= Settled(Min)
      <4>1. ~(lastProcessed < Settled(Min))
        BY <1>8, <2>4, <3>1 DEF ReportsBound
      <4>2. Min \in PreStream .. Done
        BY MinInt
      <4>3. /\ Settled(Min) \in Unstarted .. PostStream
            /\ lastProcessed \in Unstarted .. PostStream
        BY <4>2, SettledOrder DEF Shape, ObserverShape
      <4>4. QED
        BY <4>1, <4>3, TimestampValues
    <3>2. ASSUME NEW u \in Thread, pc'[u] = "recheck", bounds, seen'[u].ts < Done
          PROVE  lastProcessed >= Settled(seen'[u].ts)
      BY <1>4, <1>6, <3>1, <3>2
    <3>3. ASSUME bounds, Min # Done PROVE lastProcessed >= Settled(Min)
      BY <3>1, <3>3, MinInt, TimestampValues
    <3>4. BoundAttended'
      BY <1>1, <2>1, <3>2, <3>3 DEF BoundAttended, Attended, Settled
    <3>5. QED
      BY <1>5, <2>2, <3>4 DEF Attended
  <2>5. QED
    BY <2>3, <2>4
<1>9. QED
  BY <1>7, <1>8

\* After a packet the thread looks again; a bound is reported.
LEMMA AttendedCallback ==
  ASSUME Shape, IInv, Attended, NEW t \in Thread, CallbackReturns(t)
  PROVE  Attended'
<1>1. /\ pc[t] = "callback" /\ observed' = Append(observed, Told(t)) /\ stream' = stream
      /\ lastProcessed' = Told(t).ts
      /\ pc' = [pc EXCEPT ![t] = IF seen[t].packet THEN "look" ELSE "recheck"]
      /\ UNCHANGED <<kind, bounds, failed, run, seen, overlapped>>
  BY DEF CallbackReturns, source, options
<1>2. \A u \in Thread : Inside(u) => u = t
  BY <1>1 DEF IInv, Inside, Loop
<1>3. observed' # <<>> /\ Min' = Min
  BY <1>1, ToldShape, AppendProperties DEF Shape, ObserverShape, Min
<1>4. CASE seen[t].packet
  BY <1>1, <1>2, <1>3, <1>4, AttendedReturns
<1>5. CASE ~seen[t].packet
  <2>1. /\ pc'[t] = "recheck"
        /\ \A u \in Thread : u # t => pc'[u] = pc[u] /\ ~Inside(u)
    BY <1>1, <1>2, <1>5 DEF IInv
  <2>2. lastProcessed' = Settled(seen[t].ts)
    BY <1>1, <1>5, ToldShape
  <2>3. Settled(seen[t].ts) \in Int
    <3>1. seen[t].ts \in PreStream .. Done
      BY <1>1, <1>5, TimestampValues DEF Shape, SeenShape
    <3>2. QED
      BY <3>1, SettledOrder, TimestampValues
  <2>4. Together'
    BY <1>1, <2>1 DEF Attended, Together
  <2>5. PacketAttended'
    <3> SUFFICES ASSUME ~failed, kind = "observer", stream.queue # <<>>
                 PROVE  \/ Returns'
                        \/ \E u \in Thread :
                             pc'[u] \in {"callback", "recheck"} /\ seen[u].ts # Min
                        \/ overlapped /\ \E u \in Thread :
                                           seen[u] = [ts |-> Min, packet |-> FALSE]
      BY <1>1, <1>3 DEF PacketAttended
    <3>1. \/ Returns
          \/ \E u \in Thread : pc[u] = "callback" /\ seen[u].packet
          \/ \E u \in Thread : pc[u] \in {"callback", "recheck"} /\ seen[u].ts # Min
          \/ overlapped /\ \E u \in Thread : seen[u] = [ts |-> Min, packet |-> FALSE]
      BY DEF Attended, PacketAttended
    <3>2. CASE Returns
      <4>1. PICK u \in Thread : pc[u] \in {"enter", "look"}
        BY <3>2 DEF Returns
      <4>2. pc'[u] = pc[u]
        BY <1>1, <2>1, <4>1
      <4>3. QED
        BY <4>1, <4>2 DEF Returns
    <3>3. CASE \E u \in Thread : pc[u] = "callback" /\ seen[u].packet
      BY <1>2, <1>5, <3>3 DEF Inside, Loop
    <3>4. CASE \E u \in Thread : pc[u] \in {"callback", "recheck"} /\ seen[u].ts # Min
      <4>1. PICK u \in Thread : pc[u] \in {"callback", "recheck"} /\ seen[u].ts # Min
        BY <3>4
      <4>2. u = t
        BY <1>2, <4>1 DEF Inside, Loop
      <4>3. QED
        BY <2>1, <4>1, <4>2
    <3>5. QED
      BY <3>1, <3>2, <3>3, <3>4
  <2>6. BoundAttended'
    <3>1. \A u \in Thread : pc'[u] = "recheck" => u = t
      BY <2>1 DEF Inside, Loop
    <3>2. lastProcessed' >= Settled(seen[t].ts)
      BY <2>2, <2>3
    <3>3. seen[t].ts # Min \/ lastProcessed' >= Settled(Min)
      BY <3>2
    <3>4. QED
      BY <1>1, <1>3, <2>1, <3>1, <3>2, <3>3 DEF BoundAttended, Settled
  <2>7. QED
    BY <2>4, <2>5, <2>6 DEF Attended
<1>6. QED
  BY <1>4, <1>5

\* After an error nothing is owed.
LEMMA AttendedFails ==
  ASSUME Shape, IInv, Attended, NEW t \in Thread, CallbackFails(t)
  PROVE  Attended'
<1>1. /\ pc[t] = "callback" /\ observed' = Append(observed, Told(t))
      /\ pc' = [pc EXCEPT ![t] = "failed"] /\ failed'
      /\ UNCHANGED <<seen, overlapped>>
  BY DEF CallbackFails, source
<1>2. \A u \in Thread : pc'[u] # "recheck"
  BY <1>1 DEF IInv, Inside, Loop
<1>3. observed' # <<>>
  BY <1>1, ToldShape, AppendProperties DEF Shape, ObserverShape
<1>4. Together'
  BY <1>1 DEF Shape, JobShape, Attended, Together
<1>5. QED
  BY <1>1, <1>2, <1>3, <1>4 DEF Attended, PacketAttended, BoundAttended

\* A thread that leaves has seen what there is.
LEMMA AttendedRecheck ==
  ASSUME Shape, IInv, Attended, NEW t \in Thread, Recheck(t)
  PROVE  Attended'
<1>1. /\ pc[t] = "recheck" /\ stream' = stream
      /\ UNCHANGED <<kind, bounds, failed, run, seen, lastProcessed, observed, overlapped>>
  BY DEF Recheck, source, options
<1>2. Min' = Min /\ \A u \in Thread : Inside(u) => u = t
  BY <1>1 DEF Min, IInv, Inside, Loop
<1>3. CASE Min # seen[t].ts
  <2>1. pc' = [pc EXCEPT ![t] = "look"]
    BY <1>3 DEF Recheck, Min
  <2>2. QED
    BY <1>1, <2>1, AttendedReturns DEF Attended, BoundAttended
<1>4. CASE Min = seen[t].ts
  <2>1. PICK x \in {"idle", "update"} : pc' = [pc EXCEPT ![t] = x]
    BY <1>4, OnwardJob DEF Recheck, Min
  <2>2. /\ pc'[t] = x
        /\ \A u \in Thread : u # t => pc'[u] = pc[u] /\ ~Inside(u)
    BY <1>2, <2>1 DEF IInv
  <2>3. Together'
    BY <1>1, <2>2 DEF Attended, Together
  <2>4. Returns => Returns'
    BY <1>1, <2>2 DEF Returns
  <2>5. PacketAttended'
    <3> SUFFICES ASSUME ~failed, kind = "observer", stream.queue # <<>>
                 PROVE  \/ Returns'
                        \/ overlapped /\ \E u \in Thread :
                                           seen[u] = [ts |-> Min, packet |-> FALSE]
      BY <1>1, <1>2 DEF PacketAttended
    <3>1. \/ Returns
          \/ \E u \in Thread : pc[u] = "callback" /\ seen[u].packet
          \/ \E u \in Thread : pc[u] \in {"callback", "recheck"} /\ seen[u].ts # Min
          \/ overlapped /\ \E u \in Thread : seen[u] = [ts |-> Min, packet |-> FALSE]
      BY DEF Attended, PacketAttended
    <3>2. \A u \in Thread : pc[u] \in {"callback", "recheck"} => u = t
      BY <1>2 DEF Inside, Loop
    <3>3. QED
      BY <1>1, <1>4, <2>4, <3>1, <3>2
  <2>6. BoundAttended'
    <3>1. \A u \in Thread : pc'[u] # "recheck"
      BY <2>2 DEF Inside, Loop
    <3>2. ASSUME bounds, Min # Done PROVE lastProcessed >= Settled(Min)
      <4>1. Min < Done
        BY <3>2, MinInt, TimestampValues
      <4>2. QED
        BY <1>1, <1>4, <3>2, <4>1 DEF Attended, BoundAttended
    <3>3. QED
      BY <1>1, <1>2, <3>1, <3>2 DEF Attended, BoundAttended, Settled
  <2>7. QED
    BY <2>3, <2>5, <2>6 DEF Attended
<1>5. QED
  BY <1>3, <1>4

\* The next run starts with an empty stream.
LEMMA AttendedPrepare ==
  ASSUME Shape, Attended, PrepareForRun
  PROVE  Attended'
<1>1. /\ run < MaxRuns /\ run' = run + 1 /\ stream' = FreshStream
      /\ \A t \in Thread : pc'[t] = "idle"
  BY DEF PrepareForRun, Quiet
<1>2. run' # 1
  BY <1>1, GraphOutputAssumption DEF Shape, RestShape
<1>3. QED
  BY <1>1, <1>2 DEF Attended, Together, PacketAttended, BoundAttended, FreshStream

\* Steps of the application, which is that of a poller when packets are taken.
LEMMA AttendedElsewhere ==
  ASSUME Shape, Attended,
  GraphFails \/ CallNext \/ CheckStream \/ TakePacket \/ UNCHANGED vars
  PROVE  Attended'
<1>1. UNCHANGED <<pc, kind, bounds, failed, run, seen, lastProcessed, observed, overlapped>>
  BY DEF GraphFails, CallNext, CheckStream, TakePacket, vars, observer, options, source
<1>2. Together'
  BY <1>1 DEF Attended, Together
<1>3. CASE stream' = stream
  <2>1. Min' = Min /\ (Returns' <=> Returns)
    BY <1>1, <1>3 DEF Min, Returns
  <2>2. PacketAttended' /\ BoundAttended'
    BY <1>1, <1>3, <2>1 DEF Attended, PacketAttended, BoundAttended, Settled
  <2>3. QED
    BY <1>2, <2>2 DEF Attended
<1>4. CASE TakePacket
  <2>1. kind # "observer"
    BY <1>4 DEF TakePacket, Shape, KindShape
  <2>2. PacketAttended' /\ BoundAttended'
    BY <1>1, <2>1 DEF Attended, PacketAttended, BoundAttended, Settled
  <2>3. QED
    BY <1>2, <2>2 DEF Attended
<1>5. QED
  BY <1>3, <1>4 DEF GraphFails, CallNext, CheckStream, vars

\* What waits is attended to, after every step.
LEMMA NextAttended ==
  ASSUME Shape, IInv, Attended, [Next]_vars
  PROVE  Attended'
<1>1. ASSUME NEW t \in Thread, NEW ps \in Updates, NEW b \in MinTs .. Done,
             StartUpdate(t, ps, b)
      PROVE  Attended'
  <2>1. /\ pc[t] = "idle" /\ pc' = [pc EXCEPT ![t] = "update"] /\ stream' = stream
        /\ overlapped' = (overlapped \/ \E u \in Thread : pc[u] # "idle")
        /\ UNCHANGED <<kind, bounds, failed, run, seen, lastProcessed, observed>>
    BY <1>1 DEF StartUpdate, MayStart, options, observer
  <2>2. Min' = Min /\ (stream'.queue = <<>> <=> stream.queue = <<>>)
    BY <2>1 DEF Min
  <2>3. QED
    BY <2>1, <2>2, AttendedApart
<1>2. ASSUME NEW t \in Thread, RecordError(t) \/ Signal(t) PROVE Attended'
  <2>1. /\ pc[t] \in {"failed", "signal"} /\ pc' = [pc EXCEPT ![t] = Onward(job[t])]
        /\ UNCHANGED <<stream, kind, bounds, failed, run, seen, lastProcessed, observed,
                       overlapped>>
    BY <1>2 DEF RecordError, Signal, options, observer, source
  <2>2. Min' = Min /\ (stream'.queue = <<>> <=> stream.queue = <<>>)
    BY <2>1 DEF Min
  <2>3. Onward(job[t]) # "recheck"
    BY OnwardJob
  <2>4. QED
    BY <2>1, <2>2, <2>3, AttendedApart
<1>3. ASSUME NEW t \in Thread, Continue(t) PROVE Attended'
  BY <1>2, <1>3, AttendedMirror, AttendedEnter, AttendedLook, AttendedRecheck,
     AttendedCallback, AttendedFails
  DEF Continue
<1>4. CASE PrepareForRun
  BY <1>4, AttendedPrepare
<1>5. CASE GraphFails \/ CallNext \/ CheckStream \/ TakePacket \/ UNCHANGED vars
  BY <1>5, AttendedElsewhere
<1>6. QED
  BY <1>1, <1>3, <1>4, <1>5 DEF Next, Continue

\* The inductive invariant of the observer's events.
Complete == Shape /\ IInv /\ ObservedInOrder /\ Attended

\* It holds in every state of every behaviour.
LEMMA AlwaysComplete == Spec => []Complete
<1>1. Init => Complete
  <2>1. Init => ObservedInOrder
    BY DEF Init, ObservedInOrder, Rising, Before
  <2>2. QED
    BY <2>1, InitShape, InitIInv, InitAttended DEF Complete
<1>2. Complete /\ [Next]_vars => Complete'
  <2> SUFFICES ASSUME Complete, [Next]_vars PROVE Complete'
    OBVIOUS
  <2>1. Shape'
    BY NextShape DEF Complete
  <2>2. IInv'
    BY NextIInv DEF Complete
  <2>3. ObservedInOrder' /\ Attended'
    BY <2>1, NextObserved, NextAttended DEF Complete
  <2>4. QED
    BY <2>1, <2>2, <2>3 DEF Complete
<1>3. QED
  BY <1>1, <1>2, PTL DEF Spec

\* graph_output_stream.cc:119: when no update is under way, the only packet that
\* was not observed is one taken for no change, after an overlap with Close.
THEOREM EveryPacketObserved == Spec => []PacketsObserved
<1>1. Complete => PacketsObserved
  <2> SUFFICES ASSUME Complete, kind = "observer", Quiet, stream.queue # <<>>, ~failed
               PROVE  overlapped /\ \E t \in Thread : seen[t] = [ts |-> Head(stream.queue),
                                                                 packet |-> FALSE]
    BY DEF PacketsObserved
  <2>1. ~Returns /\ \A t \in Thread : pc[t] \notin {"callback", "recheck"}
    BY DEF Quiet, Returns
  <2>2. overlapped /\ \E t \in Thread : seen[t] = [ts |-> Min, packet |-> FALSE]
    BY <2>1 DEF Complete, Attended, PacketAttended
  <2>3. Min = Head(stream.queue)
    BY DEF Min, MinTimestampOrBound
  <2>4. QED
    BY <2>2, <2>3
<1>2. QED
  BY <1>1, AlwaysComplete, PTL

\* graph_output_stream.cc:98: when no update is under way, the observer of a first
\* run has been told of the bound that the stream has reached.
THEOREM EveryBoundObserved == Spec => []BoundsObserved
<1>1. Complete => BoundsObserved
  <2> SUFFICES ASSUME Complete, kind = "observer", Quiet, bounds, ~failed, run = 1,
                      stream.queue = <<>>, stream.bound # Done
               PROVE  \/ Settled(stream.bound) = Unstarted
                      \/ \E i \in 1 .. Len(observed) :
                           observed[i].ts >= Settled(stream.bound)
    BY DEF BoundsObserved
  <2>1. ~Returns /\ \A t \in Thread : pc[t] \notin {"callback", "recheck"}
    BY DEF Quiet, Returns
  <2>2. Min = stream.bound /\ Min \in PreStream .. Done
    BY MinInt DEF Complete, Min, MinTimestampOrBound
  <2>3. lastProcessed >= Settled(stream.bound)
    BY <2>1, <2>2 DEF Complete, Attended, BoundAttended
  <2>4. /\ Settled(stream.bound) \in Unstarted .. PostStream
        /\ observed \in Seq(Event)
    BY <2>2, SettledOrder DEF Complete, Shape, ObserverShape
  <2>5. CASE observed = <<>>
    <3>1. lastProcessed = Unstarted
      BY <2>5 DEF Complete, Attended, BoundAttended
    <3>2. QED
      BY <2>3, <2>4, <3>1, TimestampValues
  <2>6. CASE observed # <<>>
    <3>1. LastOf(observed).ts = lastProcessed
      BY <2>6 DEF Complete, ObservedInOrder
    <3>2. Len(observed) \in 1 .. Len(observed) /\ LastOf(observed) = observed[Len(observed)]
      BY <2>4, <2>6 DEF LastOf
    <3>3. QED
      BY <2>3, <3>1, <3>2
  <2>7. QED
    BY <2>5, <2>6
<1>2. QED
  BY <1>1, AlwaysComplete, PTL

-----------------------------------------------------------------------------
\* What an update changes.

\* What an update of the mirror does to the stream: a packet is added, or it is
\* refused and the thread fails, or the bound grows.
LEMMA MirrorMoves ==
  ASSUME Shape, NEW t \in Thread, UpdateMirror(t)
  PROVE  /\ job[t].part \in {"add", "bound"}
         /\ job[t].part = "bound" =>
              /\ stream'.queue = stream.queue
              /\ stream'.bound \in {stream.bound, job[t].bound}
              /\ stream'.bound >= stream.bound
         /\ job[t].part = "add" =>
              \E p \in PreStream .. PostStream :
                /\ job[t].packets = <<p>>
                /\ \/ stream' = stream /\ pc' = [pc EXCEPT ![t] = "failed"]
                   \/ /\ p >= stream.bound
                      /\ stream'.queue = Append(stream.queue, p)
                      /\ stream'.bound = NextAllowedInStream(p)
<1> DEFINE j == job[t]
           done == IF j.part = "add" THEN AddPackets(stream, j.packets)
                   ELSE SetNextTimestampBound(stream, j.bound)
<1>1. /\ stream' = done.stream
      /\ pc' = [pc EXCEPT ![t] =
                 IF done.refused THEN "failed"
                 ELSE IF ~done.notify THEN Onward(Advance(j))
                 ELSE IF kind = "observer" THEN "enter" ELSE "signal"]
      /\ stream \in Stream /\ ~stream.closed
  BY DEF UpdateMirror, Shape, JobShape, StreamShape, Ordered
<1>2. /\ j.packets \in Updates /\ j.bound \in MinTs .. Done
      /\ j.part \in {"add", "bound"}
      /\ j.part = "add" => j.packets # <<>>
  <2>1. j \in Job /\ j # NoJob
    BY DEF UpdateMirror, Shape, JobShape
  <2> HIDE DEF j
  <2>2. QED
    BY <2>1 DEF Job
<1> HIDE DEF j
<1>3. ASSUME j.part = "bound"
      PROVE  /\ stream'.queue = stream.queue
             /\ stream'.bound \in {stream.bound, j.bound}
             /\ stream'.bound >= stream.bound
  <2>1. done = SetNextTimestampBound(stream, j.bound)
    BY <1>3
  <2>2. stream.bound \in Int /\ j.bound \in Int
    BY <1>1, <1>2, TimestampValues DEF Stream
  <2>3. stream' = stream \/ (stream' = [stream EXCEPT !.bound = j.bound]
                             /\ j.bound > stream.bound)
    BY <1>1, <2>1 DEF SetNextTimestampBound
  <2>4. QED
    BY <2>2, <2>3, <1>1 DEF Stream
<1>4. ASSUME j.part = "add"
      PROVE  \E p \in PreStream .. PostStream :
               /\ j.packets = <<p>>
               /\ \/ stream' = stream /\ pc' = [pc EXCEPT ![t] = "failed"]
                  \/ /\ p >= stream.bound
                     /\ stream'.queue = Append(stream.queue, p)
                     /\ stream'.bound = NextAllowedInStream(p)
  <2>1. PICK p \in PreStream .. PostStream : j.packets = <<p>>
    BY <1>2, <1>4 DEF Updates
  <2>2. done = AddPackets(stream, <<p>>)
    BY <1>4, <2>1
  <2> HIDE DEF done
  <2>3. \/ done.stream = stream /\ (stream.closed \/ done.refused)
        \/ /\ p >= stream.bound
           /\ done.stream = [stream EXCEPT !.queue = Append(@, p),
                               !.bound = NextAllowedInStream(p), !.added = TRUE]
    BY <1>1, <2>2, AddOne
  <2>4. CASE done.stream = stream /\ (stream.closed \/ done.refused)
    BY <1>1, <2>1, <2>4
  <2>5. CASE /\ p >= stream.bound
             /\ done.stream = [stream EXCEPT !.queue = Append(@, p),
                                 !.bound = NextAllowedInStream(p), !.added = TRUE]
    <3>1. /\ stream'.queue = Append(stream.queue, p)
          /\ stream'.bound = NextAllowedInStream(p)
      BY <1>1, <2>5 DEF Stream
    <3>2. QED
      BY <2>1, <2>5, <3>1
  <2>6. QED
    BY <2>3, <2>4, <2>5
<1>5. QED
  BY <1>2, <1>3, <1>4 DEF j

-----------------------------------------------------------------------------
\* What waits to be polled.

\* The packets of the run that got as far as the stream of the poller.
Reached == Returned \cup Values(stream.queue)

\* Packets are added only in the part of an update that is first; Done comes
\* in the last update, and is where Next ends unless the graph has an error.
JobsInOrder ==
  /\ \A t \in Thread : job[t].part = "add" => pc[t] = "update"
  /\ \A t \in Thread : pc[t] = "idle" => job[t] = NoJob
  /\ \A t, u \in Thread : job[t].bound = Done /\ job[u].bound = Done => t = u
  /\ \A t \in Thread : job[t].bound = Done => outBound = Done
  /\ stream.bound = Done => outBound = Done

PollerInOrder ==
  /\ \A m \in Returned : m < stream.bound
  /\ pollPc = "end" /\ ~hasError => stream.queue = <<>> /\ stream.bound = Done

\* No packet is on its way.
Arrived ==
  /\ \A t \in Thread : job[t].part # "add"
  /\ Reached = Values(sent) /\ Increasing(sent)

\* The update of t has packets, and no update under way has the last bound.
Alone(t) ==
  /\ carries /\ stream.bound # Done
  /\ \A u \in Thread \ {t} : job[u].part # "add" /\ job[u].bound # Done

\* The last packet is on its way, or was refused and an error is to follow.
OnItsWay(t) ==
  /\ pc[t] = "update" /\ job[t].part = "add" /\ Alone(t)
  /\ \E p \in PreStream .. PostStream, rest \in Seq(PreStream .. PostStream) :
       /\ job[t].packets = <<p>> /\ sent = Append(rest, p)
       /\ Reached = Values(rest) /\ Increasing(rest)

Refused(t) == pc[t] = "failed" /\ Alone(t)

PacketsArrive ==
  kind = "poller" /\ ~hasError =>
    Arrived \/ \E t \in Thread : OnItsWay(t) \/ Refused(t)

Delivered == JobsInOrder /\ PollerInOrder /\ PacketsArrive

LEMMA InitDelivered == Init => Delivered
<1> SUFFICES ASSUME Init PROVE Delivered
  OBVIOUS
<1>1. Returned = {} /\ Values(stream.queue) = {} /\ Values(sent) = {}
  BY DEF Init, Returned, Values, FreshStream
<1>2. JobsInOrder
  BY TimestampValues DEF Init, JobsInOrder, NoJob, FreshStream
<1>3. PollerInOrder
  BY <1>1 DEF Init, PollerInOrder
<1>4. Arrived
  BY <1>1 DEF Init, Arrived, Reached, NoJob, Increasing
<1>5. QED
  BY <1>2, <1>3, <1>4 DEF Delivered, PacketsArrive

\* The jobs of all threads, and of t after it moves.
LEMMA JobOf ==
  ASSUME JobShape, NEW t \in Thread
  PROVE  /\ job[t] \in Job
         /\ job[t].part = "add" => job[t] # NoJob /\ Advance(job[t]).part # "add"
         /\ Advance(job[t]).bound \in {job[t].bound, Unset}
         /\ Advance(job[t]).part # "add" \/ job[t].part = "add"
<1>1. job[t] \in Job
  BY DEF JobShape
<1> DEFINE j == job[t]
<1> HIDE DEF j
<1>2. NoJob.part = "none" /\ NoJob.bound = Unset /\ "none" # "add" /\ "bound" # "add"
  BY DEF NoJob
<1>3. Advance(j) = NoJob \/ (Advance(j) = [j EXCEPT !.part = "bound"] /\ j.part = "add")
  BY DEF Advance
<1>4. ASSUME j # NoJob
      PROVE  /\ [j EXCEPT !.part = "bound"].part = "bound"
             /\ [j EXCEPT !.part = "bound"].bound = j.bound
  BY <1>1, <1>4 DEF Job, j
<1>5. j.part = "add" => j # NoJob
  BY <1>2
<1>6. QED
  BY <1>1, <1>2, <1>3, <1>4, <1>5 DEF j

\* An update begins.
LEMMA DeliveredStart ==
  ASSUME Shape, Delivered, NEW t \in Thread, NEW ps \in Updates, NEW b \in MinTs .. Done,
         StartUpdate(t, ps, b)
  PROVE  Delivered'
<1> DEFINE j == [packets |-> ps, bound |-> b,
                 part |-> IF ps # <<>> THEN "add" ELSE "bound"]
<1>1. /\ job' = [job EXCEPT ![t] = j] /\ pc' = [pc EXCEPT ![t] = "update"]
      /\ pc[t] = "idle" /\ outBound # Done
      /\ outBound' = b /\ sent' = sent \o ps /\ carries' = (ps # <<>>)
      /\ \A u \in Thread \ {t} : pc[u] = "idle" \/ ~carries
      /\ UNCHANGED <<stream, kind, pollPc, polled, hasError>>
      /\ pc \in [Thread -> Loop \cup Elsewhere] /\ job \in [Thread -> Job]
  BY DEF StartUpdate, MayStart, options, observer, poller, Shape, JobShape
<1>2. /\ j.packets = ps /\ j.bound = b
      /\ j.part \in {"add", "bound"} /\ (j.part = "add" <=> ps # <<>>)
  OBVIOUS
<1> HIDE DEF j
<1>3. job'[t] = j /\ pc'[t] = "update"
      /\ \A u \in Thread \ {t} : job'[u] = job[u] /\ pc'[u] = pc[u] /\ job[u].bound # Done
  BY <1>1 DEF Delivered, JobsInOrder
<1>4. stream.bound # Done
  BY <1>1 DEF Delivered, JobsInOrder
<1>5. JobsInOrder'
  BY <1>1, <1>2, <1>3, <1>4 DEF Delivered, JobsInOrder
<1>6. PollerInOrder'
  BY <1>1 DEF Delivered, PollerInOrder, Returned
<1>7. ASSUME kind = "poller", ~hasError
      PROVE  Arrived' \/ OnItsWay(t)'
  <2>1. Arrived
    <3>1. ASSUME NEW u \in Thread, OnItsWay(u) \/ Refused(u) PROVE FALSE
      BY <1>1, <3>1 DEF OnItsWay, Refused, Alone
    <3>2. QED
      BY <1>7, <3>1 DEF Delivered, PacketsArrive
  <2>2. Reached' = Reached
    BY <1>1 DEF Reached, Returned, Values
  <2>3. CASE ps = <<>>
    <3>1. sent' = sent
      BY <1>1, <2>3 DEF Shape, RestShape
    <3>2. \A u \in Thread : job'[u].part # "add"
      BY <1>2, <1>3, <2>1, <2>3 DEF Arrived
    <3>3. QED
      BY <2>1, <2>2, <3>1, <3>2 DEF Arrived, Values, Increasing
  <2>4. CASE ps # <<>>
    <3>1. PICK p \in PreStream .. PostStream : ps = <<p>>
      BY <2>4 DEF Updates
    <3>2. sent \in Seq(PreStream .. PostStream)
      BY DEF Shape, RestShape
    <3>3. sent' = Append(sent, p)
      BY <1>1, <3>1, <3>2, AppendIsConcat
    <3>4. Alone(t)'
      BY <1>1, <1>3, <1>4, <2>1, <2>4 DEF Alone, Arrived
    <3>5. job'[t].packets = <<p>> /\ job'[t].part = "add"
      BY <1>2, <1>3, <2>4, <3>1
    <3>6. Reached' = Values(sent) /\ Increasing(sent)
      BY <2>1, <2>2 DEF Arrived
    <3>7. QED
      BY <1>3, <3>2, <3>3, <3>4, <3>5, <3>6 DEF OnItsWay
  <2>5. QED
    BY <2>3, <2>4
<1>8. PacketsArrive'
  BY <1>1, <1>7 DEF PacketsArrive
<1>9. QED
  BY <1>5, <1>6, <1>8 DEF Delivered

\* A packet that is refused leaves the error to follow; one that is added has
\* arrived, and is the last in time.
LEMMA DeliveredAdd ==
  ASSUME Shape, Delivered, kind = "poller", ~hasError,
         NEW t \in Thread, UpdateMirror(t), OnItsWay(t)
  PROVE  Arrived' \/ Refused(t)'
<1>1. PICK p \in PreStream .. PostStream, rest \in Seq(PreStream .. PostStream) :
        /\ job[t].packets = <<p>> /\ sent = Append(rest, p)
        /\ Reached = Values(rest) /\ Increasing(rest)
  BY DEF OnItsWay
<1>2. /\ job[t].part = "add" /\ Alone(t)
      /\ job' = [job EXCEPT ![t] = Advance(job[t])]
      /\ UNCHANGED <<sent, carries, polled>>
      /\ pc \in [Thread -> Loop \cup Elsewhere] /\ job \in [Thread -> Job]
  BY DEF OnItsWay, UpdateMirror, source, poller, Shape, JobShape
<1>3. \/ stream' = stream /\ pc' = [pc EXCEPT ![t] = "failed"]
      \/ /\ p >= stream.bound
         /\ stream'.queue = Append(stream.queue, p)
  <2>1. PICK q \in PreStream .. PostStream :
          /\ job[t].packets = <<q>>
          /\ \/ stream' = stream /\ pc' = [pc EXCEPT ![t] = "failed"]
             \/ /\ q >= stream.bound
                /\ stream'.queue = Append(stream.queue, q)
    BY <1>2, MirrorMoves
  <2>2. <<p>> = <<q>> /\ <<p>>[1] = p /\ <<q>>[1] = q
    BY <1>1, <2>1
  <2>3. p = q
    BY <2>2
  <2>4. QED
    BY <2>1, <2>3
<1>4. ASSUME stream' = stream, pc' = [pc EXCEPT ![t] = "failed"]
      PROVE  Refused(t)'
  BY <1>2, <1>4 DEF Refused, Alone
<1>5. ASSUME p >= stream.bound, stream'.queue = Append(stream.queue, p)
      PROVE  Arrived'
  <2>1. \A u \in Thread : job'[u].part # "add"
    <3>1. Advance(job[t]).part # "add"
      BY <1>2, JobOf DEF Shape
    <3>2. QED
      BY <1>2, <3>1 DEF Alone
  <2>2. stream.queue \in Seq(PreStream .. PostStream)
    BY MinShape DEF Shape, StreamShape
  <2>3. Values(stream'.queue) = Values(stream.queue) \cup {p}
    <3>1. Values(Append(stream.queue, p)) = Values(stream.queue) \cup {p}
      BY <2>2, AppendValues
    <3>2. QED
      BY <1>5, <3>1
  <2>4. Returned' = Returned
    BY <1>2 DEF Returned
  <2>5. Values(sent') = Values(rest) \cup {p}
    <3>1. Values(Append(rest, p)) = Values(rest) \cup {p}
      BY AppendValues
    <3>2. QED
      BY <1>1, <1>2, <3>1
  <2>6. Reached' = Values(sent')
    BY <1>1, <2>3, <2>4, <2>5 DEF Reached
  <2>7. \A m \in Reached : m < stream.bound /\ m \in PreStream .. PostStream
    <3>1. \A m \in Values(stream.queue) : m < stream.bound
      BY DEF Values, Shape, StreamShape, Ordered
    <3>2. \A m \in Values(rest) : m \in PreStream .. PostStream
      BY ElementOfSeq DEF Values
    <3>3. QED
      BY <1>1, <3>1, <3>2 DEF Reached, Delivered, PollerInOrder
  <2>8. \A m \in Values(rest) : m < p
    BY <1>1, <1>5, <2>7, MinShape, TimestampValues DEF Shape, StreamShape
  <2>9. Increasing(sent')
    BY <1>1, <1>2, <2>8, AppendIncreases
  <2>10. QED
    BY <2>1, <2>6, <2>9 DEF Arrived
<1>6. QED
  BY <1>3, <1>4, <1>5

\* An update of the mirror.
LEMMA DeliveredMirror ==
  ASSUME Shape, Delivered, NEW t \in Thread, UpdateMirror(t)
  PROVE  Delivered'
<1> DEFINE j == job[t]
           k == Advance(j)
<1>1. /\ pc[t] = "update" /\ job' = [job EXCEPT ![t] = k]
      /\ UNCHANGED <<outBound, sent, carries, kind, pollPc, polled, hasError>>
      /\ pc \in [Thread -> Loop \cup Elsewhere] /\ job \in [Thread -> Job]
      /\ j \in Job /\ j # NoJob
  BY DEF UpdateMirror, source, options, poller, Shape, JobShape
<1>2. PICK x : /\ pc' = [pc EXCEPT ![t] = x]
               /\ x \in {"failed", "signal", "enter"} \/ x = Onward(k)
  BY DEF UpdateMirror
<1>3. /\ k.part # "add" /\ k.bound \in {j.bound, Unset}
      /\ x = "idle" => k = NoJob
  BY <1>2, JobOf DEF Shape, Onward
<1>4. /\ stream.bound \in PreStream .. Done /\ j.bound \in PreStream .. Done
      /\ stream.queue \in Seq(PreStream .. PostStream)
  <2>1. j.bound \in MinTs .. Done
    BY <1>1 DEF Job
  <2>2. QED
    BY <2>1, MinShape, TimestampValues DEF Shape, StreamShape
<1>5. /\ stream'.bound >= stream.bound /\ stream'.bound \in PreStream .. Done
      /\ stream'.bound = Done => stream.bound = Done \/ (j.bound = Done /\ j.part # "add")
      /\ stream.bound = Done => stream'.queue = stream.queue /\ stream'.bound = Done
  <2>0. stream.bound \in Int /\ j.bound \in Int /\ Done \in Int
    BY <1>4, TimestampValues
  <2>1. CASE j.part = "bound"
    <3>1. /\ stream'.queue = stream.queue
          /\ stream'.bound \in {stream.bound, j.bound}
          /\ stream'.bound >= stream.bound
      BY <2>1, MirrorMoves
    <3>2. QED
      BY <1>4, <2>0, <2>1, <3>1
  <2>2. CASE j.part = "add"
    <3>1. PICK p \in PreStream .. PostStream :
            \/ stream' = stream
            \/ p >= stream.bound /\ stream'.bound = NextAllowedInStream(p)
      BY <2>2, MirrorMoves
    <3>2. CASE stream' = stream
      BY <1>4, <2>0, <3>2
    <3>3. CASE p >= stream.bound /\ stream'.bound = NextAllowedInStream(p)
      <4>1. NextAllowedInStream(p) \in p + 1 .. OneOverPostStream
        BY TimestampOrder
      <4>2. p \in Int /\ p >= PreStream /\ p < Done
        BY TimestampValues
      <4>3. stream'.bound > p /\ stream'.bound < Done /\ stream'.bound \in Int
        BY <3>3, <4>1, <4>2, TimestampValues
      <4>4. QED
        BY <1>4, <2>0, <3>3, <4>2, <4>3, TimestampValues
    <3>4. QED
      BY <3>1, <3>2, <3>3
  <2>3. QED
    BY <2>1, <2>2, MirrorMoves
<1> HIDE DEF j, k
<1>6. JobsInOrder'
  <2>1. /\ job'[t] = k /\ pc'[t] = x
        /\ \A u \in Thread \ {t} : job'[u] = job[u] /\ pc'[u] = pc[u]
    BY <1>1, <1>2
  <2>2. k.bound = Done => j.bound = Done
    BY <1>3, TimestampValues
  <2>3. \A u \in Thread : job'[u].part = "add" => pc'[u] = "update"
    BY <1>3, <2>1 DEF Delivered, JobsInOrder
  <2>4. \A u \in Thread : pc'[u] = "idle" => job'[u] = NoJob
    BY <1>3, <2>1 DEF Delivered, JobsInOrder
  <2>5. \A u \in Thread : job'[u].bound = Done => job[u].bound = Done
    BY <2>1, <2>2 DEF j
  <2>6. stream'.bound = Done => outBound' = Done
    BY <1>1, <1>5 DEF j, Delivered, JobsInOrder
  <2>7. QED
    BY <1>1, <2>3, <2>4, <2>5, <2>6 DEF Delivered, JobsInOrder
<1>7. PollerInOrder'
  <2>1. Returned' = Returned
    BY <1>1 DEF Returned
  <2>2. Returned \subseteq Int
    <3>1. \A i \in 1 .. Len(polled) : polled[i] \in Event
      BY ElementOfSeq DEF Shape, PollerShape
    <3>2. QED
      BY <3>1, TimestampValues DEF Returned, Event, Timestamp
  <2>3. stream.bound \in Int /\ stream'.bound \in Int
    BY <1>4, <1>5, TimestampValues
  <2>4. \A m \in Returned : m < stream'.bound
    BY <1>5, <2>2, <2>3 DEF Delivered, PollerInOrder
  <2>5. QED
    BY <1>1, <1>5, <2>1, <2>4 DEF Delivered, PollerInOrder
<1>8. ASSUME kind = "poller", ~hasError, j.part = "bound", stream'.queue = stream.queue
      PROVE  Arrived' \/ \E u \in Thread : OnItsWay(u)' \/ Refused(u)'
  <2>1. /\ \A u \in Thread : job'[u].part = "add" => job[u].part = "add"
        /\ \A u \in Thread : u # t => job'[u] = job[u] /\ pc'[u] = pc[u]
        /\ \A u \in Thread : job'[u].bound = Done => job[u].bound = Done
    BY <1>1, <1>2, <1>3, TimestampValues DEF j
  <2>2. Reached' = Reached
    BY <1>1, <1>8 DEF Reached, Returned, Values
  <2>3. CASE Arrived
    BY <1>1, <2>1, <2>2, <2>3 DEF Arrived, Values, Increasing
  <2>4. ASSUME NEW u \in Thread, OnItsWay(u) \/ Refused(u)
        PROVE  OnItsWay(u)' \/ Refused(u)'
    <3>1. u # t
      BY <1>1, <1>8, <2>4 DEF OnItsWay, Refused, j
    <3>2. Alone(u)
      BY <2>4 DEF OnItsWay, Refused
    <3>3. stream'.bound # Done
      BY <1>5, <3>1, <3>2 DEF Alone, j
    <3>4. Alone(u)'
      BY <1>1, <2>1, <3>2, <3>3 DEF Alone
    <3>5. QED
      BY <1>1, <2>1, <2>2, <2>4, <3>1, <3>4 DEF OnItsWay, Refused
  <2>5. QED
    BY <1>8, <2>3, <2>4 DEF Delivered, PacketsArrive
<1>9. ASSUME kind = "poller", ~hasError, j.part = "add"
      PROVE  Arrived' \/ \E u \in Thread : OnItsWay(u)' \/ Refused(u)'
  <2>1. OnItsWay(t)
    <3>1. ~Arrived
      BY <1>9 DEF Arrived, j
    <3>2. \A u \in Thread : OnItsWay(u) \/ Refused(u) => u = t
      BY <1>9 DEF OnItsWay, Refused, Alone, j
    <3>3. ~Refused(t)
      BY <1>1 DEF Refused
    <3>4. QED
      BY <1>9, <3>1, <3>2, <3>3 DEF Delivered, PacketsArrive
  <2>2. QED
    BY <1>9, <2>1, DeliveredAdd
<1>10. PacketsArrive'
  <2>1. j.part \in {"add", "bound"} /\ (j.part = "bound" => stream'.queue = stream.queue)
    BY MirrorMoves DEF j
  <2>2. QED
    BY <1>1, <1>8, <1>9, <2>1 DEF PacketsArrive
<1>11. QED
  BY <1>6, <1>7, <1>10 DEF Delivered

\* The steps of a thread that neither update the stream nor see an error.
LEMMA DeliveredOnward ==
  ASSUME Shape, Delivered, NEW t \in Thread,
         Signal(t) \/ Enter(t) \/ Look(t) \/ CallbackReturns(t) \/ Recheck(t)
         \/ CallbackFails(t) \/ RecordError(t)
  PROVE  Delivered'
<1>1. PICK x : /\ pc' = [pc EXCEPT ![t] = x]
               /\ x # "idle" \/ x = Onward(job[t])
  BY DEF Signal, Enter, Look, CallbackReturns, Recheck, CallbackFails, RecordError
<1>2. /\ pc[t] # "update" /\ pc[t] # "idle"
      /\ UNCHANGED <<job, outBound, sent, carries, kind, polled>>
      /\ pollPc' = "end" => pollPc = "end"
      /\ pc \in [Thread -> Loop \cup Elsewhere]
      /\ ~hasError' => ~hasError
  BY DEF Signal, Enter, Look, CallbackReturns, Recheck, CallbackFails, RecordError,
         source, options, observer, poller, Woken, Shape, JobShape
<1>3. stream' = stream \/ (kind = "observer" /\ pollPc' = "idle")
  BY DEF Signal, Enter, Look, CallbackReturns, Recheck, CallbackFails, RecordError,
         Shape, KindShape, Loop, poller
<1>4. stream'.bound = stream.bound
  <2>1. ASSUME Look(t), stream.queue # <<>> PROVE stream'.bound = stream.bound
    <3>1. stream' = PopAt(stream, Head(stream.queue)).stream
      BY <2>1 DEF Look, MinTimestampOrBound
    <3>2. stream' = [stream EXCEPT !.queue = Tail(@), !.selected = Head(stream.queue)]
      BY <2>1, <3>1, PopHead DEF Shape, StreamShape
    <3>3. QED
      BY <3>2 DEF Shape, StreamShape, Ordered, Stream
  <2>2. QED
    BY <2>1 DEF Signal, Enter, Look, CallbackReturns, Recheck, CallbackFails, RecordError
<1>5. JobsInOrder'
  <2>1. \A u \in Thread : job'[u].part = "add" => pc'[u] = "update"
    BY <1>1, <1>2 DEF Delivered, JobsInOrder
  <2>2. \A u \in Thread : pc'[u] = "idle" => job'[u] = NoJob
    BY <1>1, <1>2 DEF Delivered, JobsInOrder, Onward
  <2>3. QED
    BY <1>2, <1>4, <2>1, <2>2 DEF Delivered, JobsInOrder
<1>6. PollerInOrder'
  <2>1. Returned' = Returned
    BY <1>2 DEF Returned
  <2>2. QED
    BY <1>2, <1>3, <1>4, <2>1 DEF Delivered, PollerInOrder
<1>7. ASSUME kind = "poller", ~hasError'
      PROVE  Arrived' \/ \E u \in Thread : OnItsWay(u)' \/ Refused(u)'
  <2>1. Reached' = Reached
    BY <1>2, <1>3, <1>7 DEF Reached, Returned, Values
  <2>2. CASE Arrived
    BY <1>2, <2>1, <2>2 DEF Arrived, Values, Increasing
  <2>3. ASSUME NEW u \in Thread, OnItsWay(u) \/ Refused(u)
        PROVE  OnItsWay(u)' \/ Refused(u)'
    <3>1. u # t
      <4>1. pc[t] # "failed"
        BY <1>7 DEF Signal, Enter, Look, CallbackReturns, Recheck, CallbackFails, RecordError
      <4>2. QED
        BY <1>2, <2>3, <4>1 DEF OnItsWay, Refused
    <3>2. Alone(u)'
      BY <1>2, <1>4, <2>3 DEF OnItsWay, Refused, Alone
    <3>3. pc'[u] = pc[u]
      BY <1>1, <1>2, <3>1
    <3>4. QED
      BY <1>2, <2>1, <2>3, <3>2, <3>3 DEF OnItsWay, Refused
  <2>4. QED
    BY <1>2, <1>7, <2>2, <2>3 DEF Delivered, PacketsArrive
<1>8. PacketsArrive'
  BY <1>2, <1>7 DEF PacketsArrive
<1>9. QED
  BY <1>5, <1>6, <1>8 DEF Delivered

\* The packets of the stream and the ones returned are together what they were.
LEMMA ReachedStays ==
  ASSUME Delivered, UNCHANGED <<pc, job, outBound, sent, carries, kind>>,
         stream'.bound = stream.bound, Reached' = Reached, ~hasError' => ~hasError
  PROVE  JobsInOrder' /\ PacketsArrive'
<1>1. JobsInOrder'
  BY DEF Delivered, JobsInOrder
<1>2. ASSUME ~hasError' PROVE PacketsArrive'
  <2>1. Arrived => Arrived'
    BY DEF Arrived, Values, Increasing
  <2>2. ASSUME NEW u \in Thread PROVE /\ OnItsWay(u) => OnItsWay(u)'
                                      /\ Refused(u) => Refused(u)'
    BY DEF OnItsWay, Refused, Alone
  <2>3. QED
    BY <1>2, <2>1, <2>2 DEF Delivered, PacketsArrive
<1>3. ASSUME hasError' PROVE PacketsArrive'
  BY <1>3 DEF PacketsArrive
<1>4. QED
  BY <1>1, <1>2, <1>3

\* What Next returns.
LEMMA ReturnedGrows ==
  ASSUME polled \in Seq(Event), NEW e \in Event, polled' = Append(polled, e)
  PROVE  Returned' = IF e.packet THEN Returned \cup {e.ts} ELSE Returned
<1>1. /\ Len(polled) \in Nat /\ Len(polled') = Len(polled) + 1
      /\ polled'[Len(polled) + 1] = e
      /\ \A i \in 1 .. Len(polled) : polled'[i] = polled[i]
  BY AppendProperties
<1>2. 1 .. Len(polled') = (1 .. Len(polled)) \cup {Len(polled) + 1}
  BY <1>1
<1> DEFINE some == {j \in 1 .. Len(polled) : polled[j].packet}
<1>3. {j \in 1 .. Len(polled') : polled'[j].packet} =
        IF e.packet THEN some \cup {Len(polled) + 1} ELSE some
  BY <1>1, <1>2
<1>4. \A i \in some : polled'[i].ts = polled[i].ts
  BY <1>1
<1>5. QED
  BY <1>1, <1>3, <1>4 DEF Returned

\* Next takes a packet.
LEMMA DeliveredTake ==
  ASSUME Shape, Delivered, TakePacket
  PROVE  Delivered'
<1>1. /\ pollPc' = "idle" /\ polled' = Append(polled, [ts |-> outputTs, packet |-> TRUE])
      /\ UNCHANGED <<pc, job, outBound, sent, carries, kind, hasError>>
      /\ stream.queue # <<>> /\ outputTs = Head(stream.queue)
      /\ polled \in Seq(Event) /\ outputTs \in Unstarted .. PostStream
      /\ Ordered(stream)
  BY DEF TakePacket, source, options, Shape, PollerShape, StreamShape
<1>2. stream' = [stream EXCEPT !.queue = Tail(@), !.selected = Head(stream.queue)]
  BY <1>1, PopHead DEF TakePacket
<1>3. stream'.bound = stream.bound /\ stream'.queue = Tail(stream.queue)
  BY <1>1, <1>2 DEF Ordered, Stream
<1> DEFINE e == [ts |-> outputTs, packet |-> TRUE]
<1>4. e \in Event /\ e.packet /\ e.ts = outputTs
  BY <1>1, TimestampValues DEF Event, Timestamp
<1> HIDE DEF e
<1>5. Returned' = Returned \cup {outputTs}
  BY <1>1, <1>4, ReturnedGrows DEF e
<1>6. stream.queue \in Seq(PreStream .. PostStream)
  BY <1>1 DEF Ordered, Stream
<1>7. Values(stream.queue) = Values(stream'.queue) \cup {outputTs}
  BY <1>1, <1>3, <1>6, TailValues
<1>8. Reached' = Reached
  BY <1>5, <1>7 DEF Reached
<1>9. outputTs < stream.bound
  <2>1. 1 \in 1 .. Len(stream.queue) /\ outputTs = stream.queue[1]
    BY <1>1, <1>6, QueueOf
  <2>2. QED
    BY <1>1, <2>1 DEF Ordered
<1>10. PollerInOrder'
  BY <1>1, <1>3, <1>5, <1>9 DEF Delivered, PollerInOrder
<1>11. QED
  BY <1>1, <1>3, <1>8, <1>10, ReachedStays DEF Delivered

\* Next looks at the stream, and ends when it is at its end.
LEMMA DeliveredCheck ==
  ASSUME Shape, Delivered, CheckStream
  PROVE  Delivered'
<1> DEFINE previous == PreviousAllowedInStream(Min)
           e == [ts |-> previous, packet |-> FALSE]
<1>1. /\ UNCHANGED <<stream, pc, job, outBound, sent, carries, kind, hasError>>
      /\ polled' = polled \/ polled' = Append(polled, e)
      /\ pollPc' = "end" => hasError \/ Min = Done
  BY DEF CheckStream, source, options, StreamEnded, Min
<1>2. /\ Min \in PreStream .. Done /\ Ordered(stream) /\ polled \in Seq(Event)
  BY MinInt DEF Shape, StreamShape, PollerShape
<1>3. e \in Event /\ ~e.packet
  <2>1. previous \in Unstarted .. MaxTs
    BY <1>2, TimestampOrder
  <2>2. QED
    BY <2>1, TimestampValues DEF Event, Timestamp
<1> HIDE DEF e
<1>4. Returned' = Returned
  <2>1. CASE polled' = polled
    BY <2>1 DEF Returned
  <2>2. CASE polled' = Append(polled, e)
    BY <1>2, <1>3, <2>2, ReturnedGrows
  <2>3. QED
    BY <1>1, <2>1, <2>2
<1>5. Min = Done => stream.queue = <<>> /\ stream.bound = Done
  BY <1>2, MinShape, TimestampValues
<1>6. PollerInOrder'
  BY <1>1, <1>4, <1>5 DEF Delivered, PollerInOrder
<1>7. Reached' = Reached
  BY <1>1, <1>4 DEF Reached, Values
<1>8. QED
  BY <1>1, <1>6, <1>7, ReachedStays DEF Delivered

\* The other steps.
LEMMA DeliveredApart ==
  ASSUME Shape, Delivered, GraphFails \/ CallNext \/ UNCHANGED vars
  PROVE  Delivered'
<1>1. /\ UNCHANGED <<stream, pc, job, outBound, sent, carries, kind, polled>>
      /\ pollPc' = "end" => pollPc = "end"
      /\ ~hasError' => ~hasError
  BY DEF GraphFails, CallNext, vars, source, options, poller, Woken
<1>2. Returned' = Returned
  BY <1>1 DEF Returned
<1>3. Reached' = Reached
  BY <1>1, <1>2 DEF Reached, Values
<1>4. PollerInOrder'
  BY <1>1, <1>2 DEF Delivered, PollerInOrder
<1>5. QED
  BY <1>1, <1>3, <1>4, ReachedStays DEF Delivered

LEMMA DeliveredPrepare ==
  ASSUME Shape, Delivered, PrepareForRun
  PROVE  Delivered'
<1>1. /\ stream' = FreshStream /\ sent' = <<>> /\ polled' = <<>> /\ pollPc' = "idle"
      /\ pc' = pc /\ job' = job /\ \A t \in Thread : pc[t] = "idle"
  BY DEF PrepareForRun, Quiet
<1>2. \A t \in Thread : job[t] = NoJob
  BY <1>1 DEF Delivered, JobsInOrder
<1>3. NoJob.part # "add" /\ NoJob.bound # Done /\ FreshStream.bound # Done
      /\ FreshStream.queue = <<>>
  BY TimestampValues DEF NoJob, FreshStream
<1>4. Returned' = {} /\ Values(stream'.queue) = {} /\ Values(sent') = {}
  BY <1>1, <1>3 DEF Returned, Values
<1>5. JobsInOrder'
  BY <1>1, <1>2, <1>3 DEF JobsInOrder
<1>6. PollerInOrder'
  BY <1>1, <1>4 DEF PollerInOrder
<1>7. Arrived'
  BY <1>1, <1>2, <1>3, <1>4 DEF Arrived, Reached, Increasing
<1>8. QED
  BY <1>5, <1>6, <1>7 DEF Delivered, PacketsArrive

\* Packets arrive after every step, or are on their way.
LEMMA NextDelivered ==
  ASSUME Shape, Delivered, [Next]_vars
  PROVE  Delivered'
<1>1. ASSUME NEW t \in Thread, Continue(t) PROVE Delivered'
  BY <1>1, DeliveredMirror, DeliveredOnward DEF Continue
<1>2. QED
  BY <1>1, DeliveredStart, DeliveredTake, DeliveredCheck, DeliveredApart, DeliveredPrepare
  DEF Next, Continue

\* graph_output_stream.cc:192: Next returns false only when it has returned every
\* packet of the run, in the order they were given, unless the graph has an error.
THEOREM EveryPacketPolled == Spec => []EverythingPolled
<1>1. Init => Shape /\ Delivered
  BY InitShape, InitDelivered
<1>2. Shape /\ Delivered /\ [Next]_vars => Shape' /\ Delivered'
  BY NextShape, NextDelivered
<1>3. Shape /\ Delivered => EverythingPolled
  <2> SUFFICES ASSUME Shape, Delivered, pollPc = "end", ~hasError
               PROVE  Returned = Values(sent) /\ Increasing(sent)
    BY DEF EverythingPolled
  <2>1. stream.queue = <<>> /\ stream.bound = Done
    BY DEF Delivered, PollerInOrder
  <2>2. kind = "poller"
    BY DEF Shape, KindShape
  <2>3. Arrived
    BY <2>1, <2>2 DEF Delivered, PacketsArrive, OnItsWay, Refused, Alone
  <2>4. Values(stream.queue) = {}
    BY <2>1 DEF Values
  <2>5. QED
    BY <2>3, <2>4 DEF Arrived, Reached
<1>4. QED
  BY <1>1, <1>2, <1>3, PTL DEF Spec
=============================================================================
