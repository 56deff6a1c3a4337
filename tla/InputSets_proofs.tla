-------------------------- MODULE InputSets_proofs --------------------------
(***************************************************************************)
(* The input sets of every policy, for any number of streams and           *)
(* timestamps and any trigger and target size: sets are whole and come in  *)
(* order, packets are dropped together, and no wake-up is lost.  First the *)
(* streams and what their operations do, then the inductive invariant IInv *)
(* and one lemma for each step.                                            *)
(***************************************************************************)
EXTENDS InputSets, SequenceTheorems, FiniteSetTheorems, TLAPS

-----------------------------------------------------------------------------
\* Timestamps.
LEMMA TimestampValues ==
  /\ PreStream = 0 /\ Unset = -2 /\ Unstarted = -1 /\ MinTs = 1
  /\ MaxTs \in Int /\ MaxTs >= 1
  /\ PostStream = MaxTs + 1 /\ OneOverPostStream = MaxTs + 2 /\ Done = MaxTs + 3
  /\ Timestamp = -2 .. MaxTs + 3
  BY LatestAssumption DEF PreStream, PostStream, Timestamp,
     Done, MinTs, MaxTs, Unstarted, OneOverPostStream, Unset

\* Where the next allowed timestamp of a packet and the previous one of a bound
\* are.
LEMMA NextValues ==
  ASSUME NEW t \in PreStream .. PostStream
  PROVE  /\ NextAllowedInStream(t) \in t + 1 .. OneOverPostStream
         /\ t = PreStream \/ t >= MaxTs => NextAllowedInStream(t) = OneOverPostStream
         /\ t \in MinTs .. MaxTs - 1 => NextAllowedInStream(t) = t + 1
  BY TimestampValues DEF NextAllowedInStream

LEMMA PreviousValues ==
  ASSUME NEW t \in PreStream .. Done
  PROVE  /\ PreviousAllowedInStream(t) \in Unstarted .. MaxTs
         /\ PreviousAllowedInStream(t) < t
         /\ t \in MinTs + 1 .. MaxTs => PreviousAllowedInStream(t) = t - 1
         /\ t > PostStream => PreviousAllowedInStream(t) = MaxTs
         /\ t \in {PreStream, MinTs, PostStream}
              => PreviousAllowedInStream(t) = Unstarted
  BY TimestampValues DEF PreviousAllowedInStream

\* A set of integers with a lower bound has a least value.
LEMMA MinOfSet ==
  ASSUME NEW S \in SUBSET Int, S # {}, NEW low \in Int, \A x \in S : low <= x
  PROVE  Min(S) \in S /\ \A x \in S : Min(S) <= x
<1> DEFINE D == {n \in Nat : n + low \in S}
<1>1. D \subseteq Nat /\ D # {}
  <2>1. PICK x \in S : TRUE
    OBVIOUS
  <2>2. x - low \in Nat /\ (x - low) + low = x
    OBVIOUS
  <2>3. x - low \in D
    BY <2>1, <2>2
  <2>4. QED
    BY <2>3
<1>2. IsWellFoundedOn(OpToRel(<, Nat), Nat)
  BY NatLessThanWellFounded
<1>3. PICK d \in D : \A e \in D : ~(<<e, d>> \in OpToRel(<, Nat))
  BY <1>1, <1>2, WFMin
<1>4. \A e \in D : d <= e
  <2> SUFFICES ASSUME NEW e \in D PROVE d <= e
    OBVIOUS
  <2>1. d \in Nat /\ e \in Nat
    OBVIOUS
  <2>2. ~(<<e, d>> \in OpToRel(<, Nat))
    BY <1>3
  <2>3. ~(e < d)
    BY <2>1, <2>2 DEF OpToRel
  <2>4. QED
    BY <2>1, <2>3
<1>5. d + low \in S
  OBVIOUS
<1>6. ASSUME NEW x \in S PROVE d + low <= x
  <2>1. x - low \in Nat /\ (x - low) + low = x /\ d \in Nat
    OBVIOUS
  <2>2. x - low \in D
    BY <2>1
  <2>3. d <= x - low
    BY <1>4, <2>2
  <2>4. QED
    BY <2>1, <2>3
<1>7. \E x \in S : \A y \in S : x <= y
  BY <1>5, <1>6
<1>8. QED
  BY <1>7 DEF Min

\* A set of integers with an upper bound has a greatest value.
LEMMA MaxOfSet ==
  ASSUME NEW S \in SUBSET Int, S # {}, NEW high \in Int, \A x \in S : x <= high
  PROVE  Max(S) \in S /\ \A x \in S : x <= Max(S)
<1> DEFINE D == {n \in Int : 0 - n \in S}
<1>1. \A x \in S : 0 - x \in D /\ 0 - (0 - x) = x
  OBVIOUS
<1>2. D \in SUBSET Int /\ 0 - high \in Int /\ \A x \in D : 0 - high <= x
  OBVIOUS
<1>3. D # {}
  BY <1>1
<1>4. Min(D) \in D /\ \A x \in D : Min(D) <= x
  BY <1>2, <1>3, MinOfSet
<1>5. 0 - Min(D) \in S /\ Min(D) \in Int
  BY <1>4
<1>6. ASSUME NEW x \in S PROVE 0 - Min(D) >= x
  <2>1. Min(D) <= 0 - x
    BY <1>1, <1>4
  <2>2. QED
    BY <2>1, <1>5
<1>7. \E x \in S : \A y \in S : x >= y
  BY <1>5, <1>6
<1>8. Max(S) \in S /\ \A y \in S : Max(S) >= y
  BY <1>7 DEF Max
<1>9. QED
  BY <1>8

LEMMA EarliestOf ==
  ASSUME NEW T, T \subseteq Unset .. Done
  PROVE  /\ Earliest(T) \in T \cup {Done}
         /\ Earliest(T) \in Unset .. Done
         /\ \A x \in T : Earliest(T) <= x
<1>1. T \cup {Done} \in SUBSET Int /\ T \cup {Done} # {} /\ -2 \in Int
      /\ \A x \in T \cup {Done} : -2 <= x
  BY TimestampValues
<1>2. Min(T \cup {Done}) \in T \cup {Done}
      /\ \A x \in T \cup {Done} : Min(T \cup {Done}) <= x
  BY <1>1, MinOfSet, Zenon
<1> DEFINE m == Min(T \cup {Done})
<1> HIDE DEF m
<1>3. m \in T \cup {Done} /\ \A x \in T \cup {Done} : m <= x
  BY <1>2 DEF m
<1>4. Done \in Unset .. Done /\ Unset .. Done \subseteq Int
  BY TimestampValues
<1>5. m \in Unset .. Done /\ m <= Done /\ \A x \in T : m <= x
  BY <1>3, <1>4
<1>6. QED
  BY <1>3, <1>5 DEF Earliest, m

-----------------------------------------------------------------------------
\* A stream: its packets wait in the order of their timestamps, below the bound,
\* and a packet that is not at a range value waits alone.
Waiting(s) ==
  /\ s \in Stream
  /\ Increasing(s.queue)
  /\ \A k \in 1 .. Len(s.queue) : NextAllowedInStream(s.queue[k]) <= s.bound
  /\ s.queue # <<>> => s.added
  /\ Len(s.queue) > 1 => \A k \in 1 .. Len(s.queue) : IsRangeValue(s.queue[k])

\* Nothing can come any more at t or before, but the first packet may be at t.
Settled(s, t) == IF s.queue = <<>> THEN t < s.bound ELSE t <= Head(s.queue)

\* What is true of r, if stream s has become r without being asked for a packet.
Moves(s, r) ==
  /\ Waiting(r)
  /\ r.selected = s.selected /\ r.closed = s.closed
  /\ s.bound <= r.bound
  /\ MinTimestampOrBound(s) <= MinTimestampOrBound(r)
  /\ \A t \in Int : Settled(s, t) => Settled(r, t)
  /\ s.queue = <<>> /\ s.bound >= OneOverPostStream => r.queue = <<>>

LEMMA StreamFacts ==
  ASSUME NEW s, Waiting(s)
  PROVE  /\ s.queue \in Seq(PreStream .. PostStream) /\ Len(s.queue) \in Nat
         /\ s.bound \in PreStream .. Done /\ s.selected \in Unstarted .. Done
         /\ s.closed \in BOOLEAN /\ s.added \in BOOLEAN
         /\ \A k \in 1 .. Len(s.queue) :
              /\ s.queue[k] \in PreStream .. PostStream
              /\ s.queue[k] < s.bound
<1>1. /\ s.queue \in Seq(PreStream .. PostStream) /\ Len(s.queue) \in Nat
      /\ s.bound \in PreStream .. Done /\ s.selected \in Unstarted .. Done
      /\ s.closed \in BOOLEAN /\ s.added \in BOOLEAN
  BY DEF Waiting, Stream
<1>2. ASSUME NEW k \in 1 .. Len(s.queue)
      PROVE  s.queue[k] \in PreStream .. PostStream /\ s.queue[k] < s.bound
  <2>1. s.queue[k] \in PreStream .. PostStream
    BY <1>1, ElementOfSeq
  <2>2. NextAllowedInStream(s.queue[k]) \in s.queue[k] + 1 .. OneOverPostStream
    BY <2>1, NextValues
  <2>3. NextAllowedInStream(s.queue[k]) <= s.bound
    BY DEF Waiting
  <2>4. QED
    BY <1>1, <2>1, <2>2, <2>3, TimestampValues
<1>3. QED
  BY <1>1, <1>2

\* The first and the last packet.
LEMMA QueueFacts ==
  ASSUME NEW s, Waiting(s), s.queue # <<>>
  PROVE  /\ Len(s.queue) >= 1 /\ Head(s.queue) = s.queue[1]
         /\ Last(s.queue) = s.queue[Len(s.queue)]
         /\ Head(s.queue) \in PreStream .. PostStream
         /\ Last(s.queue) \in PreStream .. PostStream
         /\ \A k \in 1 .. Len(s.queue) : /\ Head(s.queue) <= s.queue[k]
                                         /\ s.queue[k] <= Last(s.queue)
         /\ NextAllowedInStream(Last(s.queue)) <= s.bound
<1> DEFINE q == s.queue
<1>1. /\ q \in Seq(PreStream .. PostStream) /\ Len(q) \in Nat /\ q # <<>>
      /\ \A k \in 1 .. Len(q) : q[k] \in PreStream .. PostStream
  BY StreamFacts
<1>2. \A i, j \in 1 .. Len(q) : i < j => q[i] < q[j]
  BY DEF Waiting, Increasing
<1>3. NextAllowedInStream(q[Len(q)]) <= s.bound \/ Len(q) = 0
  BY <1>1 DEF Waiting
<1> HIDE DEF q
<1>4. Len(q) >= 1 /\ Head(q) = q[1]
  BY <1>1
<1>5. Last(q) = q[Len(q)]
  BY <1>1 DEF Last
<1>6. 1 \in 1 .. Len(q) /\ Len(q) \in 1 .. Len(q)
  BY <1>1, <1>4
<1>7. PreStream \in Int /\ PostStream \in Int
  BY TimestampValues
<1>8. ASSUME NEW k \in 1 .. Len(q) PROVE q[1] <= q[k] /\ q[k] <= q[Len(q)]
  <2>1. q[k] \in Int /\ q[1] \in Int /\ q[Len(q)] \in Int
    BY <1>1, <1>6, <1>7
  <2>2. 1 = k \/ 1 < k
    BY <1>1
  <2>3. k = Len(q) \/ k < Len(q)
    BY <1>1
  <2>4. QED
    BY <1>2, <1>6, <2>1, <2>2, <2>3
<1>9. QED
  BY <1>1, <1>3, <1>4, <1>5, <1>6, <1>8 DEF q

LEMMA MinFacts ==
  ASSUME NEW s, Waiting(s)
  PROVE  /\ MinTimestampOrBound(s) \in PreStream .. Done
         /\ MinTimestampOrBound(s) <= s.bound
         /\ s.queue # <<>> => /\ MinTimestampOrBound(s) = Head(s.queue)
                              /\ MinTimestampOrBound(s) \in PreStream .. PostStream
                              /\ MinTimestampOrBound(s) < s.bound
         /\ s.queue = <<>> => MinTimestampOrBound(s) = s.bound
         /\ \A t \in Int : Settled(s, t) => /\ t <= MinTimestampOrBound(s)
                                            /\ t < s.bound
         /\ \A t \in Int : t < MinTimestampOrBound(s) => Settled(s, t)
<1>1. s.bound \in PreStream .. Done
  BY StreamFacts
<1>2. CASE s.queue = <<>>
  BY <1>1, <1>2, TimestampValues DEF MinTimestampOrBound, Settled
<1>3. CASE s.queue # <<>>
  <2>1. /\ Head(s.queue) \in PreStream .. PostStream
        /\ 1 \in 1 .. Len(s.queue) /\ Head(s.queue) = s.queue[1]
    BY <1>3, QueueFacts, StreamFacts
  <2>2. Head(s.queue) < s.bound
    BY <2>1, StreamFacts
  <2>3. QED
    BY <1>1, <1>3, <2>1, <2>2, TimestampValues DEF MinTimestampOrBound, Settled
<1>4. QED
  BY <1>2, <1>3

LEMMA Unmoved == ASSUME NEW s, Waiting(s) PROVE Moves(s, s)
<1>1. s.bound <= s.bound /\ MinTimestampOrBound(s) <= MinTimestampOrBound(s)
  BY StreamFacts, MinFacts, TimestampValues
<1>2. QED
  BY <1>1 DEF Moves

-----------------------------------------------------------------------------
\* The operations of a stream.

\* What is left of a queue without its first n packets, and of a stream.
Rest(s, n) == SubSeq(s.queue, n + 1, Len(s.queue))
Cut(s, n, t) == [s EXCEPT !.queue = Rest(s, n), !.selected = t]

\* PopAt takes the packets up to t, and no others.
LEMMA PopTakes ==
  ASSUME NEW s, Waiting(s), NEW t \in Int
  PROVE  \E n \in 0 .. Len(s.queue) :
           /\ \A i \in 1 .. n : s.queue[i] <= t
           /\ \A i \in n + 1 .. Len(s.queue) : s.queue[i] > t
           /\ PopAt(s, t).stream =
                [s EXCEPT !.queue = Rest(s, n), !.selected = t,
                          !.bound = IF s.bound <= t THEN NextAllowedInStream(t)
                                    ELSE s.bound]
           /\ PopAt(s, t).dropped =
                IF n > 0 /\ s.queue[n] = t THEN n - 1 ELSE n
<1> DEFINE q == s.queue
           Fits(k) == /\ \A i \in 1 .. k : q[i] <= t
                      /\ k = Len(q) \/ q[k + 1] > t
           n == CHOOSE k \in 0 .. Len(q) : Fits(k)
           D == {k \in 0 .. Len(q) : k = Len(q) \/ q[k + 1] > t}
<1>1. /\ Len(q) \in Nat
      /\ \A k \in 1 .. Len(q) : q[k] \in Int
  BY StreamFacts, TimestampValues
<1>2. \A i, j \in 1 .. Len(q) : i < j => q[i] < q[j]
  BY DEF Waiting, Increasing
<1>3. PopAt(s, t).stream =
        [s EXCEPT !.queue = Rest(s, n), !.selected = t,
                  !.bound = IF s.bound <= t THEN NextAllowedInStream(t) ELSE s.bound]
  BY DEF PopAt, Rest
<1>4. PopAt(s, t).dropped = IF n > 0 /\ q[n] = t THEN n - 1 ELSE n
  BY Zenon DEF PopAt
<1> HIDE DEF q
<1>5. D \in SUBSET Int /\ Len(q) \in D /\ 0 \in Int /\ \A x \in D : 0 <= x
  BY <1>1
<1>6. Min(D) \in D /\ \A x \in D : Min(D) <= x
  BY <1>5, MinOfSet
<1>7. \E k \in 0 .. Len(q) : Fits(k)
  <2> DEFINE m == Min(D)
  <2>1. m \in 0 .. Len(q) /\ (m = Len(q) \/ q[m + 1] > t)
    BY <1>6
  <2>2. ASSUME NEW i \in 1 .. m PROVE q[i] <= t
    <3>1. i - 1 \in 0 .. Len(q) /\ i - 1 < m /\ i - 1 # Len(q) /\ i \in 1 .. Len(q)
      BY <2>1, <1>1
    <3>2. i - 1 \notin D
      BY <3>1, <1>6, <2>1
    <3>3. ~(q[(i - 1) + 1] > t)
      BY <3>1, <3>2
    <3>4. (i - 1) + 1 = i
      BY <3>1
    <3>5. QED
      BY <3>1, <3>3, <3>4, <1>1
  <2>3. QED
    BY <2>1, <2>2
<1>8. n \in 0 .. Len(q) /\ Fits(n)
  BY <1>7
<1> HIDE DEF n
<1>9. ASSUME NEW i \in n + 1 .. Len(q) PROVE q[i] > t
  <2>1. n + 1 \in 1 .. Len(q) /\ i \in 1 .. Len(q) /\ n # Len(q)
    BY <1>1, <1>8
  <2>2. q[n + 1] > t
    BY <1>8, <2>1
  <2>3. i = n + 1 \/ n + 1 < i
    BY <1>8
  <2>4. QED
    BY <1>1, <1>2, <2>1, <2>2, <2>3
<1>10. QED
  BY <1>3, <1>4, <1>8, <1>9 DEF q

\* The end of a queue.
LEMMA Suffix ==
  ASSUME NEW s, Waiting(s), NEW n \in 0 .. Len(s.queue),
         NEW r, r = Rest(s, n)
  PROVE  /\ r \in Seq(PreStream .. PostStream)
         /\ Len(r) = Len(s.queue) - n
         /\ \A k \in 1 .. Len(r) : r[k] = s.queue[n + k]
         /\ (r = <<>>) <=> (n = Len(s.queue))
         /\ n < Len(s.queue) => Head(r) = s.queue[n + 1]
<1>1. s.queue \in Seq(PreStream .. PostStream) /\ Len(s.queue) \in Nat
  BY StreamFacts
<1>2. \A k \in n + 1 .. Len(s.queue) : s.queue[k] \in PreStream .. PostStream
  BY <1>1, StreamFacts
<1>0. r = SubSeq(s.queue, n + 1, Len(s.queue))
  BY DEF Rest
<1>3. /\ Len(r) = IF n + 1 <= Len(s.queue) THEN Len(s.queue) - (n + 1) + 1 ELSE 0
      /\ \A k \in 1 .. Len(s.queue) - (n + 1) + 1 : r[k] = s.queue[(n + 1) + k - 1]
  BY <1>0, <1>1, SubSeqProperties
<1>4. r \in Seq(PreStream .. PostStream)
  BY <1>0, <1>1, <1>2, SubSeqProperties
<1>5. Len(r) = Len(s.queue) - n
  BY <1>1, <1>3
<1>6. ASSUME NEW k \in 1 .. Len(r) PROVE r[k] = s.queue[n + k]
  <2>1. k \in 1 .. Len(s.queue) - (n + 1) + 1 /\ (n + 1) + k - 1 = n + k
    BY <1>1, <1>5
  <2>2. QED
    BY <1>3, <2>1
<1>7. (r = <<>>) <=> (n = Len(s.queue))
  <2>1. (r = <<>>) <=> (Len(r) = 0)
    BY <1>4, EmptySeq
  <2>2. (Len(s.queue) - n = 0) <=> (n = Len(s.queue))
    BY <1>1
  <2>3. QED
    BY <1>5, <2>1, <2>2
<1>8. ASSUME n < Len(s.queue) PROVE Head(r) = s.queue[n + 1]
  <2>1. 1 \in 1 .. Len(r) /\ r # <<>>
    <3>1. Len(s.queue) - n >= 1 /\ Len(s.queue) - n \in Nat /\ n # Len(s.queue)
      BY <1>1, <1>8
    <3>2. QED
      BY <3>1, <1>5, <1>7
  <2>2. Head(r) = r[1]
    BY <1>4, <2>1
  <2>3. QED
    BY <1>6, <2>1, <2>2
<1>9. QED
  BY <1>4, <1>5, <1>6, <1>7, <1>8

\* What remains of a stream when packets are taken from its front, and perhaps
\* its selection is moved up to what is left.
LEMMA FrontTaken ==
  ASSUME NEW s, Waiting(s), NEW n \in 0 .. Len(s.queue), NEW t \in Unstarted .. Done,
         NEW r, r = Cut(s, n, t)
  PROVE  /\ Waiting(r) /\ r.selected = t /\ r.closed = s.closed /\ r.bound = s.bound
         /\ MinTimestampOrBound(s) <= MinTimestampOrBound(r)
         /\ \A u \in Int : Settled(s, u) => Settled(r, u)
         /\ s.queue = <<>> => r.queue = <<>>
         /\ n < Len(s.queue) => /\ r.queue # <<>>
                                /\ MinTimestampOrBound(r) = s.queue[n + 1]
         /\ n = Len(s.queue) => /\ r.queue = <<>>
                                /\ MinTimestampOrBound(r) = s.bound
<1> DEFINE q == Rest(s, n)
<1>1. /\ s \in Stream /\ Len(s.queue) \in Nat /\ s.bound \in PreStream .. Done
      /\ \A k \in 1 .. Len(s.queue) : /\ s.queue[k] \in PreStream .. PostStream
                                      /\ s.queue[k] < s.bound
  BY StreamFacts DEF Waiting
<1>2. /\ q \in Seq(PreStream .. PostStream)
      /\ Len(q) = Len(s.queue) - n
      /\ \A k \in 1 .. Len(q) : q[k] = s.queue[n + k]
      /\ (q = <<>>) <=> (n = Len(s.queue))
      /\ n < Len(s.queue) => Head(q) = s.queue[n + 1]
  BY Suffix
<1>3. /\ r = [s EXCEPT !.queue = q, !.selected = t]
      /\ r \in Stream /\ r.queue = q /\ r.selected = t /\ r.closed = s.closed
      /\ r.bound = s.bound /\ r.added = s.added
  <2> HIDE DEF q
  <2>1. r = [s EXCEPT !.queue = q, !.selected = t]
    BY DEF q, Cut
  <2>2. QED
    BY <1>1, <1>2, <2>1 DEF Stream
<1> HIDE DEF q
<1>4. \A k \in 1 .. Len(q) : n + k \in 1 .. Len(s.queue)
  BY <1>1, <1>2
<1>5. Waiting(r)
  <2>1. Increasing(q)
    <3> SUFFICES ASSUME NEW i \in 1 .. Len(q), NEW j \in 1 .. Len(q), i < j
                 PROVE  q[i] < q[j]
      BY DEF Increasing
    <3>1. n + i < n + j /\ n + i \in 1 .. Len(s.queue) /\ n + j \in 1 .. Len(s.queue)
      BY <1>1, <1>4
    <3>2. s.queue[n + i] < s.queue[n + j]
      BY <3>1 DEF Waiting, Increasing
    <3>3. QED
      BY <1>2, <3>2
  <2>2. \A k \in 1 .. Len(q) : NextAllowedInStream(q[k]) <= s.bound
    BY <1>2, <1>4 DEF Waiting
  <2>3. q # <<>> => s.added
    <3>1. q # <<>> => s.queue # <<>>
      BY <1>1, <1>2
    <3>2. QED
      BY <3>1 DEF Waiting
  <2>4. Len(q) > 1 => \A k \in 1 .. Len(q) : IsRangeValue(q[k])
    <3>1. Len(q) > 1 => Len(s.queue) > 1
      BY <1>1, <1>2
    <3>2. QED
      BY <3>1, <1>2, <1>4 DEF Waiting
  <2>5. QED
    BY <1>3, <2>1, <2>2, <2>3, <2>4 DEF Waiting
<1>6. s.queue = <<>> => q = <<>>
  BY <1>1, <1>2
<1>7. n < Len(s.queue) => /\ q # <<>>
                          /\ MinTimestampOrBound(r) = s.queue[n + 1]
  BY <1>1, <1>2, <1>3 DEF MinTimestampOrBound
<1>8. n = Len(s.queue) => /\ q = <<>>
                          /\ MinTimestampOrBound(r) = s.bound
  BY <1>2, <1>3 DEF MinTimestampOrBound
<1>9. s.queue # <<>> /\ n < Len(s.queue) => Head(s.queue) <= s.queue[n + 1]
  <2>1. n < Len(s.queue) => n + 1 \in 1 .. Len(s.queue)
    BY <1>1
  <2>2. QED
    BY <2>1, QueueFacts
<1>10. n < Len(s.queue) => s.queue # <<>> /\ n + 1 \in 1 .. Len(s.queue)
  BY <1>1
<1>11. /\ MinTimestampOrBound(s) <= s.bound /\ MinTimestampOrBound(s) \in PreStream .. Done
       /\ s.queue # <<>> => /\ MinTimestampOrBound(s) = Head(s.queue)
                            /\ MinTimestampOrBound(s) < s.bound
  BY MinFacts
<1>12. MinTimestampOrBound(s) <= MinTimestampOrBound(r)
  BY <1>1, <1>7, <1>8, <1>9, <1>10, <1>11
<1>13. ASSUME NEW u \in Int, Settled(s, u) PROVE Settled(r, u)
  <2>1. u <= MinTimestampOrBound(s) /\ u < s.bound
    BY <1>13, MinFacts
  <2>2. CASE q = <<>>
    BY <2>1, <2>2, <1>3 DEF Settled
  <2>3. CASE q # <<>>
    <3> DEFINE m == MinTimestampOrBound(r)
               l == MinTimestampOrBound(s)
    <3>1. m = Head(r.queue)
      BY <1>3, <2>3 DEF MinTimestampOrBound
    <3>2. m \in PreStream .. Done
      BY <1>5, MinFacts
    <3>3. l \in PreStream .. Done
      BY <1>11
    <3>4. u <= l /\ l <= m
      BY <2>1, <1>12
    <3> HIDE DEF m, l
    <3>5. u <= m
      BY <3>2, <3>3, <3>4, TimestampValues
    <3>6. QED
      BY <3>1, <3>5, <2>3, <1>3 DEF Settled
  <2>4. QED
    BY <2>2, <2>3
<1>14. QED
  BY <1>3, <1>5, <1>6, <1>7, <1>8, <1>12, <1>13

\* A packet that is added: it is queued, or nothing changes.
LEMMA AddOne ==
  ASSUME NEW s \in Stream, NEW p \in PreStream .. PostStream,
         NEW done, done = AddPackets(s, <<p>>)
  PROVE  \/ /\ done.stream = s /\ ~done.notify
            /\ s.closed \/ done.refused
         \/ /\ p >= s.bound /\ ~s.closed /\ ~done.refused
            /\ p = PostStream => ~s.added
            /\ done.stream =
                 [s EXCEPT !.queue = Append(@, p), !.bound = NextAllowedInStream(p),
                           !.added = TRUE]
            /\ done.notify <=> s.queue = <<>>
<1> DEFINE ps == <<p>>
           Fits(k) == /\ \A i \in 1 .. k : Accepts(s, ps, i)
                      /\ k = Len(ps) \/ ~Accepts(s, ps, k + 1)
           n == CHOOSE k \in 0 .. Len(ps) : Fits(k)
           queue == s.queue \o SubSeq(ps, 1, n)
           bound == NextAllowedInStream(ps[n])
           more == [s EXCEPT !.queue = queue, !.bound = bound, !.added = TRUE]
           result == AddPackets(s, ps)
<1>0. done = result
  OBVIOUS
<1> HIDE DEF result
<1>1. Len(ps) = 1 /\ ps[1] = p /\ ps # <<>> /\ ps \in Seq(PreStream .. PostStream)
  OBVIOUS
<1>2. result = IF s.closed \/ n = 0
             THEN [stream |-> s, notify |-> FALSE, refused |-> ~s.closed /\ ps # <<>>]
             ELSE [stream |-> more, notify |-> n = Len(ps) /\ s.queue = <<>>,
                   refused |-> n < Len(ps)]
  BY Zenon DEF result, AddPackets
<1> HIDE DEF n, queue, bound, more
<1>3. CASE s.closed \/ n = 0
  <2>1. result = [stream |-> s, notify |-> FALSE, refused |-> ~s.closed /\ ps # <<>>]
    BY <1>2, <1>3
  <2>2. result.stream = s /\ result.notify = FALSE /\ result.refused = (~s.closed /\ ps # <<>>)
    BY <2>1, Zenon
  <2>3. QED
    BY <2>2, <1>1, <1>0
<1>4. CASE ~s.closed /\ n # 0
  <2>1. Accepts(s, ps, 1)
    <3>1. SUFFICES ASSUME ~Accepts(s, ps, 1) PROVE FALSE
      OBVIOUS
    <3>2. Fits(0) /\ ~Fits(1)
      BY <1>1, <3>1
    <3>3. n = 0
      BY <1>1, <3>2 DEF n
    <3>4. QED
      BY <3>3, <1>4
  <2>2. Fits(1) /\ ~Fits(0)
    BY <1>1, <2>1
  <2>3. n = 1
    BY <1>1, <2>2 DEF n
  <2>4. p >= s.bound /\ (p = PostStream => ~s.added)
    BY <1>1, <2>1 DEF Accepts
  <2>5. queue = Append(s.queue, p) /\ bound = NextAllowedInStream(p)
    <3>1. s.queue \in Seq(PreStream .. PostStream)
      BY DEF Stream
    <3>2. SubSeq(ps, 1, n) = ps
      <4>1. SubSeq(<<p>>, 1, 1) = <<p>>
        BY <1>1, SubSeqFull
      <4>2. QED
        BY <4>1, <2>3
    <3>3. ps[n] = p
      BY <2>3, <1>1
    <3>4. queue = s.queue \o <<p>>
      BY <3>2 DEF queue
    <3>5. queue = Append(s.queue, p)
      BY <3>1, <3>4, AppendIsConcat
    <3>6. QED
      BY <3>3, <3>5 DEF bound
  <2>6. more = [s EXCEPT !.queue = Append(@, p), !.bound = NextAllowedInStream(p),
                         !.added = TRUE]
    BY <2>5, Zenon DEF more
  <2>7. result = [stream |-> more, notify |-> n = Len(ps) /\ s.queue = <<>>,
                refused |-> n < Len(ps)]
    BY <1>2, <1>4
  <2>8. result.stream = more /\ result.notify = (n = Len(ps) /\ s.queue = <<>>)
        /\ result.refused = (n < Len(ps))
    BY <2>7, Zenon
  <2>9. ~result.refused /\ (result.notify <=> s.queue = <<>>)
    <3>1. n = Len(ps) /\ ~(n < Len(ps))
      BY <2>3, <1>1
    <3>2. QED
      BY <2>8, <3>1, Zenon
  <2>10. QED
    BY <2>4, <2>6, <2>8, <2>9, <1>4, <1>0
<1>5. QED
  BY <1>3, <1>4

LEMMA AddTaken ==
  ASSUME NEW s \in Stream, NEW p \in PreStream .. PostStream,
         NEW done, done = AddPackets(s, <<p>>), ~s.closed, ~done.refused
  PROVE  /\ p >= s.bound
         /\ p = PostStream => ~s.added
         /\ done.stream =
              [s EXCEPT !.queue = Append(@, p), !.bound = NextAllowedInStream(p),
                        !.added = TRUE]
         /\ done.notify <=> s.queue = <<>>
<1>1. ~(s.closed \/ done.refused)
  BY Zenon
<1>2. QED
  BY <1>1, AddOne, Zenon

\* A producer that adds a packet at the bound it has stated.
LEMMA AddMoves ==
  ASSUME NEW s, Waiting(s), s.bound <= PostStream,
         NEW done, done = AddPackets(s, <<s.bound>>), ~done.refused, ~s.closed
  PROVE  /\ Moves(s, done.stream)
         /\ done.stream.bound = NextAllowedInStream(s.bound)
         /\ s.queue # <<>> => /\ done.stream.queue # <<>>
                              /\ Head(done.stream.queue) = Head(s.queue)
         /\ ~done.notify => s.queue # <<>>
<1> DEFINE p == s.bound
           r == done.stream
           q == Append(s.queue, p)
<1>1. /\ s \in Stream /\ Len(s.queue) \in Nat /\ p \in PreStream .. PostStream
      /\ s.queue \in Seq(PreStream .. PostStream)
      /\ \A k \in 1 .. Len(s.queue) : /\ s.queue[k] \in PreStream .. PostStream
                                      /\ s.queue[k] < p
  BY StreamFacts, TimestampValues DEF Waiting
<1>2. /\ p >= s.bound
      /\ p = PostStream => ~s.added
      /\ r = [s EXCEPT !.queue = Append(@, p), !.bound = NextAllowedInStream(p),
                       !.added = TRUE]
      /\ done.notify <=> s.queue = <<>>
  BY <1>1, AddTaken, Zenon
<1>0. p = s.bound
  OBVIOUS
<1> HIDE DEF p
<1>3. /\ NextAllowedInStream(p) \in p + 1 .. OneOverPostStream
      /\ p = PreStream \/ p >= MaxTs => NextAllowedInStream(p) = OneOverPostStream
      /\ NextAllowedInStream(p) \in PreStream .. Done
  <2>1. /\ NextAllowedInStream(p) \in p + 1 .. OneOverPostStream
        /\ p = PreStream \/ p >= MaxTs => NextAllowedInStream(p) = OneOverPostStream
    BY <1>1, NextValues
  <2>2. QED
    BY <2>1, <1>1, TimestampValues
<1>4. /\ q \in Seq(PreStream .. PostStream) /\ Len(q) = Len(s.queue) + 1
      /\ \A k \in 1 .. Len(s.queue) : q[k] = s.queue[k]
      /\ q[Len(s.queue) + 1] = p
  BY <1>1, AppendProperties
<1>5. q # <<>> /\ Head(q) = q[1]
  <2> HIDE DEF q
  <2>1. Len(q) # 0
    BY <1>1, <1>4
  <2>2. q # <<>>
    BY <2>1
  <2>3. QED
    BY <2>2, <1>4
<1>6. /\ r \in Stream /\ r.queue = q /\ r.bound = NextAllowedInStream(p) /\ r.added
      /\ r.selected = s.selected /\ r.closed = s.closed
  <2> HIDE DEF q
  <2>1. r = [s EXCEPT !.queue = q, !.bound = NextAllowedInStream(p), !.added = TRUE]
    BY <1>2 DEF q
  <2> HIDE DEF r, p
  <2>2. QED
    BY <2>1, <1>1, <1>3, <1>4 DEF Stream
<1> HIDE DEF q, r
<1>7. ASSUME NEW k \in 1 .. Len(q) PROVE k \in 1 .. Len(s.queue) \/ k = Len(s.queue) + 1
  BY <1>1, <1>4
<1>8. s.queue # <<>> =>
        /\ s.added /\ p # PostStream /\ IsRangeValue(p)
        /\ \A k \in 1 .. Len(s.queue) : IsRangeValue(s.queue[k])
  <2> SUFFICES ASSUME s.queue # <<>>
               PROVE  /\ s.added /\ p # PostStream /\ IsRangeValue(p)
                      /\ \A k \in 1 .. Len(s.queue) : IsRangeValue(s.queue[k])
    OBVIOUS
  <2>1. s.added /\ p # PostStream
    BY <1>2 DEF Waiting
  <2>2. ASSUME NEW k \in 1 .. Len(s.queue) PROVE IsRangeValue(s.queue[k])
    <3>1. s.queue[k] \in PreStream .. PostStream /\ NextAllowedInStream(s.queue[k]) <= p
      BY <1>0, <1>1 DEF Waiting
    <3>2. s.queue[k] = PreStream \/ s.queue[k] >= MaxTs
            => NextAllowedInStream(s.queue[k]) = OneOverPostStream
      BY <3>1, NextValues
    <3>3. s.queue[k] # PreStream /\ ~(s.queue[k] >= MaxTs)
      BY <3>1, <3>2, <1>1, TimestampValues
    <3>4. QED
      BY <3>1, <3>3, TimestampValues DEF IsRangeValue
  <2>3. Len(s.queue) >= 1 /\ 1 \in 1 .. Len(s.queue)
    BY QueueFacts, <1>1
  <2>4. IsRangeValue(p)
    <3>1. s.queue[1] \in PreStream .. PostStream /\ s.queue[1] < p
      BY <1>1, <2>3
    <3>2. QED
      BY <3>1, <2>1, <1>1, TimestampValues DEF IsRangeValue
  <2>5. QED
    BY <2>1, <2>2, <2>4
<1>9. Waiting(r)
  <2>1. Increasing(q)
    <3> SUFFICES ASSUME NEW i \in 1 .. Len(q), NEW j \in 1 .. Len(q), i < j
                 PROVE  q[i] < q[j]
      BY DEF Increasing
    <3>1. i \in 1 .. Len(s.queue)
      BY <1>1, <1>4
    <3>2. CASE j \in 1 .. Len(s.queue)
      BY <3>1, <3>2, <1>4 DEF Waiting, Increasing
    <3>3. CASE j = Len(s.queue) + 1
      BY <3>1, <3>3, <1>1, <1>4
    <3>4. QED
      BY <3>2, <3>3, <1>7
  <2>2. ASSUME NEW k \in 1 .. Len(q)
        PROVE  NextAllowedInStream(q[k]) <= NextAllowedInStream(p)
    <3>1. CASE k \in 1 .. Len(s.queue)
      <4>1. NextAllowedInStream(s.queue[k]) <= p /\ s.queue[k] \in PreStream .. PostStream
        BY <1>0, <3>1, <1>1 DEF Waiting
      <4>2. NextAllowedInStream(s.queue[k]) \in s.queue[k] + 1 .. OneOverPostStream
        BY <4>1, NextValues
      <4>3. NextAllowedInStream(s.queue[k]) <= NextAllowedInStream(p)
        <5> DEFINE a == NextAllowedInStream(s.queue[k])
                   c == NextAllowedInStream(p)
        <5>1. a <= p /\ a \in Int
          BY <4>1, <4>2, TimestampValues
        <5>2. c \in p + 1 .. OneOverPostStream /\ p \in Int
          BY <1>1, <1>3, TimestampValues
        <5> HIDE DEF a, c
        <5>3. a <= c
          BY <5>1, <5>2
        <5>4. QED
          BY <5>3 DEF a, c
      <4>4. QED
        BY <3>1, <4>3, <1>4
    <3>2. CASE k = Len(s.queue) + 1
      BY <3>2, <1>3, <1>4, TimestampValues
    <3>3. QED
      BY <3>1, <3>2, <1>7
  <2>3. ASSUME Len(q) > 1, NEW k \in 1 .. Len(q) PROVE IsRangeValue(q[k])
    <3>1. s.queue # <<>>
      BY <2>3, <1>1, <1>4
    <3>2. QED
      BY <3>1, <1>4, <1>7, <1>8
  <2>4. QED
    BY <1>6, <2>1, <2>2, <2>3 DEF Waiting
<1>10. s.queue # <<>> => Head(q) = Head(s.queue)
  <2>1. s.queue # <<>> => 1 \in 1 .. Len(s.queue) /\ Head(s.queue) = s.queue[1]
    BY QueueFacts, <1>1
  <2>2. QED
    BY <2>1, <1>4, <1>5
<1>11. s.queue = <<>> => Head(q) = p
  BY <1>1, <1>4, <1>5
<1>12. MinTimestampOrBound(s) = MinTimestampOrBound(r)
  BY <1>0, <1>5, <1>6, <1>10, <1>11 DEF MinTimestampOrBound
<1>13. MinTimestampOrBound(s) <= MinTimestampOrBound(r)
  BY <1>12, MinFacts, TimestampValues
<1>14. ASSUME NEW t \in Int, Settled(s, t) PROVE Settled(r, t)
  <2>1. CASE s.queue = <<>>
    BY <1>0, <2>1, <1>14, <1>1, <1>5, <1>6, <1>11, TimestampValues DEF Settled
  <2>2. CASE s.queue # <<>>
    BY <2>2, <1>14, <1>5, <1>6, <1>10 DEF Settled
  <2>3. QED
    BY <2>1, <2>2
<1>15. s.bound <= r.bound /\ ~(s.bound >= OneOverPostStream)
  BY <1>0, <1>1, <1>3, <1>6, TimestampValues
<1>16. Moves(s, r)
  BY <1>6, <1>9, <1>13, <1>14, <1>15 DEF Moves
<1>17. QED
  BY <1>0, <1>2, <1>5, <1>6, <1>10, <1>16 DEF r

\* A producer that raises its bound by one.
LEMMA RaiseMoves ==
  ASSUME NEW s, Waiting(s), s.bound + 1 <= Done,
         NEW done, done = SetNextTimestampBound(s, s.bound + 1), ~s.closed
  PROVE  /\ Moves(s, done.stream)
         /\ done.stream.bound = s.bound + 1
         /\ done.stream.queue = s.queue
         /\ ~done.notify => s.queue # <<>>
<1> DEFINE r == done.stream
           b == s.bound + 1
<1>1. /\ s \in Stream /\ s.bound \in PreStream .. Done
      /\ s.queue \in Seq(PreStream .. PostStream)
  BY StreamFacts DEF Waiting
<1>2. b > s.bound /\ b \in PreStream .. Done
  BY <1>1, TimestampValues
<1>3. /\ r = [s EXCEPT !.bound = b] /\ ~s.closed
      /\ done.notify = (s.queue = <<>>)
  BY <1>2 DEF SetNextTimestampBound
<1> HIDE DEF b
<1>4. /\ r \in Stream /\ r.bound = b /\ r.queue = s.queue /\ r.added = s.added
      /\ r.selected = s.selected /\ r.closed = s.closed
  BY <1>1, <1>2, <1>3 DEF Stream
<1> HIDE DEF r
<1>5. Waiting(r)
  <2>1. ASSUME NEW k \in 1 .. Len(s.queue) PROVE NextAllowedInStream(s.queue[k]) <= b
    <3>1. /\ NextAllowedInStream(s.queue[k]) <= s.bound
          /\ s.queue[k] \in PreStream .. PostStream
      BY StreamFacts DEF Waiting
    <3>2. NextAllowedInStream(s.queue[k]) \in s.queue[k] + 1 .. OneOverPostStream
      BY <3>1, NextValues
    <3>3. QED
      BY <3>1, <3>2, <1>1, <1>2, TimestampValues
  <2>2. QED
    BY <2>1, <1>4 DEF Waiting
<1>6. MinTimestampOrBound(s) <= MinTimestampOrBound(r)
  <2>1. CASE s.queue = <<>>
    BY <2>1, <1>1, <1>2, <1>4, TimestampValues DEF MinTimestampOrBound
  <2>2. CASE s.queue # <<>>
    <3>1. MinTimestampOrBound(s) = MinTimestampOrBound(r)
      BY <2>2, <1>4 DEF MinTimestampOrBound
    <3>2. QED
      BY <3>1, MinFacts, TimestampValues
  <2>3. QED
    BY <2>1, <2>2
<1>7. ASSUME NEW t \in Int, Settled(s, t) PROVE Settled(r, t)
  BY <1>1, <1>2, <1>4, <1>7, TimestampValues DEF Settled
<1>8. s.bound <= r.bound
  BY <1>1, <1>2, <1>4, TimestampValues
<1>9. Moves(s, r)
  BY <1>4, <1>5, <1>6, <1>7, <1>8 DEF Moves
<1>10. QED
  BY <1>3, <1>4, <1>9 DEF r, b

\* InputStreamManager::Close
LEMMA ClosedWaits ==
  ASSUME NEW s, Waiting(s)
  PROVE  Waiting(CloseStream(s)) /\ CloseStream(s).closed
<1> DEFINE r == CloseStream(s)
<1>1. /\ s \in Stream /\ s.bound \in PreStream .. Done
      /\ s.queue \in Seq(PreStream .. PostStream)
  BY StreamFacts DEF Waiting
<1>2. Done \in PreStream .. Done /\ Done \in Unstarted .. Done
  BY TimestampValues
<1>3. /\ r \in Stream /\ r.bound = Done /\ r.queue = s.queue /\ r.added = s.added
      /\ r.closed
  BY <1>1, <1>2 DEF Stream, CloseStream
<1> HIDE DEF r
<1>4. ASSUME NEW k \in 1 .. Len(s.queue) PROVE NextAllowedInStream(s.queue[k]) <= Done
  <2>1. s.queue[k] \in PreStream .. PostStream
    BY StreamFacts
  <2>2. NextAllowedInStream(s.queue[k]) \in s.queue[k] + 1 .. OneOverPostStream
    BY <2>1, NextValues
  <2>3. QED
    BY <2>1, <2>2, TimestampValues
<1>5. Waiting(r)
  BY <1>3, <1>4 DEF Waiting
<1>6. QED
  BY <1>3, <1>5 DEF r

LEMMA FreshWaits ==
  /\ Waiting(FreshStream)
  /\ FreshStream.queue = <<>> /\ FreshStream.bound = PreStream
  /\ FreshStream.selected = Unstarted /\ ~FreshStream.closed
<1>1. FreshStream \in Stream
  BY TimestampValues DEF FreshStream, Stream
<1>2. FreshStream.queue = <<>> /\ Len(FreshStream.queue) = 0
  BY DEF FreshStream
<1>3. QED
  BY <1>1, <1>2 DEF Waiting, Increasing, FreshStream

\* What is pushed from the front of a stream by ErasePacketsEarlierThan.
LEMMA EraseMoves ==
  ASSUME NEW s, Waiting(s), NEW t \in Unset .. Done, NEW r, r = EraseEarlier(s, t)
  PROVE  /\ Moves(s, r) /\ r.bound = s.bound
         /\ s.queue = <<>> => r.queue = <<>>
         /\ r.queue # <<>> => t <= Head(r.queue)
         /\ s.queue # <<>> /\ t <= Last(s.queue) => r.queue # <<>>
         /\ s.queue # <<>> /\ t <= Head(s.queue) => Head(r.queue) = Head(s.queue)
         /\ \A x \in Range(s.queue) \ Range(r.queue) : x < t
         /\ r.queue # <<>> => Head(r.queue) <= Last(s.queue)
<1>1. t - 1 \in Int /\ t \in Int
  BY TimestampValues
<1>2. PICK n \in 0 .. Len(s.queue) :
        /\ \A i \in 1 .. n : s.queue[i] <= t - 1
        /\ \A i \in n + 1 .. Len(s.queue) : s.queue[i] > t - 1
        /\ PopAt(s, t - 1).stream =
             [s EXCEPT !.queue = Rest(s, n),
                       !.selected = t - 1,
                       !.bound = IF s.bound <= t - 1 THEN NextAllowedInStream(t - 1)
                                 ELSE s.bound]
  BY <1>1, PopTakes
<1> DEFINE q == Rest(s, n)
<1>3. /\ s \in Stream /\ Len(s.queue) \in Nat /\ s.bound \in PreStream .. Done
      /\ s.selected \in Unstarted .. Done
      /\ \A k \in 1 .. Len(s.queue) : /\ s.queue[k] \in PreStream .. PostStream
                                      /\ s.queue[k] < s.bound
  BY StreamFacts DEF Waiting
<1>4. r = Cut(s, n, s.selected)
  <2> HIDE DEF q
  <2>1. PopAt(s, t - 1).stream.queue = q
    <3>1. PopAt(s, t - 1).stream =
             [s EXCEPT !.queue = q, !.selected = t - 1,
                       !.bound = IF s.bound <= t - 1 THEN NextAllowedInStream(t - 1)
                                 ELSE s.bound]
      BY <1>2 DEF q
    <3>2. QED
      BY <3>1, <1>3 DEF Stream
  <2>2. r = [s EXCEPT !.queue = q]
    BY <2>1 DEF EraseEarlier
  <2>3. r = [s EXCEPT !.queue = q, !.selected = s.selected]
    BY <2>2, <1>3 DEF Stream
  <2>4. QED
    BY <2>3 DEF Cut, q
<1>5. /\ Waiting(r) /\ r.selected = s.selected /\ r.closed = s.closed /\ r.bound = s.bound
      /\ MinTimestampOrBound(s) <= MinTimestampOrBound(r)
      /\ \A u \in Int : Settled(s, u) => Settled(r, u)
      /\ s.queue = <<>> => r.queue = <<>>
      /\ n < Len(s.queue) => /\ r.queue # <<>>
                             /\ MinTimestampOrBound(r) = s.queue[n + 1]
      /\ n = Len(s.queue) => r.queue = <<>>
  <2>1. n \in 0 .. Len(s.queue) /\ s.selected \in Unstarted .. Done
    BY <1>2, <1>3
  <2>2. QED
    BY <2>1, <1>4, FrontTaken
<1>6. s.bound <= r.bound
  BY <1>3, <1>5, TimestampValues
<1>7. Moves(s, r)
  BY <1>5, <1>6 DEF Moves
<1>8. /\ q \in Seq(PreStream .. PostStream)
      /\ Len(q) = Len(s.queue) - n
      /\ \A k \in 1 .. Len(q) : q[k] = s.queue[n + k]
  <2>1. n \in 0 .. Len(s.queue)
    BY <1>2
  <2>2. QED
    BY <2>1, Suffix
<1>9. r.queue = q
  <2>1. r = [s EXCEPT !.queue = q, !.selected = s.selected]
    BY <1>4 DEF Cut
  <2> HIDE DEF q
  <2>2. QED
    BY <1>3, <2>1 DEF Stream
<1>10. n < Len(s.queue) => n + 1 \in n + 1 .. Len(s.queue) /\ n + 1 \in 1 .. Len(s.queue)
  BY <1>3
<1>11. n < Len(s.queue) => Head(r.queue) = s.queue[n + 1]
  BY <1>5 DEF MinTimestampOrBound
<1>12. r.queue # <<>> => t <= Head(r.queue)
  <2> SUFFICES ASSUME r.queue # <<>> PROVE t <= Head(r.queue)
    OBVIOUS
  <2>1. n < Len(s.queue)
    BY <1>3, <1>5
  <2>2. s.queue[n + 1] > t - 1 /\ s.queue[n + 1] \in PreStream .. PostStream
    BY <1>2, <1>3, <1>10, <2>1
  <2>3. QED
    BY <2>1, <2>2, <1>1, <1>11, TimestampValues
<1>13. ASSUME s.queue # <<>>, t <= Last(s.queue) PROVE r.queue # <<>>
  <2> SUFFICES ASSUME n = Len(s.queue) PROVE FALSE
    BY <1>3, <1>5
  <2>1. Len(s.queue) >= 1 /\ Last(s.queue) = s.queue[Len(s.queue)]
        /\ Last(s.queue) \in PreStream .. PostStream
    BY <1>13, QueueFacts
  <2>2. s.queue[Len(s.queue)] <= t - 1
    BY <1>2, <2>1
  <2>3. QED
    BY <1>13, <1>1, <2>1, <2>2, TimestampValues
<1>14. ASSUME s.queue # <<>>, t <= Head(s.queue) PROVE Head(r.queue) = Head(s.queue)
  <2>1. Len(s.queue) >= 1 /\ Head(s.queue) = s.queue[1]
        /\ Head(s.queue) \in PreStream .. PostStream
    BY <1>14, QueueFacts
  <2>2. n = 0
    <3> SUFFICES ASSUME n >= 1 PROVE FALSE
      OBVIOUS
    <3>1. s.queue[1] <= t - 1
      BY <1>2
    <3>2. QED
      BY <3>1, <2>1, <1>1, <1>14, TimestampValues
  <2>3. n < Len(s.queue) /\ n + 1 = 1
    BY <2>1, <2>2
  <2>4. QED
    BY <1>11, <2>1, <2>3
<1>15. ASSUME NEW x \in Range(s.queue) \ Range(r.queue) PROVE x < t
  <2>1. PICK k \in 1 .. Len(s.queue) : x = s.queue[k]
    BY <1>3 DEF Range, Stream
  <2>2. k <= n
    <3> SUFFICES ASSUME k > n PROVE FALSE
      BY <1>3
    <3>1. k - n \in 1 .. Len(q) /\ n + (k - n) = k
      BY <1>3, <1>8
    <3>2. q[k - n] = x
      BY <3>1, <1>8, <2>1
    <3>3. k - n \in DOMAIN q
      BY <3>1, <1>8
    <3>4. x \in Range(r.queue)
      BY <3>2, <3>3, <1>9 DEF Range
    <3>5. QED
      BY <3>4
  <2>3. s.queue[k] <= t - 1 /\ s.queue[k] \in PreStream .. PostStream
    BY <1>2, <1>3, <2>2
  <2>4. QED
    BY <2>1, <2>3, <1>1, TimestampValues
<1>16. r.queue # <<>> => Head(r.queue) <= Last(s.queue)
  <2> SUFFICES ASSUME r.queue # <<>> PROVE Head(r.queue) <= Last(s.queue)
    OBVIOUS
  <2>1. n < Len(s.queue) /\ s.queue # <<>>
    BY <1>3, <1>5
  <2>2. s.queue[n + 1] <= Last(s.queue)
    BY <1>10, <2>1, QueueFacts
  <2>3. QED
    BY <1>11, <2>1, <2>2
<1>17. QED
  BY <1>5, <1>7, <1>12, <1>13, <1>14, <1>15, <1>16

\* PopPacketAtTimestamp at a timestamp that is settled drops nothing.
LEMMA PopSettled ==
  ASSUME NEW s, Waiting(s), NEW t \in PreStream .. PostStream, Settled(s, t),
         NEW r, r = PopAt(s, t).stream
  PROVE  /\ PopAt(s, t).dropped = 0
         /\ Waiting(r) /\ r.selected = t /\ r.closed = s.closed /\ r.bound = s.bound
         /\ MinTimestampOrBound(s) <= MinTimestampOrBound(r)
         /\ t < MinTimestampOrBound(r)
         /\ \A u \in Int : Settled(s, u) => Settled(r, u)
         /\ s.queue = <<>> => r.queue = <<>>
<1>1. t \in Int /\ t \in Unstarted .. Done
  BY TimestampValues
<1>2. PICK n \in 0 .. Len(s.queue) :
        /\ \A i \in 1 .. n : s.queue[i] <= t
        /\ \A i \in n + 1 .. Len(s.queue) : s.queue[i] > t
        /\ PopAt(s, t).stream =
             [s EXCEPT !.queue = Rest(s, n),
                       !.selected = t,
                       !.bound = IF s.bound <= t THEN NextAllowedInStream(t)
                                 ELSE s.bound]
        /\ PopAt(s, t).dropped = IF n > 0 /\ s.queue[n] = t THEN n - 1 ELSE n
  BY <1>1, PopTakes
<1> DEFINE q == Rest(s, n)
<1>3. /\ s \in Stream /\ Len(s.queue) \in Nat /\ s.bound \in PreStream .. Done
      /\ \A k \in 1 .. Len(s.queue) : /\ s.queue[k] \in PreStream .. PostStream
                                      /\ s.queue[k] < s.bound
  BY StreamFacts DEF Waiting
<1>4. t < s.bound
  BY <1>1, MinFacts
<1>5. r = Cut(s, n, t)
  <2> HIDE DEF q
  <2>1. r = [s EXCEPT !.queue = q, !.selected = t,
                      !.bound = IF s.bound <= t THEN NextAllowedInStream(t)
                                ELSE s.bound]
    BY <1>2 DEF q
  <2>2. ~(s.bound <= t)
    BY <1>1, <1>3, <1>4, TimestampValues
  <2>3. r = [s EXCEPT !.queue = q, !.selected = t]
    BY <2>1, <2>2, <1>3 DEF Stream
  <2>4. QED
    BY <2>3 DEF Cut, q
<1>6. /\ Waiting(r) /\ r.selected = t /\ r.closed = s.closed /\ r.bound = s.bound
      /\ MinTimestampOrBound(s) <= MinTimestampOrBound(r)
      /\ \A u \in Int : Settled(s, u) => Settled(r, u)
      /\ s.queue = <<>> => r.queue = <<>>
      /\ n < Len(s.queue) => /\ r.queue # <<>>
                             /\ MinTimestampOrBound(r) = s.queue[n + 1]
      /\ n = Len(s.queue) => MinTimestampOrBound(r) = s.bound
  <2>1. n \in 0 .. Len(s.queue)
    BY <1>2
  <2>2. QED
    BY <2>1, <1>1, <1>5, FrontTaken
<1>7. t < MinTimestampOrBound(r)
  <2>1. CASE n = Len(s.queue)
    BY <2>1, <1>4, <1>6
  <2>2. CASE n < Len(s.queue)
    <3>1. n + 1 \in n + 1 .. Len(s.queue) /\ n + 1 \in 1 .. Len(s.queue)
      BY <2>2, <1>3
    <3>2. s.queue[n + 1] > t
      BY <3>1, <1>2
    <3>3. QED
      BY <3>1, <3>2, <2>2, <1>1, <1>3, <1>6, TimestampValues
  <2>3. QED
    BY <2>1, <2>2, <1>3
<1>8. n = 0 \/ (n = 1 /\ s.queue[n] = t)
  <2> SUFFICES ASSUME n >= 1 PROVE n = 1 /\ s.queue[n] = t
    OBVIOUS
  <2>1. s.queue # <<>> /\ 1 \in 1 .. Len(s.queue) /\ n \in 1 .. Len(s.queue)
    BY <1>3
  <2>2. t <= s.queue[1]
    BY <2>1, QueueFacts DEF Settled
  <2>3. s.queue[1] = t
    BY <2>1, <2>2, <1>1, <1>2, <1>3, TimestampValues
  <2>4. n = 1
    <3> SUFFICES ASSUME 2 <= n PROVE FALSE
      BY <1>3
    <3>1. 2 \in 1 .. n /\ 2 \in 1 .. Len(s.queue) /\ 1 < 2
      BY <1>3
    <3>2. s.queue[1] < s.queue[2]
      BY <3>1, <2>1 DEF Waiting, Increasing
    <3>3. s.queue[2] <= t /\ s.queue[2] \in PreStream .. PostStream
      BY <3>1, <1>2, <1>3
    <3>4. QED
      BY <3>2, <3>3, <2>3, <1>1, TimestampValues
  <2>5. QED
    BY <2>3, <2>4
<1>9. PopAt(s, t).dropped = 0
  BY <1>2, <1>8
<1>10. QED
  BY <1>6, <1>7, <1>9

\* The barrier takes the first packet, whatever its timestamp.
LEMMA TailTaken ==
  ASSUME NEW s, Waiting(s), s.queue # <<>>, NEW r, r = PopQueueHead(s)
  PROVE  /\ Waiting(r) /\ r.selected = s.selected /\ r.closed = s.closed
         /\ r.bound = s.bound
         /\ MinTimestampOrBound(s) <= MinTimestampOrBound(r)
<1>1. /\ s \in Stream /\ Len(s.queue) \in Nat /\ s.selected \in Unstarted .. Done
      /\ s.queue \in Seq(PreStream .. PostStream) /\ Len(s.queue) >= 1
  BY StreamFacts, QueueFacts DEF Waiting
<1>2. Tail(s.queue) = Rest(s, 1)
  <2>1. \A q : q \in Seq(PreStream .. PostStream) /\ q # <<>>
                 => Tail(q) = SubSeq(q, 2, Len(q))
    BY HeadTailProperties
  <2>2. QED
    BY <1>1, <2>1 DEF Rest
<1> DEFINE q == Rest(s, 1)
<1>3. r = Cut(s, 1, s.selected)
  <2> HIDE DEF q
  <2>1. Tail(s.queue) = q
    BY <1>2 DEF q
  <2>2. r = [s EXCEPT !.queue = q]
    BY <2>1 DEF PopQueueHead
  <2>3. r = [s EXCEPT !.queue = q, !.selected = s.selected]
    BY <2>2, <1>1 DEF Stream
  <2>4. QED
    BY <2>3 DEF Cut, q
<1>4. 1 \in 0 .. Len(s.queue)
  BY <1>1
<1>5. s.queue # <<>> /\ Len(s.queue) >= 1 /\ s.selected \in Unstarted .. Done
  BY <1>1
<1>6. QED
  BY <1>3, <1>4, <1>5, FrontTaken

-----------------------------------------------------------------------------
\* The inductive invariant.

\* The streams move ahead and stay what their producers have stated.
StreamsInv ==
  \A i \in Id :
    /\ Waiting(streams[i])
    /\ streams[i].closed = (pc = "closed")
    /\ pc # "closed" => /\ streams[i].bound = promised[i] \/ Overtaken(i)
                        /\ streams[i].selected < MinTimestampOrBound(streams[i])

\* The checks that may fail, and the stages a policy has.
StageInv ==
  /\ failed \in {"none", "special", "torn"}
  /\ failed # "none" => policy \in {"TimestampAlign", "Mux"}
  /\ pc = "read" => Len(seen) < NumStreams /\ (policy = "Mux" => seen = <<>>)
  /\ pc = "decide" => Len(seen) = NumStreams /\ policy # "Mux"
  /\ pc \in {"discard", "select"} => Len(seen) = 1
  /\ pc \in {"discard", "select", "tidy"} => policy = "Mux"
  /\ pc = "discard" => filled < NumStreams
  /\ pc = "refill" => FixedSize
  /\ pc \in {"read", "decide", "select", "refill"} => filled = 0
  /\ pc = "fill" /\ failed = "none" => filled < NumStreams
  /\ Len(sets) = Len(FreshSets)
  /\ \A k \in 1 .. Len(sets) :
       sets[k].ids = FreshSets[k].ids \/ (policy = "SyncSet" /\ sets[k].ids = {})
  /\ policy \notin {"Default", "Immediate", "SyncSet"} => ~processBounds
  /\ policy = "Mux" => choice \in [PreStream .. PostStream -> Data]

\* What has been read of stream i and is not yet acted upon.
IsRead(i, r) ==
  /\ r.ts \in PreStream .. Done
  /\ r.ts <= MinTimestampOrBound(streams[i])
  /\ ~r.empty => streams[i].queue # <<>> /\ r.ts = Head(streams[i].queue)
  /\ ~notified => /\ r.empty = (streams[i].queue = <<>>)
                  /\ r.ts = MinTimestampOrBound(streams[i])

SeenInv ==
  /\ pc \in {"read", "decide"} => \A i \in 1 .. Len(seen) : IsRead(i, seen[i])
  /\ pc \in {"discard", "select"} => IsRead(Control, seen[1])

\* The fixed size handler is about to take stream s at its bound: see Overtaken.
AtBound(s) ==
  /\ policy = "FixedSize" /\ PreStream \in erased
  /\ inputTs = MinTs /\ s.queue = <<>> /\ s.bound = MinTs

\* The input set that is being filled.
FillInv ==
  pc = "fill" /\ failed = "none" =>
    /\ inputTs \in PreStream .. OneOverPostStream
    /\ \A i \in filled + 1 .. NumStreams : Wanted(i) =>
         /\ \/ policy = "TimestampAlign" /\ aligned
            \/ IsAllowedInStream(inputTs)
         /\ policy = "Barrier" => streams[i].queue # <<>>
         /\ policy \notin {"Barrier", "TimestampAlign"} =>
              /\ Settled(streams[i], inputTs) \/ AtBound(streams[i])
              /\ streams[i].selected < inputTs
         /\ policy = "TimestampAlign" /\ (aligned => IsRangeValue(inputTs)) =>
              /\ Settled(streams[i], PopTs(i))
              /\ streams[i].selected <= PopTs(i)

\* The streams that one set synchronizes.
Together(i, j) ==
  \/ policy \in {"Default", "EarlyClose", "FixedSize", "FixedMinSize"}
  \/ policy = "SyncSet" /\ (i = 1 <=> j = 1)

Between(i, j) ==
  pc = "fill" /\ i <= filled /\ filled < j /\ Wanted(j)
  /\ streams[i].selected = inputTs

\* They have been asked for the same timestamps.
TogetherInv ==
  pc # "closed" => \A i, j \in Id : Together(i, j) =>
    /\ \/ streams[i].selected = streams[j].selected
       \/ Between(i, j) \/ Between(j, i)
    /\ pc = "fill" /\ filled < i /\ Wanted(i) =>
         IF filled < j THEN Wanted(j) ELSE streams[j].selected = inputTs

\* last_processed_ts_ is the last timestamp a set was found ready at.
LastInv ==
  pc # "closed" =>
    /\ policy = "Default" =>
         IF pc = "fill" THEN inputTs = sets[1].last
         ELSE \A i \in Id : streams[i].selected = Later(sets[1].last, Unstarted)
    /\ policy = "SyncSet" /\ processBounds =>
         \A k \in 1 .. Len(sets) : \A i \in sets[k].ids :
           /\ streams[i].selected <= Later(sets[k].last, Unstarted)
           /\ pc = "fill" /\ Wanted(i) => inputTs <= sets[k].last
    /\ policy = "Immediate" => \A k \in Id :
         \/ ready[k] = Unset /\ streams[k].selected = Later(sets[k].last, Unstarted)
         \/ /\ ready[k] \in PreStream .. PostStream
            /\ sets[k].last = ready[k]
            /\ streams[k].selected < ready[k]
            /\ Settled(streams[k], ready[k])
         \/ /\ ready[k] = Done
            /\ streams[k].queue = <<>> /\ streams[k].bound >= OneOverPostStream

\* A bound below which ProcessTimestampBounds has no more to say: b is not
\* beyond the next bound that is processed.
Passed(i, last, b) ==
  b <= MinTs \/ b <= last + 1 \/ b < streams[i].bound

\* What stream i has to offer, as the base counts time.
Shift(i, t) == IF IsRangeValue(t) THEN Plus(t, offsets[i]) ELSE t

BoundInv ==
  pc # "closed" =>
    /\ inputBound = Unset \/ IsRangeValue(inputBound)
    /\ policy \in {"Default", "FixedSize", "FixedMinSize", "Barrier", "EarlyClose"} =>
         \A i \in Id : inputBound <= MinTimestampOrBound(streams[i])
    /\ policy = "Default" /\ processBounds =>
         \/ inputBound <= MinTs \/ inputBound <= sets[1].last + 1
         \/ \A i \in Id : inputBound < streams[i].bound
    /\ policy = "Immediate" => \A k \in Id :
         \/ ready[k] = Done
         \/ /\ inputBound <= MinTimestampOrBound(streams[k])
            /\ ready[k] # Unset => inputBound <= ready[k]
            /\ processBounds => Passed(k, sets[k].last, inputBound)
    /\ policy = "Mux" => inputBound <= MinTimestampOrBound(streams[Control])
    /\ policy = "TimestampAlign" =>
         IF aligned
         THEN \A i \in Id : inputBound <= Shift(i, MinTimestampOrBound(streams[i]))
         ELSE inputBound <= MinTimestampOrBound(streams[Base])

\* What has been read is not behind the bound that has been reported.
Ahead(i, r) ==
  /\ policy \in {"Default", "FixedSize", "FixedMinSize", "Barrier", "EarlyClose"} =>
       inputBound <= r.ts
  /\ policy = "Default" /\ processBounds =>
       \/ inputBound <= MinTs \/ inputBound <= sets[1].last + 1
       \/ r.empty => inputBound < r.ts
  /\ policy = "Immediate" =>
       \/ ready[i] = Done
       \/ /\ inputBound <= r.ts
          /\ processBounds => \/ inputBound <= MinTs \/ inputBound <= sets[i].last + 1
                              \/ r.empty => inputBound < r.ts
  /\ policy = "TimestampAlign" =>
       IF aligned THEN inputBound <= Shift(i, r.ts)
       ELSE i = Base => inputBound <= r.ts

AheadInv ==
  /\ pc \in {"read", "decide"} => \A i \in 1 .. Len(seen) : Ahead(i, seen[i])
  /\ pc \in {"discard", "select"} => inputBound <= seen[1].ts
  /\ pc = "refill" => inputBound <= inputTs

\* The streams as they are when the base is at b.
AlignedAt(b) ==
  \A i \in Id :
    /\ b - offsets[i] >= MinTs
    /\ \/ MinTimestampOrBound(streams[i]) >= b - offsets[i]
       \/ MinTimestampOrBound(streams[i]) > MaxTs
    /\ streams[i].selected <= Plus(b, -offsets[i])

AlignInv ==
  /\ offsets[Base] = 0
  /\ policy = "TimestampAlign" /\ aligned /\ pc # "closed" =>
       /\ \E b \in MinTs .. MaxTs : AlignedAt(b)
       /\ pc = "fill" /\ IsRangeValue(inputTs) => AlignedAt(inputTs)

\* The mux asks its control stream first.
MuxInv ==
  policy = "Mux" /\ pc # "closed" =>
    /\ pc = "fill" /\ filled >= 1 /\ failed = "none" =>
         streams[Control].selected = inputTs
    /\ \A i \in Data :
         streams[i].selected <= IF pc = "fill" THEN inputTs
                                ELSE streams[Control].selected

\* What the fixed size handler has discarded lies behind.
ErasedInv ==
  /\ kept \in Unset .. MaxTs /\ (policy # "FixedSize" => kept = Unset)
  /\ ~FixedSize => erased = {} /\ owed = {}
  /\ \A e \in erased : \/ e < kept
                       \/ \A i \in Id : e < MinTimestampOrBound(streams[i])
  /\ pc = "refill" =>
       /\ inputTs \in PreStream .. PostStream
       /\ \A i \in Id : Settled(streams[i], inputTs)
       /\ \E j \in Id : /\ streams[j].queue # <<>>
                        /\ Head(streams[j].queue) = inputTs
       /\ policy = "FixedSize" => kept <= inputTs
  /\ FixedSize /\ pc \in {"fill", "process"} => inputTs \notin erased
  /\ FixedSize /\ pc = "process" =>
       \A i \in Id : streams[i].selected = inputTs

IInv ==
  /\ TypeOK
  /\ StreamsInv
  /\ StageInv
  /\ SeenInv
  /\ FillInv
  /\ TogetherInv
  /\ LastInv
  /\ BoundInv
  /\ AheadInv
  /\ AlignInv
  /\ MuxInv
  /\ ErasedInv
  /\ NothingForgotten

-----------------------------------------------------------------------------
\* Steps that bring the streams ahead and let the round be.

Drift ==
  /\ policy' = policy /\ processBounds' = processBounds /\ choice' = choice
  /\ offsets' = offsets /\ aligned' = aligned /\ inputBound' = inputBound
  /\ ready' = ready
  /\ \A i \in Id : Moves(streams[i], streams'[i])
  /\ pc = "fill" => \A i \in Id :
       streams[i].queue # <<>> => streams'[i].queue # <<>>
  /\ pc = "fill" => erased' = erased
  /\ FixedSize \/ sets' = sets
  /\ \/ pc' = pc /\ inputTs' = inputTs /\ filled' = filled /\ failed' = failed
     \/ pc \notin {"fill", "closed"} /\ pc' \notin {"fill", "closed"}

LEMMA IdFacts ==
  /\ NumStreams \in Nat /\ NumStreams >= 2
  /\ Id = 1 .. NumStreams /\ Id # {} /\ Id \subseteq Int
  /\ Base \in Id /\ Control \in Id /\ Base = 1
  /\ Control = 1
  /\ Data = Id \ {Control} /\ Data # {}
  BY InputSetsAssumption DEF Id, Base, Control, Data

\* The elements of the sequences.
LEMMA SetFacts ==
  ASSUME TypeOK
  PROVE  /\ Len(sets) \in Nat /\ DOMAIN sets = 1 .. Len(sets)
         /\ \A k \in 1 .. Len(sets) : sets[k].ids \subseteq Id /\ sets[k].last \in Timestamp
<1> DEFINE R == [ids : SUBSET Id, last : Timestamp]
<1>1. sets \in Seq(R)
  BY DEF TypeOK
<1>2. \A x \in R : x.ids \subseteq Id /\ x.last \in Timestamp
  OBVIOUS
<1> HIDE DEF R
<1>3. Len(sets) \in Nat /\ DOMAIN sets = 1 .. Len(sets)
      /\ \A k \in 1 .. Len(sets) : sets[k] \in R
  BY <1>1, ElementOfSeq
<1>4. QED
  BY <1>2, <1>3

LEMMA SeenFacts ==
  ASSUME TypeOK
  PROVE  /\ Len(seen) \in 0 .. NumStreams /\ DOMAIN seen = 1 .. Len(seen)
         /\ \A i \in 1 .. Len(seen) : seen[i].ts \in Timestamp /\ seen[i].empty \in BOOLEAN
<1> DEFINE R == [ts : Timestamp, empty : BOOLEAN]
<1>1. seen \in Seq(R) /\ Len(seen) <= NumStreams
  BY DEF TypeOK
<1>2. \A x \in R : x.ts \in Timestamp /\ x.empty \in BOOLEAN
  OBVIOUS
<1> HIDE DEF R
<1>3. Len(seen) \in Nat /\ DOMAIN seen = 1 .. Len(seen)
      /\ \A k \in 1 .. Len(seen) : seen[k] \in R
  BY <1>1, ElementOfSeq
<1>4. QED
  BY <1>1, <1>2, <1>3, IdFacts

\* Arithmetic of aligned timestamps.
LEMMA PlusFacts ==
  ASSUME NEW t \in MinTs .. MaxTs, NEW o \in Int
  PROVE  /\ Plus(t, o) \in MinTs .. MaxTs
         /\ t + o >= MaxTs => Plus(t, o) = MaxTs
         /\ t + o <= MinTs => Plus(t, o) = MinTs
         /\ t + o \in MinTs .. MaxTs => Plus(t, o) = t + o
  BY TimestampValues DEF Plus

LEMMA ShiftGrows ==
  ASSUME NEW i, offsets[i] \in Int,
         NEW t \in PreStream .. Done, NEW u \in PreStream .. Done, t <= u
  PROVE  /\ Shift(i, t) \in PreStream .. Done /\ Shift(i, u) \in PreStream .. Done
         /\ Shift(i, t) <= Shift(i, u)
  BY TimestampValues DEF Shift, Plus, IsRangeValue

\* A stream at its bound Min() that moves ahead.
LEMMA MovesAtBound ==
  ASSUME NEW s, NEW r, Moves(s, r), s.queue = <<>>, s.bound = MinTs
  PROVE  Settled(r, MinTs) \/ (r.queue = <<>> /\ r.bound = MinTs)
<1>1. Waiting(r) /\ MinTs <= r.bound /\ MinTs <= MinTimestampOrBound(r)
  BY DEF Moves, MinTimestampOrBound
<1>2. r.bound \in PreStream .. Done
  BY <1>1, StreamFacts
<1>3. QED
  BY <1>1, <1>2, TimestampValues DEF Settled, MinTimestampOrBound

LEMMA DriftFill ==
  ASSUME TypeOK, FillInv, Drift
  PROVE  FillInv'
<1>1. CASE pc' # "fill"
  BY <1>1 DEF FillInv
<1>2. CASE pc' = pc /\ inputTs' = inputTs /\ filled' = filled /\ failed' = failed
  <2> SUFFICES ASSUME pc = "fill", failed = "none"
               PROVE  FillInv'
    BY <1>2 DEF FillInv
  <2>1. inputTs \in PreStream .. OneOverPostStream
    BY DEF FillInv
  <2>2. inputTs \in Int /\ filled \in 0 .. NumStreams
    BY <2>1, TimestampValues DEF TypeOK
  <2>3. \A i : Wanted(i)' = Wanted(i) /\ PopTs(i)' = PopTs(i)
    BY <1>2 DEF Wanted, PopTs, Drift
  <2>4. ASSUME NEW i \in filled + 1 .. NumStreams, Wanted(i)
        PROVE  /\ \/ policy = "TimestampAlign" /\ aligned
                  \/ IsAllowedInStream(inputTs)
               /\ policy = "Barrier" => streams'[i].queue # <<>>
               /\ policy \notin {"Barrier", "TimestampAlign"} =>
                    /\ Settled(streams'[i], inputTs) \/ AtBound(streams'[i])
                    /\ streams'[i].selected < inputTs
               /\ policy = "TimestampAlign" /\ (aligned => IsRangeValue(inputTs)) =>
                    /\ Settled(streams'[i], PopTs(i))
                    /\ streams'[i].selected <= PopTs(i)
    <3>1. i \in Id
      BY <2>2, IdFacts
    <3>2. /\ Moves(streams[i], streams'[i])
          /\ streams[i].queue # <<>> => streams'[i].queue # <<>>
      BY <3>1 DEF Drift
    <3>3. /\ \/ policy = "TimestampAlign" /\ aligned
             \/ IsAllowedInStream(inputTs)
          /\ policy = "Barrier" => streams[i].queue # <<>>
          /\ policy \notin {"Barrier", "TimestampAlign"} =>
               /\ Settled(streams[i], inputTs) \/ AtBound(streams[i])
               /\ streams[i].selected < inputTs
          /\ policy = "TimestampAlign" /\ (aligned => IsRangeValue(inputTs)) =>
               /\ Settled(streams[i], PopTs(i))
               /\ streams[i].selected <= PopTs(i)
      BY <2>4 DEF FillInv
    <3>4. offsets[i] \in Int
      BY <3>1, LatestAssumption DEF TypeOK
    <3>5. aligned /\ IsRangeValue(inputTs) => PopTs(i) \in Int
      <4> SUFFICES ASSUME aligned, IsRangeValue(inputTs) PROVE PopTs(i) \in Int
        OBVIOUS
      <4>1. inputTs \in MinTs .. MaxTs /\ -offsets[i] \in Int
        BY <3>4, <2>2, TimestampValues DEF IsRangeValue
      <4>2. Plus(inputTs, -offsets[i]) \in MinTs .. MaxTs
        BY <4>1, PlusFacts
      <4>3. Plus(inputTs, -offsets[i]) \in Int
        BY <4>2, TimestampValues
      <4>4. QED
        BY <4>3, <2>2 DEF PopTs
    <3>6. ~aligned => PopTs(i) \in Int
      BY <2>2 DEF PopTs
    <3>7. /\ streams'[i].selected = streams[i].selected
          /\ \A t \in Int : Settled(streams[i], t) => Settled(streams'[i], t)
      BY <3>2 DEF Moves
    <3>8. AtBound(streams[i]) => Settled(streams'[i], inputTs) \/ AtBound(streams'[i])
      BY <3>2, MovesAtBound DEF AtBound
    <3>9. QED
      BY <2>2, <3>2, <3>3, <3>5, <3>6, <3>7, <3>8
  <2>5. policy' = policy /\ aligned' = aligned /\ erased' = erased
    BY DEF Drift
  <2>6. \A i : AtBound(streams'[i]) => AtBound(streams[i])'
    BY <1>2, <2>5 DEF AtBound
  <2>7. QED
    BY <1>2, <2>1, <2>3, <2>4, <2>5, <2>6 DEF FillInv
<1>3. QED
  BY <1>1, <1>2 DEF Drift

LEMMA DriftTogether ==
  ASSUME TypeOK, TogetherInv, Drift
  PROVE  TogetherInv'
<1> SUFFICES ASSUME pc' # "closed", NEW i \in Id, NEW j \in Id, Together(i, j)'
             PROVE  /\ \/ streams'[i].selected = streams'[j].selected
                       \/ Between(i, j)' \/ Between(j, i)'
                    /\ pc' = "fill" /\ filled' < i /\ Wanted(i)' =>
                         IF filled' < j THEN Wanted(j)'
                         ELSE streams'[j].selected = inputTs'
  BY DEF TogetherInv
<1>1. Together(i, j) /\ pc # "closed"
  BY DEF Together, Drift
<1>2. /\ streams'[i].selected = streams[i].selected
      /\ streams'[j].selected = streams[j].selected
  BY DEF Drift, Moves
<1>3. /\ \/ streams[i].selected = streams[j].selected
         \/ Between(i, j) \/ Between(j, i)
      /\ pc = "fill" /\ filled < i /\ Wanted(i) =>
           IF filled < j THEN Wanted(j) ELSE streams[j].selected = inputTs
  BY <1>1 DEF TogetherInv
<1>4. CASE pc' = pc /\ inputTs' = inputTs /\ filled' = filled /\ failed' = failed
  <2>1. Wanted(i)' = Wanted(i) /\ Wanted(j)' = Wanted(j)
    BY <1>4 DEF Wanted, Drift
  <2>2. QED
    BY <1>2, <1>3, <1>4, <2>1 DEF Between
<1>5. CASE pc # "fill" /\ pc' # "fill"
  BY <1>2, <1>3, <1>5 DEF Between
<1>6. QED
  BY <1>4, <1>5 DEF Drift

LEMMA DriftLast ==
  ASSUME TypeOK, StreamsInv, LastInv, Drift
  PROVE  LastInv'
<1> SUFFICES ASSUME pc' # "closed" PROVE LastInv'
  BY DEF LastInv
<1>1. pc # "closed" /\ policy' = policy /\ processBounds' = processBounds /\ ready' = ready
  BY DEF Drift
<1>2. CASE policy \notin {"Default", "SyncSet", "Immediate"}
  BY <1>1, <1>2 DEF LastInv
<1>3. CASE policy \in {"Default", "SyncSet", "Immediate"}
  <2>1. sets' = sets
    BY <1>3 DEF Drift, FixedSize
  <2>2. \A i \in Id : /\ streams'[i].selected = streams[i].selected
                      /\ streams[i].bound <= streams'[i].bound
                      /\ \A t \in Int : Settled(streams[i], t) => Settled(streams'[i], t)
                      /\ streams[i].queue = <<>> /\ streams[i].bound >= OneOverPostStream
                           => streams'[i].queue = <<>>
                      /\ Waiting(streams'[i]) /\ Waiting(streams[i])
    BY DEF Drift, Moves, StreamsInv
  <2>3. \A i \in Id : streams[i].bound \in Int /\ streams'[i].bound \in Int
    BY <2>2, StreamFacts, TimestampValues
  <2>4. CASE policy = "Default"
    BY <1>1, <2>1, <2>2, <2>4 DEF LastInv, Drift
  <2>5. CASE policy = "SyncSet"
    <3>1. \A k \in 1 .. Len(sets) : sets[k].ids \subseteq Id
      BY SetFacts
    <3>2. CASE pc' = pc /\ inputTs' = inputTs
      <4>1. \A i \in Id : Wanted(i)' = Wanted(i)
        BY <1>1, <2>5, <3>2 DEF Wanted
      <4>2. QED
        BY <1>1, <2>1, <2>2, <2>5, <3>1, <3>2, <4>1 DEF LastInv
    <3>3. CASE pc' # "fill"
      BY <1>1, <2>1, <2>2, <2>5, <3>1, <3>3 DEF LastInv
    <3>4. QED
      BY <3>2, <3>3 DEF Drift
  <2>6. CASE policy = "Immediate"
    <3> SUFFICES ASSUME NEW k \in Id
                 PROVE  \/ /\ ready[k] = Unset
                           /\ streams'[k].selected = Later(sets[k].last, Unstarted)
                        \/ /\ ready[k] \in PreStream .. PostStream
                           /\ sets[k].last = ready[k]
                           /\ streams'[k].selected < ready[k]
                           /\ Settled(streams'[k], ready[k])
                        \/ /\ ready[k] = Done
                           /\ streams'[k].queue = <<>>
                           /\ streams'[k].bound >= OneOverPostStream
      BY <1>1, <2>1, <2>6 DEF LastInv
    <3>1. \/ /\ ready[k] = Unset
             /\ streams[k].selected = Later(sets[k].last, Unstarted)
          \/ /\ ready[k] \in PreStream .. PostStream
             /\ sets[k].last = ready[k]
             /\ streams[k].selected < ready[k]
             /\ Settled(streams[k], ready[k])
          \/ /\ ready[k] = Done
             /\ streams[k].queue = <<>>
             /\ streams[k].bound >= OneOverPostStream
      BY <1>1, <2>6 DEF LastInv
    <3>2. PreStream .. PostStream \subseteq Int /\ OneOverPostStream \in Int
      BY TimestampValues
    <3>3. QED
      BY <2>2, <2>3, <3>1, <3>2
  <2>7. QED
    BY <1>3, <2>4, <2>5, <2>6
<1>4. QED
  BY <1>2, <1>3

LEMMA DriftBound ==
  ASSUME TypeOK, StreamsInv, BoundInv, Drift
  PROVE  BoundInv'
<1> SUFFICES ASSUME pc' # "closed" PROVE BoundInv'
  BY DEF BoundInv
<1>1. /\ pc # "closed" /\ policy' = policy /\ processBounds' = processBounds
      /\ ready' = ready /\ inputBound' = inputBound /\ offsets' = offsets
      /\ aligned' = aligned
  BY DEF Drift
<1>2. \A i \in Id : /\ Waiting(streams'[i]) /\ Waiting(streams[i])
                    /\ streams[i].bound <= streams'[i].bound
                    /\ MinTimestampOrBound(streams[i]) <= MinTimestampOrBound(streams'[i])
  BY DEF Drift, Moves, StreamsInv
<1>3. \A i \in Id : streams[i].bound \in PreStream .. Done
                    /\ streams'[i].bound \in PreStream .. Done
  BY <1>2, StreamFacts
<1>4. \A i \in Id : MinTimestampOrBound(streams[i]) \in PreStream .. Done
                    /\ MinTimestampOrBound(streams'[i]) \in PreStream .. Done
  BY <1>2, MinFacts
<1> DEFINE M(i) == MinTimestampOrBound(streams[i])
           L(i) == MinTimestampOrBound(streams'[i])
<1>5. \A i \in Id : /\ M(i) \in Int /\ L(i) \in Int /\ M(i) <= L(i)
                    /\ streams[i].bound \in Int /\ streams'[i].bound \in Int
  BY <1>2, <1>3, <1>4, TimestampValues
<1>6. \A i \in Id : offsets[i] \in Int
  BY LatestAssumption DEF TypeOK
<1>7. \A i \in Id : Shift(i, M(i)) \in Int /\ Shift(i, L(i)) \in Int
                    /\ Shift(i, M(i)) <= Shift(i, L(i))
  <2> SUFFICES ASSUME NEW i \in Id
               PROVE  Shift(i, M(i)) \in Int /\ Shift(i, L(i)) \in Int
                      /\ Shift(i, M(i)) <= Shift(i, L(i))
    OBVIOUS
  <2>1. M(i) \in PreStream .. Done /\ L(i) \in PreStream .. Done /\ M(i) <= L(i)
    BY <1>2, <1>4
  <2> HIDE DEF M, L
  <2>2. /\ Shift(i, M(i)) \in PreStream .. Done /\ Shift(i, L(i)) \in PreStream .. Done
        /\ Shift(i, M(i)) <= Shift(i, L(i))
    BY <2>1, <1>6, ShiftGrows
  <2>3. QED
    BY <2>2, TimestampValues
<1>8. inputBound \in Int
  BY TimestampValues DEF TypeOK
<1>10. \A i, t : Shift(i, t)' = Shift(i, t)
  BY <1>1 DEF Shift
<1> USE DEF BoundInv
<1>11. inputBound' = Unset \/ IsRangeValue(inputBound')
  BY <1>1
<1>12. ASSUME policy \in {"Default", "FixedSize", "FixedMinSize", "Barrier", "EarlyClose"},
              NEW i \in Id
       PROVE  inputBound <= L(i)
  <2>1. inputBound <= M(i)
    BY <1>1, <1>12
  <2> HIDE DEF M, L
  <2>2. QED
    BY <2>1, <1>5, <1>8
<1>13. ASSUME policy = "Default", processBounds
       PROVE  \/ inputBound <= MinTs \/ inputBound <= sets[1].last + 1
              \/ \A i \in Id : inputBound < streams'[i].bound
  <2>1. \/ inputBound <= MinTs \/ inputBound <= sets[1].last + 1
        \/ \A i \in Id : inputBound < streams[i].bound
    BY <1>1, <1>13
  <2>2. ASSUME NEW i \in Id, inputBound < streams[i].bound
        PROVE  inputBound < streams'[i].bound
    <3>1. streams[i].bound <= streams'[i].bound /\ inputBound \in Int
          /\ streams[i].bound \in Int /\ streams'[i].bound \in Int
      BY <1>2, <1>5, <1>8
    <3>2. QED
      BY <2>2, <3>1
  <2>3. QED
    BY <2>1, <2>2
<1>14. ASSUME policy = "Immediate", NEW k \in Id
       PROVE  \/ ready[k] = Done
              \/ /\ inputBound <= L(k)
                 /\ ready[k] # Unset => inputBound <= ready[k]
                 /\ processBounds =>
                      \/ inputBound <= MinTs \/ inputBound <= sets[k].last + 1
                      \/ inputBound < streams'[k].bound
  <2>1. \/ ready[k] = Done
        \/ /\ inputBound <= M(k)
           /\ ready[k] # Unset => inputBound <= ready[k]
           /\ processBounds => \/ inputBound <= MinTs \/ inputBound <= sets[k].last + 1
                               \/ inputBound < streams[k].bound
    BY <1>1, <1>14 DEF Passed
  <2>2. inputBound < streams[k].bound => inputBound < streams'[k].bound
    <3>1. streams[k].bound <= streams'[k].bound /\ inputBound \in Int
          /\ streams[k].bound \in Int /\ streams'[k].bound \in Int
      BY <1>2, <1>5, <1>8
    <3>2. QED
      BY <3>1
  <2>3. M(k) \in Int /\ L(k) \in Int /\ M(k) <= L(k)
    BY <1>5
  <2> HIDE DEF M, L
  <2>4. inputBound <= M(k) => inputBound <= L(k)
    BY <2>3, <1>8
  <2>5. QED
    BY <2>1, <2>2, <2>4
<1>15. ASSUME policy = "Mux" PROVE inputBound <= L(Control)
  <2>1. inputBound <= M(Control) /\ Control \in Id
    BY <1>1, <1>15, IdFacts
  <2> HIDE DEF M, L
  <2>2. QED
    BY <2>1, <1>5, <1>8
<1>16. ASSUME policy = "TimestampAlign", aligned, NEW i \in Id
       PROVE  inputBound <= Shift(i, L(i))
  <2>1. inputBound <= Shift(i, M(i))
    BY <1>1, <1>16
  <2> HIDE DEF M, L
  <2>2. QED
    BY <2>1, <1>7, <1>8
<1>17. ASSUME policy = "TimestampAlign", ~aligned PROVE inputBound <= L(Base)
  <2>1. inputBound <= M(Base) /\ Base \in Id
    BY <1>1, <1>17, IdFacts
  <2> HIDE DEF M, L
  <2>2. QED
    BY <2>1, <1>5, <1>8
<1>18. policy \in {"Default", "Immediate"} => sets' = sets
  BY DEF Drift, FixedSize
<1>19. QED
  BY <1>1, <1>10, <1>11, <1>12, <1>13, <1>14, <1>15, <1>16, <1>17, <1>18 DEF Passed

LEMMA DriftAlign ==
  ASSUME TypeOK, StreamsInv, AlignInv, Drift
  PROVE  AlignInv'
<1>1. /\ policy' = policy /\ offsets' = offsets /\ aligned' = aligned
      /\ pc' # "closed" => pc # "closed"
      /\ pc' = "fill" => pc = "fill" /\ inputTs' = inputTs
  BY DEF Drift
<1>2. ASSUME NEW b \in MinTs .. MaxTs, AlignedAt(b) PROVE AlignedAt(b)'
  <2> SUFFICES ASSUME NEW i \in Id
               PROVE  /\ b - offsets[i] >= MinTs
                      /\ \/ MinTimestampOrBound(streams'[i]) >= b - offsets[i]
                         \/ MinTimestampOrBound(streams'[i]) > MaxTs
                      /\ streams'[i].selected <= Plus(b, -offsets[i])
    BY <1>1 DEF AlignedAt
  <2> DEFINE M == MinTimestampOrBound(streams[i])
             L == MinTimestampOrBound(streams'[i])
  <2>1. /\ b - offsets[i] >= MinTs /\ (M >= b - offsets[i] \/ M > MaxTs)
        /\ streams[i].selected <= Plus(b, -offsets[i])
    BY <1>2 DEF AlignedAt
  <2>2. /\ Waiting(streams'[i]) /\ Waiting(streams[i]) /\ M <= L
        /\ streams'[i].selected = streams[i].selected
    BY DEF Drift, Moves, StreamsInv
  <2>3. M \in PreStream .. Done /\ L \in PreStream .. Done
    BY <2>2, MinFacts
  <2>4. offsets[i] \in Int /\ b \in Int
    BY LatestAssumption, TimestampValues DEF TypeOK
  <2> HIDE DEF M, L
  <2>5. L >= b - offsets[i] \/ L > MaxTs
    BY <2>1, <2>2, <2>3, <2>4, TimestampValues
  <2>6. QED
    BY <2>1, <2>2, <2>5 DEF L
<1>3. CASE policy = "TimestampAlign" /\ aligned /\ pc' # "closed"
  <2>1. PICK b \in MinTs .. MaxTs : AlignedAt(b)
    BY <1>1, <1>3 DEF AlignInv
  <2>2. b \in MinTs .. MaxTs /\ AlignedAt(b)'
    BY <1>2, <2>1
  <2>3. pc' = "fill" /\ IsRangeValue(inputTs') => AlignedAt(inputTs)'
    <3> SUFFICES ASSUME pc' = "fill", IsRangeValue(inputTs') PROVE AlignedAt(inputTs)'
      OBVIOUS
    <3>1. inputTs \in MinTs .. MaxTs /\ AlignedAt(inputTs) /\ inputTs' = inputTs
      BY <1>1, <1>3, TimestampValues DEF AlignInv, IsRangeValue, TypeOK
    <3>2. \A c \in MinTs .. MaxTs : AlignedAt(c) => AlignedAt(c)'
      BY <1>2
    <3>3. AlignedAt(inputTs)' <=> \A i \in Id :
            /\ inputTs - offsets'[i] >= MinTs
            /\ \/ MinTimestampOrBound(streams'[i]) >= inputTs - offsets'[i]
               \/ MinTimestampOrBound(streams'[i]) > MaxTs
            /\ streams'[i].selected <= Plus(inputTs, -offsets'[i])
      BY <3>1 DEF AlignedAt
    <3>4. ASSUME NEW c \in MinTs .. MaxTs, c = inputTs PROVE AlignedAt(c)'
      BY <3>1, <3>2, <3>4
    <3>5. QED
      BY <3>1, <3>3, <3>4 DEF AlignedAt
  <2>4. QED
    BY <1>1, <2>2, <2>3 DEF AlignInv
<1>4. CASE ~(policy = "TimestampAlign" /\ aligned /\ pc' # "closed")
  BY <1>1, <1>4 DEF AlignInv
<1>5. QED
  BY <1>3, <1>4

LEMMA DriftMux ==
  ASSUME TypeOK, MuxInv, Drift
  PROVE  MuxInv'
<1>1. /\ policy' = policy /\ (pc' # "closed" => pc # "closed")
      /\ pc = "fill" <=> pc' = "fill"
      /\ pc' = "fill" => inputTs' = inputTs /\ filled' = filled /\ failed' = failed
  BY DEF Drift
<1>2. \A i \in Id : streams'[i].selected = streams[i].selected
  BY DEF Drift, Moves
<1>3. Control \in Id /\ Data \subseteq Id
  BY IdFacts
<1>4. QED
  BY <1>1, <1>2, <1>3 DEF MuxInv

-----------------------------------------------------------------------------
\* What a waiting node overlooks.

\* What stream i offers, as the input sets count time, and the bounds and the
\* packets of the streams in ids.
At(i) == IF policy = "TimestampAlign" THEN Shift(i, MinTimestampOrBound(streams[i]))
         ELSE MinTimestampOrBound(streams[i])
BoundsOf(ids) == {At(i) : i \in {j \in ids : streams[j].queue = <<>>}}
PacketsOf(ids) == {At(i) : i \in {j \in ids : streams[j].queue # <<>>}}

LEMMA DueMeans ==
  ASSUME NEW ids
  PROVE  Due(ids) <=>
           \/ /\ Earliest(PacketsOf(ids)) < Earliest(BoundsOf(ids))
              /\ ~(processBounds /\ Earliest(BoundsOf(ids)) \in {MinTs, PostStream})
           \/ \A i \in ids : IsDone(streams[i])
<1> DEFINE at(i) == IF policy = "TimestampAlign" /\ IsRangeValue(MinTimestampOrBound(streams[i]))
                    THEN Plus(MinTimestampOrBound(streams[i]), offsets[i])
                    ELSE MinTimestampOrBound(streams[i])
           bounds == {at(i) : i \in {j \in ids : streams[j].queue = <<>>}}
           packets == {at(i) : i \in {j \in ids : streams[j].queue # <<>>}}
<1>1. \A i : At(i) = at(i)
  BY DEF At, Shift
<1>2. Due(ids) <=>
        \/ /\ Earliest(packets) < Earliest(bounds)
           /\ ~(processBounds /\ Earliest(bounds) \in {MinTs, PostStream})
        \/ \A i \in ids : IsDone(streams[i])
  BY Zenon DEF Due
<1> HIDE DEF at
<1>3. bounds = BoundsOf(ids) /\ packets = PacketsOf(ids)
  BY <1>1, Zenon DEF BoundsOf, PacketsOf
<1> HIDE DEF bounds, packets
<1>4. QED
  BY <1>2, <1>3, Zenon

LEMMA DueMeansNext ==
  ASSUME NEW CONSTANT ids
  PROVE  (Due(ids) <=>
            \/ /\ Earliest(PacketsOf(ids)) < Earliest(BoundsOf(ids))
               /\ ~(processBounds /\ Earliest(BoundsOf(ids)) \in {MinTs, PostStream})
            \/ \A i \in ids : IsDone(streams[i]))'
<1>1. Due(ids) <=>
        \/ /\ Earliest(PacketsOf(ids)) < Earliest(BoundsOf(ids))
           /\ ~(processBounds /\ Earliest(BoundsOf(ids)) \in {MinTs, PostStream})
        \/ \A i \in ids : IsDone(streams[i])
  BY DueMeans
<1>2. QED
  BY <1>1, PTL

LEMMA SameDue ==
  ASSUME NEW ids, policy' = policy, processBounds' = processBounds, offsets' = offsets,
         \A i \in ids : /\ (streams'[i].queue = <<>>) <=> (streams[i].queue = <<>>)
                        /\ MinTimestampOrBound(streams'[i]) = MinTimestampOrBound(streams[i])
  PROVE  Due(ids)' <=> Due(ids)
<1>1. \A i \in ids : At(i)' = At(i)
  BY DEF At, Shift
<1>2. BoundsOf(ids)' = {At(i)' : i \in {j \in ids : streams'[j].queue = <<>>}}
      /\ PacketsOf(ids)' = {At(i)' : i \in {j \in ids : streams'[j].queue # <<>>}}
  BY DEF BoundsOf, PacketsOf
<1>3. {j \in ids : streams'[j].queue = <<>>} = {j \in ids : streams[j].queue = <<>>}
      /\ {j \in ids : streams'[j].queue # <<>>} = {j \in ids : streams[j].queue # <<>>}
  OBVIOUS
<1>4. BoundsOf(ids)' = BoundsOf(ids) /\ PacketsOf(ids)' = PacketsOf(ids)
  BY <1>1, <1>2, <1>3, Zenon DEF BoundsOf, PacketsOf
<1>5. \A i \in ids : IsDone(streams'[i]) <=> IsDone(streams[i])
  BY DEF IsDone, MinTimestampOrBound
<1>6. Due(ids)' <=>
        \/ /\ Earliest(PacketsOf(ids)') < Earliest(BoundsOf(ids)')
           /\ ~(processBounds' /\ Earliest(BoundsOf(ids)') \in {MinTs, PostStream})
        \/ \A i \in ids : IsDone(streams'[i])
  BY DueMeansNext
<1>7. QED
  BY <1>4, <1>5, <1>6, DueMeans, Zenon

\* What has been read stays ahead while it is not acted upon.
LEMMA SameAhead ==
  ASSUME AheadInv, policy' = policy, processBounds' = processBounds, sets' = sets,
         ready' = ready, offsets' = offsets, aligned' = aligned, seen' = seen,
         inputBound' = inputBound, inputTs' = inputTs,
         \/ pc' = pc
         \/ pc \in {"discard", "select"} /\ pc' \in {"discard", "select"}
         \/ pc' \notin {"read", "decide", "discard", "select", "refill"}
  PROVE  AheadInv'
<1>1. \A i, r : Ahead(i, r)' = Ahead(i, r)
  BY DEF Ahead, Shift
<1>2. \A i \in 1 .. Len(seen') : Ahead(i, seen[i])' = Ahead(i, seen[i])
  BY DEF Ahead, Shift
<1>3. QED
  BY <1>2 DEF AheadInv

LEMMA Policy ==
  ASSUME TypeOK
  PROVE  policy \in {"Default", "Immediate", "SyncSet", "TimestampAlign",
                     "Mux", "Barrier", "EarlyClose", "FixedSize", "FixedMinSize"}
  BY InputSetsAssumption DEF TypeOK

\* A node that waits goes on waiting while the streams look the same.
LEMMA StillAsleep ==
  ASSUME TypeOK, StreamsInv, StageInv, NothingForgotten,
         policy' = policy, processBounds' = processBounds, choice' = choice,
         sets' = sets, offsets' = offsets, aligned' = aligned, pc' = pc, failed' = failed,
         ~notified' =>
           /\ ~notified
           /\ \A i \in Id :
                /\ (streams'[i].queue = <<>>) <=> (streams[i].queue = <<>>)
                /\ MinTimestampOrBound(streams'[i]) = MinTimestampOrBound(streams[i])
  PROVE  NothingForgotten'
<1> SUFFICES ASSUME pc = "idle", ~notified', failed = "none" PROVE NothingForgotten'
  BY DEF NothingForgotten
<1>1. ~notified
  OBVIOUS
<1>2. \A i \in Id :
        /\ (streams'[i].queue = <<>>) <=> (streams[i].queue = <<>>)
        /\ MinTimestampOrBound(streams'[i]) = MinTimestampOrBound(streams[i])
  OBVIOUS
<1>3. \A ids \in SUBSET Id : Due(ids)' <=> Due(ids)
  BY <1>2, SameDue
<1>4. \A i \in Id : IsDone(streams'[i]) <=> IsDone(streams[i])
  BY <1>2 DEF IsDone, MinTimestampOrBound
<1>5. Due(Id)' <=> Due(Id)
  BY <1>3
<1>6. CASE policy \in {"Default", "FixedSize", "FixedMinSize"}
  BY <1>1, <1>5, <1>6, Zenon DEF NothingForgotten
<1>7. CASE policy = "Immediate"
  BY <1>1, <1>2, <1>7 DEF NothingForgotten
<1>8. CASE policy = "SyncSet"
  <2>1. processBounds \/ \A k \in DOMAIN sets : sets[k].ids # {} => ~Due(sets[k].ids)
    BY <1>1, <1>8 DEF NothingForgotten
  <2>2. ASSUME NEW k \in DOMAIN sets, ~Due(sets[k].ids) PROVE ~(Due(sets[k].ids)')
    <3>1. PICK c : c = sets[k].ids
      OBVIOUS
    <3>2. c \in SUBSET Id
      BY <3>1, SetFacts
    <3>3. Due(c)' <=> Due(c)
      BY <1>3, <3>2
    <3>4. sets'[k].ids = c /\ sets[k].ids = c
      BY <3>1
    <3>5. Due(sets[k].ids) <=> Due(c)
      BY <3>4
    <3>6. Due(sets[k].ids)' <=> Due(c)'
      BY <3>4 DEF Due
    <3>7. QED
      BY <2>2, <3>3, <3>5, <3>6, Zenon
  <2>3. QED
    BY <1>8, <2>1, <2>2 DEF NothingForgotten
<1>9. CASE policy = "TimestampAlign"
  <2>1. IF aligned THEN ~Due(Id) ELSE streams[Base].queue = <<>>
    BY <1>1, <1>9 DEF NothingForgotten
  <2>2. Base \in Id
    BY IdFacts
  <2>3. IF aligned THEN ~(Due(Id)') ELSE streams'[Base].queue = <<>>
    BY <2>1, <2>2, <1>2, <1>5, Zenon
  <2>4. QED
    BY <1>9, <2>3 DEF NothingForgotten
<1>10. CASE policy = "Barrier"
  BY <1>1, <1>2, <1>4, <1>10 DEF NothingForgotten
<1>11. CASE policy = "EarlyClose"
  BY <1>1, <1>2, <1>4, <1>5, <1>11 DEF NothingForgotten
<1>12. CASE policy = "Mux"
  <2>1. Control \in Id /\ Data \subseteq Id
    BY IdFacts
  <2>2. IF streams[Control].queue = <<>> THEN streams[Control].bound # Done
        ELSE ~Due({Control, choice[Head(streams[Control].queue)]})
    BY <1>1, <1>12 DEF NothingForgotten
  <2>3. CASE streams[Control].queue = <<>>
    <3>1. streams'[Control].queue = <<>> /\ streams'[Control].bound # Done
      BY <1>2, <2>1, <2>2, <2>3 DEF MinTimestampOrBound
    <3>2. QED
      BY <1>12, <3>1 DEF NothingForgotten
  <2>4. CASE streams[Control].queue # <<>>
    <3>1. Head(streams[Control].queue) \in PreStream .. PostStream
      BY <2>1, <2>4, QueueFacts DEF StreamsInv
    <3>2. streams'[Control].queue # <<>>
          /\ Head(streams'[Control].queue) = Head(streams[Control].queue)
      BY <1>2, <2>1, <2>4 DEF MinTimestampOrBound
    <3>3. PICK c : c = {Control, choice[Head(streams[Control].queue)]}
      OBVIOUS
    <3>4. choice[Head(streams[Control].queue)] \in Data
      BY <3>1, <1>12 DEF StageInv
    <3>5. c \in SUBSET Id
      BY <3>3, <3>4, <2>1
    <3>6. Due({Control, choice[Head(streams[Control].queue)]}) <=> Due(c)
      BY <3>3
    <3>7. {Control, choice'[Head(streams'[Control].queue)]} = c
      BY <3>2, <3>3
    <3>8. Due({Control, choice[Head(streams[Control].queue)]})' <=> Due(c)'
      BY <3>7 DEF Due
    <3>9. ~(Due({Control, choice[Head(streams[Control].queue)]})')
      BY <2>2, <2>4, <3>5, <3>6, <3>8, <1>3, Zenon
    <3>10. QED
      BY <1>12, <3>2, <3>9 DEF NothingForgotten
  <2>5. QED
    BY <2>3, <2>4
<1>13. QED
  BY <1>6, <1>7, <1>8, <1>9, <1>10, <1>11, <1>12, Policy

-----------------------------------------------------------------------------
\* The producers.

LEMMA ProduceStep ==
  ASSUME IInv, NEW i \in Id, NEW done, NEW bound \in Timestamp, Produce(i, done, bound),
         Moves(streams[i], done.stream), done.stream.bound = bound,
         streams[i].queue # <<>> => /\ done.stream.queue # <<>>
                                    /\ Head(done.stream.queue) = Head(streams[i].queue),
         ~done.notify => streams[i].queue # <<>> \/ done.stream = streams[i],
         ~streams[i].closed,
         policy' = policy, processBounds' = processBounds, choice' = choice,
         sets' = sets, ready' = ready, offsets' = offsets, aligned' = aligned,
         kept' = kept, erased' = erased, pc' = pc, seen' = seen, inputTs' = inputTs,
         filled' = filled, inputBound' = inputBound, failed' = failed,
         owed' \subseteq Id, ~FixedSize => owed' = owed
  PROVE  IInv'
<1> USE DEF IInv
<1>1. /\ streams \in [Id -> Stream] /\ promised \in [Id -> Timestamp] /\ notified \in BOOLEAN
      /\ \A j \in Id : Waiting(streams[j])
  BY DEF TypeOK, StreamsInv
<1>2. /\ streams' = [streams EXCEPT ![i] = done.stream]
      /\ promised' = [promised EXCEPT ![i] = bound]
      /\ notified' = (notified \/ done.notify)
  BY DEF Produce
<1>3. /\ streams'[i] = done.stream /\ promised'[i] = bound
      /\ \A j \in Id \ {i} : streams'[j] = streams[j] /\ promised'[j] = promised[j]
  BY <1>1, <1>2
<1>4. ASSUME NEW j \in Id
      PROVE  /\ Moves(streams[j], streams'[j])
             /\ streams[j].queue # <<>> => /\ streams'[j].queue # <<>>
                                           /\ Head(streams'[j].queue) = Head(streams[j].queue)
  <2>1. CASE j = i
    BY <2>1, <1>3
  <2>2. CASE j # i
    BY <2>2, <1>1, <1>3, Unmoved
  <2>3. QED
    BY <2>1, <2>2
<1>5. ASSUME NEW j \in Id, ~notified'
      PROVE  /\ (streams'[j].queue = <<>>) <=> (streams[j].queue = <<>>)
             /\ MinTimestampOrBound(streams'[j]) = MinTimestampOrBound(streams[j])
  <2>1. ~notified /\ ~done.notify
    BY <1>2, <1>5
  <2>2. CASE j = i
    <3>1. \/ streams'[j] = streams[j]
          \/ /\ streams[j].queue # <<>> /\ streams'[j].queue # <<>>
             /\ Head(streams'[j].queue) = Head(streams[j].queue)
      BY <2>1, <2>2, <1>3
    <3>2. QED
      BY <3>1 DEF MinTimestampOrBound
  <2>3. CASE j # i
    BY <2>3, <1>3
  <2>4. QED
    BY <2>2, <2>3
<1>6. ~notified' => ~notified
  BY <1>2
<1>7. pc # "closed"
  BY DEF StreamsInv
<1>8. Drift
  BY <1>4 DEF Drift
<1>9. \A j \in Id :
        /\ Waiting(streams'[j]) /\ streams'[j].selected = streams[j].selected
        /\ streams'[j].closed = streams[j].closed
        /\ MinTimestampOrBound(streams[j]) <= MinTimestampOrBound(streams'[j])
        /\ \A t \in Int : Settled(streams[j], t) => Settled(streams'[j], t)
  BY <1>4 DEF Moves
<1>10. \A j \in Id :
         /\ MinTimestampOrBound(streams[j]) \in Int
         /\ MinTimestampOrBound(streams'[j]) \in Int
         /\ streams[j].selected \in Int
  <2> SUFFICES ASSUME NEW j \in Id
               PROVE  /\ MinTimestampOrBound(streams[j]) \in Int
                      /\ MinTimestampOrBound(streams'[j]) \in Int
                      /\ streams[j].selected \in Int
    OBVIOUS
  <2>1. MinTimestampOrBound(streams[j]) \in PreStream .. Done
    BY <1>1, MinFacts
  <2>2. MinTimestampOrBound(streams'[j]) \in PreStream .. Done
    BY <1>9, MinFacts
  <2>3. streams[j].selected \in Unstarted .. Done
    BY <1>1, StreamFacts
  <2>4. QED
    BY <2>1, <2>2, <2>3, TimestampValues
<1>11. TypeOK'
  <2>1. streams' \in [Id -> Stream]
    BY <1>1, <1>2, <1>3, <1>9 DEF Waiting
  <2>2. promised' \in [Id -> Timestamp] /\ notified' \in BOOLEAN
    <3>1. promised' \in [Id -> Timestamp]
      BY <1>1, <1>2
    <3>2. notified' = TRUE \/ notified' = FALSE
      BY <1>2, Zenon
    <3>3. QED
      BY <3>1, <3>2
  <2>3. QED
    BY <2>1, <2>2 DEF TypeOK
<1>12. StreamsInv'
  <2> SUFFICES ASSUME NEW j \in Id
               PROVE  /\ Waiting(streams'[j]) /\ streams'[j].closed = (pc = "closed")
                      /\ streams'[j].bound = promised'[j] \/ Overtaken(j)'
                      /\ streams'[j].selected < MinTimestampOrBound(streams'[j])
    BY <1>7 DEF StreamsInv
  <2>1. /\ streams[j].closed = (pc = "closed")
        /\ streams[j].bound = promised[j] \/ Overtaken(j)
        /\ streams[j].selected < MinTimestampOrBound(streams[j])
    BY <1>7 DEF StreamsInv
  <2>2. streams'[j].bound = promised'[j] \/ Overtaken(j)'
    BY <2>1, <1>3 DEF Overtaken
  <2>3. streams'[j].selected < MinTimestampOrBound(streams'[j])
    BY <2>1, <1>9, <1>10
  <2>4. QED
    BY <2>1, <2>2, <2>3, <1>9
<1>13. StageInv'
  BY DEF StageInv, FreshSets, FixedSize
<1>14. ASSUME NEW j \in Id, NEW r, IsRead(j, r) PROVE IsRead(j, r)'
  <2>1. /\ r.ts \in PreStream .. Done
        /\ r.ts <= MinTimestampOrBound(streams[j])
        /\ ~r.empty => streams[j].queue # <<>> /\ r.ts = Head(streams[j].queue)
        /\ ~notified => /\ r.empty = (streams[j].queue = <<>>)
                        /\ r.ts = MinTimestampOrBound(streams[j])
    BY <1>14 DEF IsRead
  <2>2. r.ts <= MinTimestampOrBound(streams'[j])
    <3>1. r.ts \in Int
      BY <2>1, TimestampValues
    <3>2. QED
      BY <2>1, <3>1, <1>9, <1>10
  <2>3. ~r.empty => streams'[j].queue # <<>> /\ r.ts = Head(streams'[j].queue)
    BY <2>1, <1>4
  <2>4. ~notified' => /\ r.empty = (streams'[j].queue = <<>>)
                      /\ r.ts = MinTimestampOrBound(streams'[j])
    BY <2>1, <1>5, <1>6
  <2>5. QED
    BY <2>1, <2>2, <2>3, <2>4 DEF IsRead
<1>15. SeenInv'
  <2>1. \A k \in 1 .. Len(seen) : k \in Id
    BY SeenFacts, IdFacts
  <2>2. \A j \in Id : IsRead(j, seen[j]) => IsRead(j, seen[j])'
    <3>1. \A j \in Id : \A r : (r = seen[j] /\ IsRead(j, r)) => IsRead(j, r)'
      BY <1>14
    <3>2. QED
      BY <3>1 DEF IsRead
  <2>3. IsRead(Control, seen[1]) => IsRead(Control, seen[1])'
    <3>1. Control \in Id
      BY IdFacts
    <3>2. \A r : (r = seen[1] /\ IsRead(Control, r)) => IsRead(Control, r)'
      BY <1>14, <3>1
    <3>3. QED
      BY <3>2 DEF IsRead
  <2>4. QED
    BY <2>1, <2>2, <2>3 DEF SeenInv
<1>16. FillInv' /\ TogetherInv' /\ LastInv' /\ BoundInv' /\ AlignInv' /\ MuxInv'
  BY <1>8, DriftFill, DriftTogether, DriftLast, DriftBound, DriftAlign, DriftMux
<1>17. ErasedInv'
  <2>1. kept' \in Unset .. MaxTs /\ (policy' # "FixedSize" => kept' = Unset)
    BY DEF ErasedInv
  <2>2. ~FixedSize' => erased' = {} /\ owed' = {}
    BY DEF ErasedInv, FixedSize
  <2>3. ASSUME NEW e \in erased
        PROVE  e < kept \/ \A j \in Id : e < MinTimestampOrBound(streams'[j])
    <3>1. e < kept \/ \A j \in Id : e < MinTimestampOrBound(streams[j])
      BY DEF ErasedInv
    <3>2. e \in Int
      BY TimestampValues DEF TypeOK
    <3>3. QED
      BY <3>1, <3>2, <1>9, <1>10
  <2>4. pc = "refill" =>
          /\ inputTs \in PreStream .. PostStream
          /\ \A j \in Id : Settled(streams'[j], inputTs)
          /\ \E j \in Id : streams'[j].queue # <<>> /\ Head(streams'[j].queue) = inputTs
          /\ policy = "FixedSize" => kept <= inputTs
    <3> SUFFICES ASSUME pc = "refill"
                 PROVE  /\ inputTs \in PreStream .. PostStream
                        /\ \A j \in Id : Settled(streams'[j], inputTs)
                        /\ \E j \in Id : streams'[j].queue # <<>>
                                         /\ Head(streams'[j].queue) = inputTs
                        /\ policy = "FixedSize" => kept <= inputTs
      OBVIOUS
    <3>1. /\ inputTs \in PreStream .. PostStream
          /\ \A j \in Id : Settled(streams[j], inputTs)
          /\ \E j \in Id : streams[j].queue # <<>> /\ Head(streams[j].queue) = inputTs
          /\ policy = "FixedSize" => kept <= inputTs
      BY DEF ErasedInv
    <3>2. inputTs \in Int
      BY <3>1, TimestampValues
    <3>3. QED
      BY <3>1, <3>2, <1>4, <1>9
  <2>5. /\ FixedSize' /\ pc' \in {"fill", "process"} => inputTs' \notin erased'
        /\ FixedSize' /\ pc' = "process" => \A j \in Id : streams'[j].selected = inputTs'
    BY <1>9 DEF ErasedInv, FixedSize
  <2>6. QED
    BY <2>1, <2>2, <2>3, <2>4, <2>5 DEF ErasedInv
<1>18. NothingForgotten'
  BY <1>5, <1>6, StillAsleep
<1>19. AheadInv'
  BY SameAhead
<1>20. QED
  BY <1>11, <1>12, <1>13, <1>15, <1>16, <1>17, <1>18, <1>19

LEMMA AddStep ==
  ASSUME IInv, NEW i \in Id, Add(i)
  PROVE  IInv'
<1> DEFINE s == streams[i]
           done == AddPackets(s, <<promised[i]>>)
           bound == NextAllowedInStream(promised[i])
<1>1. /\ promised[i] <= PostStream /\ Produce(i, done, bound)
      /\ owed' = IF FixedSize THEN owed \cup {i} ELSE owed
      /\ policy' = policy /\ processBounds' = processBounds /\ choice' = choice
      /\ sets' = sets /\ ready' = ready /\ offsets' = offsets /\ aligned' = aligned
      /\ kept' = kept /\ erased' = erased /\ pc' = pc /\ seen' = seen
      /\ inputTs' = inputTs /\ filled' = filled /\ inputBound' = inputBound
      /\ failed' = failed
  BY DEF Add, config, round
<1>2. Waiting(s) /\ s.closed = (pc = "closed")
      /\ (pc # "closed" => s.bound = promised[i] \/ Overtaken(i))
  BY DEF IInv, StreamsInv
<1>3. ~s.closed /\ ~done.refused
  BY <1>1 DEF Produce
<1>4. promised[i] \in Timestamp /\ s \in Stream
  BY <1>2 DEF IInv, TypeOK, Waiting
<1>5. s.bound = promised[i]
  <2> SUFFICES ASSUME Overtaken(i) PROVE FALSE
    BY <1>2, <1>3
  <2>1. promised[i] = MinTs /\ s.bound = NextAllowedInStream(MinTs)
    BY DEF Overtaken
  <2>2. MinTs \in PreStream .. PostStream /\ NextAllowedInStream(MinTs) \in MinTs + 1 .. OneOverPostStream
    BY TimestampValues, NextValues
  <2>3. promised[i] >= s.bound
    <3>1. promised[i] \in PreStream .. PostStream
      BY <2>1, <2>2
    <3> HIDE DEF s
    <3>2. QED
      BY <1>3, <1>4, <3>1, AddTaken, Zenon
  <2>4. QED
    BY <2>1, <2>2, <2>3, TimestampValues
<1> HIDE DEF s, done, bound
<1>6. done = AddPackets(s, <<s.bound>>) /\ s.bound <= PostStream
      /\ bound = NextAllowedInStream(s.bound)
  BY <1>1, <1>5 DEF done, bound
<1>7. /\ Moves(s, done.stream)
      /\ done.stream.bound = bound
      /\ s.queue # <<>> => /\ done.stream.queue # <<>>
                           /\ Head(done.stream.queue) = Head(s.queue)
      /\ ~done.notify => s.queue # <<>>
  BY <1>2, <1>3, <1>6, AddMoves
<1>8. bound \in Timestamp
  <2>1. Waiting(done.stream)
    BY <1>7 DEF Moves
  <2>2. done.stream.bound \in PreStream .. Done
    BY <2>1, StreamFacts
  <2>3. QED
    BY <2>2, <1>7, TimestampValues
<1>9. owed' \subseteq Id /\ (~FixedSize => owed' = owed)
  BY <1>1 DEF IInv, TypeOK
<1>10. QED
  BY <1>1, <1>3, <1>7, <1>8, <1>9, ProduceStep DEF s

LEMMA RaiseStep ==
  ASSUME IInv, NEW i \in Id, Raise(i)
  PROVE  IInv'
<1> DEFINE s == streams[i]
           bound == promised[i] + 1
           done == SetNextTimestampBound(s, bound)
<1>1. /\ bound <= Done /\ Produce(i, done, bound)
      /\ policy' = policy /\ processBounds' = processBounds /\ choice' = choice
      /\ sets' = sets /\ ready' = ready /\ offsets' = offsets /\ aligned' = aligned
      /\ kept' = kept /\ erased' = erased /\ pc' = pc /\ seen' = seen
      /\ inputTs' = inputTs /\ filled' = filled /\ inputBound' = inputBound
      /\ failed' = failed /\ owed' = owed
  BY DEF Raise, config, round, handler
<1>2. Waiting(s) /\ s.closed = (pc = "closed")
      /\ (pc # "closed" => s.bound = promised[i] \/ Overtaken(i))
  BY DEF IInv, StreamsInv
<1>3. ~s.closed /\ ~done.refused
  BY <1>1 DEF Produce
<1>4. promised[i] \in Timestamp /\ s.bound \in PreStream .. Done
  BY <1>2, StreamFacts DEF IInv, TypeOK
<1>5. \/ s.bound = promised[i]
      \/ done.stream = s /\ s.bound = bound
  <2> SUFFICES ASSUME Overtaken(i) PROVE done.stream = s /\ s.bound = bound
    BY <1>2, <1>3
  <2>1. promised[i] = MinTs /\ s.bound = NextAllowedInStream(MinTs)
    BY DEF Overtaken
  <2>2. NextAllowedInStream(MinTs) \in MinTs + 1 .. OneOverPostStream
    BY TimestampValues, NextValues
  <2>3. bound <= s.bound
    BY <2>1, <2>2, TimestampValues
  <2>4. ~(bound < s.bound)
    <3> HIDE DEF s, bound
    <3>1. done.refused = (~s.closed /\ bound < s.bound)
      BY DEF SetNextTimestampBound
    <3>2. QED
      BY <1>3, <3>1
  <2>5. s.bound = bound
    BY <2>3, <2>4, <1>4, <2>1, TimestampValues
  <2>6. ~(bound > s.bound)
    BY <2>5, <2>1, TimestampValues
  <2>7. done.stream = s
    <3> HIDE DEF s, bound
    <3>1. QED
      BY <2>6 DEF SetNextTimestampBound
  <2>8. QED
    BY <2>5, <2>7
<1> HIDE DEF s, done
<1>7. /\ Moves(s, done.stream)
      /\ done.stream.bound = bound
      /\ done.stream.queue = s.queue
      /\ ~done.notify => s.queue # <<>> \/ done.stream = s
  <2>1. CASE s.bound = promised[i]
    <3>1. done = SetNextTimestampBound(s, s.bound + 1) /\ s.bound + 1 <= Done
          /\ bound = s.bound + 1
      BY <1>1, <2>1 DEF done
    <3> HIDE DEF bound
    <3>2. QED
      BY <1>2, <1>3, <3>1, RaiseMoves
  <2>2. CASE done.stream = s /\ s.bound = bound
    BY <1>2, <2>2, Unmoved
  <2>3. QED
    BY <1>5, <2>1, <2>2
<1> HIDE DEF bound
<1>8. bound \in Timestamp
  <2>1. Waiting(done.stream)
    BY <1>7 DEF Moves
  <2>2. done.stream.bound \in PreStream .. Done
    BY <2>1, StreamFacts
  <2>3. QED
    BY <2>2, <1>7, TimestampValues
<1>9. owed' \subseteq Id
  BY <1>1 DEF IInv, TypeOK
<1>10. QED
  BY <1>1, <1>3, <1>7, <1>8, <1>9, ProduceStep DEF s

-----------------------------------------------------------------------------
\* Truncation of the fixed size handlers.

LEMMA TriggerFacts ==
  /\ Target \in Nat /\ Target >= 1 /\ Trigger \in Nat /\ Trigger - 1 \in Nat
  /\ Trigger - 1 >= 1
  BY InputSetsAssumption

\* A packet among the last n of a queue.
LEMMA AmongFacts ==
  ASSUME NEW s, Waiting(s), s.queue # <<>>, NEW n \in Nat, n >= 1
  PROVE  /\ AmongLatest(s, n) \in PreStream .. PostStream
         /\ AmongLatest(s, n) <= Last(s.queue)
<1> DEFINE k == Len(s.queue) - Earlier(n, Len(s.queue)) + 1
<1>1. Len(s.queue) \in Nat /\ Len(s.queue) >= 1
  BY StreamFacts, QueueFacts
<1>2. k \in 1 .. Len(s.queue)
  <2>1. \A l \in Nat : l >= 1 => l - Earlier(n, l) + 1 \in 1 .. l
    BY DEF Earlier
  <2>2. QED
    BY <1>1, <2>1
<1>3. AmongLatest(s, n) = s.queue[k]
  BY DEF AmongLatest
<1> HIDE DEF k
<1>4. s.queue[k] \in PreStream .. PostStream /\ s.queue[k] <= Last(s.queue)
  BY <1>2, StreamFacts, QueueFacts
<1>5. QED
  BY <1>3, <1>4

\* The last packet to go from a queue that is longer than n >= 1.
LEMMA SurplusFacts ==
  ASSUME NEW s, Waiting(s), NEW n \in Nat, n >= 1, Len(s.queue) > n
  PROVE  /\ s.queue # <<>> /\ Last(s.queue) \in MinTs .. MaxTs
         /\ NextAllowedInStream(AmongLatest(s, n + 1)) \in MinTs .. MaxTs
         /\ NextAllowedInStream(AmongLatest(s, n + 1)) <= Last(s.queue)
<1> DEFINE k == Len(s.queue) - n
           l == Len(s.queue)
<1>1. l \in Nat /\ s.queue \in Seq(PreStream .. PostStream)
  BY StreamFacts
<1>2. k \in 1 .. l /\ l \in 1 .. l /\ k < l /\ l > 1
  BY <1>1
<1>3. s.queue # <<>>
  BY <1>1
<1>4. AmongLatest(s, n + 1) = s.queue[k]
  <2>1. Earlier(n + 1, l) = n + 1
    BY <1>1 DEF Earlier
  <2>2. l - (n + 1) + 1 = k
    BY <1>1
  <2>3. QED
    BY <1>3, <2>1, <2>2 DEF AmongLatest
<1>5. Last(s.queue) = s.queue[l]
  BY <1>3, QueueFacts
<1> HIDE DEF k, l
<1>6. s.queue[k] < s.queue[l] /\ IsRangeValue(s.queue[k]) /\ IsRangeValue(s.queue[l])
  BY <1>2 DEF Waiting, Increasing, l
<1>7. s.queue[k] \in PreStream .. PostStream /\ s.queue[l] \in PreStream .. PostStream
  BY <1>2, StreamFacts DEF l
<1>8. s.queue[k] \in MinTs .. MaxTs - 1 /\ s.queue[l] \in MinTs .. MaxTs
  BY <1>6, <1>7, TimestampValues DEF IsRangeValue
<1>9. NextAllowedInStream(s.queue[k]) = s.queue[k] + 1
  BY <1>7, <1>8, NextValues
<1>10. NextAllowedInStream(s.queue[k]) \in MinTs .. MaxTs
       /\ NextAllowedInStream(s.queue[k]) <= s.queue[l]
  BY <1>6, <1>8, <1>9, TimestampValues
<1>11. QED
  BY <1>3, <1>4, <1>5, <1>8, <1>10

\* What the streams that are too long lose, and what is kept of them.
LEMMA LongerFacts ==
  ASSUME TypeOK, \A i \in Id : Waiting(streams[i]), kept \in Unset .. MaxTs,
         NEW from, from = KeptOfAny(FALSE)
  PROVE  /\ from \in Unset .. MaxTs /\ kept <= from
         /\ \/ from = kept
            \/ \E i \in Id : /\ streams[i].queue # <<>>
                             /\ Last(streams[i].queue) \in MinTs .. MaxTs
                             /\ from <= Last(streams[i].queue)
         /\ KeptOfAny(TRUE) = Earlier(from, Previous(MinStreamBound))
<1> DEFINE size(s) == IF Len(s.queue) >= Trigger THEN Target ELSE Trigger - 1
           longer == {s \in Range(streams) : Len(s.queue) > size(s)}
           next(s) == NextAllowedInStream(AmongLatest(s, size(s) + 1))
           T == {kept} \cup {next(s) : s \in longer}
<1>1. KeptOfAny(FALSE) = Max(T) /\ KeptOfAny(TRUE) = Earlier(Max(T), Previous(MinStreamBound))
  BY DEF KeptOfAny
<1>2. ASSUME NEW s \in longer
      PROVE  /\ next(s) \in MinTs .. MaxTs
             /\ \E i \in Id : /\ streams[i].queue # <<>>
                              /\ Last(streams[i].queue) \in MinTs .. MaxTs
                              /\ next(s) <= Last(streams[i].queue)
  <2>1. PICK i \in Id : s = streams[i]
    BY DEF Range, TypeOK
  <2>2. size(s) \in Nat /\ size(s) >= 1 /\ Len(s.queue) > size(s) /\ Waiting(s)
    BY <2>1, TriggerFacts
  <2> HIDE DEF size
  <2>3. /\ s.queue # <<>> /\ Last(s.queue) \in MinTs .. MaxTs
        /\ next(s) \in MinTs .. MaxTs /\ next(s) <= Last(s.queue)
    BY <2>2, SurplusFacts
  <2>4. QED
    BY <2>1, <2>3
<1> HIDE DEF longer, next
<1>3. T \in SUBSET Int /\ T # {} /\ MaxTs \in Int /\ \A x \in T : x <= MaxTs
  BY <1>2, TimestampValues
<1>4. Max(T) \in T /\ \A x \in T : x <= Max(T)
  BY <1>3, MaxOfSet, Zenon
<1>5. \A x \in T : x \in Unset .. MaxTs
  BY <1>2, TimestampValues
<1>6. Max(T) = kept \/ \E s \in longer : Max(T) = next(s)
  BY <1>4
<1> DEFINE m == Max(T)
<1>7. m \in Unset .. MaxTs /\ kept <= m /\ (m = kept \/ \E s \in longer : m = next(s))
  BY <1>4, <1>5, <1>6
<1> HIDE DEF m, T
<1>8. from = m /\ KeptOfAny(TRUE) = Earlier(m, Previous(MinStreamBound))
  BY <1>1 DEF m
<1>9. \/ m = kept
      \/ \E i \in Id : /\ streams[i].queue # <<>>
                       /\ Last(streams[i].queue) \in MinTs .. MaxTs
                       /\ m <= Last(streams[i].queue)
  BY <1>2, <1>7
<1>10. QED
  BY <1>7, <1>8, <1>9

LEMMA AllLongFacts ==
  ASSUME TypeOK, \A i \in Id : Waiting(streams[i])
  PROVE  /\ KeptOfAll \in Unset .. MaxTs
         /\ \/ KeptOfAll = Unset
            \/ \A i \in Id : /\ streams[i].queue # <<>>
                             /\ KeptOfAll <= Last(streams[i].queue)
<1>1. CASE \E i \in Id : Len(streams[i].queue) < Trigger
  BY <1>1, TimestampValues DEF KeptOfAll
<1>2. CASE ~ \E i \in Id : Len(streams[i].queue) < Trigger
  <2> DEFINE T == {MaxTs} \cup {AmongLatest(s, Target) : s \in Range(streams)}
  <2>1. KeptOfAll = Min(T)
    BY <1>2 DEF KeptOfAll
  <2>2. ASSUME NEW i \in Id
        PROVE  /\ streams[i].queue # <<>>
               /\ AmongLatest(streams[i], Target) \in PreStream .. PostStream
               /\ AmongLatest(streams[i], Target) <= Last(streams[i].queue)
               /\ Last(streams[i].queue) \in PreStream .. PostStream
    <3>1. Len(streams[i].queue) \in Nat
      BY StreamFacts
    <3>2. Len(streams[i].queue) >= 1
      BY <1>2, <3>1, TriggerFacts
    <3>3. streams[i].queue # <<>>
      BY <3>2
    <3>4. QED
      BY <3>3, TriggerFacts, AmongFacts, QueueFacts
  <2>3. \A x \in T : x = MaxTs \/ \E i \in Id : x = AmongLatest(streams[i], Target)
    BY DEF Range, TypeOK
  <2>4. \A i \in Id : AmongLatest(streams[i], Target) \in T
    BY DEF Range, TypeOK
  <2>5. MaxTs \in T
    OBVIOUS
  <2> HIDE DEF T
  <2>6. T \in SUBSET Int /\ T # {} /\ PreStream \in Int /\ \A x \in T : PreStream <= x
    BY <2>2, <2>3, <2>5, TimestampValues
  <2>7. Min(T) \in T /\ \A x \in T : Min(T) <= x
    BY <2>6, MinOfSet, Zenon
  <2> DEFINE m == Min(T)
  <2>8. m \in Int /\ PreStream <= m /\ m <= MaxTs
        /\ \A i \in Id : m <= AmongLatest(streams[i], Target)
    BY <2>4, <2>5, <2>6, <2>7
  <2> HIDE DEF m
  <2>9. ASSUME NEW i \in Id PROVE streams[i].queue # <<>> /\ m <= Last(streams[i].queue)
    BY <2>2, <2>8, TimestampValues
  <2>10. m \in Unset .. MaxTs
    BY <2>8, TimestampValues
  <2>11. QED
    BY <2>1, <2>9, <2>10 DEF m
<1>3. QED
  BY <1>1, <1>2

LEMMA StreamBoundFacts ==
  ASSUME TypeOK, \A i \in Id : Waiting(streams[i]),
         NEW m, m = MinStreamBound
  PROVE  /\ m \in PreStream .. Done
         /\ \A i \in Id : IF streams[i].queue = <<>> THEN m <= streams[i].bound
                          ELSE m <= NextAllowedInStream(Last(streams[i].queue))
<1> DEFINE end(s) == IF s.queue = <<>> THEN s.bound ELSE NextAllowedInStream(Last(s.queue))
           T == {end(s) : s \in Range(streams)}
<1>1. m = Min(T)
  BY DEF MinStreamBound
<1>2. ASSUME NEW i \in Id PROVE end(streams[i]) \in PreStream .. Done
  <2>1. CASE streams[i].queue = <<>>
    BY <2>1, StreamFacts
  <2>2. CASE streams[i].queue # <<>>
    <3>1. Last(streams[i].queue) \in PreStream .. PostStream
      BY <2>2, QueueFacts
    <3>2. NextAllowedInStream(Last(streams[i].queue)) \in
             Last(streams[i].queue) + 1 .. OneOverPostStream
      BY <3>1, NextValues
    <3>3. QED
      BY <2>2, <3>1, <3>2, TimestampValues
  <2>3. QED
    BY <2>1, <2>2
<1>3. \A x \in T : \E i \in Id : x = end(streams[i])
  BY DEF Range, TypeOK
<1>4. \A i \in Id : end(streams[i]) \in T
  BY DEF Range, TypeOK
<1>5. \A i \in Id : end(streams[i]) = IF streams[i].queue = <<>> THEN streams[i].bound
                                      ELSE NextAllowedInStream(Last(streams[i].queue))
  OBVIOUS
<1> HIDE DEF end, T
<1>6. /\ T \in SUBSET Int /\ T # {} /\ PreStream \in Int
      /\ \A x \in T : PreStream <= x
      /\ \A x \in T : x \in PreStream .. Done
  BY <1>2, <1>3, <1>4, IdFacts, TimestampValues
<1>7. Min(T) \in T /\ \A x \in T : Min(T) <= x
  BY <1>6, MinOfSet, Zenon
<1>8. QED
  BY <1>1, <1>4, <1>5, <1>6, <1>7

\* One truncation, without the packet that each stream is to keep.
LEMMA Surplus ==
  ASSUME TypeOK, StreamsInv, ErasedInv, FixedSize, EraseSurplusPackets(FALSE)
  PROVE  /\ streams' \in [Id -> Stream] /\ kept' \in Unset .. MaxTs
         /\ erased \subseteq erased' /\ erased' \subseteq PreStream .. PostStream
         /\ policy # "FixedSize" => kept' = Unset
         /\ \A i \in Id : /\ Moves(streams[i], streams'[i])
                          /\ streams'[i].bound = streams[i].bound
                          /\ streams[i].queue = <<>> => streams'[i].queue = <<>>
         /\ \A e \in erased' : \/ e < kept'
                               \/ \A i \in Id : e < MinTimestampOrBound(streams'[i])
         /\ \A e \in erased' \ erased :
              \E i \in Id : e \in Range(streams[i].queue)
<1> DEFINE from == Truncated(FALSE).from
           new == {t \in UNION {Range(streams[i].queue) : i \in Id} : \E i \in Id :
                     t \in Range(streams[i].queue) \ Range(Truncated(FALSE).streams[i].queue)}
<1>1. /\ streams' = Truncated(FALSE).streams
      /\ kept' = IF policy = "FixedSize" THEN from ELSE kept
      /\ erased' = erased \cup new
  BY DEF EraseSurplusPackets
<1>2. /\ from = IF policy = "FixedMinSize" THEN KeptOfAll ELSE KeptOfAny(FALSE)
      /\ Truncated(FALSE).streams = [i \in Id |-> EraseEarlier(streams[i], from)]
  BY DEF Truncated
<1> HIDE DEF from
<1>3. \A i \in Id : streams'[i] = EraseEarlier(streams[i], from)
  BY <1>1, <1>2
<1>4. /\ \A i \in Id : Waiting(streams[i])
      /\ kept \in Unset .. MaxTs /\ (policy # "FixedSize" => kept = Unset)
  BY DEF StreamsInv, ErasedInv
<1>5. /\ from \in Unset .. MaxTs
      /\ policy = "FixedSize" => kept <= from
      /\ policy # "FixedSize" =>
           \/ from = Unset
           \/ \A i \in Id : streams[i].queue # <<>> /\ from <= Last(streams[i].queue)
  <2>1. CASE policy = "FixedMinSize"
    BY <2>1, <1>2, <1>4, AllLongFacts
  <2>2. CASE policy = "FixedSize"
    BY <2>2, <1>2, <1>4, LongerFacts
  <2>3. QED
    BY <2>1, <2>2 DEF FixedSize
<1>6. from \in Unset .. Done /\ from \in Int
  BY <1>5, TimestampValues
<1>7. ASSUME NEW i \in Id
      PROVE  /\ Moves(streams[i], streams'[i]) /\ streams'[i].bound = streams[i].bound
             /\ streams[i].queue = <<>> => streams'[i].queue = <<>>
             /\ streams'[i].queue # <<>> => from <= Head(streams'[i].queue)
             /\ streams[i].queue # <<>> /\ from <= Last(streams[i].queue)
                  => streams'[i].queue # <<>>
             /\ \A x \in Range(streams[i].queue) \ Range(streams'[i].queue) : x < from
  BY <1>3, <1>4, <1>6, EraseMoves
<1>8. \A i \in Id : Waiting(streams'[i])
  BY <1>7 DEF Moves
<1>9. streams' \in [Id -> Stream]
  BY <1>1, <1>2, <1>8 DEF Waiting
<1>10. kept' \in Unset .. MaxTs /\ (policy # "FixedSize" => kept' = Unset)
  BY <1>1, <1>4, <1>5
<1>11. ASSUME NEW e \in new
       PROVE  \E i \in Id : e \in Range(streams[i].queue) /\ e \notin Range(streams'[i].queue)
  BY <1>1
<1>12. ASSUME NEW i \in Id, NEW e \in Range(streams[i].queue)
       PROVE  e \in PreStream .. PostStream
  <2>1. /\ streams[i].queue \in Seq(PreStream .. PostStream)
        /\ \A k \in 1 .. Len(streams[i].queue) : streams[i].queue[k] \in PreStream .. PostStream
    BY <1>4, StreamFacts
  <2>2. PICK k \in 1 .. Len(streams[i].queue) : e = streams[i].queue[k]
    BY <2>1 DEF Range
  <2>3. QED
    BY <2>1, <2>2
<1> HIDE DEF new
<1>13. \A e \in new : e \in PreStream .. PostStream /\ e < from
  BY <1>7, <1>11, <1>12
<1>14. erased \subseteq erased' /\ erased' \subseteq PreStream .. PostStream
  BY <1>1, <1>13 DEF TypeOK
<1>15. \A i \in Id : /\ MinTimestampOrBound(streams[i]) \in PreStream .. Done
                     /\ MinTimestampOrBound(streams'[i]) \in PreStream .. Done
  BY <1>4, <1>8, MinFacts
<1>16. ASSUME NEW e \in erased
       PROVE  e < kept' \/ \A i \in Id : e < MinTimestampOrBound(streams'[i])
  <2>1. e < kept \/ \A i \in Id : e < MinTimestampOrBound(streams[i])
    BY DEF ErasedInv
  <2>2. e \in Int /\ kept \in Int /\ kept' \in Int
    BY <1>4, <1>10, TimestampValues DEF TypeOK
  <2>3. kept <= kept'
    BY <1>1, <1>4, <1>5, <2>2
  <2>4. CASE e < kept
    BY <2>2, <2>3, <2>4
  <2>5. ASSUME NEW i \in Id, e < MinTimestampOrBound(streams[i])
        PROVE  e < MinTimestampOrBound(streams'[i])
    <3>1. MinTimestampOrBound(streams[i]) <= MinTimestampOrBound(streams'[i])
      BY <1>7 DEF Moves
    <3>2. MinTimestampOrBound(streams[i]) \in Int /\ MinTimestampOrBound(streams'[i]) \in Int
      BY <1>15, TimestampValues
    <3>3. QED
      BY <2>2, <2>5, <3>1, <3>2
  <2>6. QED
    BY <2>1, <2>4, <2>5
<1>17. ASSUME NEW e \in new
       PROVE  e < kept' \/ \A i \in Id : e < MinTimestampOrBound(streams'[i])
  <2>1. e < from /\ e \in PreStream .. PostStream
    BY <1>13
  <2>2. CASE policy = "FixedSize"
    BY <2>1, <2>2, <1>1
  <2>3. CASE policy # "FixedSize"
    <3>1. from # Unset
      BY <2>1, TimestampValues
    <3>2. ASSUME NEW i \in Id PROVE e < MinTimestampOrBound(streams'[i])
      <4>1. streams[i].queue # <<>> /\ from <= Last(streams[i].queue)
        BY <1>5, <2>3, <3>1
      <4>2. streams'[i].queue # <<>> /\ from <= Head(streams'[i].queue)
        BY <4>1, <1>7
      <4>3. from <= MinTimestampOrBound(streams'[i])
        BY <4>2 DEF MinTimestampOrBound
      <4>4. MinTimestampOrBound(streams'[i]) \in Int /\ e \in Int
        BY <1>15, <2>1, TimestampValues
      <4>5. QED
        BY <2>1, <4>3, <4>4, <1>6
    <3>3. QED
      BY <3>2
  <2>4. QED
    BY <2>2, <2>3
<1>18. \A e \in erased' : e < kept' \/ \A i \in Id : e < MinTimestampOrBound(streams'[i])
  BY <1>1, <1>16, <1>17
<1>19. \A e \in erased' \ erased : \E i \in Id : e \in Range(streams[i].queue)
  BY <1>1, <1>11
<1>20. QED
  BY <1>7, <1>9, <1>10, <1>14, <1>18, <1>19

\* A waiting packet is not before the first.
LEMMA QueuedFrom ==
  ASSUME NEW s, Waiting(s), NEW e \in Range(s.queue)
  PROVE  e \in PreStream .. PostStream /\ MinTimestampOrBound(s) <= e
<1>1. /\ s.queue \in Seq(PreStream .. PostStream)
      /\ \A k \in 1 .. Len(s.queue) : s.queue[k] \in PreStream .. PostStream
  BY StreamFacts
<1>2. PICK k \in 1 .. Len(s.queue) : e = s.queue[k]
  BY <1>1 DEF Range
<1>3. s.queue # <<>>
  BY <1>1, <1>2
<1>4. Head(s.queue) <= s.queue[k]
  BY <1>2, <1>3, QueueFacts
<1>5. QED
  BY <1>1, <1>2, <1>3, <1>4 DEF MinTimestampOrBound

\* When is nothing due?
LEMMA NotDue ==
  ASSUME TypeOK, StreamsInv, ~processBounds, policy # "TimestampAlign"
  PROVE  /\ ~Due(Id) =>
              \/ \E i \in Id : /\ streams[i].queue = <<>>
                               /\ streams[i].bound <= PostStream
                               /\ \A j \in Id : streams[j].queue # <<>> =>
                                    streams[i].bound <= MinTimestampOrBound(streams[j])
              \/ \A i \in Id : streams[i].queue = <<>>
         /\ (\E i \in Id : /\ streams[i].queue = <<>>
                           /\ streams[i].bound <= PostStream
                           /\ \A j \in Id : streams[j].queue # <<>> =>
                                streams[i].bound <= MinTimestampOrBound(streams[j]))
              => ~Due(Id)
<1> DEFINE M(i) == MinTimestampOrBound(streams[i])
           P == PacketsOf(Id)
           B == BoundsOf(Id)
<1>1. \A i \in Id : At(i) = M(i)
  BY DEF At
<1>2. Due(Id) <=> (Earliest(P) < Earliest(B) \/ \A i \in Id : IsDone(streams[i]))
  BY DueMeans
<1>3. \A i \in Id : /\ M(i) \in PreStream .. Done
                    /\ streams[i].queue # <<>> => M(i) \in PreStream .. PostStream
                    /\ streams[i].queue = <<>> => M(i) = streams[i].bound
  BY MinFacts DEF StreamsInv
<1>4. /\ \A x \in P : \E i \in Id : streams[i].queue # <<>> /\ x = M(i)
      /\ \A x \in B : \E i \in Id : streams[i].queue = <<>> /\ x = M(i)
      /\ \A i \in Id : streams[i].queue # <<>> => M(i) \in P
      /\ \A i \in Id : streams[i].queue = <<>> => M(i) \in B
  BY <1>1 DEF PacketsOf, BoundsOf
<1> HIDE DEF M, P, B
<1>5. P \subseteq Unset .. Done /\ B \subseteq Unset .. Done
  BY <1>3, <1>4, TimestampValues
<1> DEFINE p == Earliest(P)
           b == Earliest(B)
<1>6. /\ p \in P \cup {Done} /\ p \in Unset .. Done /\ \A x \in P : p <= x
      /\ b \in B \cup {Done} /\ b \in Unset .. Done /\ \A x \in B : b <= x
  BY <1>5, EarliestOf
<1> HIDE DEF p, b
<1>7. p \in Int /\ b \in Int /\ b <= Done
  BY <1>6, TimestampValues
<1>8. \A i \in Id : M(i) \in Int
  BY <1>3, TimestampValues
<1>9. ASSUME ~Due(Id), ~ \A i \in Id : streams[i].queue = <<>>
      PROVE  \E i \in Id : /\ streams[i].queue = <<>> /\ streams[i].bound <= PostStream
                           /\ \A j \in Id : streams[j].queue # <<>> => streams[i].bound <= M(j)
  <2>1. b <= p
    BY <1>2, <1>7, <1>9 DEF p, b
  <2>2. PICK k \in Id : streams[k].queue # <<>>
    BY <1>9
  <2>3. p <= M(k) /\ M(k) \in PreStream .. PostStream
    BY <2>2, <1>3, <1>4, <1>6
  <2>4. b <= PostStream /\ b # Done
    BY <2>1, <2>3, <1>7, TimestampValues
  <2>5. PICK i \in Id : streams[i].queue = <<>> /\ b = M(i)
    BY <2>4, <1>4, <1>6
  <2>6. ASSUME NEW j \in Id, streams[j].queue # <<>> PROVE b <= M(j)
    <3>1. p <= M(j)
      BY <2>6, <1>4, <1>6
    <3>2. QED
      BY <3>1, <2>1, <1>7, <1>8
  <2>7. streams[i].bound = b
    BY <2>5, <1>3
  <2>8. QED
    BY <2>4, <2>5, <2>6, <2>7
<1>10. ASSUME NEW i \in Id, streams[i].queue = <<>>, streams[i].bound <= PostStream,
              \A j \in Id : streams[j].queue # <<>> => streams[i].bound <= M(j)
       PROVE  ~Due(Id)
  <2>1. M(i) = streams[i].bound /\ b <= M(i) /\ M(i) <= PostStream
    BY <1>10, <1>3, <1>4, <1>6
  <2>2. b <= p
    <3>1. CASE p = Done
      BY <3>1, <1>7
    <3>2. CASE p # Done
      <4>1. PICK j \in Id : streams[j].queue # <<>> /\ p = M(j)
        BY <3>2, <1>4, <1>6
      <4>2. M(i) <= p
        BY <4>1, <2>1, <1>10
      <4>3. QED
        BY <4>2, <2>1, <1>7, <1>8
    <3>3. QED
      BY <3>1, <3>2
  <2>3. ~(p < b)
    BY <2>2, <1>7
  <2>4. ~IsDone(streams[i])
    BY <2>1, <1>8, TimestampValues DEF IsDone
  <2>5. QED
    BY <2>3, <2>4, <1>2 DEF p, b
<1>11. QED
  BY <1>9, <1>10 DEF M

LEMMA NotDueNext ==
  (TypeOK /\ StreamsInv /\ ~processBounds /\ policy # "TimestampAlign"
   /\ (\E i \in Id : /\ streams[i].queue = <<>>
                     /\ streams[i].bound <= PostStream
                     /\ \A j \in Id : streams[j].queue # <<>> =>
                          streams[i].bound <= MinTimestampOrBound(streams[j]))
   => ~Due(Id))'
<1>1. TypeOK /\ StreamsInv /\ ~processBounds /\ policy # "TimestampAlign"
      /\ (\E i \in Id : /\ streams[i].queue = <<>>
                        /\ streams[i].bound <= PostStream
                        /\ \A j \in Id : streams[j].queue # <<>> =>
                             streams[i].bound <= MinTimestampOrBound(streams[j]))
      => ~Due(Id)
  BY NotDue
<1>2. QED
  BY <1>1, PTL

-----------------------------------------------------------------------------
\* Steps of the handler before the decision.

\* What a step without a decision leaves of the streams.
LEMMA StreamsDrift ==
  ASSUME StreamsInv, policy' = policy, promised' = promised, erased \subseteq erased',
         (pc' = "closed") <=> (pc = "closed"),
         \A i \in Id : /\ Moves(streams[i], streams'[i])
                       /\ streams'[i].bound = streams[i].bound
  PROVE  StreamsInv'
<1> SUFFICES ASSUME NEW i \in Id
             PROVE  /\ Waiting(streams'[i]) /\ streams'[i].closed = (pc' = "closed")
                    /\ pc' # "closed" =>
                         /\ streams'[i].bound = promised'[i] \/ Overtaken(i)'
                         /\ streams'[i].selected < MinTimestampOrBound(streams'[i])
  BY DEF StreamsInv
<1>1. /\ Waiting(streams[i]) /\ streams[i].closed = (pc = "closed")
      /\ pc # "closed" => /\ streams[i].bound = promised[i] \/ Overtaken(i)
                          /\ streams[i].selected < MinTimestampOrBound(streams[i])
  BY DEF StreamsInv
<1>2. /\ Waiting(streams'[i]) /\ streams'[i].selected = streams[i].selected
      /\ streams'[i].closed = streams[i].closed
      /\ MinTimestampOrBound(streams[i]) <= MinTimestampOrBound(streams'[i])
  BY DEF Moves
<1>3. /\ MinTimestampOrBound(streams[i]) \in PreStream .. Done
      /\ MinTimestampOrBound(streams'[i]) \in PreStream .. Done
      /\ streams[i].selected \in Unstarted .. Done
  BY <1>1, <1>2, MinFacts, StreamFacts
<1>4. pc' # "closed" => streams'[i].selected < MinTimestampOrBound(streams'[i])
  BY <1>1, <1>2, <1>3, TimestampValues
<1>5. Overtaken(i) => Overtaken(i)'
  BY DEF Overtaken
<1>6. streams[i].bound = promised[i] => streams'[i].bound = promised'[i]
  OBVIOUS
<1>7. QED
  BY <1>1, <1>2, <1>4, <1>5, <1>6

LEMMA TruncateStep ==
  ASSUME IInv, TruncateAfterAdd
  PROVE  IInv'
<1> USE DEF IInv
<1>1. /\ owed # {} /\ owed' \subseteq owed /\ pc \notin {"read", "decide", "fill"}
      /\ policy' = policy /\ processBounds' = processBounds /\ choice' = choice
      /\ promised' = promised /\ notified' = notified /\ sets' = sets /\ ready' = ready
      /\ offsets' = offsets /\ aligned' = aligned /\ pc' = pc /\ seen' = seen
      /\ inputTs' = inputTs /\ filled' = filled /\ inputBound' = inputBound
      /\ failed' = failed
  BY DEF TruncateAfterAdd, config, round
<1>2. IF pc = "refill" THEN UNCHANGED <<streams, kept, erased>> ELSE EraseSurplusPackets(FALSE)
  BY DEF TruncateAfterAdd
<1>3. FixedSize
  BY <1>1 DEF ErasedInv
<1>4. pc \notin {"read", "decide", "fill", "discard", "select", "tidy"}
  BY <1>1, <1>3 DEF StageInv, FixedSize
<1>5. \A i \in Id : Waiting(streams[i])
  BY DEF StreamsInv
<1>6. /\ streams' \in [Id -> Stream] /\ kept' \in Unset .. MaxTs
      /\ erased \subseteq erased' /\ erased' \subseteq PreStream .. PostStream
      /\ policy # "FixedSize" => kept' = Unset
      /\ \A i \in Id : /\ Moves(streams[i], streams'[i])
                       /\ streams'[i].bound = streams[i].bound
                       /\ streams[i].queue = <<>> => streams'[i].queue = <<>>
      /\ \A e \in erased' : \/ e < kept'
                            \/ \A i \in Id : e < MinTimestampOrBound(streams'[i])
      /\ \A e \in erased' \ erased : pc # "refill" /\ \E i \in Id : e \in Range(streams[i].queue)
  <2>1. CASE pc = "refill"
    <3>1. streams' = streams /\ kept' = kept /\ erased' = erased
      BY <2>1, <1>2
    <3>2. \A i \in Id : Moves(streams[i], streams'[i])
      BY <3>1, <1>5, Unmoved
    <3>3. QED
      BY <3>1, <3>2 DEF ErasedInv, TypeOK
  <2>2. CASE pc # "refill"
    <3>1. EraseSurplusPackets(FALSE)
      BY <2>2, <1>2, Zenon
    <3>2. QED
      BY <3>1, <2>2, <1>3, Surplus
  <2>3. QED
    BY <2>1, <2>2
<1>7. Drift
  BY <1>1, <1>3, <1>6 DEF Drift
<1>8. FillInv' /\ TogetherInv' /\ LastInv' /\ BoundInv' /\ AlignInv' /\ MuxInv'
  BY <1>7, DriftFill, DriftTogether, DriftLast, DriftBound, DriftAlign, DriftMux
<1>9. TypeOK'
  <2>1. kept' \in Timestamp
    BY <1>6, TimestampValues
  <2>2. QED
    BY <1>1, <1>6, <2>1 DEF TypeOK
<1>10. StreamsInv'
  BY <1>1, <1>6, StreamsDrift
<1>11. StageInv'
  BY <1>1 DEF StageInv, FreshSets, FixedSize
<1>12. SeenInv'
  BY <1>1, <1>4 DEF SeenInv
<1>13. ErasedInv'
  <2>1. FixedSize'
    BY <1>1, <1>3 DEF FixedSize
  <2>2. CASE pc = "refill"
    <3>1. streams' = streams /\ kept' = kept /\ erased' = erased
      BY <2>2, <1>2
    <3>2. QED
      BY <2>1, <2>2, <3>1, <1>1 DEF ErasedInv
  <2>3. CASE pc # "refill"
    <3>1. ASSUME pc = "process" PROVE inputTs \notin erased'
      <4> SUFFICES ASSUME inputTs \in erased' PROVE FALSE
        OBVIOUS
      <4>1. inputTs \notin erased
        BY <3>1, <1>3 DEF ErasedInv
      <4>2. PICK i \in Id : inputTs \in Range(streams[i].queue)
        BY <4>1, <1>6
      <4>3. MinTimestampOrBound(streams[i]) <= inputTs /\ inputTs \in PreStream .. PostStream
        BY <4>2, <1>5, QueuedFrom
      <4>4. streams[i].selected = inputTs
        BY <3>1, <1>3 DEF ErasedInv
      <4>5. streams[i].selected < MinTimestampOrBound(streams[i])
        BY <3>1 DEF StreamsInv
      <4>6. MinTimestampOrBound(streams[i]) \in PreStream .. Done
        BY <1>5, MinFacts
      <4>7. QED
        BY <4>3, <4>4, <4>5, <4>6, TimestampValues
    <3>2. \A i \in Id : streams'[i].selected = streams[i].selected
      BY <1>6 DEF Moves
    <3>3. pc = "process" => \A i \in Id : streams'[i].selected = inputTs
      BY <3>2, <1>3 DEF ErasedInv
    <3>4. QED
      BY <1>1, <1>3, <1>4, <1>6, <2>1, <2>3, <3>1, <3>3 DEF ErasedInv
  <2>4. QED
    BY <2>2, <2>3
<1>14. NothingForgotten'
  <2> SUFFICES ASSUME pc = "idle", ~notified, failed = "none" PROVE ~(Due(Id)')
    BY <1>1, <1>3 DEF NothingForgotten, FixedSize
  <2>1. ~Due(Id)
    BY <1>3 DEF NothingForgotten, FixedSize
  <2>2. ~processBounds /\ policy # "TimestampAlign"
    BY <1>3 DEF StageInv, FixedSize
  <2>3. CASE \A i \in Id : streams[i].queue = <<>>
    <3>1. ASSUME NEW i \in Id
          PROVE  /\ (streams'[i].queue = <<>>) <=> (streams[i].queue = <<>>)
                 /\ MinTimestampOrBound(streams'[i]) = MinTimestampOrBound(streams[i])
      BY <2>3, <1>6 DEF MinTimestampOrBound
    <3>2. Due(Id)' <=> Due(Id)
      BY <3>1, <1>1, SameDue
    <3>3. QED
      BY <2>1, <3>2
  <2>4. CASE \E i \in Id : /\ streams[i].queue = <<>>
                           /\ streams[i].bound <= PostStream
                           /\ \A j \in Id : streams[j].queue # <<>> =>
                                streams[i].bound <= MinTimestampOrBound(streams[j])
    <3>1. PICK i \in Id : /\ streams[i].queue = <<>>
                          /\ streams[i].bound <= PostStream
                          /\ \A j \in Id : streams[j].queue # <<>> =>
                               streams[i].bound <= MinTimestampOrBound(streams[j])
      BY <2>4
    <3>2. streams'[i].queue = <<>> /\ streams'[i].bound = streams[i].bound
      BY <3>1, <1>6
    <3>3. ASSUME NEW j \in Id, streams'[j].queue # <<>>
          PROVE  streams'[i].bound <= MinTimestampOrBound(streams'[j])
      <4>1. streams[j].queue # <<>>
        BY <3>3, <1>6
      <4>2. streams[i].bound <= MinTimestampOrBound(streams[j])
        BY <3>1, <4>1
      <4>3. MinTimestampOrBound(streams[j]) <= MinTimestampOrBound(streams'[j])
            /\ Waiting(streams'[j])
        BY <1>6 DEF Moves
      <4>4. /\ MinTimestampOrBound(streams[j]) \in PreStream .. Done
            /\ MinTimestampOrBound(streams'[j]) \in PreStream .. Done
            /\ streams[i].bound \in PreStream .. Done
        BY <4>3, <1>5, MinFacts, StreamFacts
      <4>5. QED
        BY <3>2, <4>2, <4>3, <4>4, TimestampValues
    <3>4. \E k \in Id : /\ streams'[k].queue = <<>>
                        /\ streams'[k].bound <= PostStream
                        /\ \A j \in Id : streams'[j].queue # <<>> =>
                             streams'[k].bound <= MinTimestampOrBound(streams'[j])
      BY <3>1, <3>2, <3>3
    <3>5. ~processBounds' /\ policy' # "TimestampAlign"
      BY <2>2, <1>1
    <3>6. QED
      BY <3>4, <3>5, <1>9, <1>10, NotDueNext
  <2>5. QED
    BY <2>1, <2>2, <2>3, <2>4, NotDue
<1>15. AheadInv'
  BY <1>1, SameAhead
<1>16. QED
  BY <1>8, <1>9, <1>10, <1>11, <1>12, <1>13, <1>14, <1>15

\* The streams are to be read again, from the first.
LEMMA ReadAgain ==
  ASSUME IInv, StartReading, pc \notin {"fill", "closed"}, failed = "none",
         policy' = policy, processBounds' = processBounds, choice' = choice,
         promised' = promised, notified' \in BOOLEAN, ready' = ready,
         offsets' = offsets, aligned' = aligned, inputBound' = inputBound,
         inputTs' \in Timestamp, filled' = 0, failed' = failed, owed' = owed,
         sets' \in Seq([ids : SUBSET Id, last : Timestamp]),
         sets' = sets \/ FixedSize, Len(sets') = Len(sets),
         \A k \in 1 .. Len(sets) : sets'[k].ids = sets[k].ids
  PROVE  IInv'
<1> USE DEF IInv
<1>1. /\ seen' = <<>> /\ pc' = "read"
      /\ IF FixedSize THEN EraseSurplusPackets(FALSE) ELSE UNCHANGED <<streams, kept, erased>>
  BY DEF StartReading
<1>2. \A i \in Id : Waiting(streams[i])
  BY DEF StreamsInv
<1>3. /\ streams' \in [Id -> Stream] /\ kept' \in Unset .. MaxTs
      /\ erased \subseteq erased' /\ erased' \subseteq PreStream .. PostStream
      /\ policy # "FixedSize" => kept' = Unset
      /\ \A i \in Id : /\ Moves(streams[i], streams'[i])
                       /\ streams'[i].bound = streams[i].bound
      /\ \A e \in erased' : \/ e < kept'
                            \/ \A i \in Id : e < MinTimestampOrBound(streams'[i])
      /\ ~FixedSize => erased' = {}
  <2>1. CASE ~FixedSize
    <3>1. streams' = streams /\ kept' = kept /\ erased' = erased
      BY <2>1, <1>1
    <3>2. \A i \in Id : Moves(streams[i], streams'[i])
      BY <3>1, <1>2, Unmoved
    <3>3. QED
      BY <2>1, <3>1, <3>2 DEF ErasedInv, TypeOK
  <2>2. CASE FixedSize
    <3>1. EraseSurplusPackets(FALSE)
      BY <2>2, <1>1
    <3>2. QED
      BY <3>1, <2>2, Surplus
  <2>3. QED
    BY <2>1, <2>2
<1>4. Drift
  BY <1>1, <1>3 DEF Drift
<1>5. FillInv' /\ TogetherInv' /\ LastInv' /\ BoundInv' /\ AlignInv' /\ MuxInv'
  BY <1>4, DriftFill, DriftTogether, DriftLast, DriftBound, DriftAlign, DriftMux
<1>6. TypeOK'
  <2>1. kept' \in Timestamp
    BY <1>3, TimestampValues
  <2>2. seen' \in Seq([ts : Timestamp, empty : BOOLEAN]) /\ Len(seen') <= NumStreams
        /\ filled' \in 0 .. NumStreams
    BY <1>1, IdFacts
  <2>3. QED
    BY <1>1, <1>3, <2>1, <2>2 DEF TypeOK
<1>7. StreamsInv'
  BY <1>1, <1>3, StreamsDrift
<1>8. StageInv'
  <2>1. Len(seen') < NumStreams
    BY <1>1, IdFacts
  <2>2. FreshSets' = FreshSets
    BY DEF FreshSets
  <2>3. \A k \in 1 .. Len(sets) : sets'[k].ids = FreshSets[k].ids
                                  \/ (policy = "SyncSet" /\ sets'[k].ids = {})
    BY DEF StageInv
  <2>4. QED
    BY <1>1, <2>1, <2>2, <2>3 DEF StageInv, FixedSize
<1>9. SeenInv'
  BY <1>1 DEF SeenInv
<1>10. ErasedInv'
  BY <1>1, <1>3 DEF ErasedInv, FixedSize
<1>11. NothingForgotten'
  BY <1>1 DEF NothingForgotten
<1>12. AheadInv'
  BY <1>1 DEF AheadInv
<1>13. QED
  BY <1>5, <1>6, <1>7, <1>8, <1>9, <1>10, <1>11, <1>12

LEMMA BeginStep ==
  ASSUME IInv, BeginRound
  PROVE  IInv'
<1>1. /\ pc \in {"idle", "process"} /\ failed = "none" /\ StartReading
      /\ notified' = FALSE /\ inputTs' = Unset /\ filled' = 0
      /\ policy' = policy /\ processBounds' = processBounds /\ choice' = choice
      /\ promised' = promised /\ sets' = sets /\ ready' = ready
      /\ offsets' = offsets /\ aligned' = aligned /\ inputBound' = inputBound
      /\ failed' = failed /\ owed' = owed
  BY DEF BeginRound, config
<1>2. inputTs' \in Timestamp /\ sets' \in Seq([ids : SUBSET Id, last : Timestamp])
  BY <1>1, TimestampValues DEF IInv, TypeOK
<1>3. QED
  BY <1>1, <1>2, ReadAgain

LEMMA ReadStreamStep ==
  ASSUME IInv, ReadStream
  PROVE  IInv'
<1> USE DEF IInv
<1>0. PICK i : i = Len(seen) + 1
  OBVIOUS
<1>1. /\ pc = "read" /\ policy # "Mux" /\ seen' = Append(seen, Reading(i))
      /\ pc' = IF Len(seen') = NumStreams THEN "decide" ELSE "read"
      /\ policy' = policy /\ processBounds' = processBounds /\ choice' = choice
      /\ streams' = streams /\ promised' = promised /\ notified' = notified
      /\ sets' = sets /\ ready' = ready /\ offsets' = offsets /\ aligned' = aligned
      /\ kept' = kept /\ erased' = erased /\ owed' = owed
      /\ inputTs' = inputTs /\ filled' = filled /\ inputBound' = inputBound
      /\ failed' = failed
  BY <1>0 DEF ReadStream, config, input, handler
<1>2. Len(seen) \in Nat /\ Len(seen) < NumStreams /\ filled = 0
  BY <1>1, SeenFacts DEF StageInv
<1>3. i \in Id /\ i <= NumStreams
  BY <1>0, <1>2, IdFacts
<1>4. \A j \in Id : Waiting(streams[j])
  BY DEF StreamsInv
<1>5. Reading(i).ts = MinTimestampOrBound(streams[i])
      /\ Reading(i).empty = (streams[i].queue = <<>>)
      /\ Reading(i) = [ts |-> MinTimestampOrBound(streams[i]), empty |-> streams[i].queue = <<>>]
  BY DEF Reading
<1>6. MinTimestampOrBound(streams[i]) \in PreStream .. Done
  BY <1>3, <1>4, MinFacts
<1>7. Reading(i) \in [ts : Timestamp, empty : BOOLEAN]
  <2>1. (streams[i].queue = <<>>) \in BOOLEAN
    OBVIOUS
  <2>2. MinTimestampOrBound(streams[i]) \in Timestamp
    BY <1>6, TimestampValues
  <2>3. QED
    BY <2>1, <2>2, <1>5
<1>8. /\ seen' \in Seq([ts : Timestamp, empty : BOOLEAN])
      /\ Len(seen') = i
      /\ \A k \in 1 .. Len(seen) : seen'[k] = seen[k]
      /\ seen'[i] = Reading(i)
  <2> DEFINE R == [ts : Timestamp, empty : BOOLEAN]
             x == Reading(i)
  <2>1. seen \in Seq(R) /\ x \in R /\ seen' = Append(seen, x)
    BY <1>1, <1>7 DEF TypeOK
  <2> HIDE DEF R, x
  <2>2. Append(seen, x) \in Seq(R) /\ Len(Append(seen, x)) = Len(seen) + 1
        /\ (\A k \in 1 .. Len(seen) : Append(seen, x)[k] = seen[k])
        /\ Append(seen, x)[Len(seen) + 1] = x
    BY <2>1, AppendProperties
  <2>3. QED
    BY <1>0, <2>1, <2>2 DEF R, x
<1>9. \A j \in Id : Moves(streams[j], streams'[j])
  BY <1>1, <1>4, Unmoved
<1>10. pc' \in {"read", "decide"}
  BY <1>1
<1>11. Drift
  BY <1>1, <1>9, <1>10 DEF Drift
<1>12. FillInv' /\ TogetherInv' /\ LastInv' /\ BoundInv' /\ AlignInv' /\ MuxInv'
  BY <1>11, DriftFill, DriftTogether, DriftLast, DriftBound, DriftAlign, DriftMux
<1>13. TypeOK'
  BY <1>1, <1>3, <1>8, <1>10 DEF TypeOK
<1>14. StreamsInv'
  BY <1>1, <1>9, <1>10, StreamsDrift
<1>15. StageInv'
  <2>1. pc' = "read" => Len(seen') < NumStreams
    BY <1>1, <1>3, <1>8, IdFacts
  <2>2. pc' = "decide" => Len(seen') = NumStreams
    BY <1>1
  <2>3. FreshSets' = FreshSets /\ FixedSize' = FixedSize
    BY <1>1 DEF FreshSets, FixedSize
  <2>4. QED
    BY <1>1, <1>2, <1>10, <2>1, <2>2, <2>3 DEF StageInv
<1>16. SeenInv'
  <2>1. ASSUME NEW k \in 1 .. Len(seen) PROVE IsRead(k, seen[k])'
    <3>1. seen'[k] = seen[k] /\ IsRead(k, seen[k])
      BY <1>1, <1>8 DEF SeenInv
    <3>2. QED
      BY <3>1, <1>1 DEF IsRead
  <2>2. IsRead(i, seen[i])'
    <3> DEFINE r == seen'[i]
    <3>1. /\ r.ts = MinTimestampOrBound(streams[i])
          /\ r.empty = (streams[i].queue = <<>>)
      BY <1>5, <1>8
    <3> HIDE DEF r
    <3>2. r.ts \in PreStream .. Done /\ r.ts <= MinTimestampOrBound(streams[i])
      BY <3>1, <1>6, TimestampValues
    <3>3. ~r.empty => streams[i].queue # <<>> /\ r.ts = Head(streams[i].queue)
      BY <3>1 DEF MinTimestampOrBound
    <3>4. seen'[i] = r
      BY DEF r
    <3>5. QED
      BY <3>1, <3>2, <3>3, <3>4, <1>1 DEF IsRead
  <2>3. \A k \in 1 .. Len(seen') : k \in 1 .. Len(seen) \/ k = i
    BY <1>0, <1>2, <1>8
  <2>4. \A k \in 1 .. Len(seen') : IsRead(k, seen[k])'
    BY <2>1, <2>2, <2>3 DEF IsRead
  <2>5. QED
    BY <1>10, <2>4 DEF SeenInv
<1>17. ErasedInv'
  BY <1>1, <1>10 DEF ErasedInv, FixedSize
<1>18. NothingForgotten'
  BY <1>10 DEF NothingForgotten
<1>19. AheadInv'
  <2> DEFINE M == MinTimestampOrBound(streams[i])
  <2>1. /\ seen'[i].ts = M /\ seen'[i].empty = (streams[i].queue = <<>>)
        /\ streams[i].queue = <<>> => M = streams[i].bound
    BY <1>5, <1>8 DEF MinTimestampOrBound
  <2>2. BoundInv /\ pc # "closed"
    BY <1>1
  <2>3. Ahead(i, seen'[i])
    BY <1>3, <2>1, <2>2 DEF Ahead, BoundInv, Passed
  <2>4. \A k \in 1 .. Len(seen) : Ahead(k, seen'[k])
    BY <1>1, <1>8 DEF AheadInv
  <2>5. \A k \in 1 .. Len(seen') : k \in 1 .. Len(seen) \/ k = i
    BY <1>0, <1>2, <1>8
  <2>6. \A k \in 1 .. Len(seen') : Ahead(k, seen'[k])
    BY <2>3, <2>4, <2>5
  <2>7. \A k \in 1 .. Len(seen') : Ahead(k, seen[k])' = Ahead(k, seen'[k])
    BY <1>1 DEF Ahead, Shift
  <2>8. QED
    BY <1>10, <2>6, <2>7 DEF AheadInv
<1>20. QED
  BY <1>12, <1>13, <1>14, <1>15, <1>16, <1>17, <1>18, <1>19

LEMMA ReadControlStep ==
  ASSUME IInv, ReadControl
  PROVE  IInv'
<1> USE DEF IInv
<1>1. /\ pc = "read" /\ policy = "Mux" /\ seen' = <<Reading(Control)>>
      /\ pc' = "discard" /\ filled' = 0
      /\ policy' = policy /\ processBounds' = processBounds /\ choice' = choice
      /\ streams' = streams /\ promised' = promised /\ notified' = notified
      /\ sets' = sets /\ ready' = ready /\ offsets' = offsets /\ aligned' = aligned
      /\ kept' = kept /\ erased' = erased /\ owed' = owed
      /\ inputTs' = inputTs /\ inputBound' = inputBound
      /\ failed' = failed
  BY DEF ReadControl, config, input, handler
<1>2. Control \in Id /\ NumStreams \in Nat /\ NumStreams >= 2
  BY IdFacts
<1>3. \A j \in Id : Waiting(streams[j])
  BY DEF StreamsInv
<1> DEFINE r == Reading(Control)
<1>4. r.ts = MinTimestampOrBound(streams[Control])
      /\ r.empty = (streams[Control].queue = <<>>)
      /\ r = [ts |-> MinTimestampOrBound(streams[Control]), empty |-> streams[Control].queue = <<>>]
  BY DEF Reading
<1>5. MinTimestampOrBound(streams[Control]) \in PreStream .. Done
  BY <1>2, <1>3, MinFacts
<1>6. r \in [ts : Timestamp, empty : BOOLEAN]
  <2>1. (streams[Control].queue = <<>>) \in BOOLEAN
    OBVIOUS
  <2>2. MinTimestampOrBound(streams[Control]) \in Timestamp
    BY <1>5, TimestampValues
  <2>3. QED
    BY <2>1, <2>2, <1>4
<1>7. seen' = <<r>>
  BY <1>1
<1> HIDE DEF r
<1>8. seen' \in Seq([ts : Timestamp, empty : BOOLEAN]) /\ Len(seen') = 1 /\ seen'[1] = r
  BY <1>6, <1>7
<1>9. \A j \in Id : Moves(streams[j], streams'[j])
  BY <1>1, <1>3, Unmoved
<1>10. Drift
  BY <1>1, <1>9 DEF Drift
<1>11. FillInv' /\ TogetherInv' /\ LastInv' /\ BoundInv' /\ AlignInv' /\ MuxInv'
  BY <1>10, DriftFill, DriftTogether, DriftLast, DriftBound, DriftAlign, DriftMux
<1>12. TypeOK'
  BY <1>1, <1>2, <1>8 DEF TypeOK
<1>13. StreamsInv'
  BY <1>1, <1>9, StreamsDrift
<1>14. StageInv'
  <2>1. FreshSets' = FreshSets /\ FixedSize' = FixedSize
    BY <1>1 DEF FreshSets, FixedSize
  <2>2. 0 < NumStreams
    BY <1>2
  <2>3. QED
    BY <1>1, <1>8, <2>1, <2>2 DEF StageInv
<1>15. SeenInv'
  <2>1. r.ts \in PreStream .. Done /\ r.ts <= MinTimestampOrBound(streams[Control])
    BY <1>4, <1>5, TimestampValues
  <2>2. ~r.empty => streams[Control].queue # <<>> /\ r.ts = Head(streams[Control].queue)
    BY <1>4 DEF MinTimestampOrBound
  <2>3. IsRead(Control, seen[1])'
    BY <1>1, <1>4, <1>8, <2>1, <2>2 DEF IsRead
  <2>4. QED
    BY <1>1, <2>3 DEF SeenInv
<1>16. ErasedInv'
  BY <1>1 DEF ErasedInv, FixedSize
<1>17. NothingForgotten'
  BY <1>1 DEF NothingForgotten
<1>18. AheadInv'
  <2>1. inputBound <= seen'[1].ts
    BY <1>1, <1>4, <1>8 DEF BoundInv
  <2>2. QED
    BY <1>1, <2>1 DEF AheadInv
<1>19. QED
  BY <1>11, <1>12, <1>13, <1>14, <1>15, <1>16, <1>17, <1>18

LEMMA RemoveStep ==
  ASSUME IInv, RemoveOutdated
  PROVE  IInv'
<1> USE DEF IInv
<1>0. PICK i : i = IF filled \in {0, NumStreams} THEN 2 ELSE filled + 1
  OBVIOUS
<1>1. PICK from :
        /\ from = IF pc = "discard" THEN seen[1].ts ELSE NextAllowedInStream(inputTs)
        /\ streams' = [streams EXCEPT ![i] = EraseEarlier(streams[i], from)]
  BY <1>0 DEF RemoveOutdated
<1>2. /\ pc \in {"discard", "tidy"}
      /\ filled' = IF i = NumStreams THEN 0 ELSE i
      /\ pc' = IF i # NumStreams THEN pc
               ELSE IF pc = "discard" THEN "select" ELSE "process"
      /\ policy' = policy /\ processBounds' = processBounds /\ choice' = choice
      /\ promised' = promised /\ notified' = notified
      /\ sets' = sets /\ ready' = ready /\ offsets' = offsets /\ aligned' = aligned
      /\ kept' = kept /\ erased' = erased /\ owed' = owed /\ seen' = seen
      /\ inputTs' = inputTs /\ inputBound' = inputBound
      /\ failed' = failed
  BY <1>0 DEF RemoveOutdated, config, handler
<1>3. policy = "Mux" /\ ~FixedSize
  BY <1>2 DEF StageInv, FixedSize
<1>4. filled \in 0 .. NumStreams /\ NumStreams \in Nat /\ NumStreams >= 2
      /\ Id = 1 .. NumStreams /\ Control = 1
  BY IdFacts DEF TypeOK
<1>5. i \in 2 .. NumStreams /\ i \in Id /\ i # Control /\ filled' \in 0 .. NumStreams
  BY <1>0, <1>2, <1>4
<1>6. pc = "discard" => Len(seen) = 1
  BY DEF StageInv
<1>7. from \in Unset .. Done
  <2>1. pc = "discard" => seen[1].ts \in Timestamp
    BY <1>6, SeenFacts
  <2>2. inputTs \in Timestamp
    BY DEF TypeOK
  <2>3. NextAllowedInStream(inputTs) \in Unset .. Done
    BY <2>2, TimestampValues DEF NextAllowedInStream
  <2>4. QED
    BY <1>1, <2>1, <2>3 DEF Timestamp
<1>8. /\ streams \in [Id -> Stream] /\ \A j \in Id : Waiting(streams[j])
  BY DEF StreamsInv, TypeOK
<1>9. /\ streams'[i] = EraseEarlier(streams[i], from)
      /\ \A j \in Id \ {i} : streams'[j] = streams[j]
  BY <1>1, <1>5, <1>8
<1>10. ASSUME NEW j \in Id
       PROVE  Moves(streams[j], streams'[j]) /\ streams'[j].bound = streams[j].bound
  <2>1. CASE j = i
    BY <2>1, <1>7, <1>8, <1>9, EraseMoves
  <2>2. CASE j # i
    BY <2>2, <1>8, <1>9, Unmoved
  <2>3. QED
    BY <2>1, <2>2
<1>11. pc' \in {"discard", "tidy", "select", "process"}
  BY <1>2
<1>12. Drift
  BY <1>2, <1>10, <1>11 DEF Drift
<1>13. FillInv' /\ TogetherInv' /\ LastInv' /\ BoundInv' /\ AlignInv' /\ MuxInv'
  BY <1>12, DriftFill, DriftTogether, DriftLast, DriftBound, DriftAlign, DriftMux
<1>14. TypeOK'
  <2>1. \A j \in Id : streams'[j] \in Stream
    BY <1>10 DEF Moves, Waiting
  <2>2. streams' \in [Id -> Stream]
    BY <2>1, <1>1, <1>8
  <2>3. QED
    BY <2>2, <1>2, <1>5, <1>11 DEF TypeOK
<1>15. StreamsInv'
  BY <1>2, <1>10, <1>11, StreamsDrift
<1>16. StageInv'
  <2>1. FreshSets' = FreshSets /\ FixedSize' = FixedSize
    BY <1>2 DEF FreshSets, FixedSize
  <2>2. pc' = "discard" => filled' < NumStreams /\ pc = "discard"
    <3> SUFFICES ASSUME pc' = "discard" PROVE filled' < NumStreams /\ pc = "discard"
      OBVIOUS
    <3>1. pc = "discard" /\ i # NumStreams /\ filled' = i
      BY <1>2
    <3>2. QED
      BY <1>4, <1>5, <3>1
  <2>3. pc' = "select" => filled' = 0 /\ pc = "discard"
    BY <1>2, <1>4, <1>6
  <2>4. QED
    BY <1>2, <1>3, <1>6, <1>11, <2>1, <2>2, <2>3 DEF StageInv
<1>17. SeenInv'
  <2>1. CASE pc' \in {"tidy", "process"}
    BY <2>1 DEF SeenInv
  <2>2. CASE pc' \in {"discard", "select"}
    <3>1. pc = "discard" /\ Control \in Id
      BY <2>2, <1>2, IdFacts
    <3>2. streams'[Control] = streams[Control] /\ IsRead(Control, seen[1])
      BY <3>1, <1>5, <1>9 DEF SeenInv
    <3>3. IsRead(Control, seen[1])'
      BY <3>2, <1>2 DEF IsRead
    <3>4. QED
      BY <2>2, <3>3 DEF SeenInv
  <2>3. QED
    BY <1>11, <2>1, <2>2
<1>18. ErasedInv'
  <2>1. ~FixedSize'
    BY <1>2, <1>3 DEF FixedSize
  <2>2. QED
    BY <1>2, <1>3, <1>11, <2>1 DEF ErasedInv
<1>19. NothingForgotten'
  BY <1>11 DEF NothingForgotten
<1>20. AheadInv'
  <2>1. \/ pc' \in {"discard", "select"} /\ pc = "discard"
        \/ pc' \in {"tidy", "process"}
    BY <1>2
  <2>2. QED
    BY <1>2, <2>1, SameAhead
<1>21. QED
  BY <1>13, <1>14, <1>15, <1>16, <1>17, <1>18, <1>19, <1>20

-----------------------------------------------------------------------------
\* What has been read of the streams, and what follows from it.

MinPacket(ids) == Earliest({seen[i].ts : i \in {j \in ids : ~seen[j].empty}})
MinBound(ids) == Earliest({seen[i].ts : i \in {j \in ids : seen[j].empty}})

LEMMA SeenMin ==
  ASSUME TypeOK, StreamsInv, NEW ids \in SUBSET Id, \A i \in ids : IsRead(i, seen[i]),
         NEW p, p = MinPacket(ids), NEW b, b = MinBound(ids)
  PROVE  /\ p \in PreStream .. PostStream \/ p = Done
         /\ b \in PreStream .. Done
         /\ \A i \in ids : IF seen[i].empty THEN b <= seen[i].ts ELSE p <= seen[i].ts
         /\ p # Done => \E i \in ids : ~seen[i].empty /\ p = seen[i].ts
         /\ b # Done => \E i \in ids : seen[i].empty /\ b = seen[i].ts
         /\ ids = {} => p = Done /\ b = Done
<1> DEFINE P == {seen[i].ts : i \in {j \in ids : ~seen[j].empty}}
           B == {seen[i].ts : i \in {j \in ids : seen[j].empty}}
<1>1. \A i \in ids : /\ seen[i].ts \in PreStream .. Done
                     /\ ~seen[i].empty => /\ streams[i].queue # <<>>
                                          /\ seen[i].ts = Head(streams[i].queue)
                     /\ Waiting(streams[i])
  BY DEF IsRead, StreamsInv
<1>2. \A i \in ids : ~seen[i].empty => seen[i].ts \in PreStream .. PostStream
  BY <1>1, QueueFacts
<1>3. /\ \A x \in P : \E i \in ids : ~seen[i].empty /\ x = seen[i].ts
      /\ \A x \in B : \E i \in ids : seen[i].empty /\ x = seen[i].ts
      /\ \A i \in ids : ~seen[i].empty => seen[i].ts \in P
      /\ \A i \in ids : seen[i].empty => seen[i].ts \in B
  OBVIOUS
<1>4. p = Earliest(P) /\ b = Earliest(B)
  BY DEF MinPacket, MinBound
<1>5. ids = {} => P = {} /\ B = {}
  OBVIOUS
<1> HIDE DEF P, B
<1>6. P \subseteq Unset .. Done /\ B \subseteq Unset .. Done
  BY <1>1, <1>3, TimestampValues
<1>7. /\ p \in P \cup {Done} /\ p \in Unset .. Done /\ \A x \in P : p <= x
      /\ b \in B \cup {Done} /\ b \in Unset .. Done /\ \A x \in B : b <= x
  <2>1. /\ Earliest(P) \in P \cup {Done} /\ Earliest(P) \in Unset .. Done
        /\ \A x \in P : Earliest(P) <= x
    BY <1>6, EarliestOf
  <2>2. /\ Earliest(B) \in B \cup {Done} /\ Earliest(B) \in Unset .. Done
        /\ \A x \in B : Earliest(B) <= x
    BY <1>6, EarliestOf
  <2>3. QED
    BY <2>1, <2>2, <1>4
<1>8. p \in PreStream .. PostStream \/ p = Done
  BY <1>2, <1>3, <1>7
<1>9. b \in PreStream .. Done
  <2>1. Done \in PreStream .. Done
    BY TimestampValues
  <2>2. QED
    BY <2>1, <1>1, <1>3, <1>7
<1>10. QED
  BY <1>3, <1>5, <1>7, <1>8, <1>9

\* The four outcomes of GetReadiness.
LEMMA ReadinessCases ==
  ASSUME NEW ids, NEW last, NEW r, r = GetReadiness(ids, last),
         NEW p, p = MinPacket(ids), NEW b, b = MinBound(ids)
  PROVE  \/ /\ Earlier(p, b) >= OneOverPostStream
            /\ r.is = "close" /\ r.ts = Done /\ r.last = PreviousAllowedInStream(Done)
         \/ /\ ~(Earlier(p, b) >= OneOverPostStream) /\ ~processBounds /\ b > p
            /\ r.is = "process" /\ r.ts = Earlier(p, b) /\ r.last = Earlier(p, b)
         \/ \E n : /\ ~(Earlier(p, b) >= OneOverPostStream) /\ processBounds
                   /\ n = Earlier(p, IF p = PostStream /\ b > p THEN p
                                     ELSE PreviousAllowedInStream(b))
                   /\ n > Later(last, Unstarted)
                   /\ r.is = "process" /\ r.ts = n /\ r.last = n
         \/ \E n : /\ ~(Earlier(p, b) >= OneOverPostStream)
                   /\ ~(~processBounds /\ b > p)
                   /\ n = Earlier(p, IF p = PostStream /\ b > p THEN p
                                     ELSE PreviousAllowedInStream(b))
                   /\ ~(processBounds /\ n > Later(last, Unstarted))
                   /\ r.is = "not" /\ r.ts = Earlier(p, b) /\ r.last = last
<1> DEFINE m == Earlier(p, b)
           n == Earlier(p, IF p = PostStream /\ b > p THEN p ELSE PreviousAllowedInStream(b))
           prev == PreviousAllowedInStream(Done)
           floor == Later(last, Unstarted)
<1>1. r = IF m >= OneOverPostStream
          THEN [is |-> "close", ts |-> Done, last |-> prev]
          ELSE IF ~processBounds /\ b > p
          THEN [is |-> "process", ts |-> m, last |-> m]
          ELSE IF processBounds /\ n > floor
          THEN [is |-> "process", ts |-> n, last |-> n]
          ELSE [is |-> "not", ts |-> m, last |-> last]
  BY Zenon DEF GetReadiness, MinPacket, MinBound
<1>2. \E k : k = n
  OBVIOUS
<1> HIDE DEF m, n, prev, floor
<1>3. \/ m >= OneOverPostStream /\ r.is = "close" /\ r.ts = Done /\ r.last = prev
      \/ /\ ~(m >= OneOverPostStream) /\ ~processBounds /\ b > p
         /\ r.is = "process" /\ r.ts = m /\ r.last = m
      \/ /\ ~(m >= OneOverPostStream) /\ processBounds /\ n > floor
         /\ r.is = "process" /\ r.ts = n /\ r.last = n
      \/ /\ ~(m >= OneOverPostStream) /\ ~(~processBounds /\ b > p)
         /\ ~(processBounds /\ n > floor)
         /\ r.is = "not" /\ r.ts = m /\ r.last = last
  BY <1>1
<1>4. QED
  BY <1>2, <1>3, Zenon DEF m, n, prev, floor

LEMMA MinSettled ==
  ASSUME TypeOK, StreamsInv, NEW ids \in SUBSET Id, \A i \in ids : IsRead(i, seen[i]),
         NEW t \in Int, t <= MinPacket(ids), t < MinBound(ids), NEW i \in ids
  PROVE  Settled(streams[i], t)
<1>1. /\ MinPacket(ids) \in PreStream .. PostStream \/ MinPacket(ids) = Done
      /\ MinBound(ids) \in PreStream .. Done
      /\ IF seen[i].empty THEN MinBound(ids) <= seen[i].ts ELSE MinPacket(ids) <= seen[i].ts
  BY SeenMin
<1> DEFINE p == MinPacket(ids)
           b == MinBound(ids)
           M == MinTimestampOrBound(streams[i])
<1>2. /\ seen[i].ts \in PreStream .. Done
      /\ seen[i].ts <= MinTimestampOrBound(streams[i])
      /\ ~seen[i].empty => /\ streams[i].queue # <<>>
                           /\ seen[i].ts = Head(streams[i].queue)
      /\ Waiting(streams[i])
  BY DEF IsRead, StreamsInv
<1>3. M \in PreStream .. Done /\ (t < M => Settled(streams[i], t))
  BY <1>2, MinFacts
<1> HIDE DEF p, b, M
<1>4. p \in Int /\ b \in Int /\ M \in Int /\ seen[i].ts \in Int
  BY <1>1, <1>2, <1>3, TimestampValues DEF p, b
<1>5. t <= p /\ t < b /\ seen[i].ts <= M
  BY <1>2 DEF p, b, M
<1>6. CASE seen[i].empty
  <2>1. b <= seen[i].ts
    BY <1>1, <1>6 DEF b
  <2>2. t < M
    BY <2>1, <1>4, <1>5
  <2>3. QED
    BY <2>2, <1>3
<1>7. CASE ~seen[i].empty
  <2>1. p <= seen[i].ts
    BY <1>1, <1>7 DEF p
  <2>2. t <= seen[i].ts
    BY <2>1, <1>4, <1>5
  <2>3. QED
    BY <2>2, <1>2, <1>7 DEF Settled
<1>8. QED
  BY <1>6, <1>7

LEMMA ReadinessFacts ==
  ASSUME TypeOK, StreamsInv, NEW ids \in SUBSET Id, \A i \in ids : IsRead(i, seen[i]),
         NEW last \in Timestamp, NEW r, r = GetReadiness(ids, last)
  PROVE  /\ r.is \in Readiness /\ r.ts \in PreStream .. Done /\ r.last \in Timestamp
         /\ r.is = "process" =>
              /\ r.ts \in PreStream .. PostStream /\ r.last = r.ts /\ ids # {}
              /\ \A i \in ids : Settled(streams[i], r.ts)
              /\ ~processBounds => \E i \in ids : /\ streams[i].queue # <<>>
                                                  /\ Head(streams[i].queue) = r.ts
              /\ processBounds => Later(last, Unstarted) < r.ts
         /\ r.is = "close" =>
              /\ r.ts = Done /\ r.last = MaxTs
              /\ \A i \in ids : streams[i].queue = <<>> /\ streams[i].bound >= OneOverPostStream
         /\ r.is = "not" =>
              /\ r.last = last /\ r.ts \in PreStream .. PostStream /\ ids # {}
              /\ \A i \in ids : r.ts <= MinTimestampOrBound(streams[i])
              /\ processBounds /\ IsRangeValue(r.ts) =>
                   \/ r.ts <= MinTs \/ r.ts <= last + 1
                   \/ \A i \in ids : r.ts < streams[i].bound
<1> DEFINE p == MinPacket(ids)
           b == MinBound(ids)
           m == Earlier(p, b)
           prev == PreviousAllowedInStream(b)
           n == Earlier(p, IF p = PostStream /\ b > p THEN p ELSE prev)
           floor == Later(last, Unstarted)
<1>1. /\ p \in PreStream .. PostStream \/ p = Done
      /\ b \in PreStream .. Done
      /\ \A i \in ids : IF seen[i].empty THEN b <= seen[i].ts ELSE p <= seen[i].ts
      /\ p # Done => \E i \in ids : ~seen[i].empty /\ p = seen[i].ts
      /\ ids = {} => p = Done /\ b = Done
  BY SeenMin
<1>2. \/ m >= OneOverPostStream /\ r.is = "close" /\ r.ts = Done
         /\ r.last = PreviousAllowedInStream(Done)
      \/ /\ ~(m >= OneOverPostStream) /\ ~processBounds /\ b > p
         /\ r.is = "process" /\ r.ts = m /\ r.last = m
      \/ /\ ~(m >= OneOverPostStream) /\ processBounds /\ n > floor
         /\ r.is = "process" /\ r.ts = n /\ r.last = n
      \/ /\ ~(m >= OneOverPostStream) /\ ~(~processBounds /\ b > p)
         /\ ~(processBounds /\ n > floor)
         /\ r.is = "not" /\ r.ts = m /\ r.last = last
  BY ReadinessCases
<1>3. \A i \in ids : /\ seen[i].ts \in PreStream .. Done
                     /\ seen[i].ts <= MinTimestampOrBound(streams[i])
                     /\ ~seen[i].empty => /\ streams[i].queue # <<>>
                                          /\ seen[i].ts = Head(streams[i].queue)
                     /\ Waiting(streams[i])
  BY DEF IsRead, StreamsInv
<1>4. \A t \in Int : t <= p /\ t < b => \A i \in ids : Settled(streams[i], t)
  BY MinSettled
<1>5. /\ prev \in Unstarted .. MaxTs /\ prev < b
      /\ b \in MinTs + 1 .. MaxTs => prev = b - 1
      /\ b > PostStream => prev = MaxTs
      /\ b \in {PreStream, MinTs, PostStream} => prev = Unstarted
  BY <1>1, PreviousValues
<1>6. PreviousAllowedInStream(Done) = MaxTs
  BY TimestampValues DEF PreviousAllowedInStream
<1>7. floor \in Int /\ floor >= Unstarted /\ (floor = last \/ floor = Unstarted)
      /\ last \in Int
  BY TimestampValues DEF Later
<1> HIDE DEF p, b, prev, floor
<1>8. p \in Int /\ b \in Int /\ prev \in Int
  BY <1>1, <1>5, TimestampValues
<1>9. m \in Int /\ m <= p /\ m <= b /\ (m = p \/ m = b) /\ m \in PreStream .. Done
      /\ (b > p => m = p) /\ (~(b > p) => m = b)
  BY <1>1, <1>8, TimestampValues DEF Earlier
<1>10. n \in Int /\ n <= p /\ (n = p \/ n = prev)
       /\ (~(p = PostStream /\ b > p) => n <= prev)
       /\ (p = PostStream /\ b > p => n = p)
  BY <1>1, <1>8, TimestampValues DEF Earlier
<1> HIDE DEF m, n
<1>11. \A i \in ids : /\ MinTimestampOrBound(streams[i]) \in PreStream .. Done
                      /\ streams[i].queue # <<>> =>
                           MinTimestampOrBound(streams[i]) \in PreStream .. PostStream
                      /\ streams[i].queue = <<>> =>
                           MinTimestampOrBound(streams[i]) = streams[i].bound
                      /\ MinTimestampOrBound(streams[i]) <= streams[i].bound
                      /\ streams[i].bound \in PreStream .. Done
  BY <1>3, MinFacts, StreamFacts
<1>12. ASSUME NEW i \in ids PROVE m <= MinTimestampOrBound(streams[i])
  <2>1. m <= seen[i].ts
    BY <1>1, <1>3, <1>8, <1>9, TimestampValues
  <2>2. QED
    BY <2>1, <1>3, <1>9, <1>11, TimestampValues
<1>13. CASE r.is = "close"
  <2>1. m >= OneOverPostStream /\ r.ts = Done /\ r.last = MaxTs
    BY <1>2, <1>6, <1>13
  <2>2. ASSUME NEW i \in ids
        PROVE  streams[i].queue = <<>> /\ streams[i].bound >= OneOverPostStream
    <3> DEFINE M == MinTimestampOrBound(streams[i])
    <3>1. m <= M /\ M \in PreStream .. Done
      BY <1>11, <1>12
    <3>2. M \in PreStream .. PostStream \/ streams[i].queue = <<>>
      BY <1>11
    <3>3. streams[i].queue = <<>> => M = streams[i].bound
      BY <1>11
    <3> HIDE DEF M
    <3>4. M >= OneOverPostStream
      BY <2>1, <3>1, <1>9, TimestampValues
    <3>5. QED
      BY <3>2, <3>3, <3>4, TimestampValues
  <2>3. Done \in PreStream .. Done /\ MaxTs \in Timestamp
    BY TimestampValues
  <2>4. QED
    BY <2>1, <2>2, <2>3, <1>13 DEF Readiness
<1>14. CASE r.is = "process" /\ ~processBounds
  <2>1. b > p /\ ~(m >= OneOverPostStream) /\ r.ts = p /\ r.last = p
    BY <1>2, <1>9, <1>14
  <2>2. p # Done /\ p \in PreStream .. PostStream
    BY <2>1, <1>1, <1>8, TimestampValues
  <2>3. ids # {}
    BY <2>2, <1>1
  <2>4. \A i \in ids : Settled(streams[i], p)
    BY <2>1, <1>4, <1>8
  <2>5. \E i \in ids : streams[i].queue # <<>> /\ Head(streams[i].queue) = p
    BY <2>2, <1>1, <1>3
  <2>6. p \in PreStream .. Done /\ p \in Timestamp
    BY <2>2, TimestampValues
  <2>7. QED
    BY <2>1, <2>2, <2>3, <2>4, <2>5, <2>6, <1>14 DEF Readiness
<1>15. CASE r.is = "process" /\ processBounds
  <2>1. n > floor /\ ~(m >= OneOverPostStream) /\ r.ts = n /\ r.last = n
    BY <1>2, <1>15
  <2>2. n <= p /\ n < b
    BY <1>5, <1>8, <1>10, TimestampValues
  <2>3. n \in PreStream .. PostStream
    <3>1. n >= PreStream
      BY <2>1, <1>7, <1>10, TimestampValues
    <3>2. n <= PostStream
      BY <1>1, <1>5, <1>10, TimestampValues
    <3>3. QED
      BY <3>1, <3>2, <1>10, TimestampValues
  <2>4. ids # {}
    <3> SUFFICES ASSUME ids = {} PROVE FALSE
      OBVIOUS
    <3>1. p = Done /\ b = Done
      BY <1>1
    <3>2. QED
      BY <3>1, <2>1, <1>8, <1>9, TimestampValues
  <2>5. \A i \in ids : Settled(streams[i], n)
    BY <2>2, <1>4, <1>10
  <2>6. n \in PreStream .. Done /\ n \in Timestamp
    BY <2>3, TimestampValues
  <2>7. floor < n
    BY <2>1, <1>7, <1>10
  <2>8. QED
    BY <2>1, <2>3, <2>4, <2>5, <2>6, <2>7, <1>15 DEF Readiness, floor
<1>16. CASE r.is = "not"
  <2>1. /\ ~(m >= OneOverPostStream) /\ ~(~processBounds /\ b > p)
        /\ ~(processBounds /\ n > floor) /\ r.ts = m /\ r.last = last
    BY <1>2, <1>16
  <2>2. m \in PreStream .. PostStream
    BY <2>1, <1>9, TimestampValues
  <2>3. ids # {}
    <3> SUFFICES ASSUME ids = {} PROVE FALSE
      OBVIOUS
    <3>1. p = Done /\ b = Done
      BY <1>1
    <3>2. QED
      BY <3>1, <2>1, <1>8, <1>9, TimestampValues
  <2>4. ASSUME processBounds, IsRangeValue(m)
        PROVE  m <= MinTs \/ m <= last + 1 \/ \A i \in ids : m < streams[i].bound
    <3>1. CASE b > p
      <4>1. ASSUME NEW i \in ids PROVE m < streams[i].bound
        <5>1. m = p /\ m < b
          BY <3>1, <1>8, <1>9
        <5>2. Settled(streams[i], m)
          BY <5>1, <1>4, <1>9
        <5>3. QED
          BY <5>2, <1>3, <1>9, MinFacts
      <4>2. QED
        BY <4>1
    <3>2. CASE ~(b > p)
      <4>1. m = b /\ n <= prev /\ n <= floor
        BY <3>2, <2>1, <2>4, <1>7, <1>9, <1>10
      <4>2. n = prev
        BY <4>1, <3>2, <1>5, <1>8, <1>10
      <4>3. m \in MinTs .. MaxTs
        BY <2>4, <1>9, TimestampValues DEF IsRangeValue
      <4>4. CASE m = MinTs
        BY <4>4, TimestampValues
      <4>5. CASE m # MinTs
        <5>1. b \in MinTs + 1 .. MaxTs /\ prev = b - 1
          BY <4>1, <4>3, <4>5, <1>5, TimestampValues
        <5>2. floor # Unstarted
          BY <5>1, <4>1, <4>2, TimestampValues
        <5>3. QED
          BY <5>1, <5>2, <4>1, <4>2, <1>7, TimestampValues
      <4>6. QED
        BY <4>4, <4>5
    <3>3. QED
      BY <3>1, <3>2
  <2>5. m \in PreStream .. Done
    BY <1>9
  <2>6. QED
    BY <2>1, <2>2, <2>3, <2>4, <2>5, <1>12, <1>16 DEF Readiness
<1>17. QED
  BY <1>2, <1>13, <1>14, <1>15, <1>16

\* A set that is not ready has nothing to do, when nothing has come since the
\* streams have been read.
LEMMA ReadExactly ==
  ASSUME TypeOK, StreamsInv, NEW ids \in SUBSET Id, \A i \in ids : IsRead(i, seen[i]),
         ~notified, policy # "TimestampAlign"
  PROVE  MinPacket(ids) = Earliest(PacketsOf(ids)) /\ MinBound(ids) = Earliest(BoundsOf(ids))
<1>1. \A i \in ids : /\ seen[i].empty = (streams[i].queue = <<>>)
                     /\ seen[i].ts = At(i)
  BY DEF IsRead, At
<1>2. {seen[i].ts : i \in {j \in ids : ~seen[j].empty}} = PacketsOf(ids)
  BY <1>1 DEF PacketsOf
<1>3. {seen[i].ts : i \in {j \in ids : seen[j].empty}} = BoundsOf(ids)
  BY <1>1 DEF BoundsOf
<1>4. QED
  BY <1>2, <1>3 DEF MinPacket, MinBound

LEMMA NotReady ==
  ASSUME TypeOK, StreamsInv, NEW ids \in SUBSET Id, \A i \in ids : IsRead(i, seen[i]),
         ~notified, policy # "TimestampAlign",
         NEW last \in Timestamp, GetReadiness(ids, last).is = "not",
         processBounds => \A i \in ids : Later(last, Unstarted) < MinTimestampOrBound(streams[i])
  PROVE  ~Due(ids)
<1> DEFINE p == MinPacket(ids)
           b == MinBound(ids)
           m == Earlier(p, b)
           prev == PreviousAllowedInStream(b)
           n == Earlier(p, IF p = PostStream /\ b > p THEN p ELSE prev)
           floor == Later(last, Unstarted)
           r == GetReadiness(ids, last)
<1>1. /\ p \in PreStream .. PostStream \/ p = Done
      /\ b \in PreStream .. Done
      /\ \A i \in ids : IF seen[i].empty THEN b <= seen[i].ts ELSE p <= seen[i].ts
      /\ p # Done => \E i \in ids : ~seen[i].empty /\ p = seen[i].ts
      /\ b # Done => \E i \in ids : seen[i].empty /\ b = seen[i].ts
      /\ ids = {} => p = Done /\ b = Done
  BY SeenMin
<1>2. ~(m >= OneOverPostStream) /\ ~(~processBounds /\ b > p)
      /\ ~(processBounds /\ n > floor)
  BY ReadinessCases
<1>3. Due(ids) <=> \/ p < b /\ ~(processBounds /\ b \in {MinTs, PostStream})
                   \/ \A i \in ids : IsDone(streams[i])
  BY ReadExactly, DueMeans
<1>4. /\ prev \in Unstarted .. MaxTs /\ prev < b
      /\ b \in MinTs + 1 .. MaxTs => prev = b - 1
      /\ b > PostStream => prev = MaxTs
      /\ b \in {PreStream, MinTs, PostStream} => prev = Unstarted
  BY <1>1, PreviousValues
<1>5. floor \in Int
  BY TimestampValues DEF Later
<1>6. \A i \in ids : /\ seen[i].ts = MinTimestampOrBound(streams[i])
                     /\ seen[i].ts \in PreStream .. Done
  BY DEF IsRead
<1>7. processBounds => p = Done \/ floor < p
  BY <1>1, <1>6
<1>8. ids # {} /\ ~ \A i \in ids : IsDone(streams[i])
  <2> DEFINE mm == m
  <2>1. m < OneOverPostStream /\ (m = p \/ m = b) /\ m \in Int
    BY <1>1, <1>2, TimestampValues DEF Earlier
  <2> HIDE DEF m, p, b
  <2>2. ids # {}
    BY <2>1, <1>1, TimestampValues
  <2>3. \E i \in ids : seen[i].ts = m
    BY <2>1, <1>1, TimestampValues
  <2>4. \A i \in ids : IsDone(streams[i]) => MinTimestampOrBound(streams[i]) = Done
    BY DEF IsDone, MinTimestampOrBound
  <2>5. QED
    BY <2>1, <2>2, <2>3, <2>4, <1>6, TimestampValues
<1> HIDE DEF p, b, prev, floor
<1>9. p \in Int /\ b \in Int /\ prev \in Int
  BY <1>1, <1>4, TimestampValues
<1>10. n \in Int /\ (n = p \/ n = prev) /\ n <= p
       /\ (~(p = PostStream /\ b > p) => n <= prev)
       /\ (p = PostStream /\ b > p => n = p)
  BY <1>9 DEF Earlier
<1> HIDE DEF m, n
<1>11. ASSUME p < b, processBounds, b \notin {MinTs, PostStream} PROVE FALSE
  <2>1. n <= floor /\ p # Done /\ floor < p
    BY <1>1, <1>2, <1>5, <1>7, <1>9, <1>10, <1>11, TimestampValues
  <2>2. n < p /\ n = prev /\ prev < p /\ p # PostStream
    BY <2>1, <1>5, <1>9, <1>10, <1>11
  <2>3. p \in PreStream .. MaxTs
    BY <2>1, <2>2, <1>1, TimestampValues
  <2>4. b # PreStream
    BY <2>3, <1>9, <1>11, TimestampValues
  <2>5. CASE b > PostStream
    BY <2>2, <2>3, <2>5, <1>4, TimestampValues
  <2>6. CASE b \in MinTs + 1 .. MaxTs
    BY <2>2, <2>3, <2>6, <1>4, <1>11, TimestampValues
  <2>7. QED
    BY <2>4, <2>5, <2>6, <1>1, <1>11, TimestampValues
<1>12. QED
  BY <1>2, <1>3, <1>8, <1>9, <1>11

-----------------------------------------------------------------------------
\* What every decision does.

\* The sets of a run at its start.
LEMMA FreshFacts ==
  /\ FreshSets \in Seq([ids : SUBSET Id, last : Timestamp])
  /\ policy = "Immediate" => /\ Len(FreshSets) = NumStreams
                             /\ \A k \in Id : FreshSets[k].ids = {k}
  /\ policy = "SyncSet" => /\ Len(FreshSets) = 2
                           /\ FreshSets[1].ids = {1} /\ FreshSets[2].ids = Id \ {1}
  /\ policy \notin {"Immediate", "SyncSet"} => /\ Len(FreshSets) = 1
                                              /\ FreshSets[1].ids = Id
  /\ \A k \in 1 .. Len(FreshSets) : FreshSets[k].last = Unset
<1> DEFINE ids(k) == IF policy = "Immediate" THEN {k}
                     ELSE IF policy = "SyncSet" THEN IF k = 1 THEN {1} ELSE Id \ {1}
                     ELSE Id
           n == IF policy = "Immediate" THEN NumStreams
                ELSE IF policy = "SyncSet" THEN 2 ELSE 1
           x(k) == [ids |-> ids(k), last |-> Unset]
           partition == IF policy = "Immediate" THEN [i \in Id |-> {i}]
                        ELSE IF policy = "SyncSet" THEN <<{1}, Id \ {1}>>
                        ELSE <<Id>>
<1>1. n \in Nat /\ NumStreams \in Nat /\ Id = 1 .. NumStreams /\ 1 \in Id
  BY IdFacts
<1>2. DOMAIN partition = 1 .. n /\ \A k \in 1 .. n : partition[k] = ids(k)
  <2>1. CASE policy = "Immediate"
    BY <2>1, <1>1
  <2>2. CASE policy = "SyncSet"
    BY <2>2
  <2>3. CASE policy \notin {"Immediate", "SyncSet"}
    <3>1. partition = <<Id>> /\ n = 1 /\ ids(1) = Id
      BY <2>3
    <3> HIDE DEF partition, n, ids
    <3>2. DOMAIN <<Id>> = 1 .. 1 /\ <<Id>>[1] = Id
      OBVIOUS
    <3>3. QED
      BY <3>1, <3>2
  <2>4. QED
    BY <2>1, <2>2, <2>3
<1>3. FreshSets = [k \in DOMAIN partition |-> [ids |-> partition[k], last |-> Unset]]
  BY DEF FreshSets
<1> HIDE DEF partition
<1>4. FreshSets = [k \in 1 .. n |-> x(k)]
  BY <1>2, <1>3
<1>5. \A k \in 1 .. n : x(k) \in [ids : SUBSET Id, last : Timestamp]
  <2>1. Unset \in Timestamp
    BY TimestampValues
  <2>2. ASSUME NEW k \in 1 .. n PROVE ids(k) \subseteq Id
    BY <1>1
  <2> HIDE DEF ids
  <2>3. QED
    BY <2>1, <2>2
<1>6. \A k \in 1 .. n : x(k).ids = ids(k) /\ x(k).last = Unset
  OBVIOUS
<1> DEFINE R == [ids : SUBSET Id, last : Timestamp]
<1>7. \A k \in 1 .. n : x(k) \in R
  BY <1>5
<1> HIDE DEF n, x, R
<1>8. FreshSets \in Seq(R) /\ Len(FreshSets) = n
      /\ \A k \in 1 .. n : FreshSets[k] = x(k)
  BY <1>1, <1>4, <1>7
<1>9. FreshSets \in Seq([ids : SUBSET Id, last : Timestamp])
  BY <1>8 DEF R
<1>10. \A k \in 1 .. n : FreshSets[k].ids = ids(k) /\ FreshSets[k].last = Unset
  BY <1>6, <1>8
<1>11. CASE policy = "Immediate"
  BY <1>1, <1>8, <1>9, <1>10, <1>11 DEF n
<1>12. CASE policy = "SyncSet"
  <2>1. n = 2 /\ ids(1) = {1} /\ ids(2) = Id \ {1}
    BY <1>12 DEF n
  <2> HIDE DEF ids
  <2>2. QED
    BY <1>8, <1>9, <1>10, <1>12, <2>1
<1>13. CASE policy \notin {"Immediate", "SyncSet"}
  <2>1. n = 1 /\ ids(1) = Id
    BY <1>13 DEF n
  <2> HIDE DEF ids
  <2>2. QED
    BY <1>8, <1>9, <1>10, <1>13, <2>1
<1>14. QED
  BY <1>11, <1>12, <1>13

LEMMA ClosedGrows ==
  ASSUME NEW s, Waiting(s)
  PROVE  MinTimestampOrBound(s) <= MinTimestampOrBound(CloseStream(s))
<1>1. /\ MinTimestampOrBound(s) \in PreStream .. Done
      /\ s.queue # <<>> => MinTimestampOrBound(s) = Head(s.queue)
  BY MinFacts
<1>2. CloseStream(s).queue = s.queue /\ CloseStream(s).bound = Done
  BY DEF CloseStream, Waiting, Stream
<1>3. QED
  BY <1>1, <1>2, TimestampValues DEF MinTimestampOrBound

LEMMA Concluded ==
  ASSUME IInv, pc \in {"decide", "select"}, NEW is, NEW ts \in Timestamp,
         Conclude(is, ts),
         sets' \in Seq([ids : SUBSET Id, last : Timestamp]), Len(sets') = Len(sets),
         \A k \in 1 .. Len(sets) : \/ sets'[k].ids = sets[k].ids
                                   \/ policy = "SyncSet" /\ sets'[k].ids = {},
         ready' \in [Id -> Timestamp], offsets' \in [Id -> -Latest .. Latest],
         aligned' \in BOOLEAN,
         FixedSize /\ is = "process" =>
           /\ ts \in PreStream .. PostStream
           /\ \A i \in Id : Settled(streams[i], ts)
           /\ \E j \in Id : streams[j].queue # <<>> /\ Head(streams[j].queue) = ts
           /\ policy = "FixedSize" => kept <= ts
           /\ inputBound <= ts
  PROVE  TypeOK' /\ StreamsInv' /\ StageInv' /\ SeenInv' /\ ErasedInv' /\ AheadInv'
<1> USE DEF IInv
<1>1. /\ is \in Readiness
      /\ pc' = IF is = "not" THEN "idle"
               ELSE IF is = "close" THEN "closed"
               ELSE IF FixedSize THEN "refill" ELSE "fill"
      /\ inputBound' = IF is = "not" /\ IsRangeValue(ts) THEN ts ELSE inputBound
      /\ inputTs' = IF is = "process" THEN ts ELSE Unset
      /\ streams' = IF is = "close" THEN [i \in Id |-> CloseStream(streams[i])]
                    ELSE streams
      /\ seen' = <<>>
      /\ policy' = policy /\ processBounds' = processBounds /\ choice' = choice
      /\ promised' = promised /\ notified' = notified /\ filled' = filled
      /\ kept' = kept /\ erased' = erased /\ owed' = owed /\ failed' = failed
  BY DEF Conclude, config
<1>2. filled = 0 /\ NumStreams \in Nat /\ NumStreams >= 2
  BY IdFacts DEF StageInv
<1>3. \A i \in Id : Waiting(streams[i])
  BY DEF StreamsInv
<1>4. is = "not" \/ is = "close" \/ is = "process"
  BY <1>1 DEF Readiness
<1>5. ASSUME NEW i \in Id
      PROVE  /\ Waiting(streams'[i]) /\ streams'[i].closed = (pc' = "closed")
             /\ MinTimestampOrBound(streams[i]) <= MinTimestampOrBound(streams'[i])
             /\ pc' # "closed" => streams'[i] = streams[i]
  <2>1. CASE is = "close"
    <3>1. streams'[i] = CloseStream(streams[i]) /\ pc' = "closed"
      BY <2>1, <1>1
    <3>2. Waiting(CloseStream(streams[i])) /\ CloseStream(streams[i]).closed = TRUE
      BY <1>3, ClosedWaits, StreamFacts
    <3>3. QED
      BY <3>1, <3>2, <1>3, ClosedGrows
  <2>2. CASE is # "close"
    <3>1. streams'[i] = streams[i] /\ pc' # "closed" /\ pc # "closed"
      BY <2>2, <1>1
    <3>2. streams[i].closed = (pc = "closed")
      BY DEF StreamsInv
    <3>3. MinTimestampOrBound(streams[i]) <= MinTimestampOrBound(streams[i])
      BY <1>3, MinFacts, TimestampValues
    <3>4. QED
      BY <3>1, <3>2, <3>3, <1>3
  <2>3. QED
    BY <2>1, <2>2
<1>6. TypeOK'
  <2>1. streams' \in [Id -> Stream]
    <3>1. \A i \in Id : streams'[i] \in Stream
      BY <1>5 DEF Waiting
    <3>2. streams' = [i \in Id |-> streams'[i]]
      BY <1>1 DEF TypeOK
    <3>3. QED
      BY <3>1, <3>2
  <2>2. inputTs' \in Timestamp /\ inputBound' \in Timestamp
    <3>1. inputBound \in Timestamp /\ Unset \in Timestamp
      BY TimestampValues DEF TypeOK
    <3>2. QED
      BY <1>1, <3>1
  <2>3. seen' \in Seq([ts : Timestamp, empty : BOOLEAN]) /\ Len(seen') <= NumStreams
    BY <1>1, <1>2
  <2>4. pc' \in {"idle", "closed", "refill", "fill"}
    BY <1>1
  <2>5. QED
    BY <1>1, <2>1, <2>2, <2>3, <2>4 DEF TypeOK
<1>7. StreamsInv'
  <2>1. ASSUME NEW i \in Id, pc' # "closed"
        PROVE  /\ streams'[i].bound = promised'[i] \/ Overtaken(i)'
               /\ streams'[i].selected < MinTimestampOrBound(streams'[i])
    <3>1. pc # "closed" /\ streams'[i] = streams[i]
      BY <2>1, <1>1, <1>5
    <3>2. Overtaken(i) => Overtaken(i)'
      BY <3>1, <1>1 DEF Overtaken
    <3>3. QED
      BY <3>1, <3>2, <1>1 DEF StreamsInv
  <2>2. QED
    BY <2>1, <1>5 DEF StreamsInv
<1>8. StageInv'
  <2>1. FreshSets' = FreshSets /\ FixedSize' = FixedSize
    BY <1>1 DEF FreshSets, FixedSize
  <2>2. \A k \in 1 .. Len(sets) : sets'[k].ids = FreshSets[k].ids
                                  \/ (policy = "SyncSet" /\ sets'[k].ids = {})
    BY DEF StageInv
  <2>3. pc' \in {"idle", "closed", "refill", "fill"} /\ (pc' = "refill" => FixedSize)
    BY <1>1
  <2>4. failed' \in {"none", "special", "torn"}
        /\ (failed' # "none" => policy' \in {"TimestampAlign", "Mux"})
        /\ (policy' \notin {"Default", "Immediate", "SyncSet"} => ~processBounds')
        /\ (policy' = "Mux" => choice' \in [PreStream .. PostStream -> Data])
        /\ Len(sets') = Len(FreshSets')
    BY <1>1, <2>1 DEF StageInv
  <2>5. filled' = 0 /\ filled' < NumStreams
    BY <1>1, <1>2
  <2>6. \A k \in 1 .. Len(sets') : sets'[k].ids = FreshSets'[k].ids
                                   \/ (policy' = "SyncSet" /\ sets'[k].ids = {})
    BY <2>1, <2>2, <1>1
  <2>7. QED
    BY <2>1, <2>3, <2>4, <2>5, <2>6 DEF StageInv
<1>9. SeenInv'
  <2>1. pc' \in {"idle", "closed", "refill", "fill"}
    BY <1>1
  <2>2. QED
    BY <2>1 DEF SeenInv
<1>10. ErasedInv'
  <2>1. FixedSize' = FixedSize
    BY <1>1 DEF FixedSize
  <2>2. pc' # "process" /\ (FixedSize => pc' # "fill")
    BY <1>1
  <2>3. ASSUME NEW e \in erased, NEW i \in Id, e < MinTimestampOrBound(streams[i])
        PROVE  e < MinTimestampOrBound(streams'[i])
    <3>1. MinTimestampOrBound(streams[i]) <= MinTimestampOrBound(streams'[i])
      BY <1>5
    <3>2. /\ MinTimestampOrBound(streams[i]) \in PreStream .. Done
          /\ MinTimestampOrBound(streams'[i]) \in PreStream .. Done
      BY <1>3, <1>5, MinFacts
    <3>3. e \in PreStream .. PostStream
      BY DEF TypeOK
    <3>4. QED
      BY <2>3, <3>1, <3>2, <3>3, TimestampValues
  <2>4. \A e \in erased' : \/ e < kept'
                           \/ \A i \in Id : e < MinTimestampOrBound(streams'[i])
    BY <2>3, <1>1 DEF ErasedInv
  <2>5. pc' = "refill" => FixedSize /\ is = "process" /\ inputTs' = ts /\ streams' = streams
    <3> SUFFICES ASSUME pc' = "refill"
                 PROVE  FixedSize /\ is = "process" /\ inputTs' = ts /\ streams' = streams
      OBVIOUS
    <3>1. is = "process" /\ FixedSize
      BY <1>1, <1>4
    <3>2. QED
      BY <1>1, <3>1
  <2>6. pc' = "refill" =>
          /\ inputTs' \in PreStream .. PostStream
          /\ \A i \in Id : Settled(streams'[i], inputTs')
          /\ \E j \in Id : streams'[j].queue # <<>> /\ Head(streams'[j].queue) = inputTs'
          /\ policy = "FixedSize" => kept' <= inputTs'
    BY <2>5, <1>1
  <2>7. QED
    BY <2>1, <2>2, <2>4, <2>6, <1>1 DEF ErasedInv
<1>11. AheadInv'
  <2>1. pc' \in {"idle", "closed", "refill", "fill"}
    BY <1>1
  <2>2. pc' = "refill" => FixedSize /\ is = "process"
    BY <1>1, <1>4
  <2>3. pc' = "refill" => inputBound' <= inputTs'
    BY <1>1, <2>2
  <2>4. QED
    BY <2>1, <2>3 DEF AheadInv
<1>12. QED
  BY <1>6, <1>7, <1>8, <1>9, <1>10, <1>11

\* The node is closed.
LEMMA Closing ==
  ASSUME NEW ts, Conclude("close", ts), offsets'[Base] = 0
  PROVE  /\ FillInv' /\ TogetherInv' /\ LastInv' /\ BoundInv' /\ AlignInv' /\ MuxInv'
         /\ NothingForgotten'
<1>1. pc' = "closed"
  BY DEF Conclude
<1>2. QED
  BY <1>1 DEF FillInv, TogetherInv, LastInv, BoundInv, AlignInv, MuxInv, NothingForgotten

LEMMA ConcludedTogether ==
  ASSUME IInv, pc \in {"decide", "select"}, NEW is, NEW ts, Conclude(is, ts),
         policy = "SyncSet" /\ is = "process" =>
           \A i, j \in Id : Together(i, j) => (ready'[i] = ts <=> ready'[j] = ts)
  PROVE  TogetherInv'
<1> USE DEF IInv
<1>1. /\ pc' = IF is = "not" THEN "idle"
               ELSE IF is = "close" THEN "closed"
               ELSE IF FixedSize THEN "refill" ELSE "fill"
      /\ inputTs' = IF is = "process" THEN ts ELSE Unset
      /\ streams' = IF is = "close" THEN [i \in Id |-> CloseStream(streams[i])]
                    ELSE streams
      /\ policy' = policy /\ filled' = filled /\ is \in Readiness
  BY DEF Conclude, config
<1> SUFFICES ASSUME pc' # "closed", NEW i \in Id, NEW j \in Id, Together(i, j)'
             PROVE  /\ \/ streams'[i].selected = streams'[j].selected
                       \/ Between(i, j)' \/ Between(j, i)'
                    /\ pc' = "fill" /\ filled' < i /\ Wanted(i)' =>
                         IF filled' < j THEN Wanted(j)'
                         ELSE streams'[j].selected = inputTs'
  BY DEF TogetherInv
<1>2. Together(i, j) /\ streams' = streams
  BY <1>1 DEF Together
<1>3. streams'[i].selected = streams'[j].selected
  BY <1>2 DEF TogetherInv, Between
<1>4. filled' = 0 /\ 0 < i /\ 0 < j
  BY <1>1, IdFacts DEF StageInv
<1>5. ASSUME pc' = "fill", Wanted(i)' PROVE Wanted(j)'
  <2>1. is = "process" /\ inputTs' = ts
    BY <1>1, <1>5 DEF Readiness
  <2>2. CASE policy = "SyncSet"
    <3>1. Wanted(i)' = (ready'[i] = ts) /\ Wanted(j)' = (ready'[j] = ts)
      BY <2>1, <2>2, <1>1 DEF Wanted
    <3>2. QED
      BY <3>1, <2>1, <2>2, <1>2, <1>5
  <2>3. CASE policy # "SyncSet"
    <3>1. policy \in {"Default", "EarlyClose", "FixedSize", "FixedMinSize"}
      BY <2>3, <1>2 DEF Together
    <3>2. QED
      BY <3>1, <1>1 DEF Wanted
  <2>4. QED
    BY <2>2, <2>3
<1>6. QED
  BY <1>3, <1>4, <1>5

\* The input set that is filled next.
LEMMA ConcludedFill ==
  ASSUME IInv, pc \in {"decide", "select"}, NEW is, NEW ts, Conclude(is, ts),
         policy \notin {"Barrier", "TimestampAlign"},
         is = "process" =>
           /\ ts \in PreStream .. PostStream
           /\ FixedSize \/ \A i \in Id : Wanted(i)' =>
                             Settled(streams[i], ts) /\ streams[i].selected < ts
  PROVE  FillInv'
<1>1. /\ pc' = IF is = "not" THEN "idle"
               ELSE IF is = "close" THEN "closed"
               ELSE IF FixedSize THEN "refill" ELSE "fill"
      /\ inputTs' = IF is = "process" THEN ts ELSE Unset
      /\ streams' = IF is = "close" THEN [i \in Id |-> CloseStream(streams[i])]
                    ELSE streams
      /\ policy' = policy /\ filled' = filled /\ is \in Readiness
  BY DEF Conclude, config
<1> SUFFICES ASSUME pc' = "fill" PROVE FillInv'
  BY DEF FillInv
<1>2. is = "process" /\ ~FixedSize /\ inputTs' = ts /\ streams' = streams
  BY <1>1 DEF Readiness
<1>3. ts \in PreStream .. OneOverPostStream /\ IsAllowedInStream(ts)
  BY <1>2, TimestampValues DEF IsAllowedInStream
<1>4. filled' + 1 .. NumStreams \subseteq Id
  BY <1>1, IdFacts DEF IInv, StageInv
<1>5. QED
  BY <1>1, <1>2, <1>3, <1>4 DEF FillInv

LEMMA ConcludedElsewhere ==
  ASSUME IInv, pc \in {"decide", "select"}, NEW is, NEW ts, Conclude(is, ts),
         policy \notin {"TimestampAlign", "Mux"}, offsets' = offsets
  PROVE  AlignInv' /\ MuxInv'
<1>1. policy' = policy
  BY DEF Conclude, config
<1>2. QED
  BY <1>1 DEF IInv, AlignInv, MuxInv

-----------------------------------------------------------------------------
\* The default handler and those of fixed size.

LEMMA DecideFacts ==
  ASSUME IInv, pc = "decide"
  PROVE  /\ Len(seen) = NumStreams /\ filled = 0
         /\ \A i \in Id : /\ IsRead(i, seen[i])
                          /\ Waiting(streams[i])
                          /\ streams[i].selected < MinTimestampOrBound(streams[i])
                          /\ MinTimestampOrBound(streams[i]) \in PreStream .. Done
                          /\ streams[i].selected \in Unstarted .. Done
<1>1. Len(seen) = NumStreams /\ filled = 0
  BY DEF IInv, StageInv
<1>2. \A i \in Id : IsRead(i, seen[i])
  BY <1>1, IdFacts DEF IInv, SeenInv
<1>3. \A i \in Id : Waiting(streams[i])
                    /\ streams[i].selected < MinTimestampOrBound(streams[i])
  BY DEF IInv, StreamsInv
<1>4. QED
  BY <1>1, <1>2, <1>3, MinFacts, StreamFacts

\* A node that is not ready has nothing due while its streams stay as they are.
LEMMA StillNotDue ==
  ASSUME NEW ids \in SUBSET Id, ~Due(ids), streams' = streams, policy' = policy,
         processBounds' = processBounds, offsets' = offsets
  PROVE  ~(Due(ids)')
<1>1. \A i \in ids : /\ (streams'[i].queue = <<>>) <=> (streams[i].queue = <<>>)
                     /\ MinTimestampOrBound(streams'[i]) = MinTimestampOrBound(streams[i])
  BY DEF MinTimestampOrBound
<1>2. Due(ids)' <=> Due(ids)
  BY <1>1, SameDue
<1>3. QED
  BY <1>2

\* The effect on a record of a sequence.
LEMMA LastSet ==
  ASSUME TypeOK, NEW last \in Timestamp, NEW k \in 1 .. Len(sets),
         sets' = [sets EXCEPT ![k].last = last]
  PROVE  /\ sets' \in Seq([ids : SUBSET Id, last : Timestamp]) /\ Len(sets') = Len(sets)
         /\ \A j \in 1 .. Len(sets) : sets'[j].ids = sets[j].ids
         /\ sets'[k].last = last
<1> DEFINE R == [ids : SUBSET Id, last : Timestamp]
           x == [sets[k] EXCEPT !.last = last]
<1>1. sets \in Seq(R) /\ DOMAIN sets = 1 .. Len(sets)
  BY SetFacts DEF TypeOK
<1>2. \A j \in 1 .. Len(sets) : sets[j] \in R
  <2> HIDE DEF R
  <2>1. QED
    BY <1>1, ElementOfSeq
<1>3. x \in R /\ x.ids = sets[k].ids /\ x.last = last
  BY <1>2
<1>4. sets' = [sets EXCEPT ![k] = x]
  OBVIOUS
<1> HIDE DEF R, x
<1>5. sets' \in Seq(R) /\ Len(sets') = Len(sets)
  BY <1>1, <1>3, <1>4, ExceptSeq
<1>6. sets'[k] = x /\ \A j \in 1 .. Len(sets) : j # k => sets'[j] = sets[j]
  BY <1>1, <1>4
<1>7. QED
  BY <1>3, <1>5, <1>6 DEF R

\* No input set is behind the bound that has been reported.
LEMMA ReadyAhead ==
  ASSUME TypeOK, StreamsInv, NEW ids \in SUBSET Id, \A i \in ids : IsRead(i, seen[i]),
         inputBound = Unset \/ IsRangeValue(inputBound),
         \A i \in ids : inputBound <= seen[i].ts,
         NEW last \in Timestamp,
         processBounds => \A i \in ids :
           \/ inputBound <= MinTs \/ inputBound <= last + 1
           \/ seen[i].empty => inputBound < seen[i].ts,
         NEW r, r = GetReadiness(ids, last), r.is = "process"
  PROVE  inputBound <= r.ts
<1> DEFINE p == MinPacket(ids)
           b == MinBound(ids)
           prev == PreviousAllowedInStream(b)
           floor == Later(last, Unstarted)
<1>1. \/ ~processBounds /\ b > p /\ r.ts = Earlier(p, b)
      \/ \E n : /\ processBounds /\ n > floor /\ r.ts = n
                /\ n = Earlier(p, IF p = PostStream /\ b > p THEN p ELSE prev)
  <2>1. \/ r.is = "close"
        \/ ~processBounds /\ b > p /\ r.ts = Earlier(p, b)
        \/ \E n : /\ processBounds /\ n > floor /\ r.ts = n
                  /\ n = Earlier(p, IF p = PostStream /\ b > p THEN p ELSE prev)
        \/ r.is = "not"
    BY ReadinessCases
  <2>2. QED
    BY <2>1
<1>2. /\ p \in PreStream .. PostStream \/ p = Done
      /\ b \in PreStream .. Done
      /\ p # Done => \E i \in ids : ~seen[i].empty /\ p = seen[i].ts
      /\ b # Done => \E i \in ids : seen[i].empty /\ b = seen[i].ts
  BY SeenMin
<1>3. inputBound \in Timestamp /\ inputBound \in Int
      /\ (inputBound = Unset \/ inputBound \in MinTs .. MaxTs)
  BY TimestampValues DEF TypeOK, IsRangeValue
<1>4. /\ prev \in Unstarted .. MaxTs
      /\ b \in MinTs + 1 .. MaxTs => prev = b - 1
      /\ b > PostStream => prev = MaxTs
      /\ b \in {PreStream, MinTs, PostStream} => prev = Unstarted
  BY <1>2, PreviousValues
<1>5. floor \in Int /\ last \in Int /\ floor >= last /\ floor >= Unstarted
  BY TimestampValues DEF Later
<1>6. processBounds => \/ inputBound <= MinTs \/ inputBound <= last + 1
                       \/ b = Done \/ inputBound < b
  BY <1>2
<1>7. p # Done => inputBound <= p
  BY <1>2
<1> HIDE DEF p, b, prev, floor
<1>8. p \in Int /\ b \in Int /\ prev \in Int
  BY <1>2, <1>4, TimestampValues
<1>9. CASE ~processBounds
  <2>1. b > p /\ r.ts = p
    BY <1>1, <1>8, <1>9 DEF Earlier
  <2>2. p # Done
    BY <2>1, <1>2, <1>8, TimestampValues
  <2>3. QED
    BY <2>1, <2>2, <1>7
<1>10. CASE processBounds
  <2>1. PICK n : /\ n > floor /\ r.ts = n
                 /\ n = Earlier(p, IF p = PostStream /\ b > p THEN p ELSE prev)
    BY <1>1, <1>10
  <2>2. n \in Int /\ (n = p \/ n = prev)
    BY <2>1, <1>8 DEF Earlier
  <2>3. CASE n = p /\ p # Done
    BY <2>1, <2>3, <1>7
  <2>4. CASE n = p /\ p = Done
    BY <2>1, <2>2, <2>4, <1>3, TimestampValues
  <2>5. CASE n = prev
    <3>1. n > Unstarted
      BY <2>1, <2>2, <1>5, TimestampValues
    <3>2. \/ b \in MinTs + 1 .. MaxTs /\ n = b - 1
          \/ b > PostStream /\ n = MaxTs
      <4>1. b \notin {PreStream, MinTs, PostStream}
        BY <2>5, <3>1, <1>4, TimestampValues
      <4>2. b \in MinTs + 1 .. MaxTs \/ b > PostStream
        BY <4>1, <1>2, TimestampValues
      <4>3. QED
        BY <4>2, <2>5, <1>4
    <3>3. n >= MinTs
      BY <3>2, <1>8, TimestampValues
    <3>4. inputBound <= last + 1 => inputBound <= n
      BY <2>1, <2>2, <1>3, <1>5
    <3>5. inputBound < b => inputBound <= n
      BY <3>2, <1>3, <1>8, TimestampValues
    <3>6. b = Done => inputBound <= n
      BY <3>2, <1>3, <1>8, TimestampValues
    <3>7. inputBound <= MinTs => inputBound <= n
      BY <3>3, <2>2, <1>3, TimestampValues
    <3>8. QED
      BY <2>1, <3>4, <3>5, <3>6, <3>7, <1>6, <1>10
  <2>6. QED
    BY <2>2, <2>3, <2>4, <2>5
<1>11. QED
  BY <1>9, <1>10

\* The same for the default handler and those of fixed size.
LEMMA DefaultAhead ==
  ASSUME IInv, pc = "decide", policy \in {"Default", "FixedSize", "FixedMinSize"},
         NEW last \in Timestamp, last = sets[1].last,
         NEW r, r = GetReadiness(Id, last), r.is = "process"
  PROVE  inputBound <= r.ts
<1> USE DEF IInv
<1>1. Len(seen) = NumStreams /\ \A i \in Id : IsRead(i, seen[i])
  BY DecideFacts
<1>2. \A i \in Id : Ahead(i, seen[i])
  BY <1>1, IdFacts DEF AheadInv
<1>3. inputBound = Unset \/ IsRangeValue(inputBound)
  BY DEF BoundInv
<1>4. processBounds => policy = "Default"
  BY DEF StageInv
<1>5. \A i \in Id : inputBound <= seen[i].ts
  BY <1>2 DEF Ahead
<1>6. processBounds => \A i \in Id :
        \/ inputBound <= MinTs \/ inputBound <= last + 1
        \/ seen[i].empty => inputBound < seen[i].ts
  BY <1>2, <1>4 DEF Ahead
<1>7. QED
  BY <1>1, <1>3, <1>5, <1>6, ReadyAhead

LEMMA DecideDefaultStep ==
  ASSUME IInv, DecideDefault
  PROVE  IInv'
<1> USE DEF IInv
<1>0. PICK last, r : last = sets[1].last /\ r = GetReadiness(Id, last)
  OBVIOUS
<1>1. /\ pc = "decide" /\ (policy = "Default" \/ FixedSize)
      /\ sets' = [sets EXCEPT ![1].last = r.last]
      /\ ready' = ready /\ offsets' = offsets /\ aligned' = aligned
      /\ IF FixedSize /\ r.is = "process" /\ r.ts < kept
         THEN StartReading
              /\ UNCHANGED <<config, promised, notified, inputTs, filled,
                             inputBound, owed, failed>>
         ELSE Conclude(r.is, r.ts)
  BY <1>0 DEF DecideDefault
<1>2. policy \in {"Default", "FixedSize", "FixedMinSize"}
  BY <1>1 DEF FixedSize
<1>3. Len(sets) = 1 /\ sets[1].ids = Id
  BY <1>2, FreshFacts DEF StageInv
<1>4. last \in Timestamp
  BY <1>0, <1>3, SetFacts
<1>5. /\ filled = 0
      /\ \A i \in Id : /\ IsRead(i, seen[i])
                       /\ Waiting(streams[i])
                       /\ streams[i].selected < MinTimestampOrBound(streams[i])
                       /\ MinTimestampOrBound(streams[i]) \in PreStream .. Done
                       /\ streams[i].selected \in Unstarted .. Done
  BY <1>1, DecideFacts
<1>6. /\ r.is \in Readiness /\ r.ts \in PreStream .. Done /\ r.last \in Timestamp
      /\ r.is = "process" =>
           /\ r.ts \in PreStream .. PostStream /\ r.last = r.ts
           /\ \A i \in Id : Settled(streams[i], r.ts)
           /\ ~processBounds => \E i \in Id : /\ streams[i].queue # <<>>
                                              /\ Head(streams[i].queue) = r.ts
           /\ processBounds => Later(last, Unstarted) < r.ts
      /\ r.is = "not" =>
           /\ r.last = last /\ r.ts \in PreStream .. PostStream
           /\ \A i \in Id : r.ts <= MinTimestampOrBound(streams[i])
           /\ processBounds /\ IsRangeValue(r.ts) =>
                \/ r.ts <= MinTs \/ r.ts <= last + 1
                \/ \A i \in Id : r.ts < streams[i].bound
  BY <1>0, <1>4, <1>5, ReadinessFacts
<1>7. /\ sets' \in Seq([ids : SUBSET Id, last : Timestamp]) /\ Len(sets') = Len(sets)
      /\ \A j \in 1 .. Len(sets) : sets'[j].ids = sets[j].ids
      /\ sets'[1].last = r.last
  <2>1. PICK l \in Timestamp : l = r.last
    BY <1>6
  <2>2. 1 \in 1 .. Len(sets) /\ sets' = [sets EXCEPT ![1].last = l]
    BY <2>1, <1>1, <1>3
  <2>3. /\ sets' \in Seq([ids : SUBSET Id, last : Timestamp]) /\ Len(sets') = Len(sets)
        /\ \A j \in 1 .. Len(sets) : sets'[j].ids = sets[j].ids
        /\ sets'[1].last = l
    BY <2>2, LastSet
  <2>4. QED
    BY <2>1, <2>3
<1>8. FixedSize => ~processBounds /\ failed = "none"
  BY <1>2 DEF StageInv, FixedSize
<1>9. CASE FixedSize /\ r.is = "process" /\ r.ts < kept
  <2>1. /\ StartReading /\ FixedSize
        /\ policy' = policy /\ processBounds' = processBounds /\ choice' = choice
        /\ promised' = promised /\ notified' = notified /\ inputTs' = inputTs
        /\ filled' = filled /\ inputBound' = inputBound /\ owed' = owed /\ failed' = failed
    BY <1>1, <1>9 DEF config
  <2>2. inputTs' \in Timestamp /\ notified' \in BOOLEAN /\ filled' = 0 /\ failed = "none"
        /\ pc \notin {"fill", "closed"}
    BY <1>1, <1>5, <1>8, <2>1 DEF TypeOK
  <2>3. QED
    BY <1>1, <1>7, <2>1, <2>2, ReadAgain
<1>10. CASE ~(FixedSize /\ r.is = "process" /\ r.ts < kept)
  <2>1. Conclude(r.is, r.ts)
    BY <1>1, <1>10
  <2>2. r.ts \in Timestamp /\ r.ts \in Int /\ kept \in Int
    BY <1>6, TimestampValues DEF TypeOK
  <2>3. FixedSize /\ r.is = "process" =>
          /\ r.ts \in PreStream .. PostStream
          /\ \A i \in Id : Settled(streams[i], r.ts)
          /\ \E j \in Id : streams[j].queue # <<>> /\ Head(streams[j].queue) = r.ts
          /\ policy = "FixedSize" => kept <= r.ts
          /\ inputBound <= r.ts
    <3> SUFFICES ASSUME FixedSize, r.is = "process"
                 PROVE  /\ r.ts \in PreStream .. PostStream
                        /\ \A i \in Id : Settled(streams[i], r.ts)
                        /\ \E j \in Id : /\ streams[j].queue # <<>>
                                         /\ Head(streams[j].queue) = r.ts
                        /\ policy = "FixedSize" => kept <= r.ts
                        /\ inputBound <= r.ts
      OBVIOUS
    <3>1. inputBound <= r.ts
      BY <1>0, <1>1, <1>2, <1>4, DefaultAhead
    <3>2. QED
      BY <1>6, <1>8, <1>10, <2>2, <3>1
  <2>4. /\ ready' \in [Id -> Timestamp] /\ offsets' \in [Id -> -Latest .. Latest]
        /\ aligned' \in BOOLEAN
    BY <1>1 DEF TypeOK
  <2>5. TypeOK' /\ StreamsInv' /\ StageInv' /\ SeenInv' /\ ErasedInv' /\ AheadInv'
    BY <1>1, <1>7, <2>1, <2>2, <2>3, <2>4, Concluded
  <2>6. CASE r.is = "close"
    <3>1. offsets'[Base] = 0
      BY <1>1 DEF AlignInv
    <3>2. Conclude("close", r.ts)
      BY <2>1, <2>6
    <3>3. QED
      BY <2>5, <3>1, <3>2, Closing
  <2>7. CASE r.is # "close"
    <3>1. /\ r.is = "not" \/ r.is = "process"
          /\ pc' = IF r.is = "not" THEN "idle" ELSE IF FixedSize THEN "refill" ELSE "fill"
          /\ inputBound' = IF r.is = "not" /\ IsRangeValue(r.ts) THEN r.ts ELSE inputBound
          /\ inputTs' = IF r.is = "process" THEN r.ts ELSE Unset
          /\ streams' = streams /\ notified' = notified /\ failed' = failed
          /\ policy' = policy /\ processBounds' = processBounds
      BY <2>1, <2>7, <1>6 DEF Conclude, config, Readiness
    <3>2. policy = "Default" =>
            \A i \in Id : streams[i].selected = Later(last, Unstarted)
      BY <1>0, <1>1 DEF LastInv
    <3>3. ASSUME r.is = "process", policy = "Default", NEW i \in Id
          PROVE  streams[i].selected < r.ts
      <4>1. CASE processBounds
        BY <4>1, <1>6, <3>2, <3>3
      <4>2. CASE ~processBounds
        <5>1. PICK j \in Id : streams[j].queue # <<>> /\ Head(streams[j].queue) = r.ts
          BY <4>2, <1>6, <3>3
        <5>2. MinTimestampOrBound(streams[j]) = r.ts
          BY <5>1 DEF MinTimestampOrBound
        <5>3. streams[j].selected < r.ts /\ streams[i].selected = streams[j].selected
          BY <5>2, <1>5, <3>2, <3>3
        <5>4. QED
          BY <5>3
      <4>3. QED
        BY <4>1, <4>2
    <3>4. FillInv'
      <4>1. policy \notin {"Barrier", "TimestampAlign"} /\ (policy = "Default" \/ FixedSize)
        BY <1>1, <1>2
      <4>2. r.is = "process" =>
              /\ r.ts \in PreStream .. PostStream
              /\ FixedSize \/ \A i \in Id : Wanted(i)' =>
                               Settled(streams[i], r.ts) /\ streams[i].selected < r.ts
        BY <1>6, <3>3, <4>1
      <4>3. QED
        BY <1>1, <2>1, <4>1, <4>2, ConcludedFill
    <3>5. TogetherInv'
      BY <1>1, <1>2, <2>1, ConcludedTogether
    <3>6. AlignInv' /\ MuxInv'
      BY <1>1, <1>2, <2>1, ConcludedElsewhere
    <3>7. LastInv'
      <4>1. policy' = "Default" =>
              IF pc' = "fill" THEN inputTs' = sets'[1].last
              ELSE \A i \in Id : streams'[i].selected = Later(sets'[1].last, Unstarted)
        <5> SUFFICES ASSUME policy = "Default"
                     PROVE  IF pc' = "fill" THEN inputTs' = sets'[1].last
                            ELSE \A i \in Id :
                                   streams'[i].selected = Later(sets'[1].last, Unstarted)
          BY <3>1
        <5>1. ~FixedSize
          BY DEF FixedSize
        <5>2. CASE r.is = "process"
          BY <5>1, <5>2, <1>6, <1>7, <3>1
        <5>3. CASE r.is = "not"
          BY <5>3, <1>6, <1>7, <3>1, <3>2
        <5>4. QED
          BY <5>2, <5>3, <3>1
      <4>2. policy' \notin {"SyncSet", "Immediate"}
        BY <1>2, <3>1
      <4>3. QED
        BY <4>1, <4>2 DEF LastInv
    <3>8. BoundInv'
      <4>1. inputBound \in Timestamp /\ inputBound \in Int /\ last \in Int
            /\ (\A i \in Id : inputBound <= MinTimestampOrBound(streams[i]))
            /\ (inputBound = Unset \/ IsRangeValue(inputBound))
        BY <1>1, <1>2, <1>4, TimestampValues DEF BoundInv, TypeOK
      <4>2. \A i \in Id : inputBound' <= MinTimestampOrBound(streams'[i])
        BY <1>6, <3>1, <4>1
      <4>3. inputBound' = Unset \/ IsRangeValue(inputBound')
        BY <3>1, <4>1
      <4>4. ASSUME policy = "Default", processBounds
            PROVE  \/ inputBound' <= MinTs \/ inputBound' <= sets'[1].last + 1
                   \/ \A i \in Id : inputBound' < streams'[i].bound
        <5>1. \/ inputBound <= MinTs \/ inputBound <= last + 1
              \/ \A i \in Id : inputBound < streams[i].bound
          BY <1>0, <1>1, <4>4 DEF BoundInv
        <5>2. CASE r.is = "process"
          <6>1. last < r.ts /\ sets'[1].last = r.ts
            BY <5>2, <1>6, <1>7, <2>2, <4>1, <4>4, TimestampValues DEF Later
          <6>2. inputBound' = inputBound /\ streams' = streams
            BY <5>2, <3>1
          <6>3. inputBound <= last + 1 => inputBound <= sets'[1].last + 1
            BY <6>1, <2>2, <4>1
          <6>4. QED
            BY <5>1, <6>2, <6>3
        <5>3. CASE r.is = "not"
          <6>1. sets'[1].last = last /\ streams' = streams
            BY <5>3, <1>6, <1>7, <3>1
          <6>2. CASE IsRangeValue(r.ts)
            <7>1. inputBound' = r.ts
              BY <5>3, <6>2, <3>1
            <7>2. QED
              BY <7>1, <6>1, <6>2, <5>3, <1>6, <4>4
          <6>3. CASE ~IsRangeValue(r.ts)
            <7>1. inputBound' = inputBound
              BY <5>3, <6>3, <3>1
            <7>2. QED
              BY <7>1, <6>1, <5>1
          <6>4. QED
            BY <6>2, <6>3
        <5>4. QED
          BY <5>2, <5>3, <3>1
      <4>5. policy' \notin {"Immediate", "Mux", "TimestampAlign"}
        BY <1>2, <3>1
      <4>6. QED
        BY <4>2, <4>3, <4>4, <4>5, <3>1 DEF BoundInv
    <3>9. NothingForgotten'
      <4> SUFFICES ASSUME pc' = "idle", ~notified' PROVE ~(Due(Id)')
        BY <1>2, <3>1 DEF NothingForgotten
      <4>1. r.is = "not" /\ ~notified
        BY <3>1
      <4>2. processBounds => policy = "Default"
        BY <1>1, <1>8
      <4>3. processBounds => \A i \in Id : Later(last, Unstarted) < MinTimestampOrBound(streams[i])
        BY <4>2, <3>2, <1>5
      <4>4. ~Due(Id)
        BY <4>1, <4>3, <1>0, <1>2, <1>4, <1>5, NotReady
      <4>5. QED
        BY <4>4, <3>1, <1>1, StillNotDue
    <3>10. QED
      BY <2>5, <3>4, <3>5, <3>6, <3>7, <3>8, <3>9
  <2>8. QED
    BY <2>6, <2>7
<1>11. QED
  BY <1>9, <1>10

-----------------------------------------------------------------------------
\* The barrier and the handler that closes early.

LEMMA DecideBarrierStep ==
  ASSUME IInv, DecideBarrierOrEarlyClose
  PROVE  IInv'
<1> USE DEF IInv
<1> DEFINE p == MinPacket(Id)
           b == MinBound(Id)
<1>0. PICK minTs, minBound, empty :
        /\ minTs = Earliest({s.ts : s \in Range(seen)})
        /\ minBound = Earliest({s.ts : s \in {x \in Range(seen) : x.empty}})
        /\ empty = (\E s \in Range(seen) : s.empty)
  OBVIOUS
<1>1. /\ pc = "decide" /\ policy \in {"Barrier", "EarlyClose"}
      /\ IF \E s \in Range(seen) : s.empty /\ s.ts = Done
         THEN Conclude("close", Done)
         ELSE IF (policy = "Barrier" /\ ~empty)
                 \/ (policy = "EarlyClose" /\ minBound > minTs)
         THEN Conclude("process", minTs)
         ELSE Conclude("not", minTs)
      /\ sets' = sets /\ ready' = ready /\ offsets' = offsets /\ aligned' = aligned
  BY <1>0 DEF DecideBarrierOrEarlyClose
<1>2. /\ Len(seen) = NumStreams /\ filled = 0
      /\ \A i \in Id : /\ IsRead(i, seen[i])
                       /\ Waiting(streams[i])
                       /\ streams[i].selected < MinTimestampOrBound(streams[i])
                       /\ MinTimestampOrBound(streams[i]) \in PreStream .. Done
                       /\ streams[i].selected \in Unstarted .. Done
  BY <1>1, DecideFacts
<1>3. \A i \in Id : /\ seen[i].ts \in PreStream .. Done
                    /\ seen[i].ts <= MinTimestampOrBound(streams[i])
                    /\ ~seen[i].empty => /\ streams[i].queue # <<>>
                                         /\ seen[i].ts = Head(streams[i].queue)
  BY <1>2 DEF IsRead
<1>4. Range(seen) = {seen[i] : i \in Id}
  BY <1>2, SeenFacts, IdFacts DEF Range
<1>5. ~processBounds /\ ~FixedSize
  BY <1>1 DEF StageInv, FixedSize
<1>6. /\ minTs \in PreStream .. Done
      /\ \A i \in Id : minTs <= seen[i].ts
      /\ minTs # Done => \E i \in Id : seen[i].ts = minTs
  <2> DEFINE T == {seen[i].ts : i \in Id}
  <2>1. {s.ts : s \in Range(seen)} = T
    BY <1>4
  <2>2. T \subseteq Unset .. Done /\ T \subseteq PreStream .. Done
        /\ Done \in PreStream .. Done
    BY <1>3, TimestampValues
  <2>3. \A i \in Id : seen[i].ts \in T
    OBVIOUS
  <2>4. \A x \in T : \E i \in Id : seen[i].ts = x
    OBVIOUS
  <2> HIDE DEF T
  <2>5. minTs \in T \cup {Done} /\ \A x \in T : minTs <= x
    BY <2>1, <2>2, <1>0, EarliestOf
  <2>6. QED
    BY <2>2, <2>3, <2>4, <2>5
<1>7. minBound = b
  <2>1. {s.ts : s \in {x \in Range(seen) : x.empty}}
          = {seen[i].ts : i \in {j \in Id : seen[j].empty}}
    BY <1>4
  <2>2. QED
    BY <2>1, <1>0 DEF MinBound
<1>8. /\ p \in PreStream .. PostStream \/ p = Done
      /\ b \in PreStream .. Done
      /\ \A i \in Id : IF seen[i].empty THEN b <= seen[i].ts ELSE p <= seen[i].ts
      /\ p # Done => \E i \in Id : ~seen[i].empty /\ p = seen[i].ts
  BY <1>2, SeenMin
<1>9. (\E s \in Range(seen) : s.empty /\ s.ts = Done)
        <=> \E i \in Id : seen[i].empty /\ seen[i].ts = Done
  BY <1>4
<1>10. empty <=> \E i \in Id : seen[i].empty
  BY <1>0, <1>4
<1> HIDE DEF p, b
<1>11. minTs <= p /\ p \in Int /\ b \in Int /\ minTs \in Int
  BY <1>6, <1>8, TimestampValues
<1>12. PICK is, ts : /\ Conclude(is, ts) /\ is \in Readiness
                     /\ \/ is = "close" /\ ts = Done
                        \/ /\ is = "process" /\ ts = minTs
                           /\ policy = "Barrier" /\ ~empty
                        \/ /\ is = "process" /\ ts = minTs
                           /\ policy = "EarlyClose" /\ minBound > minTs
                        \/ /\ is = "not" /\ ts = minTs
                           /\ ~ \E s \in Range(seen) : s.empty /\ s.ts = Done
                           /\ ~(policy = "Barrier" /\ ~empty)
                           /\ ~(policy = "EarlyClose" /\ minBound > minTs)
  BY <1>1 DEF Readiness
<1>13. TypeOK' /\ StreamsInv' /\ StageInv' /\ SeenInv' /\ ErasedInv' /\ AheadInv'
  <2>1. ts \in Timestamp
    BY <1>6, <1>12, TimestampValues
  <2>2. /\ sets' \in Seq([ids : SUBSET Id, last : Timestamp]) /\ Len(sets') = Len(sets)
        /\ \A k \in 1 .. Len(sets) : sets'[k].ids = sets[k].ids
        /\ ready' \in [Id -> Timestamp] /\ offsets' \in [Id -> -Latest .. Latest]
        /\ aligned' \in BOOLEAN
    BY <1>1 DEF TypeOK
  <2>3. QED
    BY <1>1, <1>5, <1>12, <2>1, <2>2, Concluded
<1>14. CASE is = "close"
  <2>1. offsets'[Base] = 0 /\ Conclude("close", ts)
    BY <1>1, <1>12, <1>14 DEF AlignInv
  <2>2. QED
    BY <1>13, <2>1, Closing
<1>15. CASE is # "close"
  <2>1. /\ is = "not" \/ is = "process"
        /\ pc' = IF is = "not" THEN "idle" ELSE "fill"
        /\ inputBound' = IF is = "not" /\ IsRangeValue(ts) THEN ts ELSE inputBound
        /\ inputTs' = IF is = "process" THEN ts ELSE Unset
        /\ streams' = streams /\ notified' = notified /\ filled' = filled
        /\ policy' = policy /\ processBounds' = processBounds /\ ts = minTs
    BY <1>5, <1>12, <1>15 DEF Conclude, config, Readiness
  <2>2. TogetherInv'
    BY <1>1, <1>12, ConcludedTogether
  <2>3. AlignInv' /\ MuxInv'
    BY <1>1, <1>12, ConcludedElsewhere
  <2>4. LastInv'
    BY <1>1, <2>1 DEF LastInv
  <2>5. FillInv'
    <3>1. CASE is = "not"
      BY <2>1, <3>1 DEF FillInv
    <3>2. CASE is = "process" /\ policy = "Barrier"
      <4>1. \A i \in Id : ~seen[i].empty
        BY <1>10, <1>12, <3>2
      <4>2. minTs \in PreStream .. PostStream
        <5>1. Base \in Id
          BY IdFacts
        <5>2. seen[Base].ts \in PreStream .. PostStream
          BY <4>1, <5>1, <1>2, <1>3, QueueFacts
        <5>3. QED
          BY <5>1, <5>2, <1>6, TimestampValues
      <4>3. minTs \in PreStream .. OneOverPostStream /\ IsAllowedInStream(minTs)
        BY <4>2, TimestampValues DEF IsAllowedInStream
      <4>4. \A i \in filled + 1 .. NumStreams : i \in Id
        BY <1>2, IdFacts
      <4>5. \A i \in Id : streams'[i].queue # <<>>
        BY <4>1, <1>3, <2>1
      <4>6. inputTs' = minTs
        BY <2>1, <3>2
      <4>7. QED
        BY <2>1, <3>2, <4>3, <4>4, <4>5, <4>6 DEF FillInv
    <3>3. CASE is = "process" /\ policy = "EarlyClose"
      <4>1. b > minTs
        BY <1>7, <1>12, <3>3
      <4>2. minTs # Done
        BY <4>1, <1>8, <1>11, TimestampValues
      <4>3. PICK j \in Id : seen[j].ts = minTs
        BY <4>2, <1>6
      <4>4. ~seen[j].empty
        BY <4>1, <4>3, <1>8, <1>11
      <4>5. /\ streams[j].queue # <<>> /\ Head(streams[j].queue) = minTs
            /\ minTs \in PreStream .. PostStream
        BY <4>3, <4>4, <1>2, <1>3, QueueFacts
      <4>6. streams[j].selected < minTs
        BY <4>5, <1>2 DEF MinTimestampOrBound
      <4>7. \A i \in Id : streams[i].selected = streams[j].selected
        BY <1>1, <3>3 DEF TogetherInv, Together, Between
      <4>8. \A i \in Id : Settled(streams[i], minTs)
        BY <1>2, <1>11, <4>1, MinSettled DEF p, b
      <4>9. is = "process" =>
              /\ ts \in PreStream .. PostStream
              /\ FixedSize \/ \A i \in Id : Wanted(i)' =>
                               Settled(streams[i], ts) /\ streams[i].selected < ts
        BY <2>1, <4>5, <4>6, <4>7, <4>8
      <4>10. QED
        BY <1>1, <1>12, <3>3, <4>9, ConcludedFill
    <3>4. QED
      BY <1>1, <2>1, <3>1, <3>2, <3>3
  <2>6. BoundInv'
    <3>1. inputBound \in Int
          /\ (\A i \in Id : inputBound <= MinTimestampOrBound(streams[i]))
          /\ (inputBound = Unset \/ IsRangeValue(inputBound))
      BY <1>1, TimestampValues DEF BoundInv, TypeOK
    <3>2. \A i \in Id : minTs <= MinTimestampOrBound(streams[i])
      <4> SUFFICES ASSUME NEW i \in Id PROVE minTs <= MinTimestampOrBound(streams[i])
        OBVIOUS
      <4>1. /\ minTs <= seen[i].ts /\ seen[i].ts <= MinTimestampOrBound(streams[i])
            /\ seen[i].ts \in Int /\ MinTimestampOrBound(streams[i]) \in Int
        BY <1>2, <1>3, <1>6, TimestampValues
      <4>2. QED
        BY <4>1, <1>11
    <3>3. \A i \in Id : inputBound' <= MinTimestampOrBound(streams'[i])
      BY <2>1, <3>1, <3>2
    <3>4. inputBound' = Unset \/ IsRangeValue(inputBound')
      BY <2>1, <3>1
    <3>5. policy' \in {"Barrier", "EarlyClose"}
      BY <1>1, <2>1
    <3>6. QED
      BY <3>3, <3>4, <3>5 DEF BoundInv
  <2>7. NothingForgotten'
    <3> SUFFICES ASSUME pc' = "idle", ~notified'
                 PROVE  /\ policy = "Barrier" => \E i \in Id : streams'[i].queue = <<>>
                        /\ policy = "EarlyClose" => ~(Due(Id)')
                        /\ \A i \in Id : ~IsDone(streams'[i])
      BY <1>1, <2>1 DEF NothingForgotten
    <3>1. is = "not" /\ ~notified
      BY <2>1
    <3>2. \A i \in Id : /\ seen[i].empty = (streams[i].queue = <<>>)
                        /\ seen[i].ts = MinTimestampOrBound(streams[i])
      BY <1>2, <3>1 DEF IsRead
    <3>3. \A i \in Id : ~IsDone(streams[i])
      <4>1. \A i \in Id : ~(seen[i].empty /\ seen[i].ts = Done)
        BY <1>9, <1>12, <3>1
      <4>2. QED
        BY <3>2, <4>1 DEF IsDone, MinTimestampOrBound
    <3>4. policy = "Barrier" => \E i \in Id : streams[i].queue = <<>>
      BY <1>10, <1>12, <3>1, <3>2
    <3>5. policy = "EarlyClose" => ~Due(Id)
      <4> SUFFICES ASSUME policy = "EarlyClose" PROVE ~Due(Id)
        OBVIOUS
      <4>1. ~(b > minTs)
        BY <1>7, <1>12, <3>1
      <4>2. ~(p < b)
        BY <4>1, <1>11
      <4>3. MinPacket(Id) = Earliest(PacketsOf(Id)) /\ MinBound(Id) = Earliest(BoundsOf(Id))
        BY <1>1, <1>2, <3>1, ReadExactly
      <4>4. ~(Earliest(PacketsOf(Id)) < Earliest(BoundsOf(Id)))
        BY <4>2, <4>3 DEF p, b
      <4>5. Base \in Id
        BY IdFacts
      <4>6. QED
        BY <4>4, <4>5, <3>3, DueMeans
    <3>6. policy = "EarlyClose" => ~(Due(Id)')
      BY <3>5, <2>1, <1>1, StillNotDue
    <3>7. QED
      BY <3>3, <3>4, <3>6, <2>1
  <2>8. QED
    BY <1>13, <2>2, <2>3, <2>4, <2>5, <2>6, <2>7
<1>16. QED
  BY <1>14, <1>15

-----------------------------------------------------------------------------
\* The immediate handler.

\* The readiness of a set of one stream.
OneReadiness(k, last) == GetReadiness({k}, last)

LEMMA ReadinessOfOne ==
  ASSUME TypeOK, StreamsInv, NEW k \in Id, IsRead(k, seen[k]),
         NEW last \in Timestamp, NEW r, r = OneReadiness(k, last)
  PROVE  /\ r.is \in Readiness /\ r.ts \in PreStream .. Done /\ r.last \in Timestamp
         /\ r.is = "process" =>
              /\ r.ts \in PreStream .. PostStream /\ r.last = r.ts
              /\ Settled(streams[k], r.ts)
              /\ ~processBounds => /\ streams[k].queue # <<>>
                                   /\ Head(streams[k].queue) = r.ts
              /\ processBounds => Later(last, Unstarted) < r.ts
         /\ r.is = "close" =>
              /\ r.last = MaxTs
              /\ streams[k].queue = <<>> /\ streams[k].bound >= OneOverPostStream
         /\ r.is = "not" =>
              /\ r.last = last /\ r.ts \in PreStream .. PostStream
              /\ r.ts <= MinTimestampOrBound(streams[k])
              /\ processBounds /\ IsRangeValue(r.ts) =>
                   r.ts <= MinTs \/ r.ts <= last + 1 \/ r.ts < streams[k].bound
<1>1. PICK ids \in SUBSET Id : /\ k \in ids /\ (\A i \in ids : i = k)
                              /\ r = GetReadiness(ids, last)
  <2>1. /\ {k} \in SUBSET Id /\ k \in {k} /\ (\A i \in {k} : i = k)
        /\ r = GetReadiness({k}, last)
    BY DEF OneReadiness
  <2>2. QED
    BY <2>1
<1>2. \A i \in ids : IsRead(i, seen[i])
  BY <1>1
<1>3. /\ r.is \in Readiness /\ r.ts \in PreStream .. Done /\ r.last \in Timestamp
      /\ r.is = "process" =>
           /\ r.ts \in PreStream .. PostStream /\ r.last = r.ts /\ ids # {}
           /\ \A i \in ids : Settled(streams[i], r.ts)
           /\ ~processBounds => \E i \in ids : /\ streams[i].queue # <<>>
                                               /\ Head(streams[i].queue) = r.ts
           /\ processBounds => Later(last, Unstarted) < r.ts
      /\ r.is = "close" =>
           /\ r.ts = Done /\ r.last = MaxTs
           /\ \A i \in ids : streams[i].queue = <<>> /\ streams[i].bound >= OneOverPostStream
      /\ r.is = "not" =>
           /\ r.last = last /\ r.ts \in PreStream .. PostStream /\ ids # {}
           /\ \A i \in ids : r.ts <= MinTimestampOrBound(streams[i])
           /\ processBounds /\ IsRangeValue(r.ts) =>
                \/ r.ts <= MinTs \/ r.ts <= last + 1
                \/ \A i \in ids : r.ts < streams[i].bound
  BY <1>1, <1>2, ReadinessFacts
<1>4. QED
  BY <1>1, <1>3

\* What becomes of the set of stream k: at is when it is ready, l its
\* last_processed_ts_ and m what it adds to the bound of the node.
LEMMA ImmediateOne ==
  ASSUME IInv, pc = "decide", policy = "Immediate", NEW k \in Id,
         NEW last, last = sets[k].last, NEW r, r = OneReadiness(k, last),
         NEW at, at = IF ready[k] > Unset THEN ready[k]
                      ELSE IF r.is = "close"
                      THEN IF processBounds
                           THEN IF last < MaxTs THEN MaxTs ELSE Done
                           ELSE IF last < Done THEN Done ELSE Unset
                      ELSE IF r.is = "process" THEN r.ts ELSE Unset,
         NEW l, l = IF ready[k] > Unset THEN last ELSE r.last,
         NEW m, m = IF ready[k] > Unset THEN ready[k]
                    ELSE IF r.is = "close" THEN at ELSE r.ts
  PROVE  /\ l \in Timestamp
         /\ \/ at = Unset /\ streams[k].selected = Later(l, Unstarted)
            \/ /\ at \in PreStream .. PostStream /\ l = at
               /\ streams[k].selected < at /\ Settled(streams[k], at)
               /\ inputBound <= at
            \/ /\ at = Done
               /\ streams[k].queue = <<>> /\ streams[k].bound >= OneOverPostStream
         /\ m \in PreStream .. PostStream \/ m = Done
         /\ at # Unset => m = at
         /\ m = Done => at = Done
         /\ inputBound <= m
         /\ at # Done => /\ m <= MinTimestampOrBound(streams[k])
                         /\ inputBound <= MinTimestampOrBound(streams[k])
         /\ processBounds /\ at # Done =>
              /\ Passed(k, l, inputBound)
              /\ \A c \in MinTs .. MaxTs : c <= m => Passed(k, l, c)
         /\ at = Unset /\ ~notified => streams[k].queue = <<>>
<1> USE DEF IInv
<1>0. r = GetReadiness({k}, last)
  BY DEF OneReadiness
<1> DEFINE M == MinTimestampOrBound(streams[k])
           b == streams[k].bound
<1>1. /\ \A i \in Id : IsRead(i, seen[i])
      /\ Waiting(streams[k]) /\ streams[k].selected < M /\ M \in PreStream .. Done
      /\ streams[k].selected \in Unstarted .. Done
  BY DecideFacts
<1>2. M <= b /\ b \in PreStream .. Done
      /\ (streams[k].queue = <<>> => M = b)
      /\ \A t \in Int : Settled(streams[k], t) => t <= M /\ t < b
  BY <1>1, MinFacts, StreamFacts
<1>3. last \in Timestamp
  <2>1. Len(sets) = NumStreams
    BY FreshFacts DEF StageInv
  <2>2. QED
    BY <2>1, SetFacts, IdFacts
<1>4. \/ ready[k] = Unset /\ streams[k].selected = Later(last, Unstarted)
      \/ /\ ready[k] \in PreStream .. PostStream /\ last = ready[k]
         /\ streams[k].selected < ready[k] /\ Settled(streams[k], ready[k])
      \/ /\ ready[k] = Done
         /\ streams[k].queue = <<>> /\ b >= OneOverPostStream
  BY DEF LastInv
<1>5. /\ inputBound = Unset \/ inputBound \in MinTs .. MaxTs
      /\ \/ ready[k] = Done
         \/ /\ inputBound <= M
            /\ ready[k] # Unset => inputBound <= ready[k]
            /\ processBounds => Passed(k, last, inputBound)
  BY TimestampValues DEF BoundInv, TypeOK, IsRangeValue
<1>6. inputBound = Unset \/ IsRangeValue(inputBound)
  BY DEF BoundInv
<1>7. /\ r.is \in Readiness /\ r.ts \in PreStream .. Done /\ r.last \in Timestamp
      /\ r.is = "process" =>
           /\ r.ts \in PreStream .. PostStream /\ r.last = r.ts
           /\ Settled(streams[k], r.ts)
           /\ ~processBounds => /\ streams[k].queue # <<>>
                                /\ Head(streams[k].queue) = r.ts
           /\ processBounds => Later(last, Unstarted) < r.ts
      /\ r.is = "close" =>
           /\ r.last = MaxTs
           /\ streams[k].queue = <<>> /\ b >= OneOverPostStream
      /\ r.is = "not" =>
           /\ r.last = last /\ r.ts \in PreStream .. PostStream
           /\ r.ts <= M
           /\ processBounds /\ IsRangeValue(r.ts) =>
                r.ts <= MinTs \/ r.ts <= last + 1 \/ r.ts < b
  BY <1>1, <1>3, ReadinessOfOne
<1>8. ready[k] = Unset /\ r.is = "process" => inputBound <= r.ts
  <2> SUFFICES ASSUME ready[k] = Unset, r.is = "process" PROVE inputBound <= r.ts
    OBVIOUS
  <2>1. Ahead(k, seen[k]) /\ ready[k] # Done
    <3>1. k \in 1 .. Len(seen)
      BY DecideFacts, IdFacts
    <3>2. Ahead(k, seen[k])
      BY <3>1 DEF AheadInv
    <3>3. QED
      BY <3>2, TimestampValues
  <2>2. /\ inputBound <= seen[k].ts
        /\ processBounds => \/ inputBound <= MinTs \/ inputBound <= last + 1
                            \/ seen[k].empty => inputBound < seen[k].ts
    BY <2>1 DEF Ahead
  <2>3. {k} \in SUBSET Id /\ \A i \in {k} : /\ IsRead(i, seen[i])
                                            /\ inputBound <= seen[i].ts
    BY <1>1, <2>2
  <2>4. processBounds => \A i \in {k} :
          \/ inputBound <= MinTs \/ inputBound <= last + 1
          \/ seen[i].empty => inputBound < seen[i].ts
    BY <2>2
  <2>5. QED
    BY <2>3, <2>4, <1>0, <1>3, <1>6, ReadyAhead
<1>9. ready[k] = Unset /\ r.is = "not" => inputBound <= r.ts
  <2> SUFFICES ASSUME ready[k] = Unset, r.is = "not" PROVE inputBound <= r.ts
    OBVIOUS
  <2>1. inputBound <= seen[k].ts /\ inputBound <= Done
    <3>1. k \in 1 .. Len(seen)
      BY DecideFacts, IdFacts
    <3>2. Ahead(k, seen[k]) /\ ready[k] # Done
      BY <3>1, TimestampValues DEF AheadInv
    <3>3. inputBound <= seen[k].ts
      BY <3>2 DEF Ahead
    <3>4. QED
      BY <3>3, TimestampValues DEF TypeOK
  <2>2. PICK ids, p, q :
          /\ ids \in SUBSET Id /\ ids = {k} /\ p = MinPacket(ids) /\ q = MinBound(ids)
          /\ r = GetReadiness(ids, last)
    BY <1>0
  <2>3. r.ts = Earlier(p, q)
    <3>1. r.is # "close" /\ r.is # "process"
      OBVIOUS
    <3>2. QED
      BY <2>2, <3>1, ReadinessCases
  <2>4. \A i \in ids : IsRead(i, seen[i])
    BY <1>1, <2>2
  <2>5. /\ p # Done => \E i \in ids : p = seen[i].ts
        /\ q # Done => \E i \in ids : q = seen[i].ts
    BY <2>2, <2>4, SeenMin
  <2>6. inputBound <= p /\ inputBound <= q
    BY <2>1, <2>2, <2>5
  <2>7. QED
    BY <2>3, <2>6 DEF Earlier
<1>10. r.is = "not" /\ ~notified /\ ready[k] = Unset => streams[k].queue = <<>>
  <2> SUFFICES ASSUME r.is = "not", ~notified, ready[k] = Unset, streams[k].queue # <<>>
               PROVE  FALSE
    OBVIOUS
  <2>1. {k} \in SUBSET Id /\ \A i \in {k} : IsRead(i, seen[i])
    BY <1>1
  <2>2. streams[k].selected = Later(last, Unstarted)
    BY <1>4, TimestampValues
  <2>3. \A i \in {k} : Later(last, Unstarted) < MinTimestampOrBound(streams[i])
    BY <2>2, <1>1
  <2>4. ~Due({k})
    BY <2>1, <2>3, <1>0, <1>3, NotReady
  <2>5. At(k) = M /\ M \in PreStream .. PostStream
    BY <1>1, MinFacts DEF At
  <2>6. BoundsOf({k}) = {} /\ PacketsOf({k}) = {M}
    BY <2>5 DEF BoundsOf, PacketsOf
  <2> HIDE DEF M
  <2>7. {M} \subseteq Unset .. Done
    BY <2>5, TimestampValues
  <2>8. Earliest({M}) <= M /\ Earliest({M}) \in Unset .. Done
    BY <2>7, EarliestOf
  <2>9. Earliest({}) = Done
    <3>1. Earliest({}) \in {} \cup {Done}
      BY EarliestOf
    <3>2. QED
      BY <3>1
  <2>10. PICK x, y : x = Earliest(PacketsOf({k})) /\ y = Earliest(BoundsOf({k}))
    OBVIOUS
  <2>11. x <= M /\ x \in Unset .. Done /\ y = Done
    BY <2>6, <2>8, <2>9, <2>10
  <2>12. x < y /\ y \notin {MinTs, PostStream}
    BY <2>5, <2>11, TimestampValues
  <2>13. QED
    BY <2>4, <2>10, <2>12, DueMeans
<1> HIDE DEF M, b
<1>11. /\ \A x : Passed(k, last, x) <=> x <= MinTs \/ x <= last + 1 \/ x < b
       /\ \A x : Passed(k, l, x) <=> x <= MinTs \/ x <= l + 1 \/ x < b
  BY DEF Passed, b
<1>12. M \in Int /\ b \in Int /\ last \in Int /\ streams[k].selected \in Int
       /\ streams[k].selected < M /\ M <= b /\ inputBound \in Int
  BY <1>1, <1>2, <1>3, <1>5, TimestampValues DEF M
<1>13. inputBound <= Done
  BY <1>5, TimestampValues
<1>14. CASE ready[k] > Unset /\ ready[k] # Done
  <2>1. /\ ready[k] \in PreStream .. PostStream /\ last = ready[k]
        /\ streams[k].selected < ready[k] /\ Settled(streams[k], ready[k])
    BY <1>4, <1>14, TimestampValues
  <2>2. at = ready[k] /\ l = at /\ m = at
    BY <2>1, <1>14
  <2>3. at \in PreStream .. PostStream /\ at # Unset /\ at # Done /\ at \in Int
        /\ l \in Timestamp
    BY <2>1, <2>2, TimestampValues
  <2>4. m <= M
    BY <2>1, <2>2, <2>3, <1>2
  <2>5. inputBound <= M /\ inputBound <= at /\ (processBounds => Passed(k, l, inputBound))
    BY <2>1, <2>2, <2>3, <1>5
  <2>6. ASSUME NEW c \in MinTs .. MaxTs, c <= m PROVE Passed(k, l, c)
    <3>1. c \in Int /\ l \in Int /\ c <= l + 1
      BY <2>2, <2>3, <2>6, TimestampValues
    <3>2. QED
      BY <3>1, <1>11
  <2>7. QED
    BY <2>1, <2>2, <2>3, <2>4, <2>5, <2>6 DEF M
<1>15. CASE ready[k] = Done
  <2>1. ready[k] > Unset /\ ready[k] # Unset
        /\ streams[k].queue = <<>> /\ b >= OneOverPostStream
    BY <1>4, <1>15, TimestampValues
  <2>2. at = Done /\ m = Done /\ l = last /\ at # Unset
    BY <2>1, <1>15
  <2>3. QED
    BY <2>1, <2>2, <1>3, <1>13 DEF b
<1>16. CASE ready[k] = Unset /\ r.is = "process"
  <2>1. ~(ready[k] > Unset) /\ streams[k].selected = Later(last, Unstarted)
    BY <1>4, <1>16, TimestampValues
  <2>2. at = r.ts /\ l = r.ts /\ m = r.ts
    BY <2>1, <1>7, <1>16
  <2>3. at \in PreStream .. PostStream /\ at # Unset /\ at # Done /\ at \in Int
        /\ l \in Timestamp
    BY <2>2, <1>7, <1>16, TimestampValues
  <2>4. Settled(streams[k], at) /\ at <= M
    BY <2>2, <2>3, <1>2, <1>7, <1>16
  <2>5. streams[k].selected < at
    <3>1. CASE processBounds
      BY <3>1, <2>1, <2>2, <1>7, <1>16
    <3>2. CASE ~processBounds
      <4>1. M = at
        BY <3>2, <2>2, <1>7, <1>16 DEF MinTimestampOrBound, M
      <4>2. QED
        BY <4>1, <1>12
    <3>3. QED
      BY <3>1, <3>2
  <2>6. inputBound <= at
    BY <2>2, <1>8, <1>16
  <2>7. inputBound <= M /\ Passed(k, l, inputBound)
    BY <2>2, <2>3, <2>4, <2>6, <1>11, <1>12
  <2>8. ASSUME NEW c \in MinTs .. MaxTs, c <= m PROVE Passed(k, l, c)
    <3>1. c \in Int /\ l \in Int /\ c <= l + 1
      BY <2>2, <2>3, <2>8, TimestampValues
    <3>2. QED
      BY <3>1, <1>11
  <2>9. QED
    BY <2>2, <2>3, <2>4, <2>5, <2>6, <2>7, <2>8 DEF M
<1>17. CASE ready[k] = Unset /\ r.is = "close"
  <2>1. ~(ready[k] > Unset) /\ streams[k].selected = Later(last, Unstarted)
        /\ ready[k] # Done
    BY <1>4, <1>17, TimestampValues
  <2>2. streams[k].queue = <<>> /\ b >= OneOverPostStream /\ r.last = MaxTs /\ M = b
    BY <1>2, <1>7, <1>17
  <2>3. last < Done
    BY <2>1, <1>1, <1>3, <1>12, TimestampValues DEF Later, M
  <2>4. /\ at = IF processBounds /\ last < MaxTs THEN MaxTs ELSE Done
        /\ l = MaxTs /\ m = at
    BY <2>1, <2>2, <2>3, <1>17
  <2>5. MaxTs \in PreStream .. PostStream /\ MaxTs \in Timestamp /\ MaxTs \in Int
        /\ MaxTs # Unset /\ Done # Unset /\ MaxTs # Done
    BY TimestampValues
  <2>6. CASE at = MaxTs
    <3>1. last < MaxTs /\ m = MaxTs
      BY <2>4, <2>5, <2>6
    <3>2. streams[k].selected < MaxTs
      BY <3>1, <2>1, <2>5, <1>3, <1>12, TimestampValues DEF Later
    <3>3. MaxTs < b /\ MaxTs <= M
      BY <2>2, <1>12, TimestampValues
    <3>4. Settled(streams[k], MaxTs)
      BY <3>3, <2>2 DEF Settled, b
    <3>5. inputBound <= MaxTs
      BY <1>5, TimestampValues
    <3>6. inputBound <= M /\ inputBound <= l + 1 /\ Passed(k, l, inputBound)
      <4>1. inputBound <= M /\ inputBound <= l + 1
        BY <3>3, <3>5, <2>4, <2>5, <1>12, TimestampValues
      <4>2. QED
        BY <4>1, <1>11
    <3>7. \A c \in MinTs .. MaxTs : c <= m => Passed(k, l, c)
      BY <2>4, <2>5, <3>1, <1>11
    <3>8. QED
      BY <2>4, <2>5, <2>6, <3>1, <3>2, <3>3, <3>4, <3>5, <3>6, <3>7 DEF M
  <2>7. CASE at = Done
    BY <2>2, <2>4, <2>5, <2>7, <1>13 DEF b
  <2>8. QED
    BY <2>4, <2>6, <2>7
<1>18. CASE ready[k] = Unset /\ r.is = "not"
  <2>1. ~(ready[k] > Unset) /\ streams[k].selected = Later(last, Unstarted)
        /\ ready[k] # Done
    BY <1>4, <1>18, TimestampValues
  <2>2. at = Unset /\ l = last /\ m = r.ts
    BY <2>1, <1>7, <1>18
  <2>3. m \in PreStream .. PostStream /\ m \in Int /\ m # Done /\ m <= M /\ at # Done
    BY <2>2, <1>7, <1>18, TimestampValues
  <2>4. inputBound <= M /\ (processBounds => Passed(k, l, inputBound))
    BY <2>1, <2>2, <1>5
  <2>5. ASSUME processBounds, NEW c \in MinTs .. MaxTs, c <= m PROVE Passed(k, l, c)
    <3>1. CASE m \in MinTs .. MaxTs
      <4>1. m <= MinTs \/ m <= last + 1 \/ m < b
        BY <2>2, <2>5, <3>1, <1>7, <1>18 DEF IsRangeValue
      <4>2. c <= MinTs \/ c <= last + 1 \/ c < b
        <5>1. c \in Int /\ c <= m /\ MinTs \in Int /\ last + 1 \in Int
          BY <2>5, <1>12, TimestampValues
        <5>2. QED
          BY <4>1, <5>1, <2>3, <1>12
      <4>3. QED
        BY <4>2, <2>2, <1>11
    <3>2. CASE m \notin MinTs .. MaxTs
      <4>1. m = PostStream
        BY <3>2, <2>3, <2>5, TimestampValues
      <4>2. c < b
        BY <4>1, <2>3, <2>5, <1>12, TimestampValues
      <4>3. QED
        BY <4>2, <1>11
    <3>3. QED
      BY <3>1, <3>2
  <2>6. ~notified => streams[k].queue = <<>>
    BY <1>10, <1>18
  <2>7. l \in Timestamp /\ streams[k].selected = Later(l, Unstarted)
    BY <2>1, <2>2, <1>3
  <2>8. QED
    <3>1. inputBound <= m
      BY <2>2, <1>18, <1>9
    <3>2. QED
      BY <3>1, <2>2, <2>3, <2>4, <2>5, <2>6, <2>7 DEF M
<1>19. ready[k] = Unset \/ ready[k] = Done \/ ready[k] > Unset
  BY <1>4, TimestampValues
<1>20. QED
  BY <1>7, <1>14, <1>15, <1>16, <1>17, <1>18, <1>19 DEF Readiness

\* The sets of the immediate handler, all together: l are the timestamps that are
\* last processed, m what the sets add to the bound.
ImmediateRound(l, m, is, ts, bound) ==
  /\ pc = "decide" /\ policy = "Immediate" /\ Len(sets) = NumStreams
  /\ \A k \in Id :
       /\ l[k] \in Timestamp
       /\ \/ ready'[k] = Unset /\ streams[k].selected = Later(l[k], Unstarted)
          \/ /\ ready'[k] \in PreStream .. PostStream /\ l[k] = ready'[k]
             /\ streams[k].selected < ready'[k]
             /\ Settled(streams[k], ready'[k])
             /\ inputBound <= ready'[k]
          \/ /\ ready'[k] = Done
             /\ streams[k].queue = <<>> /\ streams[k].bound >= OneOverPostStream
       /\ bound <= m[k] /\ m[k] \in Int
       /\ ready'[k] # Done =>
            /\ m[k] <= MinTimestampOrBound(streams[k])
            /\ inputBound <= MinTimestampOrBound(streams[k])
       /\ processBounds /\ ready'[k] # Done =>
            /\ Passed(k, l[k], inputBound)
            /\ \A c \in MinTs .. MaxTs : c <= m[k] => Passed(k, l[k], c)
       /\ ready'[k] = Unset /\ ~notified => streams[k].queue = <<>>
  /\ sets' = [k \in Id |-> [sets[k] EXCEPT !.last = l[k]]]
  /\ ready' = [k \in Id |-> ready'[k]]
  /\ offsets' = offsets /\ aligned' = aligned
  /\ Conclude(is, ts)
  /\ \/ is = "close" /\ ts = Done
     \/ is = "process" /\ ts \in PreStream .. PostStream /\ inputBound <= ts
     \/ /\ is = "not" /\ ts = bound /\ ts \in PreStream .. PostStream
        /\ \A k \in Id : ready'[k] \in {Unset, Done}

LEMMA ImmediateFacts ==
  ASSUME IInv, DecideImmediate
  PROVE  \E l, m, is, ts, bound : ImmediateRound(l, m, is, ts, bound)
<1> USE DEF IInv
<1> DEFINE r == [k \in Id |-> GetReadiness({k}, sets[k].last)]
           waiting == {k \in Id : ready[k] > Unset}
           asked == Id \ waiting
           done == {k \in asked : r[k].is = "close"}
           last == PreviousAllowedInStream(Done)
           readyAt(k) ==
             IF k \in waiting THEN ready[k]
             ELSE IF k \in done
             THEN IF processBounds
                  THEN IF sets[k].last < last THEN last ELSE Done
                  ELSE IF sets[k].last < Done THEN Done ELSE Unset
             ELSE IF r[k].is = "process" THEN r[k].ts ELSE Unset
           mark(k) == IF k \in waiting THEN ready[k]
                      ELSE IF k \in done THEN readyAt(k) ELSE r[k].ts
           minBound == Earliest({mark(k) : k \in Id})
           nextTs == Earliest({readyAt(k) : k \in Id} \ {Unset})
           lastOf(k) == IF k \in asked THEN r[k].last ELSE sets[k].last
<1>1. /\ pc = "decide" /\ policy = "Immediate"
      /\ ready' = [k \in Id |-> readyAt(k)]
      /\ sets' = [k \in Id |-> IF k \in asked THEN [sets[k] EXCEPT !.last = r[k].last]
                               ELSE sets[k]]
      /\ IF minBound = Done THEN Conclude("close", Done)
         ELSE IF nextTs < Done THEN Conclude("process", nextTs)
         ELSE IF done # {} /\ ~processBounds THEN Conclude("process", minBound)
         ELSE Conclude("not", minBound)
      /\ offsets' = offsets /\ aligned' = aligned
  BY Zenon DEF DecideImmediate
<1>2. Len(sets) = NumStreams /\ \A k \in Id : sets[k].last \in Timestamp
  <2>1. Len(sets) = NumStreams
    BY <1>1, FreshFacts DEF StageInv
  <2>2. QED
    BY <2>1, SetFacts, IdFacts
<1>3. last = MaxTs
  BY PreviousValues, TimestampValues
<1>4. ASSUME NEW k \in Id
      PROVE  /\ lastOf(k) \in Timestamp
             /\ \/ readyAt(k) = Unset /\ streams[k].selected = Later(lastOf(k), Unstarted)
                \/ /\ readyAt(k) \in PreStream .. PostStream /\ lastOf(k) = readyAt(k)
                   /\ streams[k].selected < readyAt(k) /\ Settled(streams[k], readyAt(k))
                   /\ inputBound <= readyAt(k)
                \/ /\ readyAt(k) = Done
                   /\ streams[k].queue = <<>> /\ streams[k].bound >= OneOverPostStream
             /\ mark(k) \in PreStream .. PostStream \/ mark(k) = Done
             /\ readyAt(k) # Unset => mark(k) = readyAt(k)
             /\ mark(k) = Done => readyAt(k) = Done
             /\ inputBound <= mark(k)
             /\ readyAt(k) # Done => /\ mark(k) <= MinTimestampOrBound(streams[k])
                                     /\ inputBound <= MinTimestampOrBound(streams[k])
             /\ processBounds /\ readyAt(k) # Done =>
                  /\ Passed(k, lastOf(k), inputBound)
                  /\ \A c \in MinTs .. MaxTs : c <= mark(k) => Passed(k, lastOf(k), c)
             /\ readyAt(k) = Unset /\ ~notified => streams[k].queue = <<>>
  <2>1. PICK was, rr : was = sets[k].last /\ rr = OneReadiness(k, was)
    OBVIOUS
  <2>2. rr = r[k]
    BY <2>1 DEF OneReadiness
  <2> HIDE DEF r, last
  <2>3. PICK at, l, m : at = readyAt(k) /\ l = lastOf(k) /\ m = mark(k)
    OBVIOUS
  <2>4. at = IF ready[k] > Unset THEN ready[k]
             ELSE IF rr.is = "close"
             THEN IF processBounds
                  THEN IF was < MaxTs THEN MaxTs ELSE Done
                  ELSE IF was < Done THEN Done ELSE Unset
             ELSE IF rr.is = "process" THEN rr.ts ELSE Unset
    BY <2>1, <2>2, <2>3, <1>3
  <2>5. l = IF ready[k] > Unset THEN was ELSE rr.last
    BY <2>1, <2>2, <2>3
  <2>6. m = IF ready[k] > Unset THEN ready[k]
            ELSE IF rr.is = "close" THEN at ELSE rr.ts
    BY <2>2, <2>3
  <2> HIDE DEF readyAt, lastOf, mark
  <2>7. /\ l \in Timestamp
        /\ \/ at = Unset /\ streams[k].selected = Later(l, Unstarted)
           \/ /\ at \in PreStream .. PostStream /\ l = at
              /\ streams[k].selected < at /\ Settled(streams[k], at)
              /\ inputBound <= at
           \/ /\ at = Done
              /\ streams[k].queue = <<>> /\ streams[k].bound >= OneOverPostStream
        /\ m \in PreStream .. PostStream \/ m = Done
        /\ at # Unset => m = at
        /\ m = Done => at = Done
        /\ inputBound <= m
        /\ at # Done => /\ m <= MinTimestampOrBound(streams[k])
                        /\ inputBound <= MinTimestampOrBound(streams[k])
        /\ processBounds /\ at # Done =>
             /\ Passed(k, l, inputBound)
             /\ \A c \in MinTs .. MaxTs : c <= m => Passed(k, l, c)
        /\ at = Unset /\ ~notified => streams[k].queue = <<>>
    BY <1>1, <2>1, <2>4, <2>5, <2>6, ImmediateOne
  <2>8. QED
    BY <2>3, <2>7
<1>5. \A k \in Id : ready'[k] = readyAt(k)
  <2> HIDE DEF readyAt
  <2>1. QED
    BY <1>1
<1>6. sets' = [k \in Id |-> [sets[k] EXCEPT !.last = lastOf(k)]]
  <2>1. ASSUME NEW k \in Id PROVE sets[k] = [sets[k] EXCEPT !.last = sets[k].last]
    <3>1. k \in 1 .. Len(sets) /\ sets \in Seq([ids : SUBSET Id, last : Timestamp])
      BY <1>2, IdFacts DEF TypeOK
    <3>2. sets[k] \in [ids : SUBSET Id, last : Timestamp]
      <4> DEFINE R == [ids : SUBSET Id, last : Timestamp]
      <4> HIDE DEF R
      <4>1. sets \in Seq(R) => sets[k] \in R
        BY <3>1, ElementOfSeq
      <4>2. QED
        BY <3>1, <4>1 DEF R
    <3>3. QED
      BY <3>2
  <2> HIDE DEF r, waiting, asked
  <2>2. \A k \in Id : (IF k \in asked THEN [sets[k] EXCEPT !.last = r[k].last] ELSE sets[k])
                      = [sets[k] EXCEPT !.last = lastOf(k)]
    BY <2>1
  <2> HIDE DEF lastOf
  <2>3. QED
    BY <1>1, <2>2
<1> HIDE DEF r, waiting, asked, done, last, readyAt, mark, lastOf
<1>7. /\ minBound \in {mark(k) : k \in Id} \cup {Done}
      /\ \A k \in Id : minBound <= mark(k)
  <2>1. \A k \in Id : mark(k) \in Unset .. Done
    BY <1>4, TimestampValues
  <2> DEFINE T == {mark(k) : k \in Id}
  <2>2. T \subseteq Unset .. Done /\ \A k \in Id : mark(k) \in T
    BY <2>1
  <2> HIDE DEF T
  <2>3. Earliest(T) \in T \cup {Done} /\ \A x \in T : Earliest(T) <= x
    BY <2>2, EarliestOf
  <2>4. QED
    BY <2>2, <2>3 DEF T
<1>8. /\ nextTs \in ({readyAt(k) : k \in Id} \ {Unset}) \cup {Done}
      /\ \A k \in Id : readyAt(k) # Unset => nextTs <= readyAt(k)
  <2>1. \A k \in Id : readyAt(k) \in Unset .. Done
    BY <1>4, TimestampValues
  <2> DEFINE T == {readyAt(k) : k \in Id} \ {Unset}
  <2>2. T \subseteq Unset .. Done /\ \A k \in Id : readyAt(k) # Unset => readyAt(k) \in T
    BY <2>1
  <2> HIDE DEF T
  <2>3. Earliest(T) \in T \cup {Done} /\ \A x \in T : Earliest(T) <= x
    BY <2>2, EarliestOf
  <2>4. QED
    BY <2>2, <2>3 DEF T
<1>9. PICK next, bound : next = nextTs /\ bound = minBound
  OBVIOUS
<1>10. /\ bound = Done \/ \E k \in Id : bound = mark(k)
       /\ \A k \in Id : bound <= mark(k)
       /\ next = Done \/ \E k \in Id : next = readyAt(k) /\ next # Unset
       /\ \A k \in Id : readyAt(k) # Unset => next <= readyAt(k)
       /\ IF bound = Done THEN Conclude("close", Done)
          ELSE IF next < Done THEN Conclude("process", next)
          ELSE IF done # {} /\ ~processBounds THEN Conclude("process", bound)
          ELSE Conclude("not", bound)
  BY <1>1, <1>7, <1>8, <1>9
<1> HIDE DEF minBound, nextTs
<1>11. bound # Done => bound \in PreStream .. PostStream /\ inputBound <= bound
  BY <1>4, <1>10
<1>12. next # Done => next \in PreStream .. PostStream /\ inputBound <= next
  BY <1>4, <1>10, TimestampValues
<1>13. next = Done => \A k \in Id : readyAt(k) \in {Unset, Done}
  <2> SUFFICES ASSUME next = Done, NEW k \in Id, readyAt(k) # Unset PROVE readyAt(k) = Done
    OBVIOUS
  <2>1. Done <= readyAt(k)
    BY <1>10
  <2>2. QED
    BY <2>1, <1>4, TimestampValues
<1>14. PICK is, ts :
         /\ Conclude(is, ts)
         /\ \/ is = "close" /\ ts = Done
            \/ is = "process" /\ ts \in PreStream .. PostStream /\ inputBound <= ts
            \/ /\ is = "not" /\ ts = bound /\ ts \in PreStream .. PostStream
               /\ \A k \in Id : readyAt(k) \in {Unset, Done}
  <2>1. CASE bound = Done
    BY <2>1, <1>10
  <2>2. CASE bound # Done /\ next # Done
    <3>1. next < Done
      BY <2>2, <1>12, TimestampValues
    <3>2. QED
      BY <2>2, <3>1, <1>10, <1>12
  <2>3. CASE bound # Done /\ next = Done
    <3>1. ~(next < Done)
      BY <2>3, TimestampValues
    <3>2. CASE done # {} /\ ~processBounds
      BY <2>3, <3>1, <3>2, <1>10, <1>11
    <3>3. CASE ~(done # {} /\ ~processBounds)
      BY <2>3, <3>1, <3>3, <1>10, <1>11, <1>13
    <3>4. QED
      BY <3>2, <3>3
  <2>4. QED
    BY <2>1, <2>2, <2>3
<1>15. ready' = [k \in Id |-> ready'[k]]
  BY <1>1
<1> DEFINE lf == [k \in Id |-> lastOf(k)]
           mf == [k \in Id |-> mark(k)]
<1>16. \A k \in Id : lf[k] = lastOf(k) /\ mf[k] = mark(k)
  OBVIOUS
<1>17. sets' = [k \in Id |-> [sets[k] EXCEPT !.last = lf[k]]]
  BY <1>6, <1>16
<1> HIDE DEF lf, mf
<1>18. \A k \in Id :
         /\ lf[k] \in Timestamp
         /\ \/ ready'[k] = Unset /\ streams[k].selected = Later(lf[k], Unstarted)
            \/ /\ ready'[k] \in PreStream .. PostStream /\ lf[k] = ready'[k]
               /\ streams[k].selected < ready'[k]
               /\ Settled(streams[k], ready'[k])
               /\ inputBound <= ready'[k]
            \/ /\ ready'[k] = Done
               /\ streams[k].queue = <<>> /\ streams[k].bound >= OneOverPostStream
         /\ bound <= mf[k] /\ mf[k] \in Int
         /\ ready'[k] # Done =>
              /\ mf[k] <= MinTimestampOrBound(streams[k])
              /\ inputBound <= MinTimestampOrBound(streams[k])
         /\ processBounds /\ ready'[k] # Done =>
              /\ Passed(k, lf[k], inputBound)
              /\ \A c \in MinTs .. MaxTs : c <= mf[k] => Passed(k, lf[k], c)
         /\ ready'[k] = Unset /\ ~notified => streams[k].queue = <<>>
  <2>1. \A k \in Id : mark(k) \in Int
    BY <1>4, TimestampValues
  <2>2. QED
    BY <1>4, <1>5, <1>10, <1>16, <2>1
<1>19. (\A k \in Id : readyAt(k) \in {Unset, Done}) => \A k \in Id : ready'[k] \in {Unset, Done}
  BY <1>5
<1>20. /\ Conclude(is, ts)
       /\ \/ is = "close" /\ ts = Done
          \/ is = "process" /\ ts \in PreStream .. PostStream /\ inputBound <= ts
          \/ /\ is = "not" /\ ts = bound /\ ts \in PreStream .. PostStream
             /\ \A k \in Id : ready'[k] \in {Unset, Done}
  BY <1>14, <1>19
<1>21. ImmediateRound(lf, mf, is, ts, bound)
  BY <1>1, <1>2, <1>15, <1>17, <1>18, <1>20 DEF ImmediateRound
<1>22. QED
  BY <1>21

\* No input set of the immediate handler is behind the bound that has been
\* reported.
LEMMA ImmediateAhead ==
  ASSUME IInv, DecideImmediate, pc' = "fill"
  PROVE  inputBound <= inputTs'
<1>0. PICK l, m, is, ts, bound : ImmediateRound(l, m, is, ts, bound)
  BY ImmediateFacts
<1>1. /\ Conclude(is, ts)
      /\ \/ is = "close"
         \/ is = "process" /\ inputBound <= ts
         \/ is = "not"
  BY <1>0 DEF ImmediateRound
<1>2. QED
  BY <1>1 DEF Conclude

LEMMA DecideImmediateStep ==
  ASSUME IInv, DecideImmediate
  PROVE  IInv'
<1> USE DEF IInv
<1>0. PICK l, m, is, ts, bound : ImmediateRound(l, m, is, ts, bound)
  BY ImmediateFacts
<1>1. /\ pc = "decide" /\ policy = "Immediate" /\ Len(sets) = NumStreams
      /\ \A k \in Id :
           /\ l[k] \in Timestamp
           /\ \/ ready'[k] = Unset /\ streams[k].selected = Later(l[k], Unstarted)
              \/ /\ ready'[k] \in PreStream .. PostStream /\ l[k] = ready'[k]
                 /\ streams[k].selected < ready'[k]
                 /\ Settled(streams[k], ready'[k])
                 /\ inputBound <= ready'[k]
              \/ /\ ready'[k] = Done
                 /\ streams[k].queue = <<>> /\ streams[k].bound >= OneOverPostStream
           /\ bound <= m[k] /\ m[k] \in Int
           /\ ready'[k] # Done =>
                /\ m[k] <= MinTimestampOrBound(streams[k])
                /\ inputBound <= MinTimestampOrBound(streams[k])
           /\ processBounds /\ ready'[k] # Done =>
                /\ Passed(k, l[k], inputBound)
                /\ \A c \in MinTs .. MaxTs : c <= m[k] => Passed(k, l[k], c)
           /\ ready'[k] = Unset /\ ~notified => streams[k].queue = <<>>
      /\ sets' = [k \in Id |-> [sets[k] EXCEPT !.last = l[k]]]
      /\ ready' = [k \in Id |-> ready'[k]]
      /\ offsets' = offsets /\ aligned' = aligned
      /\ Conclude(is, ts)
      /\ \/ is = "close" /\ ts = Done
         \/ is = "process" /\ ts \in PreStream .. PostStream /\ inputBound <= ts
         \/ /\ is = "not" /\ ts = bound /\ ts \in PreStream .. PostStream
            /\ \A k \in Id : ready'[k] \in {Unset, Done}
  BY <1>0 DEF ImmediateRound
<1>2. ~FixedSize
  BY <1>1 DEF FixedSize
<1>3. ts \in Timestamp /\ is \in Readiness
  BY <1>1, TimestampValues DEF Readiness
<1>4. \A k \in Id : ready'[k] \in Timestamp
  BY <1>1, TimestampValues
<1>5. /\ sets' \in Seq([ids : SUBSET Id, last : Timestamp]) /\ Len(sets') = NumStreams
      /\ \A k \in Id : sets'[k].ids = sets[k].ids /\ sets'[k].last = l[k]
  <2> DEFINE R == [ids : SUBSET Id, last : Timestamp]
  <2>1. \A k \in Id : sets[k] \in R
    <3> HIDE DEF R
    <3>1. sets \in Seq(R) /\ Id = 1 .. Len(sets)
      BY <1>1, IdFacts DEF TypeOK, R
    <3>2. QED
      BY <3>1, ElementOfSeq
  <2>2. \A k \in Id : /\ sets'[k] \in R
                      /\ sets'[k].ids = sets[k].ids /\ sets'[k].last = l[k]
    <3> SUFFICES ASSUME NEW k \in Id
                 PROVE  /\ sets'[k] \in R
                        /\ sets'[k].ids = sets[k].ids /\ sets'[k].last = l[k]
      OBVIOUS
    <3>1. sets'[k] = [sets[k] EXCEPT !.last = l[k]]
      BY <1>1
    <3>2. l[k] \in Timestamp /\ sets[k] \in R
      BY <1>1, <2>1
    <3>3. QED
      BY <3>1, <3>2
  <2> HIDE DEF R
  <2>3. sets' = [k \in 1 .. NumStreams |-> sets'[k]] /\ NumStreams \in Nat
    BY <1>1, IdFacts
  <2>4. sets' \in Seq(R) /\ Len(sets') = NumStreams
    BY <2>2, <2>3, IdFacts
  <2>5. QED
    BY <2>2, <2>4 DEF R
<1>6. /\ ready' \in [Id -> Timestamp] /\ offsets' \in [Id -> -Latest .. Latest]
      /\ aligned' \in BOOLEAN
  <2>1. ready' \in [Id -> Timestamp]
    BY <1>1, <1>4
  <2>2. QED
    BY <1>1, <2>1 DEF TypeOK
<1>7. TypeOK' /\ StreamsInv' /\ StageInv' /\ SeenInv' /\ ErasedInv' /\ AheadInv'
  <2>1. Len(sets') = Len(sets) /\ \A k \in 1 .. Len(sets) : sets'[k].ids = sets[k].ids
    BY <1>1, <1>5, IdFacts
  <2>2. Conclude(is, ts) /\ pc \in {"decide", "select"}
    BY <1>1
  <2>3. QED
    BY <1>2, <1>3, <1>5, <1>6, <2>1, <2>2, Concluded
<1>8. CASE is = "close"
  <2>1. offsets'[Base] = 0 /\ Conclude("close", ts)
    BY <1>1, <1>8 DEF AlignInv
  <2>2. QED
    BY <1>7, <2>1, Closing
<1>9. CASE is # "close"
  <2>1. /\ is = "not" \/ is = "process"
        /\ pc' = IF is = "not" THEN "idle" ELSE "fill"
        /\ inputBound' = IF is = "not" /\ IsRangeValue(ts) THEN ts ELSE inputBound
        /\ inputTs' = IF is = "process" THEN ts ELSE Unset
        /\ streams' = streams /\ notified' = notified /\ failed' = failed
        /\ policy' = policy /\ processBounds' = processBounds
    BY <1>1, <1>2, <1>9 DEF Conclude, config, Readiness
  <2>2. FillInv'
    <3>1. ASSUME is = "process", NEW i \in Id, Wanted(i)'
          PROVE  Settled(streams[i], ts) /\ streams[i].selected < ts
      <4>1. ready'[i] = ts
        BY <3>1, <2>1, <1>1 DEF Wanted
      <4>2. ts # Unset /\ ts # Done
        BY <3>1, <1>1, TimestampValues
      <4>3. QED
        BY <4>1, <4>2, <1>1
    <3>2. is = "process" => ts \in PreStream .. PostStream
      BY <1>1
    <3>3. policy \notin {"Barrier", "TimestampAlign"} /\ pc \in {"decide", "select"}
          /\ Conclude(is, ts)
      BY <1>1
    <3>4. QED
      BY <3>1, <3>2, <3>3, ConcludedFill
  <2>3. TogetherInv'
    BY <1>1, ConcludedTogether
  <2>4. AlignInv' /\ MuxInv'
    BY <1>1, ConcludedElsewhere
  <2>5. LastInv'
    <3>1. \A k \in Id :
            \/ ready'[k] = Unset
               /\ streams'[k].selected = Later(sets'[k].last, Unstarted)
            \/ /\ ready'[k] \in PreStream .. PostStream
               /\ sets'[k].last = ready'[k]
               /\ streams'[k].selected < ready'[k]
               /\ Settled(streams'[k], ready'[k])
            \/ /\ ready'[k] = Done
               /\ streams'[k].queue = <<>> /\ streams'[k].bound >= OneOverPostStream
      BY <1>1, <1>5, <2>1
    <3>2. QED
      BY <1>1, <2>1, <3>1 DEF LastInv
  <2>6. BoundInv'
    <3>1. inputBound = Unset \/ IsRangeValue(inputBound)
      BY <1>1 DEF BoundInv
    <3>2. inputBound' = Unset \/ IsRangeValue(inputBound')
      BY <2>1, <3>1
    <3>3. ASSUME NEW k \in Id, ready'[k] # Done, NEW c, c = inputBound'
          PROVE  /\ c <= MinTimestampOrBound(streams[k])
                 /\ ready'[k] # Unset => c <= ready'[k]
                 /\ processBounds =>
                      c <= MinTs \/ c <= l[k] + 1 \/ c < streams[k].bound
      <4>1. CASE is = "not" /\ IsRangeValue(ts)
        <5>1. c = ts /\ ts = bound /\ ready'[k] = Unset /\ ts \in PreStream .. PostStream
          BY <4>1, <3>3, <2>1, <1>1
        <5>2. c \in MinTs .. MaxTs
          BY <4>1, <5>1, TimestampValues DEF IsRangeValue
        <5>3. c <= m[k] /\ m[k] <= MinTimestampOrBound(streams[k])
          BY <5>1, <3>3, <1>1
        <5>4. MinTimestampOrBound(streams[k]) \in Int /\ m[k] \in Int
          BY <3>3, <1>1, DecideFacts, TimestampValues
        <5>5. c <= MinTimestampOrBound(streams[k])
          BY <5>2, <5>3, <5>4, TimestampValues
        <5>6. processBounds => Passed(k, l[k], c)
          BY <5>2, <5>3, <3>3, <1>1
        <5>7. QED
          BY <5>1, <5>5, <5>6 DEF Passed
      <4>2. CASE ~(is = "not" /\ IsRangeValue(ts))
        <5>1. c = inputBound
          BY <4>2, <3>3, <2>1
        <5>2. /\ c <= MinTimestampOrBound(streams[k])
              /\ processBounds => Passed(k, l[k], c)
              /\ ready'[k] # Unset => c <= ready'[k]
          BY <5>1, <3>3, <1>1
        <5>3. QED
          BY <5>2 DEF Passed
      <4>3. QED
        BY <4>1, <4>2
    <3>4. \A k \in Id : ready'[k] # Done =>
            /\ inputBound' <= MinTimestampOrBound(streams'[k])
            /\ ready'[k] # Unset => inputBound' <= ready'[k]
            /\ processBounds' => \/ inputBound' <= MinTs \/ inputBound' <= sets'[k].last + 1
                                 \/ inputBound' < streams'[k].bound
      BY <3>3, <2>1, <1>5
    <3>5. QED
      BY <1>1, <2>1, <3>2, <3>4 DEF BoundInv, Passed
  <2>7. NothingForgotten'
    <3> SUFFICES ASSUME pc' = "idle", ~notified', NEW i \in Id PROVE streams'[i].queue = <<>>
      BY <1>1, <2>1 DEF NothingForgotten
    <3>1. is = "not" /\ ~notified /\ streams' = streams
      BY <2>1
    <3>2. ready'[i] \in {Unset, Done}
      BY <3>1, <1>1
    <3>3. QED
      BY <3>1, <3>2, <1>1, TimestampValues
  <2>8. QED
    BY <1>7, <2>2, <2>3, <2>4, <2>5, <2>6, <2>7
<1>10. QED
  BY <1>8, <1>9

-----------------------------------------------------------------------------
\* The sync set handler.

\* The two sets of streams.
LEMMA SyncSets ==
  ASSUME TypeOK, StageInv, policy = "SyncSet"
  PROVE  /\ Len(sets) = 2 /\ DOMAIN sets = {1, 2}
         /\ \A k \in {1, 2} :
              /\ sets[k].ids \in SUBSET Id /\ sets[k].last \in Timestamp
              /\ sets[k] \in [ids : SUBSET Id, last : Timestamp]
              /\ \A i, j \in Id : Together(i, j) => (i \in sets[k].ids <=> j \in sets[k].ids)
              /\ \A i, j \in sets[k].ids : Together(i, j)
         /\ \A i \in sets[1].ids : i \notin sets[2].ids
<1>1. Len(sets) = 2
  BY FreshFacts DEF StageInv
<1>2. DOMAIN sets = {1, 2}
  BY <1>1, SetFacts
<1>3. /\ sets[1].ids = {1} \/ sets[1].ids = {}
      /\ sets[2].ids = Id \ {1} \/ sets[2].ids = {}
  <2>1. 1 \in 1 .. Len(sets) /\ 2 \in 1 .. Len(sets)
    BY <1>1
  <2>2. FreshSets[1].ids = {1} /\ FreshSets[2].ids = Id \ {1}
    BY FreshFacts
  <2>3. QED
    BY <2>1, <2>2 DEF StageInv
<1>4. \A k \in {1, 2} : sets[k].ids \in SUBSET Id /\ sets[k].last \in Timestamp
  BY <1>1, SetFacts
<1>5. \A k \in {1, 2} : sets[k] \in [ids : SUBSET Id, last : Timestamp]
  <2> DEFINE R == [ids : SUBSET Id, last : Timestamp]
  <2>1. sets \in Seq(R)
    BY DEF TypeOK
  <2> HIDE DEF R
  <2>2. sets[1] \in R /\ sets[2] \in R
    <3>1. 1 \in 1 .. Len(sets) /\ 2 \in 1 .. Len(sets)
      BY <1>1
    <3>2. QED
      BY <2>1, <3>1, ElementOfSeq
  <2>3. QED
    BY <2>2 DEF R
<1>6. \A i, j : Together(i, j) <=> (i = 1 <=> j = 1)
  BY DEF Together
<1>7. ASSUME NEW k \in {1, 2}
      PROVE  /\ \A i, j \in Id : Together(i, j) => (i \in sets[k].ids <=> j \in sets[k].ids)
             /\ \A i, j \in sets[k].ids : Together(i, j)
  <2>1. CASE k = 1
    BY <2>1, <1>3, <1>6
  <2>2. CASE k = 2
    BY <2>2, <1>3, <1>6
  <2>3. QED
    BY <2>1, <2>2
<1>8. \A i \in sets[1].ids : i \notin sets[2].ids
  BY <1>3
<1>9. QED
  BY <1>1, <1>2, <1>4, <1>5, <1>7, <1>8

\* What becomes of the sets: a set that is done is emptied, and the streams of the
\* set that goes first are ready.
SyncRound(r, first, is, ts) ==
  /\ pc = "decide" /\ policy = "SyncSet"
  /\ \A k \in {1, 2} : r[k] = GetReadiness(sets[k].ids, sets[k].last)
  /\ \A k \in {1, 2} :
       sets'[k] = [ids |-> IF r[k].is # "close" THEN sets[k].ids ELSE {}, last |-> r[k].last]
  /\ sets' = [k \in {1, 2} |-> sets'[k]]
  /\ ready' = [i \in Id |-> ready'[i]]
  /\ offsets' = offsets /\ aligned' = aligned
  /\ Conclude(is, ts)
  /\ \/ /\ is = "process" /\ first \in {1, 2} /\ r[first].is = "process"
        /\ ts = r[first].ts
        /\ \A i \in Id : ready'[i] = IF i \in sets[first].ids THEN ts ELSE Unset
     \/ /\ is # "process" /\ \A i \in Id : ready'[i] = Unset
        /\ \A k \in {1, 2} : r[k].is # "process"
        /\ \/ is = "close" /\ ts = Done
           \/ is = "not" /\ \E k \in {1, 2} : ts = r[k].ts

LEMMA SyncFacts ==
  ASSUME IInv, DecideSyncSet
  PROVE  \E r, first, is, ts : SyncRound(r, first, is, ts)
<1> USE DEF IInv
<1> DEFINE r == [k \in DOMAIN sets |-> GetReadiness(sets[k].ids, sets[k].last)]
           due == {k \in DOMAIN sets : r[k].is = "process"}
           open == {k \in DOMAIN sets : r[k].is # "close"}
           asked == {k \in DOMAIN sets : sets[k].ids # {}}
           first == CHOOSE k \in due : \A m \in due :
                      r[k].ts < r[m].ts \/ (r[k].ts = r[m].ts /\ k <= m)
<1>1. /\ pc = "decide" /\ policy = "SyncSet"
      /\ sets' = [k \in DOMAIN sets |->
                    [ids |-> IF k \in open THEN sets[k].ids ELSE {}, last |-> r[k].last]]
      /\ ready' = [i \in Id |-> IF due # {} /\ i \in sets[first].ids
                                THEN r[first].ts ELSE Unset]
      /\ IF due # {} THEN Conclude("process", r[first].ts)
         ELSE IF open = {} THEN Conclude("close", Done)
         ELSE Conclude("not", r[Max(asked)].ts)
      /\ offsets' = offsets /\ aligned' = aligned
  BY Zenon DEF DecideSyncSet
<1>2. /\ DOMAIN sets = {1, 2}
      /\ \A k \in {1, 2} : sets[k].ids \in SUBSET Id /\ sets[k].last \in Timestamp
  BY <1>1, SyncSets
<1>3. \A k \in {1, 2} : r[k] = GetReadiness(sets[k].ids, sets[k].last)
  BY <1>2
<1> HIDE DEF r
<1>4. ASSUME NEW k \in {1, 2}
      PROVE  /\ r[k].is \in Readiness /\ r[k].ts \in PreStream .. Done
             /\ r[k].is = "not" => sets[k].ids # {}
  <2>1. PICK rr, ids, last : /\ rr = r[k] /\ ids = sets[k].ids /\ last = sets[k].last
    OBVIOUS
  <2>2. ids \in SUBSET Id /\ last \in Timestamp /\ \A i \in ids : IsRead(i, seen[i])
    BY <1>1, <1>2, <2>1, DecideFacts
  <2>3. rr = GetReadiness(ids, last)
    BY <1>3, <2>1
  <2>4. rr.is \in Readiness /\ rr.ts \in PreStream .. Done /\ (rr.is = "not" => ids # {})
    BY <2>2, <2>3, ReadinessFacts
  <2>5. QED
    BY <2>1, <2>4
<1>5. /\ due = {k \in {1, 2} : r[k].is = "process"}
      /\ open = {k \in {1, 2} : r[k].is # "close"}
      /\ asked = {k \in {1, 2} : sets[k].ids # {}}
  BY <1>2
<1>6. due # {} => first \in due
  <2>1. \A k \in {1, 2} : r[k].ts \in Int
    BY <1>4, TimestampValues
  <2> DEFINE a == r[1].ts
             b == r[2].ts
  <2>2. a \in Int /\ b \in Int
    BY <2>1
  <2> HIDE DEF a, b
  <2> DEFINE Goes(k) == \A m \in due : r[k].ts < r[m].ts \/ (r[k].ts = r[m].ts /\ k <= m)
  <2>3. due # {} => \E k \in due : Goes(k)
    <3>1. \A m \in due : m = 1 \/ m = 2
      BY <1>5
    <3>2. CASE 1 \in due /\ (2 \in due => a <= b)
      <4>1. a = a /\ 1 <= 1 /\ 1 <= 2 /\ (a <= b => a < b \/ a = b)
        BY <2>2
      <4>2. Goes(1)
        BY <3>1, <3>2, <4>1 DEF a, b
      <4>3. QED
        BY <3>2, <4>2
    <3>3. CASE 2 \in due /\ (1 \in due => b < a)
      <4>1. b = b /\ 2 <= 2
        OBVIOUS
      <4>2. Goes(2)
        BY <3>1, <3>3, <4>1 DEF a, b
      <4>3. QED
        BY <3>3, <4>2
    <3>4. a <= b \/ b < a
      BY <2>2
    <3>5. QED
      BY <3>1, <3>2, <3>3, <3>4
  <2> HIDE DEF Goes
  <2>4. first = CHOOSE k \in due : Goes(k)
    BY DEF Goes
  <2>5. QED
    BY <2>3, <2>4
<1> HIDE DEF first
<1>7. due = {} /\ open # {} => Max(asked) \in {1, 2}
  <2> SUFFICES ASSUME due = {}, NEW o \in open PROVE Max(asked) \in {1, 2}
    OBVIOUS
  <2>1. r[o].is = "not" /\ o \in {1, 2}
    BY <1>4, <1>5 DEF Readiness
  <2>2. asked # {} /\ asked \subseteq {1, 2}
    BY <2>1, <1>4, <1>5
  <2>3. asked \in SUBSET Int /\ 2 \in Int /\ \A x \in asked : x <= 2
    BY <2>2
  <2> HIDE DEF asked
  <2>4. Max(asked) \in asked
    BY <2>2, <2>3, MaxOfSet
  <2>5. QED
    BY <2>2, <2>4
<1> DEFINE is == IF due # {} THEN "process" ELSE IF open = {} THEN "close" ELSE "not"
           ts == IF due # {} THEN r[first].ts
                 ELSE IF open = {} THEN Done ELSE r[Max(asked)].ts
<1>8. Conclude(is, ts)
  BY <1>1
<1>9. \A k \in {1, 2} :
        sets'[k] = [ids |-> IF r[k].is # "close" THEN sets[k].ids ELSE {}, last |-> r[k].last]
  BY <1>1, <1>2, <1>5
<1>10. /\ sets' = [k \in {1, 2} |-> sets'[k]]
       /\ ready' = [i \in Id |-> ready'[i]]
       /\ \A i \in Id : ready'[i] = IF due # {} /\ i \in sets[first].ids
                                    THEN r[first].ts ELSE Unset
  BY <1>1, <1>2
<1>11. \/ /\ is = "process" /\ first \in {1, 2} /\ r[first].is = "process"
          /\ ts = r[first].ts
          /\ \A i \in Id : ready'[i] = IF i \in sets[first].ids THEN ts ELSE Unset
       \/ /\ is # "process" /\ \A i \in Id : ready'[i] = Unset
          /\ \A k \in {1, 2} : r[k].is # "process"
          /\ \/ is = "close" /\ ts = Done
             \/ is = "not" /\ \E k \in {1, 2} : ts = r[k].ts
  <2>1. CASE due # {}
    BY <2>1, <1>5, <1>6, <1>10
  <2>2. CASE due = {}
    <3>1. /\ is # "process"
          /\ \/ is = "close" /\ ts = Done
             \/ is = "not" /\ ts = r[Max(asked)].ts /\ open # {}
      BY <2>2
    <3>2. \A k \in {1, 2} : r[k].is # "process"
      BY <2>2, <1>5
    <3>3. \A i \in Id : ready'[i] = Unset
      BY <2>2, <1>10
    <3>4. is = "not" => \E k \in {1, 2} : ts = r[k].ts
      BY <2>2, <3>1, <1>7
    <3> HIDE DEF is, ts
    <3>5. QED
      BY <3>1, <3>2, <3>3, <3>4
  <2>3. QED
    BY <2>1, <2>2
<1> HIDE DEF is, ts, due, open, asked
<1>12. SyncRound(r, first, is, ts)
  BY <1>1, <1>3, <1>8, <1>9, <1>10, <1>11 DEF SyncRound
<1>13. QED
  BY <1>12

LEMMA DecideSyncSetStep ==
  ASSUME IInv, DecideSyncSet
  PROVE  IInv'
<1> USE DEF IInv
<1>1. PICK r, first, is, ts : SyncRound(r, first, is, ts)
  BY SyncFacts
<1>2. /\ pc = "decide" /\ policy = "SyncSet"
      /\ \A k \in {1, 2} : r[k] = GetReadiness(sets[k].ids, sets[k].last)
      /\ \A k \in {1, 2} :
           sets'[k] = [ids |-> IF r[k].is # "close" THEN sets[k].ids ELSE {},
                       last |-> r[k].last]
      /\ sets' = [k \in {1, 2} |-> sets'[k]]
      /\ ready' = [i \in Id |-> ready'[i]]
      /\ offsets' = offsets /\ aligned' = aligned
      /\ Conclude(is, ts)
      /\ \/ /\ is = "process" /\ first \in {1, 2} /\ r[first].is = "process"
            /\ ts = r[first].ts
            /\ \A i \in Id : ready'[i] = IF i \in sets[first].ids THEN ts ELSE Unset
         \/ /\ is # "process" /\ \A i \in Id : ready'[i] = Unset
            /\ \A k \in {1, 2} : r[k].is # "process"
            /\ \/ is = "close" /\ ts = Done
               \/ is = "not" /\ \E k \in {1, 2} : ts = r[k].ts
  BY <1>1 DEF SyncRound
<1>3. /\ Len(sets) = 2 /\ DOMAIN sets = {1, 2}
      /\ \A k \in {1, 2} :
           /\ sets[k].ids \in SUBSET Id /\ sets[k].last \in Timestamp
           /\ sets[k] \in [ids : SUBSET Id, last : Timestamp]
           /\ \A i, j \in Id : Together(i, j) => (i \in sets[k].ids <=> j \in sets[k].ids)
           /\ \A i, j \in sets[k].ids : Together(i, j)
      /\ \A i \in sets[1].ids : i \notin sets[2].ids
  BY <1>2, SyncSets
<1>4. \A i \in Id : /\ IsRead(i, seen[i])
                    /\ streams[i].selected < MinTimestampOrBound(streams[i])
                    /\ MinTimestampOrBound(streams[i]) \in PreStream .. Done
                    /\ streams[i].selected \in Unstarted .. Done
  BY <1>2, DecideFacts
<1>5. ASSUME NEW k \in {1, 2}
      PROVE  /\ r[k].is \in Readiness /\ r[k].ts \in PreStream .. Done /\ r[k].last \in Timestamp
             /\ r[k].is = "process" =>
                  /\ r[k].ts \in PreStream .. PostStream /\ r[k].last = r[k].ts
                  /\ \A i \in sets[k].ids : Settled(streams[i], r[k].ts)
                  /\ ~processBounds => \E i \in sets[k].ids :
                       streams[i].queue # <<>> /\ Head(streams[i].queue) = r[k].ts
                  /\ processBounds => Later(sets[k].last, Unstarted) < r[k].ts
             /\ r[k].is = "not" =>
                  /\ r[k].last = sets[k].last /\ sets[k].ids # {}
                  /\ \A i \in sets[k].ids : r[k].ts <= MinTimestampOrBound(streams[i])
             /\ r[k].is = "not" /\ ~processBounds /\ ~notified => ~Due(sets[k].ids)
  <2>1. PICK rr, ids, last : /\ rr = r[k] /\ ids = sets[k].ids /\ last = sets[k].last
    OBVIOUS
  <2>2. ids \in SUBSET Id /\ last \in Timestamp /\ \A i \in ids : IsRead(i, seen[i])
    BY <1>3, <1>4, <2>1
  <2>3. rr = GetReadiness(ids, last)
    BY <1>2, <2>1
  <2>4. /\ rr.is \in Readiness /\ rr.ts \in PreStream .. Done /\ rr.last \in Timestamp
        /\ rr.is = "process" =>
             /\ rr.ts \in PreStream .. PostStream /\ rr.last = rr.ts
             /\ \A i \in ids : Settled(streams[i], rr.ts)
             /\ ~processBounds => \E i \in ids : /\ streams[i].queue # <<>>
                                                 /\ Head(streams[i].queue) = rr.ts
             /\ processBounds => Later(last, Unstarted) < rr.ts
        /\ rr.is = "not" =>
             /\ rr.last = last /\ ids # {}
             /\ \A i \in ids : rr.ts <= MinTimestampOrBound(streams[i])
    BY <2>2, <2>3, ReadinessFacts
  <2>5. rr.is = "not" /\ ~processBounds /\ ~notified => ~Due(ids)
    <3> SUFFICES ASSUME rr.is = "not", ~processBounds, ~notified PROVE ~Due(ids)
      OBVIOUS
    <3>1. GetReadiness(ids, last).is = "not" /\ policy # "TimestampAlign"
      BY <1>2, <2>3
    <3>2. QED
      BY <2>2, <3>1, NotReady
  <2>6. QED
    BY <2>1, <2>4, <2>5
<1>6. ts \in Timestamp /\ is \in Readiness /\ ~FixedSize /\ ts \in PreStream .. Done
  <2>1. \A k \in {1, 2} : r[k].ts \in PreStream .. Done
    BY <1>5
  <2>2. ts \in PreStream .. Done
    BY <1>2, <2>1, TimestampValues
  <2>3. QED
    BY <1>2, <2>2, TimestampValues DEF Readiness, FixedSize
<1>7. /\ sets' \in Seq([ids : SUBSET Id, last : Timestamp]) /\ Len(sets') = 2
      /\ \A k \in {1, 2} : sets'[k].ids = sets[k].ids \/ sets'[k].ids = {}
  <2> DEFINE R == [ids : SUBSET Id, last : Timestamp]
  <2>1. \A k \in {1, 2} : /\ sets'[k] \in R
                          /\ sets'[k].ids = sets[k].ids \/ sets'[k].ids = {}
    BY <1>2, <1>3, <1>5
  <2> HIDE DEF R
  <2>2. PICK n \in Nat : n = 2
    OBVIOUS
  <2>3. {1, 2} = 1 .. n
    BY <2>2
  <2>4. sets' = [k \in 1 .. n |-> sets'[k]] /\ \A k \in 1 .. n : sets'[k] \in R
    BY <1>2, <2>1, <2>3
  <2>5. sets' \in Seq(R) /\ Len(sets') = n
    BY <2>4
  <2>6. QED
    BY <2>1, <2>2, <2>5 DEF R
<1>8. /\ ready' \in [Id -> Timestamp] /\ offsets' \in [Id -> -Latest .. Latest]
      /\ aligned' \in BOOLEAN
  <2>1. \A i \in Id : ready'[i] \in Timestamp
    BY <1>2, <1>6, TimestampValues
  <2>2. ready' \in [Id -> Timestamp]
    BY <1>2, <2>1
  <2>3. QED
    BY <1>2, <2>2 DEF TypeOK
<1>9. TypeOK' /\ StreamsInv' /\ StageInv' /\ SeenInv' /\ ErasedInv' /\ AheadInv'
  <2>1. Len(sets') = Len(sets)
        /\ \A k \in 1 .. Len(sets) : \/ sets'[k].ids = sets[k].ids
                                     \/ policy = "SyncSet" /\ sets'[k].ids = {}
    BY <1>2, <1>3, <1>7
  <2>2. Conclude(is, ts) /\ pc \in {"decide", "select"}
    BY <1>2
  <2>3. QED
    BY <1>6, <1>7, <1>8, <2>1, <2>2, Concluded
<1>10. CASE is = "close"
  <2>1. offsets'[Base] = 0 /\ Conclude("close", ts)
    BY <1>2, <1>10 DEF AlignInv
  <2>2. QED
    BY <1>9, <2>1, Closing
<1>11. CASE is # "close"
  <2>1. /\ is = "not" \/ is = "process"
        /\ pc' = IF is = "not" THEN "idle" ELSE "fill"
        /\ inputBound' = IF is = "not" /\ IsRangeValue(ts) THEN ts ELSE inputBound
        /\ inputTs' = IF is = "process" THEN ts ELSE Unset
        /\ streams' = streams /\ notified' = notified /\ failed' = failed
        /\ policy' = policy /\ processBounds' = processBounds
    BY <1>2, <1>6, <1>11 DEF Conclude, config, Readiness
  <2>2. ASSUME is = "process"
        PROVE  /\ first \in {1, 2} /\ r[first].is = "process" /\ ts = r[first].ts
               /\ ts \in PreStream .. PostStream /\ ts # Unset
               /\ \A i \in Id : ready'[i] = IF i \in sets[first].ids THEN ts ELSE Unset
    <3>1. /\ first \in {1, 2} /\ r[first].is = "process" /\ ts = r[first].ts
          /\ \A i \in Id : ready'[i] = IF i \in sets[first].ids THEN ts ELSE Unset
      BY <1>2, <2>2
    <3>2. ts \in PreStream .. PostStream
      BY <3>1, <1>5
    <3>3. QED
      BY <3>1, <3>2, TimestampValues
  <2>3. ASSUME is = "process", NEW i \in Id
        PROVE  Wanted(i)' <=> i \in sets[first].ids
    <3>1. Wanted(i)' <=> ready'[i] = ts
      BY <1>2, <2>1, <2>3 DEF Wanted
    <3>2. QED
      BY <3>1, <2>2, <2>3
  <2>4. FillInv'
    <3>1. ASSUME is = "process", NEW i \in Id, Wanted(i)'
          PROVE  Settled(streams[i], ts) /\ streams[i].selected < ts
      <4>1. i \in sets[first].ids /\ first \in {1, 2} /\ r[first].is = "process"
            /\ ts = r[first].ts
        BY <2>2, <2>3, <3>1
      <4>2. Settled(streams[i], ts)
        BY <4>1, <1>5
      <4>3. CASE processBounds
        <5>1. Later(sets[first].last, Unstarted) < ts
          BY <4>1, <4>3, <1>5
        <5>2. streams[i].selected <= Later(sets[first].last, Unstarted)
          <6>1. first \in 1 .. Len(sets)
            BY <4>1, <1>3
          <6>2. QED
            BY <4>1, <4>3, <6>1, <1>2 DEF LastInv
        <5>3. Later(sets[first].last, Unstarted) \in Int /\ ts \in Int
              /\ streams[i].selected \in Int
          BY <4>1, <1>3, <1>4, <1>6, TimestampValues DEF Later
        <5>4. QED
          BY <4>2, <5>1, <5>2, <5>3
      <4>4. CASE ~processBounds
        <5>1. PICK j \in sets[first].ids :
                streams[j].queue # <<>> /\ Head(streams[j].queue) = ts
          BY <4>1, <4>4, <1>5
        <5>2. j \in Id /\ Together(i, j)
          BY <4>1, <5>1, <1>3
        <5>3. MinTimestampOrBound(streams[j]) = ts
          BY <5>1 DEF MinTimestampOrBound
        <5>4. streams[j].selected < ts
          BY <5>2, <5>3, <1>4
        <5>5. streams[i].selected = streams[j].selected
          BY <5>2, <1>2 DEF TogetherInv, Between
        <5>6. QED
          BY <4>2, <5>4, <5>5
      <4>5. QED
        BY <4>3, <4>4
    <3>2. is = "process" => ts \in PreStream .. PostStream
      BY <2>2
    <3>3. policy \notin {"Barrier", "TimestampAlign"} /\ pc \in {"decide", "select"}
          /\ Conclude(is, ts)
      BY <1>2
    <3>4. QED
      BY <3>1, <3>2, <3>3, ConcludedFill
  <2>5. TogetherInv'
    <3>1. is = "process" =>
            \A i, j \in Id : Together(i, j) => (ready'[i] = ts <=> ready'[j] = ts)
      BY <2>2, <1>3
    <3>2. Conclude(is, ts) /\ pc \in {"decide", "select"}
      BY <1>2
    <3>3. QED
      BY <3>1, <3>2, ConcludedTogether
  <2>6. AlignInv' /\ MuxInv'
    BY <1>2, ConcludedElsewhere
  <2>7. LastInv'
    <3>1. ASSUME processBounds, NEW k \in {1, 2}, NEW i \in sets'[k].ids
          PROVE  /\ streams[i].selected <= Later(sets'[k].last, Unstarted)
                 /\ pc' = "fill" /\ Wanted(i)' => inputTs' <= sets'[k].last
      <4>1. r[k].is # "close" /\ i \in sets[k].ids /\ sets'[k].last = r[k].last /\ i \in Id
        BY <3>1, <1>2, <1>3
      <4>2. streams[i].selected <= Later(sets[k].last, Unstarted)
        <5>1. k \in 1 .. Len(sets)
          BY <3>1, <1>3
        <5>2. QED
          BY <4>1, <3>1, <5>1, <1>2 DEF LastInv
      <4>3. r[k].last = sets[k].last \/ Later(sets[k].last, Unstarted) < r[k].last
        BY <3>1, <4>1, <1>5 DEF Readiness
      <4>4. /\ sets[k].last \in Int /\ r[k].last \in Int /\ streams[i].selected \in Int
        BY <4>1, <3>1, <1>3, <1>4, <1>5, TimestampValues
      <4>5. streams[i].selected <= Later(r[k].last, Unstarted)
        BY <4>2, <4>3, <4>4, TimestampValues DEF Later
      <4>6. ASSUME pc' = "fill", Wanted(i)' PROVE inputTs' <= sets'[k].last
        <5>1. is = "process"
          BY <4>6, <2>1
        <5>2. i \in sets[first].ids /\ first \in {1, 2}
          BY <4>1, <4>6, <5>1, <2>2, <2>3
        <5>3. first = k
          BY <4>1, <5>2, <3>1, <1>3
        <5>4. inputTs' = r[k].ts /\ r[k].last = r[k].ts
          BY <5>1, <5>3, <2>1, <2>2, <1>5
        <5>5. QED
          BY <5>4, <4>1, <4>4
      <4>7. QED
        BY <4>1, <4>5, <4>6
    <3>2. Len(sets') = 2 /\ 1 .. 2 = {1, 2}
      BY <1>7
    <3>3. policy' = "SyncSet" /\ streams' = streams /\ processBounds' = processBounds
      BY <1>2, <2>1
    <3>4. QED
      BY <3>1, <3>2, <3>3 DEF LastInv
  <2>8. BoundInv'
    <3>1. inputBound = Unset \/ IsRangeValue(inputBound)
      BY <1>2 DEF BoundInv
    <3>2. inputBound' = Unset \/ IsRangeValue(inputBound')
      BY <2>1, <3>1
    <3>3. QED
      BY <1>2, <2>1, <3>2 DEF BoundInv
  <2>9. NothingForgotten'
    <3> SUFFICES ASSUME pc' = "idle", ~notified' PROVE NothingForgotten'
      BY DEF NothingForgotten
    <3>1. is = "not" /\ ~notified
      BY <2>1
    <3>2. ASSUME ~processBounds, NEW k \in {1, 2}, sets'[k].ids # {}
          PROVE  ~(Due(sets[k].ids)')
      <4>1. r[k].is = "not" /\ sets'[k].ids = sets[k].ids
        BY <3>1, <3>2, <1>2, <1>5 DEF Readiness
      <4>2. PICK ids \in SUBSET Id : ids = sets[k].ids
        BY <3>2, <1>3
      <4>3. ~Due(ids)
        BY <3>1, <3>2, <4>1, <4>2, <1>5
      <4>4. ~(Due(ids)')
        BY <4>3, <2>1, <1>2, StillNotDue
      <4>5. sets'[k].ids = ids
        BY <4>1, <4>2
      <4>6. Due(sets[k].ids)' <=> Due(ids)'
        BY <4>5 DEF Due
      <4>7. QED
        BY <4>4, <4>6
    <3>3. DOMAIN sets' = {1, 2} /\ policy' = "SyncSet" /\ processBounds' = processBounds
      BY <1>2, <2>1
    <3>4. QED
      BY <3>2, <3>3 DEF NothingForgotten
  <2>10. QED
    BY <1>9, <2>4, <2>5, <2>6, <2>7, <2>8, <2>9
<1>12. QED
  BY <1>10, <1>11

-----------------------------------------------------------------------------
\* A check that ends the process.
LEMMA FailStep ==
  ASSUME IInv, pc \in {"decide", "select"}, policy \in {"TimestampAlign", "Mux"},
         failed' \in {"special", "torn"}, pc' = "idle",
         UNCHANGED <<config, input, handler, seen, inputTs, filled, inputBound>>
  PROVE  IInv'
<1> USE DEF IInv
<1>1. /\ policy' = policy /\ processBounds' = processBounds /\ choice' = choice
      /\ streams' = streams /\ promised' = promised /\ notified' = notified
      /\ sets' = sets /\ ready' = ready /\ offsets' = offsets /\ aligned' = aligned
      /\ kept' = kept /\ erased' = erased /\ owed' = owed /\ seen' = seen
      /\ inputTs' = inputTs /\ filled' = filled /\ inputBound' = inputBound
  BY DEF config, input, handler
<1>2. TypeOK'
  BY <1>1 DEF TypeOK
<1>3. StreamsInv'
  BY <1>1 DEF StreamsInv, Overtaken
<1>4. StageInv'
  <2>1. FreshSets' = FreshSets
    BY <1>1 DEF FreshSets
  <2>2. QED
    BY <1>1, <2>1 DEF StageInv
<1>5. SeenInv' /\ FillInv' /\ AheadInv'
  BY DEF SeenInv, FillInv, AheadInv
<1>6. TogetherInv' /\ LastInv' /\ MuxInv'
  BY <1>1 DEF TogetherInv, Together, LastInv, MuxInv
<1>7. BoundInv'
  BY <1>1 DEF BoundInv, Shift
<1>8. AlignInv'
  BY <1>1 DEF AlignInv, AlignedAt
<1>9. ErasedInv'
  BY <1>1 DEF ErasedInv, FixedSize
<1>10. NothingForgotten'
  BY DEF NothingForgotten
<1>11. QED
  BY <1>2, <1>3, <1>4, <1>5, <1>6, <1>7, <1>8, <1>9, <1>10

-----------------------------------------------------------------------------
\* The mux.

\* A control packet waits for a data stream that has no packet yet.
LEMMA DataMissing ==
  ASSUME IInv, policy = "Mux", NEW d \in Data, NEW ids, ids = {Control, d},
         streams[Control].queue # <<>>, streams[d].queue = <<>>,
         MinTimestampOrBound(streams[d]) <= MinTimestampOrBound(streams[Control])
  PROVE  ~Due(ids)
<1>1. d \in Id /\ Control \in Id /\ d # Control
  BY IdFacts
<1>2. PICK x, y : x = MinTimestampOrBound(streams[Control])
                  /\ y = MinTimestampOrBound(streams[d])
  OBVIOUS
<1>3. x \in PreStream .. PostStream /\ y \in PreStream .. Done /\ y <= x
  BY <1>1, <1>2, MinFacts DEF IInv, StreamsInv
<1>4. At(Control) = x /\ At(d) = y
  BY <1>2 DEF At
<1>5. BoundsOf(ids) = {y} /\ PacketsOf(ids) = {x}
  BY <1>1, <1>4 DEF BoundsOf, PacketsOf
<1>6. {x} \subseteq Unset .. Done /\ {y} \subseteq Unset .. Done
  BY <1>3, TimestampValues
<1>7. PICK a, b : a = Earliest({x}) /\ b = Earliest({y})
  OBVIOUS
<1>8. a = x \/ a = Done
  BY <1>6, <1>7, EarliestOf
<1>9. b <= y /\ b \in Unset .. Done
  BY <1>6, <1>7, EarliestOf
<1>10. ~(a < b)
  BY <1>3, <1>8, <1>9, TimestampValues
<1>11. ~IsDone(streams[Control])
  BY DEF IsDone
<1>12. QED
  BY <1>5, <1>7, <1>10, <1>11, DueMeans

LEMMA DecideMuxStep ==
  ASSUME IInv, DecideMux
  PROVE  IInv'
<1> USE DEF IInv
<1>1. PICK control : control = seen[1]
  OBVIOUS
<1>2. PICK d : d = choice[control.ts]
  OBVIOUS
<1>3. pc = "select" /\ policy = "Mux" /\ ~FixedSize /\ filled = 0
  BY DEF DecideMux, StageInv, FixedSize
<1>4. /\ \/ /\ control.empty
            /\ Conclude(IF control.ts = Done THEN "close" ELSE "not", control.ts)
         \/ /\ ~control.empty /\ streams[d].queue = <<>>
            /\ MinTimestampOrBound(streams[d]) <= control.ts
            /\ Conclude("not", control.ts)
         \/ /\ ~control.empty
            /\ \/ MinTimestampOrBound(streams[d]) > control.ts
               \/ streams[d].queue # <<>> /\ MinTimestampOrBound(streams[d]) = control.ts
            /\ Conclude("process", control.ts)
         \/ /\ failed' = "torn" /\ pc' = "idle"
            /\ UNCHANGED <<config, input, kept, erased, owed, seen, inputTs,
                           filled, inputBound>>
      /\ sets' = sets /\ ready' = ready /\ offsets' = offsets /\ aligned' = aligned
  BY <1>1, <1>2 DEF DecideMux, Reading
<1>5. /\ IsRead(Control, control)
      /\ Control \in Id /\ Waiting(streams[Control])
      /\ MinTimestampOrBound(streams[Control]) \in PreStream .. Done
      /\ streams[Control].selected < MinTimestampOrBound(streams[Control])
      /\ streams[Control].selected \in Int
  <2>1. IsRead(Control, control) /\ Control \in Id
    BY <1>1, <1>3, IdFacts DEF SeenInv
  <2>2. Waiting(streams[Control])
        /\ streams[Control].selected < MinTimestampOrBound(streams[Control])
    BY <2>1, <1>3 DEF StreamsInv
  <2>3. QED
    BY <2>1, <2>2, MinFacts, StreamFacts, TimestampValues
<1>6. /\ control.ts \in PreStream .. Done
      /\ control.ts <= MinTimestampOrBound(streams[Control])
      /\ ~control.empty => /\ streams[Control].queue # <<>>
                           /\ control.ts = Head(streams[Control].queue)
                           /\ control.ts = MinTimestampOrBound(streams[Control])
                           /\ control.ts \in PreStream .. PostStream
      /\ ~notified => /\ control.empty = (streams[Control].queue = <<>>)
                      /\ control.ts = MinTimestampOrBound(streams[Control])
  <2>1. /\ control.ts \in PreStream .. Done
        /\ control.ts <= MinTimestampOrBound(streams[Control])
        /\ ~control.empty => /\ streams[Control].queue # <<>>
                             /\ control.ts = Head(streams[Control].queue)
        /\ ~notified => /\ control.empty = (streams[Control].queue = <<>>)
                        /\ control.ts = MinTimestampOrBound(streams[Control])
    BY <1>5 DEF IsRead
  <2>2. ~control.empty => /\ control.ts = MinTimestampOrBound(streams[Control])
                          /\ control.ts \in PreStream .. PostStream
    BY <2>1, <1>5, MinFacts
  <2>3. QED
    BY <2>1, <2>2
<1>7. ~control.empty => d \in Data /\ d \in Id /\ Waiting(streams[d])
  BY <1>2, <1>3, <1>6, IdFacts DEF StageInv, StreamsInv
<1>8. CASE /\ failed' = "torn" /\ pc' = "idle"
           /\ UNCHANGED <<config, input, kept, erased, owed, seen, inputTs,
                          filled, inputBound>>
  <2>1. UNCHANGED <<config, input, handler, seen, inputTs, filled, inputBound>>
    BY <1>4, <1>8 DEF handler
  <2>2. QED
    BY <1>3, <1>8, <2>1, FailStep
<1>9. ASSUME NEW is, NEW ts, ts = control.ts, Conclude(is, ts),
             is \in Readiness,
             is = "process" =>
               /\ ~control.empty
               /\ \/ MinTimestampOrBound(streams[d]) > control.ts
                  \/ streams[d].queue # <<>> /\ MinTimestampOrBound(streams[d]) = control.ts,
             is = "not" =>
               \/ control.empty /\ control.ts # Done
               \/ /\ ~control.empty /\ streams[d].queue = <<>>
                  /\ MinTimestampOrBound(streams[d]) <= control.ts
      PROVE  IInv'
  <2>1. ts \in Timestamp
    BY <1>6, <1>9, TimestampValues
  <2>2. TypeOK' /\ StreamsInv' /\ StageInv' /\ SeenInv' /\ ErasedInv' /\ AheadInv'
    <3>1. /\ sets' \in Seq([ids : SUBSET Id, last : Timestamp]) /\ Len(sets') = Len(sets)
          /\ \A k \in 1 .. Len(sets) : sets'[k].ids = sets[k].ids
          /\ ready' \in [Id -> Timestamp] /\ offsets' \in [Id -> -Latest .. Latest]
          /\ aligned' \in BOOLEAN
      BY <1>4 DEF TypeOK
    <3>2. pc \in {"decide", "select"}
      BY <1>3
    <3>3. QED
      BY <1>3, <1>9, <2>1, <3>1, <3>2, Concluded
  <2>3. CASE is = "close"
    <3>1. offsets'[Base] = 0 /\ Conclude("close", ts)
      BY <1>4, <1>9, <2>3 DEF AlignInv
    <3>2. QED
      BY <2>2, <3>1, Closing
  <2>4. CASE is # "close"
    <3>1. /\ is = "not" \/ is = "process"
          /\ pc' = IF is = "not" THEN "idle" ELSE "fill"
          /\ inputBound' = IF is = "not" /\ IsRangeValue(ts) THEN ts ELSE inputBound
          /\ inputTs' = IF is = "process" THEN ts ELSE Unset
          /\ streams' = streams /\ notified' = notified /\ failed' = failed
          /\ policy' = policy /\ processBounds' = processBounds /\ choice' = choice
      BY <1>3, <1>9, <2>4 DEF Conclude, config, Readiness
    <3>2. \A i \in Data : i \in Id /\ streams[i].selected \in Int
                          /\ streams[i].selected <= streams[Control].selected
      <4>1. \A i \in Data : streams[i].selected <= streams[Control].selected
        BY <1>3 DEF MuxInv
      <4>2. \A i \in Data : i \in Id /\ Waiting(streams[i])
        BY IdFacts DEF StreamsInv
      <4>3. QED
        BY <4>1, <4>2, StreamFacts, TimestampValues
    <3>3. is = "process" => /\ ts \in PreStream .. PostStream /\ ts \in Int
                            /\ streams[Control].selected < ts
                            /\ \A i \in Data : streams[i].selected < ts
      <4> SUFFICES ASSUME is = "process"
                   PROVE  /\ ts \in PreStream .. PostStream /\ ts \in Int
                          /\ streams[Control].selected < ts
                          /\ \A i \in Data : streams[i].selected < ts
        OBVIOUS
      <4>1. ts \in PreStream .. PostStream /\ ts \in Int /\ streams[Control].selected < ts
        BY <1>5, <1>6, <1>9, TimestampValues
      <4>2. \A i \in Data : streams[i].selected < ts
        BY <4>1, <1>5, <3>2
      <4>3. QED
        BY <4>1, <4>2
    <3>4. FillInv'
      <4>1. ASSUME is = "process", NEW i \in Id, Wanted(i)'
            PROVE  Settled(streams[i], ts) /\ streams[i].selected < ts
        <5>1. i \in {Control, d}
          BY <4>1, <1>2, <1>3, <1>9, <3>1 DEF Wanted
        <5>2. CASE i = Control
          <6>1. ts <= Head(streams[Control].queue) /\ streams[Control].queue # <<>>
            BY <4>1, <1>6, <1>9, <3>3
          <6>2. QED
            BY <4>1, <5>2, <6>1, <3>3 DEF Settled
        <5>3. CASE i = d
          <6>1. d \in Data /\ Waiting(streams[d])
            BY <4>1, <1>7, <1>9
          <6>2. CASE MinTimestampOrBound(streams[d]) > ts
            <7>1. ts < MinTimestampOrBound(streams[d])
              BY <4>1, <6>1, <6>2, <3>3, MinFacts, TimestampValues
            <7>2. Settled(streams[d], ts)
              BY <4>1, <6>1, <7>1, <3>3, MinFacts
            <7>3. QED
              BY <4>1, <5>3, <6>1, <7>2, <3>3
          <6>3. CASE streams[d].queue # <<>> /\ MinTimestampOrBound(streams[d]) = ts
            <7>1. Settled(streams[d], ts)
              BY <4>1, <6>3, <3>3 DEF Settled, MinTimestampOrBound
            <7>2. QED
              BY <4>1, <5>3, <6>1, <7>1, <3>3
          <6>4. QED
            BY <4>1, <6>2, <6>3, <1>9
        <5>4. QED
          BY <5>1, <5>2, <5>3
      <4>2. policy \notin {"Barrier", "TimestampAlign"} /\ pc \in {"decide", "select"}
        BY <1>3
      <4>3. QED
        BY <4>1, <4>2, <1>9, <3>3, ConcludedFill
    <3>5. TogetherInv' /\ LastInv'
      BY <1>3, <3>1 DEF TogetherInv, Together, LastInv
    <3>6. AlignInv'
      BY <1>3, <1>4, <3>1 DEF AlignInv
    <3>7. MuxInv'
      <4>1. \A i \in Data : streams'[i].selected <= IF pc' = "fill" THEN inputTs'
                                                   ELSE streams'[Control].selected
        BY <3>1, <3>2, <3>3
      <4>2. filled' = 0 /\ ~(0 >= 1)
        BY <1>3, <1>9 DEF StageInv, Conclude
      <4>3. QED
        BY <4>1, <4>2 DEF MuxInv
    <3>8. BoundInv'
      <4>1. /\ inputBound = Unset \/ IsRangeValue(inputBound)
            /\ inputBound <= MinTimestampOrBound(streams[Control])
        BY <1>3 DEF BoundInv
      <4>2. /\ inputBound' = Unset \/ IsRangeValue(inputBound')
            /\ inputBound' <= MinTimestampOrBound(streams'[Control])
        BY <4>1, <1>6, <1>9, <3>1
      <4>3. QED
        BY <4>2, <1>3, <3>1 DEF BoundInv
    <3>9. NothingForgotten'
      <4> SUFFICES ASSUME pc' = "idle", ~notified' PROVE NothingForgotten'
        BY DEF NothingForgotten
      <4>1. is = "not" /\ ~notified
        BY <3>1
      <4>2. CASE control.empty /\ control.ts # Done
        <5>1. streams[Control].queue = <<>>
          BY <4>1, <4>2, <1>6
        <5>2. streams[Control].bound # Done
          BY <4>1, <4>2, <5>1, <1>6 DEF MinTimestampOrBound
        <5>3. QED
          BY <5>1, <5>2, <1>3, <3>1 DEF NothingForgotten
      <4>3. CASE /\ ~control.empty /\ streams[d].queue = <<>>
                 /\ MinTimestampOrBound(streams[d]) <= control.ts
        <5>1. PICK ids : ids = {Control, d}
          OBVIOUS
        <5>2. streams[Control].queue # <<>> /\ d \in Data
              /\ MinTimestampOrBound(streams[d]) <= MinTimestampOrBound(streams[Control])
          BY <4>3, <1>6, <1>7
        <5>3. ~Due(ids)
          BY <4>3, <5>1, <5>2, <1>3, DataMissing
        <5>4. ids \in SUBSET Id
          BY <5>1, <5>2, IdFacts
        <5>5. ~(Due(ids)')
          BY <5>3, <5>4, <3>1, <1>4, StillNotDue
        <5>6. {Control, choice'[Head(streams'[Control].queue)]} = ids
          BY <5>1, <4>3, <1>2, <1>6, <3>1
        <5>7. Due({Control, choice[Head(streams[Control].queue)]})' <=> Due(ids)'
          BY <5>6 DEF Due
        <5>8. streams'[Control].queue # <<>> /\ policy' = "Mux"
          BY <5>2, <1>3, <3>1
        <5>9. QED
          BY <5>5, <5>7, <5>8 DEF NothingForgotten
      <4>4. QED
        BY <4>1, <4>2, <4>3, <1>9
    <3>10. QED
      BY <2>2, <3>4, <3>5, <3>6, <3>7, <3>8, <3>9
  <2>5. QED
    BY <2>3, <2>4
<1>10. PICK ts : ts = control.ts
  OBVIOUS
<1>11. CASE control.empty /\ Conclude(IF control.ts = Done THEN "close" ELSE "not", control.ts)
  <2>1. CASE ts = Done
    <3>1. Conclude("close", ts) /\ "close" \in Readiness
      BY <1>10, <1>11, <2>1 DEF Readiness
    <3>2. QED
      BY <1>9, <1>10, <3>1
  <2>2. CASE ts # Done
    <3>1. Conclude("not", ts) /\ "not" \in Readiness
      BY <1>10, <1>11, <2>2 DEF Readiness
    <3>2. QED
      BY <1>9, <1>10, <1>11, <2>2, <3>1
  <2>3. QED
    BY <2>1, <2>2
<1>12. CASE /\ ~control.empty /\ streams[d].queue = <<>>
            /\ MinTimestampOrBound(streams[d]) <= control.ts
            /\ Conclude("not", control.ts)
  <2>1. Conclude("not", ts) /\ "not" \in Readiness
    BY <1>10, <1>12 DEF Readiness
  <2>2. QED
    BY <1>9, <1>10, <1>12, <2>1
<1>13. CASE /\ ~control.empty
            /\ \/ MinTimestampOrBound(streams[d]) > control.ts
               \/ streams[d].queue # <<>> /\ MinTimestampOrBound(streams[d]) = control.ts
            /\ Conclude("process", control.ts)
  <2>1. Conclude("process", ts) /\ "process" \in Readiness
    BY <1>10, <1>13 DEF Readiness
  <2>2. QED
    BY <1>9, <1>10, <1>13, <2>1
<1>14. QED
  BY <1>4, <1>8, <1>11, <1>12, <1>13

-----------------------------------------------------------------------------
\* The handler that aligns the timestamps.

\* How a stream stands at time t of the base, when it has stood well at b: h is
\* what it has been read to offer and m what it offers.
LEMMA AlignedPop ==
  ASSUME NEW t \in MinTs .. MaxTs, NEW b \in MinTs .. MaxTs, b <= t, NEW o \in Int,
         NEW h \in PreStream .. Done, NEW m \in PreStream .. Done, h <= m,
         NEW sel \in Int, sel <= Plus(b, -o), b - o >= MinTs, m >= b - o \/ m > MaxTs,
         NEW s, s = IF IsRangeValue(h) THEN Plus(h, o) ELSE h, t <= s,
         NEW empty, empty => t < s
  PROVE  /\ t - o >= MinTs /\ (m >= t - o \/ m > MaxTs)
         /\ sel <= Plus(t, -o)
         /\ Plus(t, -o) \in MinTs .. MaxTs
         /\ Plus(t, -o) <= m
         /\ empty => Plus(t, -o) < m
<1>1. /\ t \in Int /\ b \in Int /\ h \in Int /\ m \in Int /\ MaxTs \in Int /\ MinTs = 1
      /\ 1 <= t /\ t <= MaxTs /\ 1 <= b /\ -o \in Int /\ Done \in Int
  BY TimestampValues
<1>2. t - o >= 1 /\ t + (-o) = t - o /\ b + (-o) = b - o
  BY <1>1
<1>3. /\ Plus(t, -o) \in MinTs .. MaxTs
      /\ t - o >= MaxTs => Plus(t, -o) = MaxTs
      /\ t - o <= MaxTs => Plus(t, -o) = t - o
  BY <1>1, <1>2 DEF Plus
<1>4. Plus(b, -o) <= Plus(t, -o) /\ Plus(b, -o) \in Int
  BY <1>1, <1>2 DEF Plus
<1>5. sel <= Plus(t, -o)
  BY <1>1, <1>3, <1>4
<1>6. CASE h > MaxTs
  <2>1. m > MaxTs
    BY <1>1, <1>6
  <2>2. QED
    BY <2>1, <1>1, <1>2, <1>3, <1>5
<1>7. CASE h < MinTs
  <2>1. s = h
    BY <1>1, <1>7 DEF IsRangeValue
  <2>2. QED
    BY <2>1, <1>1, <1>7
<1>8. CASE h \in MinTs .. MaxTs
  <2>1. s = Plus(h, o)
    BY <1>8 DEF IsRangeValue
  <2>2. CASE h + o <= 1
    <3>1. s <= 1 /\ s \in Int
      BY <2>1, <2>2, <1>1, TimestampValues DEF Plus
    <3>2. t = 1 /\ b = 1 /\ ~empty
      BY <3>1, <1>1
    <3>3. QED
      BY <3>2, <1>1, <1>2, <1>3, <1>5
  <2>3. CASE h + o > 1
    <3>1. s <= h + o /\ s \in Int
      BY <2>1, <2>3, <1>1 DEF Plus
    <3>2. t - o <= h /\ (empty => t - o < h)
      BY <3>1, <1>1
    <3>3. Plus(t, -o) <= t - o /\ Plus(t, -o) \in Int
      BY <1>1, <1>2, <1>3
    <3>4. t - o <= m /\ (empty => t - o < m)
      BY <3>2, <1>1
    <3>5. QED
      BY <3>3, <3>4, <1>1, <1>2, <1>3, <1>5
  <2>4. QED
    BY <2>2, <2>3, <1>1
<1>9. QED
  BY <1>1, <1>6, <1>7, <1>8

\* A packet that is at b or later, as its own stream counts time.
LEMMA ShiftedLater ==
  ASSUME NEW b \in MinTs .. MaxTs, NEW o \in Int, NEW h \in MinTs .. MaxTs,
         h >= b - o
  PROVE  b <= Plus(h, o)
<1>1. h + o >= b /\ b \in Int /\ MaxTs \in Int /\ b <= MaxTs /\ b >= 1 /\ MinTs = 1
  BY TimestampValues
<1>2. QED
  BY <1>1 DEF Plus

\* What every decision of this handler leaves as it was.
LEMMA AlignConcluded ==
  ASSUME IInv, pc = "decide", policy = "TimestampAlign",
         NEW is \in {"not", "process"}, NEW ts \in Timestamp, Conclude(is, ts),
         sets' = sets, ready' = ready,
         offsets' \in [Id -> -Latest .. Latest], aligned' \in BOOLEAN
  PROVE  /\ TypeOK' /\ StreamsInv' /\ StageInv' /\ SeenInv' /\ ErasedInv' /\ AheadInv'
         /\ TogetherInv' /\ LastInv' /\ MuxInv'
         /\ pc' = IF is = "not" THEN "idle" ELSE "fill"
         /\ inputBound' = IF is = "not" /\ IsRangeValue(ts) THEN ts ELSE inputBound
         /\ inputTs' = IF is = "process" THEN ts ELSE Unset
         /\ streams' = streams /\ notified' = notified /\ failed' = failed
         /\ policy' = policy /\ processBounds' = processBounds /\ filled' = 0
<1> USE DEF IInv
<1>1. ~FixedSize /\ filled = 0
  BY DEF FixedSize, StageInv
<1>2. /\ sets' \in Seq([ids : SUBSET Id, last : Timestamp]) /\ Len(sets') = Len(sets)
      /\ \A k \in 1 .. Len(sets) : sets'[k].ids = sets[k].ids
      /\ ready' \in [Id -> Timestamp]
  BY DEF TypeOK
<1>3. TypeOK' /\ StreamsInv' /\ StageInv' /\ SeenInv' /\ ErasedInv' /\ AheadInv'
  BY <1>1, <1>2, Concluded
<1>4. /\ pc' = IF is = "not" THEN "idle" ELSE "fill"
      /\ inputBound' = IF is = "not" /\ IsRangeValue(ts) THEN ts ELSE inputBound
      /\ inputTs' = IF is = "process" THEN ts ELSE Unset
      /\ streams' = streams /\ notified' = notified /\ failed' = failed
      /\ policy' = policy /\ processBounds' = processBounds /\ filled' = 0
  BY <1>1 DEF Conclude, config
<1>5. TogetherInv' /\ LastInv' /\ MuxInv'
  BY <1>4 DEF TogetherInv, Together, LastInv, MuxInv
<1>6. QED
  BY <1>3, <1>4, <1>5

\* Before the offsets are known: the base has no packet.
LEMMA AlignUnknown ==
  ASSUME IInv, pc = "decide", policy = "TimestampAlign", ~aligned, seen[Base].empty,
         NEW ts, ts = seen[Base].ts, Conclude("not", ts),
         sets' = sets, ready' = ready, offsets' = offsets, aligned' = aligned
  PROVE  IInv'
<1> USE DEF IInv
<1>1. /\ Base \in Id /\ IsRead(Base, seen[Base])
  BY IdFacts, DecideFacts
<1>2. /\ ts \in PreStream .. Done /\ ts <= MinTimestampOrBound(streams[Base])
      /\ ~notified => streams[Base].queue = <<>>
  BY <1>1 DEF IsRead
<1>3. ts \in Timestamp
  BY <1>2, TimestampValues
<1>4. offsets' \in [Id -> -Latest .. Latest] /\ aligned' \in BOOLEAN
  BY DEF TypeOK
<1>5. /\ TypeOK' /\ StreamsInv' /\ StageInv' /\ SeenInv' /\ ErasedInv' /\ AheadInv'
      /\ TogetherInv' /\ LastInv' /\ MuxInv'
      /\ pc' = "idle"
      /\ inputBound' = IF IsRangeValue(ts) THEN ts ELSE inputBound
      /\ streams' = streams /\ notified' = notified /\ policy' = policy
  <2>1. PICK is \in {"not", "process"} : is = "not"
    OBVIOUS
  <2>2. Conclude(is, ts)
    BY <2>1
  <2>3. /\ TypeOK' /\ StreamsInv' /\ StageInv' /\ SeenInv' /\ ErasedInv' /\ AheadInv'
        /\ TogetherInv' /\ LastInv' /\ MuxInv'
        /\ pc' = IF is = "not" THEN "idle" ELSE "fill"
        /\ inputBound' = IF is = "not" /\ IsRangeValue(ts) THEN ts ELSE inputBound
        /\ streams' = streams /\ notified' = notified /\ policy' = policy
    BY <2>2, <1>3, <1>4, AlignConcluded
  <2>4. QED
    BY <2>1, <2>3
<1>6. FillInv'
  BY <1>5 DEF FillInv
<1>7. BoundInv'
  <2>1. /\ inputBound = Unset \/ IsRangeValue(inputBound)
        /\ inputBound <= MinTimestampOrBound(streams[Base])
    BY DEF BoundInv
  <2>2. /\ inputBound' = Unset \/ IsRangeValue(inputBound')
        /\ inputBound' <= MinTimestampOrBound(streams'[Base])
    BY <2>1, <1>2, <1>5
  <2>3. QED
    BY <2>2, <1>5 DEF BoundInv
<1>8. AlignInv'
  BY <1>5 DEF AlignInv
<1>9. NothingForgotten'
  BY <1>2, <1>5 DEF NothingForgotten
<1>10. QED
  BY <1>5, <1>6, <1>7, <1>8, <1>9

LEMMA OffsetBack ==
  ASSUME NEW h \in Int, NEW t \in Int, NEW o, o = t - h
  PROVE  o \in Int /\ -o \in Int /\ t - o = h /\ t + (-o) = h /\ h + o = t
<1>1. o \in Int
  OBVIOUS
<1>2. -o \in Int
  BY <1>1
<1>3. t - o = h
  OBVIOUS
<1>4. t + (-o) = h
  OBVIOUS
<1>5. h + o = t
  OBVIOUS
<1>6. QED
  BY <1>1, <1>2, <1>3, <1>4, <1>5

\* The offset that brings the timestamp h to t, and what it does.
OffsetFrom(h, t, o) == o = t - h /\ h \in MinTs .. MaxTs /\ t \in MinTs .. MaxTs

OffsetMoves(h, t, o) == o \in Int /\ t - o = h /\ Plus(t, -o) = h /\ Plus(h, o) = t

LEMMA OffsetFacts ==
  ASSUME NEW h, NEW t, NEW o, OffsetFrom(h, t, o)
  PROVE  OffsetMoves(h, t, o)
<1>1. o = t - h /\ h \in MinTs .. MaxTs /\ t \in MinTs .. MaxTs
  BY DEF OffsetFrom
<1>2. h \in Int /\ t \in Int
  BY <1>1, TimestampValues
<1>3. o \in Int /\ -o \in Int /\ t - o = h /\ t + (-o) = h /\ h + o = t
  BY <1>1, <1>2, OffsetBack
<1>4. Plus(t, -o) = h /\ Plus(h, o) = t
  BY <1>1, <1>3, PlusFacts
<1>5. QED
  BY <1>3, <1>4 DEF OffsetMoves

\* The first packets: the offsets of the streams that have one become known.
LEMMA AlignBase ==
  ASSUME IInv, pc = "decide", policy = "TimestampAlign", ~aligned, ~seen[Base].empty,
         NEW known, known = {i \in Id \ {Base} : ~seen[i].empty},
         (\E i \in known \cup {Base} : ~IsRangeValue(seen[i].ts)) => known = {},
         NEW ts, ts = seen[Base].ts, Conclude("process", ts),
         sets' = sets, ready' = ready,
         offsets' = [i \in Id |-> IF i \in known THEN ts - seen[i].ts ELSE offsets[i]],
         aligned' = (known = Id \ {Base})
  PROVE  IInv'
<1> USE DEF IInv
<1>1. /\ Base \in Id /\ Id \ {Base} # {} /\ \A i \in Id : IsRead(i, seen[i])
  BY IdFacts, DecideFacts
<1>2. \A i \in Id : ~seen[i].empty =>
        /\ seen[i].ts \in PreStream .. PostStream
        /\ streams[i].queue # <<>> /\ Head(streams[i].queue) = seen[i].ts
        /\ MinTimestampOrBound(streams[i]) = seen[i].ts
        /\ streams[i].selected < seen[i].ts
  <2> SUFFICES ASSUME NEW i \in Id, ~seen[i].empty
               PROVE  /\ seen[i].ts \in PreStream .. PostStream
                      /\ streams[i].queue # <<>> /\ Head(streams[i].queue) = seen[i].ts
                      /\ MinTimestampOrBound(streams[i]) = seen[i].ts
                      /\ streams[i].selected < seen[i].ts
    OBVIOUS
  <2>1. streams[i].queue # <<>> /\ Head(streams[i].queue) = seen[i].ts
    BY <1>1 DEF IsRead
  <2>2. Waiting(streams[i]) /\ streams[i].selected < MinTimestampOrBound(streams[i])
    BY DEF StreamsInv
  <2>3. QED
    BY <2>1, <2>2, MinFacts
<1>3. /\ ts \in PreStream .. PostStream /\ ts \in Timestamp /\ ts \in Int
      /\ streams[Base].queue # <<>> /\ Head(streams[Base].queue) = ts
      /\ MinTimestampOrBound(streams[Base]) = ts
      /\ streams[Base].selected < ts
  BY <1>1, <1>2, TimestampValues
<1>4. known # {} => /\ ts \in MinTs .. MaxTs
                    /\ \A i \in known : seen[i].ts \in MinTs .. MaxTs
  <2> SUFFICES ASSUME known # {}
               PROVE  /\ ts \in MinTs .. MaxTs
                      /\ \A i \in known : seen[i].ts \in MinTs .. MaxTs
    OBVIOUS
  <2>1. IsRangeValue(ts) /\ \A i \in known : IsRangeValue(seen[i].ts)
    OBVIOUS
  <2>2. \A i \in known : seen[i].ts \in PreStream .. PostStream
    BY <1>2
  <2>3. QED
    BY <2>1, <2>2, <1>3, TimestampValues DEF IsRangeValue
<1>5. /\ offsets' \in [Id -> -Latest .. Latest] /\ aligned' \in BOOLEAN
      /\ offsets'[Base] = 0
      /\ \A i \in known : offsets'[i] = ts - seen[i].ts
  <2>1. \A i \in known : ts - seen[i].ts \in -Latest .. Latest
    BY <1>4, LatestAssumption DEF MinTs, MaxTs
  <2>2. \A i \in Id : offsets[i] \in -Latest .. Latest
    BY DEF TypeOK
  <2>3. Base \notin known /\ known \subseteq Id
    OBVIOUS
  <2>4. QED
    BY <2>1, <2>2, <2>3, <1>1 DEF AlignInv
<1>6. /\ TypeOK' /\ StreamsInv' /\ StageInv' /\ SeenInv' /\ ErasedInv' /\ AheadInv'
      /\ TogetherInv' /\ LastInv' /\ MuxInv'
      /\ pc' = "fill" /\ inputBound' = inputBound /\ inputTs' = ts /\ filled' = 0
      /\ streams' = streams /\ policy' = policy
  <2>1. PICK is \in {"not", "process"} : is = "process"
    OBVIOUS
  <2>2. Conclude(is, ts)
    BY <2>1
  <2>3. /\ TypeOK' /\ StreamsInv' /\ StageInv' /\ SeenInv' /\ ErasedInv' /\ AheadInv'
        /\ TogetherInv' /\ LastInv' /\ MuxInv'
        /\ pc' = IF is = "not" THEN "idle" ELSE "fill"
        /\ inputBound' = IF is = "not" /\ IsRangeValue(ts) THEN ts ELSE inputBound
        /\ inputTs' = IF is = "process" THEN ts ELSE Unset
        /\ streams' = streams /\ policy' = policy /\ filled' = 0
    BY <2>2, <1>3, <1>5, AlignConcluded
  <2>4. QED
    BY <2>1, <2>3
<1>7. ASSUME aligned', NEW i \in Id
      PROVE  /\ ts \in MinTs .. MaxTs
             /\ ts - offsets'[i] = seen[i].ts /\ seen[i].ts \in MinTs .. MaxTs
             /\ offsets'[i] \in Int
             /\ Plus(ts, -offsets'[i]) = seen[i].ts
             /\ Plus(seen[i].ts, offsets'[i]) = ts
             /\ ~seen[i].empty
  <2>1. known = Id \ {Base} /\ known # {}
    BY <1>1, <1>7
  <2>2. ts \in MinTs .. MaxTs
    BY <1>4, <2>1
  <2>3. ~seen[i].empty /\ seen[i].ts \in MinTs .. MaxTs
    BY <1>4, <2>1, <2>2
  <2>4. offsets'[i] = ts - seen[i].ts
    <3>1. CASE i = Base
      BY <3>1, <1>3, <1>5
    <3>2. CASE i # Base
      BY <3>2, <2>1, <1>5
    <3>3. QED
      BY <3>1, <3>2
  <2>5. PICK o, h : o = offsets'[i] /\ h = seen[i].ts
    OBVIOUS
  <2>6. OffsetFrom(h, ts, o)
    BY <2>2, <2>3, <2>4, <2>5 DEF OffsetFrom
  <2>7. OffsetMoves(h, ts, o)
    BY <2>6, OffsetFacts, Zenon
  <2>8. QED
    BY <2>2, <2>3, <2>5, <2>7 DEF OffsetMoves
<1>8. aligned' => AlignedAt(ts)'
  <2> SUFFICES ASSUME aligned', NEW i \in Id
               PROVE  /\ ts - offsets'[i] >= MinTs
                      /\ MinTimestampOrBound(streams'[i]) >= ts - offsets'[i]
                      /\ streams'[i].selected <= Plus(ts, -offsets'[i])
    BY DEF AlignedAt
  <2>1. PICK h : h = seen[i].ts
    OBVIOUS
  <2>2. /\ ts - offsets'[i] = h /\ h \in MinTs .. MaxTs /\ ~seen[i].empty
        /\ Plus(ts, -offsets'[i]) = h
    BY <1>7, <2>1
  <2>3. MinTimestampOrBound(streams[i]) = h /\ streams[i].selected < h
    BY <1>2, <2>1, <2>2
  <2>4. streams[i].selected \in Int
    BY DecideFacts, TimestampValues
  <2>5. QED
    BY <2>2, <2>3, <2>4, <1>6, TimestampValues
<1>9. AlignInv'
  <2>1. aligned' => \E b \in MinTs .. MaxTs : AlignedAt(b)'
    BY <1>1, <1>7, <1>8
  <2>2. (\E b \in MinTs .. MaxTs : AlignedAt(b)') <=> (\E b \in MinTs .. MaxTs : AlignedAt(b))'
    OBVIOUS
  <2>3. aligned' => AlignedAt(inputTs)'
    BY <1>6, <1>8 DEF AlignedAt
  <2>4. QED
    BY <1>5, <2>1, <2>2, <2>3 DEF AlignInv
<1>10. FillInv'
  <2> SUFFICES ASSUME failed' = "none"
               PROVE  /\ inputTs' \in PreStream .. OneOverPostStream
                      /\ \A i \in filled' + 1 .. NumStreams : Wanted(i)' =>
                           /\ aligned' \/ IsAllowedInStream(inputTs')
                           /\ Settled(streams'[i], PopTs(i)')
                           /\ streams'[i].selected <= PopTs(i)'
    BY <1>6 DEF FillInv
  <2>1. inputTs' \in PreStream .. OneOverPostStream /\ IsAllowedInStream(inputTs')
    BY <1>3, <1>6, TimestampValues DEF IsAllowedInStream
  <2>2. ASSUME NEW i \in Id, Wanted(i)'
        PROVE  /\ Settled(streams'[i], PopTs(i)')
               /\ streams'[i].selected <= PopTs(i)'
    <3>1. PICK u : u = PopTs(i)'
      OBVIOUS
    <3>2. ~seen[i].empty /\ u = seen[i].ts
      <4>1. CASE aligned'
        <5>1. u = Plus(ts, -offsets'[i])
          BY <3>1, <4>1, <1>6 DEF PopTs
        <5>2. QED
          BY <5>1, <4>1, <1>7
      <4>2. CASE ~aligned'
        BY <3>1, <4>2, <2>2, <1>6 DEF PopTs, Wanted
      <4>3. QED
        BY <4>1, <4>2
    <3>3. /\ u \in PreStream .. PostStream /\ streams[i].queue # <<>>
          /\ Head(streams[i].queue) = u /\ streams[i].selected < u
      BY <3>2, <1>2
    <3>4. streams[i].selected \in Int /\ u \in Int
      BY <3>3, DecideFacts, TimestampValues
    <3>5. Settled(streams'[i], u) /\ streams'[i].selected <= u
      BY <3>3, <3>4, <1>6 DEF Settled
    <3>6. QED
      BY <3>1, <3>5
  <2>3. filled' + 1 .. NumStreams \subseteq Id
    BY <1>6, IdFacts
  <2>4. QED
    BY <2>1, <2>2, <2>3
<1>11. BoundInv'
  <2>1. /\ inputBound = Unset \/ IsRangeValue(inputBound)
        /\ inputBound <= MinTimestampOrBound(streams[Base])
    BY DEF BoundInv
  <2>2. ASSUME aligned', NEW i \in Id
        PROVE  inputBound <= Shift(i, MinTimestampOrBound(streams[i]))'
    <3>1. PICK h : h = seen[i].ts
      OBVIOUS
    <3>2. ~seen[i].empty /\ h \in MinTs .. MaxTs /\ Plus(h, offsets'[i]) = ts
      BY <1>7, <2>2, <3>1
    <3>3. MinTimestampOrBound(streams'[i]) = h
      BY <1>2, <1>6, <3>1, <3>2
    <3>4. IsRangeValue(h)
      BY <3>2, TimestampValues DEF IsRangeValue
    <3>5. Shift(i, MinTimestampOrBound(streams[i]))' = ts
      BY <3>2, <3>3, <3>4 DEF Shift
    <3>6. QED
      BY <3>5, <2>1, <1>3
  <2>3. QED
    BY <2>1, <2>2, <1>6 DEF BoundInv
<1>12. NothingForgotten'
  BY <1>6 DEF NothingForgotten
<1>13. QED
  BY <1>6, <1>9, <1>10, <1>11, <1>12

LEMMA EarliestIs ==
  ASSUME NEW T, T \subseteq Unset .. Done, NEW e, e = Earliest(T)
  PROVE  e \in T \cup {Done} /\ e \in Unset .. Done /\ \A x \in T : e <= x
  BY EarliestOf

\* What the aligned streams offer.
SeenShifted == [i \in Id |-> Shift(i, seen[i].ts)]
LowestOf(f) == Earliest(Range(f))
BoundOf(f) == Earliest({f[i] : i \in {j \in Id : seen[j].empty}})

LEMMA ShiftedMin ==
  ASSUME IInv, pc = "decide", NEW shifted, shifted = SeenShifted,
         NEW low, low = LowestOf(shifted), NEW bound, bound = BoundOf(shifted)
  PROVE  /\ \A i \in Id : /\ shifted[i] = Shift(i, seen[i].ts)
                          /\ seen[i].ts \in PreStream .. Done
                          /\ seen[i].ts <= MinTimestampOrBound(streams[i])
                          /\ MinTimestampOrBound(streams[i]) \in PreStream .. Done
                          /\ offsets[i] \in Int
                          /\ shifted[i] \in PreStream .. Done
                          /\ shifted[i] <= Shift(i, MinTimestampOrBound(streams[i]))
                          /\ low <= shifted[i]
                          /\ seen[i].empty => bound <= shifted[i]
         /\ low \in PreStream .. Done /\ bound \in PreStream .. Done
         /\ low # Done => \E i \in Id : low = shifted[i]
         /\ bound # Done => \E i \in Id : seen[i].empty /\ bound = shifted[i]
<1> USE DEF IInv
<1>1. ASSUME NEW i \in Id
      PROVE  /\ seen[i].ts \in PreStream .. Done
             /\ seen[i].ts <= MinTimestampOrBound(streams[i])
             /\ MinTimestampOrBound(streams[i]) \in PreStream .. Done
             /\ offsets[i] \in Int
             /\ Shift(i, seen[i].ts) \in PreStream .. Done
             /\ Shift(i, seen[i].ts) <= Shift(i, MinTimestampOrBound(streams[i]))
  <2>1. PICK h, m : h = seen[i].ts /\ m = MinTimestampOrBound(streams[i])
    OBVIOUS
  <2>2. h \in PreStream .. Done /\ m \in PreStream .. Done /\ h <= m
    BY <2>1, DecideFacts DEF IsRead
  <2>3. offsets[i] \in Int
    BY LatestAssumption DEF TypeOK
  <2>4. Shift(i, h) \in PreStream .. Done /\ Shift(i, h) <= Shift(i, m)
    BY <2>2, <2>3, ShiftGrows
  <2>5. QED
    BY <2>1, <2>2, <2>3, <2>4
<1>2. \A i \in Id : shifted[i] = Shift(i, seen[i].ts) /\ shifted[i] \in PreStream .. Done
  BY <1>1 DEF SeenShifted
<1> DEFINE T == {shifted[i] : i \in Id}
           B == {shifted[i] : i \in {j \in Id : seen[j].empty}}
<1>3. Range(shifted) = T
  BY DEF Range, SeenShifted
<1>4. T \subseteq PreStream .. Done /\ B \subseteq PreStream .. Done
  BY <1>2
<1>5. T \subseteq Unset .. Done /\ B \subseteq Unset .. Done /\ Done \in PreStream .. Done
  BY <1>4, TimestampValues
<1>6. low = Earliest(T) /\ bound = Earliest(B)
  BY <1>3 DEF LowestOf, BoundOf
<1>7. /\ \A i \in Id : shifted[i] \in T /\ (seen[i].empty => shifted[i] \in B)
      /\ \A x \in T : \E i \in Id : x = shifted[i]
      /\ \A x \in B : \E i \in Id : seen[i].empty /\ x = shifted[i]
  OBVIOUS
<1> HIDE DEF T, B
<1>8. low \in T \cup {Done} /\ \A x \in T : low <= x
  BY <1>5, <1>6, EarliestIs
<1>9. bound \in B \cup {Done} /\ \A x \in B : bound <= x
  BY <1>5, <1>6, EarliestIs
<1>10. QED
  BY <1>1, <1>2, <1>4, <1>5, <1>7, <1>8, <1>9

\* The offsets are known.
LEMMA AlignDecided ==
  ASSUME IInv, pc = "decide", policy = "TimestampAlign", aligned,
         NEW shifted, shifted = SeenShifted,
         NEW low, low = LowestOf(shifted), NEW bound, bound = BoundOf(shifted),
         IF low = Done THEN Conclude("close", Done)
         ELSE IF bound > low THEN Conclude("process", low)
         ELSE Conclude("not", low),
         sets' = sets, ready' = ready, offsets' = offsets, aligned' = aligned
  PROVE  IInv'
<1> USE DEF IInv
<1>1. /\ \A i \in Id : /\ shifted[i] = Shift(i, seen[i].ts)
                       /\ seen[i].ts \in PreStream .. Done
                       /\ seen[i].ts <= MinTimestampOrBound(streams[i])
                       /\ MinTimestampOrBound(streams[i]) \in PreStream .. Done
                       /\ offsets[i] \in Int
                       /\ shifted[i] \in PreStream .. Done
                       /\ shifted[i] <= Shift(i, MinTimestampOrBound(streams[i]))
                       /\ low <= shifted[i]
                       /\ seen[i].empty => bound <= shifted[i]
      /\ low \in PreStream .. Done /\ bound \in PreStream .. Done
      /\ low # Done => \E i \in Id : low = shifted[i]
      /\ bound # Done => \E i \in Id : seen[i].empty /\ bound = shifted[i]
  BY ShiftedMin
<1>2. \A i \in Id : /\ IsRead(i, seen[i]) /\ Waiting(streams[i])
                    /\ streams[i].selected \in Int
  BY DecideFacts, TimestampValues
<1>3. /\ offsets' \in [Id -> -Latest .. Latest] /\ aligned' \in BOOLEAN
      /\ low \in Timestamp /\ Done \in Timestamp /\ ~FixedSize
  BY <1>1, TimestampValues DEF TypeOK, FixedSize
<1>4. CASE low = Done
  <2>1. Conclude("close", Done)
    BY <1>4
  <2>2. offsets'[Base] = 0
    BY DEF AlignInv
  <2>3. /\ sets' \in Seq([ids : SUBSET Id, last : Timestamp]) /\ Len(sets') = Len(sets)
        /\ \A k \in 1 .. Len(sets) : sets'[k].ids = sets[k].ids
        /\ ready' \in [Id -> Timestamp]
    BY DEF TypeOK
  <2>4. TypeOK' /\ StreamsInv' /\ StageInv' /\ SeenInv' /\ ErasedInv' /\ AheadInv'
    BY <1>3, <2>1, <2>3, Concluded
  <2>5. QED
    BY <2>1, <2>2, <2>4, Closing
<1>5. CASE low # Done
  <2>1. PICK is \in {"not", "process"} : /\ is = "process" <=> bound > low
                                         /\ Conclude(is, low)
    BY <1>5
  <2>2. /\ TypeOK' /\ StreamsInv' /\ StageInv' /\ SeenInv' /\ ErasedInv' /\ AheadInv'
        /\ TogetherInv' /\ LastInv' /\ MuxInv'
        /\ pc' = IF is = "not" THEN "idle" ELSE "fill"
        /\ inputBound' = IF is = "not" /\ IsRangeValue(low) THEN low ELSE inputBound
        /\ inputTs' = IF is = "process" THEN low ELSE Unset
        /\ streams' = streams /\ notified' = notified /\ failed' = failed
        /\ policy' = policy /\ processBounds' = processBounds /\ filled' = 0
    BY <2>1, <1>3, AlignConcluded
  <2>3. PICK b \in MinTs .. MaxTs : AlignedAt(b)
    BY DEF AlignInv
  <2>4. \A i \in Id :
          /\ b - offsets[i] >= MinTs
          /\ \/ MinTimestampOrBound(streams[i]) >= b - offsets[i]
             \/ MinTimestampOrBound(streams[i]) > MaxTs
          /\ streams[i].selected <= Plus(b, -offsets[i])
    BY <2>3 DEF AlignedAt
  <2>5. ASSUME is = "process", IsRangeValue(low) PROVE low \in MinTs .. MaxTs /\ b <= low
    <3>1. low \in MinTs .. MaxTs /\ low \in Int /\ bound \in Int /\ bound > low
      BY <2>1, <2>5, <1>1, TimestampValues DEF IsRangeValue
    <3>2. PICK j \in Id : low = shifted[j]
      BY <1>1, <1>5
    <3>3. ~seen[j].empty
      BY <3>1, <3>2, <1>1
    <3>4. PICK h, o : h = seen[j].ts /\ o = offsets[j]
      OBVIOUS
    <3>5. h = MinTimestampOrBound(streams[j]) /\ h \in PreStream .. PostStream
      <4>1. streams[j].queue # <<>> /\ h = Head(streams[j].queue)
        BY <3>3, <3>4, <1>2 DEF IsRead
      <4>2. QED
        BY <4>1, <1>2, MinFacts
    <3>6. low = IF IsRangeValue(h) THEN Plus(h, o) ELSE h
      BY <3>2, <3>4, <1>1 DEF Shift
    <3>7. h \in MinTs .. MaxTs
      BY <3>1, <3>5, <3>6, TimestampValues DEF IsRangeValue
    <3>8. low = Plus(h, o)
      BY <3>6, <3>7, TimestampValues DEF IsRangeValue
    <3>9. h >= b - o \/ h > MaxTs
      BY <2>4, <3>4, <3>5
    <3>10. o \in Int /\ h >= b - o
      BY <3>4, <3>7, <3>9, <1>1, TimestampValues
    <3>11. b <= low
      BY <3>7, <3>8, <3>10, ShiftedLater
    <3>12. QED
      BY <3>1, <3>11
  <2>6. ASSUME is = "process", IsRangeValue(low), NEW i \in Id
        PROVE  /\ low - offsets[i] >= MinTs
               /\ \/ MinTimestampOrBound(streams[i]) >= low - offsets[i]
                  \/ MinTimestampOrBound(streams[i]) > MaxTs
               /\ streams[i].selected <= Plus(low, -offsets[i])
               /\ Plus(low, -offsets[i]) \in MinTs .. MaxTs
               /\ Settled(streams[i], Plus(low, -offsets[i]))
    <3>1. PICK h, m, o, sel, s, empty :
            /\ h = seen[i].ts /\ m = MinTimestampOrBound(streams[i]) /\ o = offsets[i]
            /\ sel = streams[i].selected /\ s = shifted[i]
            /\ empty = (streams[i].queue = <<>>)
      OBVIOUS
    <3>2. /\ h \in PreStream .. Done /\ m \in PreStream .. Done /\ h <= m
          /\ o \in Int /\ sel \in Int /\ sel <= Plus(b, -o) /\ b - o >= MinTs
          /\ m >= b - o \/ m > MaxTs
      BY <3>1, <1>1, <1>2, <2>4
    <3>3. s = (IF IsRangeValue(h) THEN Plus(h, o) ELSE h) /\ low <= s
      BY <3>1, <1>1 DEF Shift
    <3>4. empty => low < s
      <4> SUFFICES ASSUME empty PROVE low < s
        OBVIOUS
      <4>1. seen[i].empty
        BY <3>1, <1>2 DEF IsRead
      <4>2. bound <= s /\ bound > low /\ s \in Int /\ bound \in Int /\ low \in Int
        BY <4>1, <3>1, <1>1, <2>1, <2>6, TimestampValues
      <4>3. QED
        BY <4>2
    <3>5. low \in MinTs .. MaxTs /\ b <= low
      BY <2>5, <2>6
    <3>6. /\ low - o >= MinTs /\ (m >= low - o \/ m > MaxTs)
          /\ sel <= Plus(low, -o)
          /\ Plus(low, -o) \in MinTs .. MaxTs
          /\ Plus(low, -o) <= m
          /\ empty => Plus(low, -o) < m
      BY <3>2, <3>3, <3>4, <3>5, AlignedPop
    <3>7. PICK u : u = Plus(low, -o)
      OBVIOUS
    <3>8. Settled(streams[i], u)
      BY <3>1, <3>6, <3>7 DEF Settled, MinTimestampOrBound
    <3>9. QED
      BY <3>1, <3>6, <3>7, <3>8
  <2>7. AlignInv'
    <3>1. \E x \in MinTs .. MaxTs : AlignedAt(x)'
      BY <2>3, <2>2 DEF AlignedAt
    <3>2. pc' = "fill" /\ IsRangeValue(inputTs') => AlignedAt(inputTs)'
      <4> SUFFICES ASSUME pc' = "fill", IsRangeValue(inputTs'), NEW i \in Id
                   PROVE  /\ inputTs' - offsets'[i] >= MinTs
                          /\ \/ MinTimestampOrBound(streams'[i]) >= inputTs' - offsets'[i]
                             \/ MinTimestampOrBound(streams'[i]) > MaxTs
                          /\ streams'[i].selected <= Plus(inputTs', -offsets'[i])
        BY DEF AlignedAt
      <4>1. is = "process" /\ inputTs' = low /\ IsRangeValue(low)
        BY <2>2
      <4>2. QED
        BY <4>1, <2>2, <2>6
    <3>3. offsets'[Base] = 0
      BY DEF AlignInv
    <3>4. QED
      BY <3>1, <3>2, <3>3 DEF AlignInv
  <2>8. FillInv'
    <3> SUFFICES ASSUME pc' = "fill", failed' = "none"
                 PROVE  /\ inputTs' \in PreStream .. OneOverPostStream
                        /\ \A i \in filled' + 1 .. NumStreams :
                             IsRangeValue(inputTs') =>
                               /\ Settled(streams'[i], PopTs(i)')
                               /\ streams'[i].selected <= PopTs(i)'
      BY <2>2 DEF FillInv
    <3>1. is = "process" /\ inputTs' = low /\ bound > low
      BY <2>1, <2>2
    <3>2. inputTs' \in PreStream .. OneOverPostStream
      BY <3>1, <1>1, TimestampValues
    <3>3. filled' + 1 .. NumStreams \subseteq Id
      BY <2>2, IdFacts
    <3>4. ASSUME NEW i \in Id, IsRangeValue(inputTs')
          PROVE  /\ Settled(streams'[i], PopTs(i)')
                 /\ streams'[i].selected <= PopTs(i)'
      <4>1. PICK u : u = Plus(low, -offsets[i])
        OBVIOUS
      <4>2. Settled(streams[i], u) /\ streams[i].selected <= u
        BY <3>1, <3>4, <4>1, <2>6
      <4>3. PopTs(i)' = u
        BY <3>1, <4>1, <2>2 DEF PopTs
      <4>4. QED
        BY <4>2, <4>3, <2>2
    <3>5. QED
      BY <3>2, <3>3, <3>4
  <2>9. BoundInv'
    <3>1. /\ inputBound = Unset \/ IsRangeValue(inputBound)
          /\ \A i \in Id : inputBound <= Shift(i, MinTimestampOrBound(streams[i]))
      BY DEF BoundInv
    <3>2. inputBound' = Unset \/ IsRangeValue(inputBound')
      BY <2>2, <3>1
    <3>3. ASSUME NEW i \in Id
          PROVE  inputBound' <= Shift(i, MinTimestampOrBound(streams[i]))
      <4>1. CASE is = "not" /\ IsRangeValue(low)
        <5>1. PICK h, m : h = seen[i].ts /\ m = MinTimestampOrBound(streams[i])
          OBVIOUS
        <5>2. h \in PreStream .. Done /\ m \in PreStream .. Done /\ h <= m
              /\ offsets[i] \in Int
          BY <5>1, <1>1
        <5>3. Shift(i, h) \in PreStream .. Done /\ Shift(i, m) \in PreStream .. Done
              /\ Shift(i, h) <= Shift(i, m)
          BY <5>2, ShiftGrows
        <5>4. low <= Shift(i, h) /\ low \in PreStream .. Done
          BY <5>1, <1>1
        <5>5. low <= Shift(i, m)
          BY <5>3, <5>4, TimestampValues
        <5>6. QED
          BY <4>1, <5>1, <5>5, <2>2
      <4>2. CASE ~(is = "not" /\ IsRangeValue(low))
        BY <4>2, <3>1, <2>2
      <4>3. QED
        BY <4>1, <4>2
    <3>4. \A i \in Id : Shift(i, MinTimestampOrBound(streams[i]))'
                        = Shift(i, MinTimestampOrBound(streams[i]))
      BY <2>2 DEF Shift
    <3>5. QED
      BY <3>2, <3>3, <3>4, <2>2 DEF BoundInv
  <2>10. NothingForgotten'
    <3> SUFFICES ASSUME pc' = "idle", ~notified' PROVE ~(Due(Id)')
      BY <2>2 DEF NothingForgotten
    <3>1. is = "not" /\ ~notified /\ ~(bound > low)
      BY <2>1, <2>2
    <3>2. \A i \in Id : /\ seen[i].empty = (streams[i].queue = <<>>)
                        /\ seen[i].ts = MinTimestampOrBound(streams[i])
      BY <3>1, <1>2 DEF IsRead
    <3>3. \A i \in Id : At(i) = shifted[i]
      BY <3>2, <1>1 DEF At
    <3>4. \A i \in Id : seen[i].empty \in BOOLEAN
      BY DecideFacts, SeenFacts, IdFacts
    <3>5. {j \in Id : streams[j].queue = <<>>} = {j \in Id : seen[j].empty}
      BY <3>2, <3>4
    <3>6. BoundsOf(Id) = {shifted[i] : i \in {j \in Id : seen[j].empty}}
      BY <3>3, <3>5 DEF BoundsOf
    <3>7. bound = Earliest(BoundsOf(Id))
      BY <3>6 DEF BoundOf
    <3>8. PICK p : p = Earliest(PacketsOf(Id))
      OBVIOUS
    <3>9. low <= p
      <4>1. \A x \in PacketsOf(Id) : \E i \in Id : x = shifted[i]
        BY <3>3 DEF PacketsOf
      <4>2. \A x \in PacketsOf(Id) : x \in PreStream .. Done /\ low <= x
        BY <4>1, <1>1
      <4>3. PacketsOf(Id) \subseteq Unset .. Done
        BY <4>2, TimestampValues
      <4>4. p \in PacketsOf(Id) \cup {Done}
        BY <3>8, <4>3, EarliestOf
      <4>5. QED
        BY <4>2, <4>4, <1>1, TimestampValues
    <3>10. p \in Int /\ low \in Int /\ bound \in Int
      <4>1. \A x \in PacketsOf(Id) : x \in PreStream .. Done
        BY <3>3, <1>1 DEF PacketsOf
      <4>2. PacketsOf(Id) \subseteq Unset .. Done
        BY <4>1, TimestampValues
      <4>3. p \in Unset .. Done
        BY <3>8, <4>2, EarliestOf
      <4>4. QED
        BY <4>3, <1>1, TimestampValues
    <3>11. ~(p < bound)
      BY <3>1, <3>9, <3>10
    <3>12. \E i \in Id : ~IsDone(streams[i])
      <4>1. PICK i \in Id : low = shifted[i]
        BY <1>1, <1>5
      <4>2. shifted[i] = Shift(i, MinTimestampOrBound(streams[i]))
        BY <3>2, <1>1
      <4>3. ASSUME IsDone(streams[i]) PROVE FALSE
        <5>1. MinTimestampOrBound(streams[i]) = Done /\ ~IsRangeValue(Done)
          BY <4>3, TimestampValues DEF IsDone, MinTimestampOrBound, IsRangeValue
        <5>2. low = Done
          BY <4>1, <4>2, <5>1 DEF Shift
        <5>3. QED
          BY <5>2, <1>5
      <4>4. QED
        BY <4>3
    <3>13. ~Due(Id)
      BY <3>7, <3>8, <3>11, <3>12, DueMeans
    <3>14. Id \in SUBSET Id
      OBVIOUS
    <3>15. QED
      BY <3>13, <3>14, <2>2, StillNotDue
  <2>11. QED
    BY <2>2, <2>7, <2>8, <2>9, <2>10
<1>6. QED
  BY <1>4, <1>5

LEMMA DecideTimestampAlignStep ==
  ASSUME IInv, DecideTimestampAlign
  PROVE  IInv'
<1> DEFINE known == {i \in Id \ {Base} : ~seen[i].empty}
           special == \E i \in known \cup {Base} : ~IsRangeValue(seen[i].ts)
           shifted == [i \in Id |-> IF IsRangeValue(seen[i].ts)
                                    THEN Plus(seen[i].ts, offsets[i])
                                    ELSE seen[i].ts]
           minBound == Earliest({shifted[i] : i \in {j \in Id : seen[j].empty}})
           minTs == Earliest(Range(shifted))
<1>1. /\ pc = "decide" /\ policy = "TimestampAlign"
      /\ \/ /\ ~aligned /\ seen[Base].empty
            /\ Conclude("not", seen[Base].ts)
            /\ UNCHANGED <<offsets, aligned>>
         \/ /\ ~aligned /\ ~seen[Base].empty /\ ~(special /\ known # {})
            /\ offsets' = [i \in Id |-> IF i \in known THEN Offset(i) ELSE offsets[i]]
            /\ aligned' = (known = Id \ {Base})
            /\ Conclude("process", seen[Base].ts)
         \/ /\ failed' = "special" /\ pc' = "idle"
            /\ UNCHANGED <<config, input, kept, erased, owed, seen, inputTs,
                           filled, inputBound, offsets, aligned>>
         \/ /\ aligned
            /\ IF minTs = Done THEN Conclude("close", Done)
               ELSE IF minBound > minTs THEN Conclude("process", minTs)
               ELSE Conclude("not", minTs)
            /\ UNCHANGED <<offsets, aligned>>
      /\ sets' = sets /\ ready' = ready
  BY Zenon DEF DecideTimestampAlign
<1>2. PICK ts, k, s, low, bound : /\ ts = seen[Base].ts /\ k = known
                                  /\ s = shifted /\ low = minTs /\ bound = minBound
  OBVIOUS
<1>3. CASE ~aligned /\ seen[Base].empty /\ Conclude("not", seen[Base].ts)
           /\ UNCHANGED <<offsets, aligned>>
  <2>1. Conclude("not", ts) /\ offsets' = offsets /\ aligned' = aligned
    BY <1>2, <1>3
  <2>2. QED
    BY <1>1, <1>2, <1>3, <2>1, AlignUnknown
<1>4. CASE /\ ~aligned /\ ~seen[Base].empty /\ ~(special /\ known # {})
           /\ offsets' = [i \in Id |-> IF i \in known THEN Offset(i) ELSE offsets[i]]
           /\ aligned' = (known = Id \ {Base})
           /\ Conclude("process", seen[Base].ts)
  <2>1. /\ k = {i \in Id \ {Base} : ~seen[i].empty}
        /\ (\E i \in k \cup {Base} : ~IsRangeValue(seen[i].ts)) => k = {}
        /\ Conclude("process", ts) /\ aligned' = (k = Id \ {Base})
    BY <1>2, <1>4
  <2>2. offsets' = [i \in Id |-> IF i \in k THEN ts - seen[i].ts ELSE offsets[i]]
    BY <1>2, <1>4 DEF Offset
  <2>3. QED
    BY <1>1, <1>2, <1>4, <2>1, <2>2, AlignBase
<1>5. CASE /\ failed' = "special" /\ pc' = "idle"
           /\ UNCHANGED <<config, input, kept, erased, owed, seen, inputTs,
                          filled, inputBound, offsets, aligned>>
  <2>1. UNCHANGED <<config, input, handler, seen, inputTs, filled, inputBound>>
    BY <1>1, <1>5 DEF handler
  <2>2. QED
    BY <1>1, <1>5, <2>1, FailStep
<1>6. CASE /\ aligned
           /\ IF minTs = Done THEN Conclude("close", Done)
              ELSE IF minBound > minTs THEN Conclude("process", minTs)
              ELSE Conclude("not", minTs)
           /\ UNCHANGED <<offsets, aligned>>
  <2>1. s = SeenShifted
    BY <1>2 DEF Shift, SeenShifted
  <2> HIDE DEF shifted
  <2>2. low = LowestOf(s) /\ bound = BoundOf(s)
    BY <1>2 DEF LowestOf, BoundOf
  <2> HIDE DEF minTs, minBound
  <2>3. /\ IF low = Done THEN Conclude("close", Done)
           ELSE IF bound > low THEN Conclude("process", low)
           ELSE Conclude("not", low)
        /\ offsets' = offsets /\ aligned' = aligned
    BY <1>2, <1>6
  <2>4. QED
    BY <1>1, <1>6, <2>1, <2>2, <2>3, AlignDecided
<1>7. QED
  BY <1>1, <1>3, <1>4, <1>5, <1>6

-----------------------------------------------------------------------------
\* The fixed size handler takes the timestamp of the input set from what is left
\* of the streams: it is not behind the one that was decided, nor behind what is
\* discarded.
LEMMA PreviousGrows ==
  ASSUME NEW b \in PreStream .. Done, NEW c \in PreStream .. Done, b <= c
  PROVE  /\ Previous(b) \in PreStream .. Done /\ Previous(b) <= Previous(c)
         /\ Previous(b) <= b
         /\ \A t \in Int : t < b => t <= Previous(b)
         /\ IsRangeValue(b) /\ b # MinTs => Previous(b) < b
         /\ ~IsRangeValue(b) => b = PreStream \/ b >= PostStream
  BY TimestampValues DEF Previous, IsRangeValue, Plus

RefilledFrom == Truncated(TRUE).from

LEMMA RefillFrom ==
  ASSUME TypeOK, StreamsInv, ErasedInv, pc = "refill", FixedSize,
         NEW from, from = RefilledFrom
  PROVE  /\ from \in Unset .. MaxTs
         /\ \A i \in Id : from <= Previous(streams[i].bound)
         /\ \/ from <= inputTs
            \/ \E i \in Id : /\ streams[i].queue # <<>> /\ from <= Last(streams[i].queue)
                             /\ Last(streams[i].queue) <= MaxTs
         /\ policy # "FixedSize" =>
              \/ from = Unset
              \/ \A i \in Id : streams[i].queue # <<>> /\ from <= Last(streams[i].queue)
<1>1. /\ \A i \in Id : Waiting(streams[i])
      /\ kept \in Unset .. MaxTs /\ (policy # "FixedSize" => kept = Unset)
      /\ inputTs \in PreStream .. PostStream
      /\ policy = "FixedSize" => kept <= inputTs
  BY DEF StreamsInv, ErasedInv
<1>2. from = IF policy = "FixedMinSize" THEN KeptOfAll ELSE KeptOfAny(TRUE)
  BY DEF Truncated, RefilledFrom
<1>3. PICK j \in Id : streams[j].queue # <<>> /\ Head(streams[j].queue) = inputTs
  BY DEF ErasedInv
<1>4. \A i \in Id : streams[i].bound \in PreStream .. Done
  BY <1>1, StreamFacts
<1>5. ASSUME NEW i \in Id, streams[i].queue # <<>>
      PROVE  /\ Last(streams[i].queue) \in PreStream .. PostStream
             /\ NextAllowedInStream(Last(streams[i].queue)) <= streams[i].bound
             /\ NextAllowedInStream(Last(streams[i].queue)) \in PreStream .. Done
             /\ Last(streams[i].queue) < streams[i].bound
  <2>1. PICK l : l = Last(streams[i].queue)
    OBVIOUS
  <2>2. l \in PreStream .. PostStream /\ NextAllowedInStream(l) <= streams[i].bound
    BY <1>1, <1>5, <2>1, QueueFacts
  <2>3. NextAllowedInStream(l) \in l + 1 .. OneOverPostStream
    BY <2>2, NextValues
  <2>4. QED
    BY <2>1, <2>2, <2>3, <1>4, TimestampValues
<1>6. CASE policy = "FixedMinSize"
  <2>1. /\ from \in Unset .. MaxTs
        /\ \/ from = Unset
           \/ \A i \in Id : streams[i].queue # <<>> /\ from <= Last(streams[i].queue)
    BY <1>1, <1>2, <1>6, AllLongFacts
  <2>2. ASSUME NEW i \in Id PROVE from <= Previous(streams[i].bound)
    <3>1. PICK b : b = streams[i].bound
      OBVIOUS
    <3>2. b \in PreStream .. Done /\ Previous(b) \in PreStream .. Done
          /\ \A t \in Int : t < b => t <= Previous(b)
      BY <3>1, <1>4, PreviousGrows, TimestampValues
    <3>3. CASE from = Unset
      BY <3>1, <3>2, <3>3, TimestampValues
    <3>4. CASE streams[i].queue # <<>> /\ from <= Last(streams[i].queue)
      <4>1. Last(streams[i].queue) < b /\ Last(streams[i].queue) \in PreStream .. PostStream
        BY <3>1, <3>4, <1>5
      <4>2. from < b /\ from \in Int
        BY <4>1, <3>2, <3>4, <2>1, TimestampValues
      <4>3. QED
        BY <3>1, <3>2, <4>2
    <3>5. QED
      BY <2>1, <3>3, <3>4
  <2>3. \/ from <= inputTs
        \/ \E i \in Id : /\ streams[i].queue # <<>> /\ from <= Last(streams[i].queue)
                         /\ Last(streams[i].queue) <= MaxTs
    <3>1. CASE from = Unset
      BY <3>1, <1>1, TimestampValues
    <3>2. CASE from <= Last(streams[j].queue) /\ Last(streams[j].queue) <= MaxTs
      BY <3>2, <1>3
    <3>3. CASE Last(streams[j].queue) = PostStream
      <4>1. PICK q : q = streams[j].queue
        OBVIOUS
      <4>2. /\ Len(q) \in Nat /\ Len(q) >= 1 /\ Head(q) = q[1] /\ q[Len(q)] = PostStream
            /\ Len(q) > 1 => IsRangeValue(q[Len(q)])
        <5>1. /\ Len(q) \in Nat /\ Len(q) >= 1 /\ Head(q) = q[1]
              /\ Last(q) = q[Len(q)]
          BY <4>1, <1>1, <1>3, QueueFacts, StreamFacts
        <5>2. Len(q) > 1 => \A k \in 1 .. Len(q) : IsRangeValue(q[k])
          BY <4>1, <1>1 DEF Waiting
        <5>3. QED
          BY <5>1, <5>2, <4>1, <3>3
      <4>3. ~IsRangeValue(PostStream)
        BY TimestampValues DEF IsRangeValue
      <4>4. Len(q) = 1
        BY <4>2, <4>3
      <4>5. inputTs = PostStream
        BY <4>1, <4>2, <4>4, <1>3
      <4>6. QED
        BY <4>5, <2>1, TimestampValues
    <3>4. Last(streams[j].queue) \in PreStream .. PostStream
      BY <1>3, <1>5
    <3>5. Last(streams[j].queue) <= MaxTs \/ Last(streams[j].queue) = PostStream
      BY <3>4, TimestampValues
    <3>6. QED
      BY <2>1, <3>1, <3>2, <3>3, <3>5
  <2>4. QED
    BY <2>1, <2>2, <2>3
<1>7. CASE policy # "FixedMinSize"
  <2>1. PICK f, m : f = KeptOfAny(FALSE) /\ m = MinStreamBound
    OBVIOUS
  <2>2. /\ f \in Unset .. MaxTs
        /\ \/ f = kept
           \/ \E i \in Id : /\ streams[i].queue # <<>>
                            /\ Last(streams[i].queue) \in MinTs .. MaxTs
                            /\ f <= Last(streams[i].queue)
        /\ KeptOfAny(TRUE) = Earlier(f, Previous(MinStreamBound))
    BY <2>1, <1>1, LongerFacts
  <2>3. /\ m \in PreStream .. Done
        /\ \A i \in Id : IF streams[i].queue = <<>> THEN m <= streams[i].bound
                         ELSE m <= NextAllowedInStream(Last(streams[i].queue))
    BY <2>1, <1>1, StreamBoundFacts
  <2>4. Previous(m) \in PreStream .. Done
    BY <2>3, PreviousGrows, TimestampValues
  <2>5. PICK p : p = Previous(m)
    OBVIOUS
  <2>6. from = IF f < p THEN f ELSE p
    BY <1>2, <1>7, <2>1, <2>2, <2>5 DEF Earlier
  <2>7. from \in Unset .. MaxTs /\ from <= f /\ from <= p /\ p \in Int /\ from \in Int /\ f \in Int
    BY <2>2, <2>4, <2>5, <2>6, TimestampValues
  <2>8. ASSUME NEW i \in Id PROVE from <= Previous(streams[i].bound)
    <3>1. PICK b : b = streams[i].bound
      OBVIOUS
    <3>2. m <= b /\ b \in PreStream .. Done
      <4>1. CASE streams[i].queue = <<>>
        BY <4>1, <3>1, <2>3, <1>4
      <4>2. CASE streams[i].queue # <<>>
        <5>1. PICK n : n = NextAllowedInStream(Last(streams[i].queue))
          OBVIOUS
        <5>2. m <= n /\ n <= b /\ n \in PreStream .. Done /\ b \in PreStream .. Done
          BY <4>2, <5>1, <3>1, <2>3, <1>4, <1>5
        <5>3. QED
          BY <5>2, <2>3, TimestampValues
      <4>3. QED
        BY <4>1, <4>2
    <3>3. Previous(m) <= Previous(b) /\ Previous(b) \in PreStream .. Done
      BY <3>2, <2>3, PreviousGrows, TimestampValues
    <3>4. PICK c : c = Previous(b)
      OBVIOUS
    <3>5. from <= c
      BY <3>3, <3>4, <2>5, <2>7, TimestampValues
    <3>6. QED
      BY <3>1, <3>4, <3>5
  <2>9. \/ from <= inputTs
        \/ \E i \in Id : /\ streams[i].queue # <<>> /\ from <= Last(streams[i].queue)
                         /\ Last(streams[i].queue) <= MaxTs
    <3>1. CASE f = kept
      <4>1. kept <= inputTs /\ kept \in Int /\ inputTs \in Int
        BY <1>1, <1>7, TimestampValues DEF FixedSize
      <4>2. QED
        BY <3>1, <4>1, <2>7
    <3>2. ASSUME NEW i \in Id, streams[i].queue # <<>>, f <= Last(streams[i].queue),
                 Last(streams[i].queue) \in MinTs .. MaxTs
          PROVE  \E k \in Id : /\ streams[k].queue # <<>>
                               /\ from <= Last(streams[k].queue)
                               /\ Last(streams[k].queue) <= MaxTs
      <4>1. PICK l : l = Last(streams[i].queue)
        OBVIOUS
      <4>2. l \in MinTs .. MaxTs /\ f <= l
        BY <4>1, <3>2
      <4>3. from <= l /\ l <= MaxTs
        BY <4>2, <2>7, TimestampValues
      <4>4. QED
        BY <4>1, <4>3, <3>2
    <3>3. QED
      BY <2>2, <3>1, <3>2
  <2>10. QED
    BY <1>7, <2>7, <2>8, <2>9 DEF FixedSize
<1>8. QED
  BY <1>6, <1>7

\* Nothing precedes Min(): the input set may come at the bound of stream s.
AtMin(s, x) == x = MinTs /\ s.queue = <<>> /\ s.bound = MinTs

\* What a stream lets go first.
Left(s) == IF s.queue = <<>> THEN Previous(s.bound) ELSE Head(s.queue)

LEMMA LeftFacts ==
  ASSUME NEW s, Waiting(s), NEW t \in Int, Settled(s, t), NEW x \in Int, x <= Left(s),
         t >= PreStream, t <= x, x <= MaxTs \/ x = t
  PROVE  Settled(s, x) \/ (AtMin(s, x) /\ t < MinTs)
<1>1. CASE s.queue = <<>>
  <2>1. PICK b : b = s.bound
    OBVIOUS
  <2>2. b \in PreStream .. Done /\ t < b /\ x <= Previous(b)
    BY <1>1, <2>1, StreamFacts DEF Settled, Left
  <2>3. /\ Previous(b) \in PreStream .. Done
        /\ IsRangeValue(b) /\ b # MinTs => Previous(b) < b
        /\ Previous(b) <= b
        /\ ~IsRangeValue(b) => b = PreStream \/ b >= PostStream
    BY <2>2, PreviousGrows, TimestampValues
  <2>4. PICK c : c = Previous(b)
    OBVIOUS
  <2>5. x < b \/ (b = MinTs /\ x = MinTs)
    <3>0. CASE b = MinTs
      BY <3>0, <2>2, <2>3, TimestampValues
    <3>1. CASE IsRangeValue(b) /\ b # MinTs
      <4>1. c < b /\ x <= c /\ c \in Int /\ b \in Int
        BY <3>1, <2>2, <2>3, <2>4, TimestampValues
      <4>2. QED
        BY <4>1
    <3>2. CASE ~IsRangeValue(b)
      BY <3>2, <2>2, <2>3, TimestampValues
    <3>3. QED
      BY <3>0, <3>1, <3>2
  <2>6. QED
    BY <1>1, <2>1, <2>2, <2>5 DEF Settled, AtMin
<1>2. CASE s.queue # <<>>
  BY <1>2 DEF Settled, Left
<1>3. QED
  BY <1>1, <1>2

\* The least of them.
LEMMA LeastLeft ==
  ASSUME NEW ss \in [Id -> Stream], \A i \in Id : Left(ss[i]) \in PreStream .. Done,
         NEW x, x = MinTimestampToProcess(ss)
  PROVE  /\ x \in PreStream .. Done
         /\ \A i \in Id : x <= Left(ss[i])
         /\ \E i \in Id : x = Left(ss[i])
<1> DEFINE T == {Left(s) : s \in Range(ss)}
<1>1. x = Min(T)
  BY DEF MinTimestampToProcess, Left
<1>2. \A y \in T : \E i \in Id : y = Left(ss[i])
  BY DEF Range
<1>3. \A i \in Id : Left(ss[i]) \in T
  BY DEF Range
<1> HIDE DEF T
<1>4. /\ T \in SUBSET Int /\ T # {} /\ PreStream \in Int
      /\ \A y \in T : PreStream <= y
      /\ \A y \in T : y \in PreStream .. Done
  BY <1>2, <1>3, IdFacts, TimestampValues
<1>5. Min(T) \in T /\ \A y \in T : Min(T) <= y
  BY <1>4, MinOfSet, Zenon
<1>6. QED
  BY <1>1, <1>2, <1>3, <1>4, <1>5

LEMMA RefillMin ==
  ASSUME TypeOK, StreamsInv, ErasedInv, pc = "refill", FixedSize,
         NEW from, from = RefilledFrom, NEW ss \in [Id -> Stream],
         \A i \in Id : ss[i] = EraseEarlier(streams[i], from),
         NEW x, x = MinTimestampToProcess(ss)
  PROVE  /\ x \in PreStream .. PostStream /\ inputTs <= x /\ from <= x
         /\ \A i \in Id : /\ ss[i].queue # <<>> => x <= Head(ss[i].queue)
                          /\ \/ Settled(ss[i], x)
                             \/ /\ AtMin(ss[i], x) /\ inputTs = PreStream
                                /\ policy = "FixedSize"
<1>1. /\ from \in Unset .. MaxTs
      /\ \A i \in Id : from <= Previous(streams[i].bound)
      /\ \/ from <= inputTs
         \/ \E i \in Id : /\ streams[i].queue # <<>> /\ from <= Last(streams[i].queue)
                          /\ Last(streams[i].queue) <= MaxTs
      /\ policy # "FixedSize" =>
           \/ from = Unset
           \/ \A i \in Id : streams[i].queue # <<>> /\ from <= Last(streams[i].queue)
  BY RefillFrom
<1>2. from \in Unset .. Done /\ from \in Int
  BY <1>1, TimestampValues
<1>3. /\ inputTs \in PreStream .. PostStream /\ inputTs \in Int
      /\ \A i \in Id : Waiting(streams[i]) /\ Settled(streams[i], inputTs)
  BY TimestampValues DEF StreamsInv, ErasedInv
<1>4. PICK j \in Id : streams[j].queue # <<>> /\ Head(streams[j].queue) = inputTs
  BY DEF ErasedInv
<1>5. ASSUME NEW i \in Id
      PROVE  /\ Moves(streams[i], ss[i]) /\ ss[i].bound = streams[i].bound
             /\ ss[i].queue # <<>> => from <= Head(ss[i].queue)
             /\ streams[i].queue # <<>> /\ from <= Last(streams[i].queue)
                  => ss[i].queue # <<>>
             /\ streams[i].queue # <<>> /\ from <= Head(streams[i].queue)
                  => Head(ss[i].queue) = Head(streams[i].queue)
             /\ ss[i].queue # <<>> => Head(ss[i].queue) <= Last(streams[i].queue)
  BY <1>2, <1>3, EraseMoves
<1>6. ASSUME NEW i \in Id
      PROVE  /\ Left(ss[i]) \in PreStream .. Done
             /\ from <= Left(ss[i]) /\ inputTs <= Left(ss[i])
             /\ Waiting(ss[i]) /\ Settled(ss[i], inputTs)
  <2>1. Waiting(ss[i]) /\ Settled(ss[i], inputTs)
    BY <1>3, <1>5 DEF Moves
  <2>2. CASE ss[i].queue = <<>>
    <3>1. PICK b : b = streams[i].bound
      OBVIOUS
    <3>2. b \in PreStream .. Done /\ inputTs < b /\ from <= Previous(b)
          /\ Left(ss[i]) = Previous(b)
      BY <2>1, <2>2, <3>1, <1>1, <1>3, <1>5, StreamFacts DEF Settled, Left
    <3>3. Previous(b) \in PreStream .. Done /\ inputTs <= Previous(b)
      BY <3>2, <1>3, PreviousGrows, TimestampValues
    <3>4. QED
      BY <2>1, <3>2, <3>3
  <2>3. CASE ss[i].queue # <<>>
    <3>1. Left(ss[i]) = Head(ss[i].queue) /\ from <= Head(ss[i].queue)
          /\ inputTs <= Head(ss[i].queue)
      BY <2>1, <2>3, <1>5 DEF Settled, Left
    <3>2. Head(ss[i].queue) \in PreStream .. PostStream
      BY <2>1, <2>3, QueueFacts
    <3>3. QED
      BY <2>1, <3>1, <3>2, TimestampValues
  <2>4. QED
    BY <2>2, <2>3
<1>7. /\ x \in PreStream .. Done
      /\ \A i \in Id : x <= Left(ss[i])
      /\ \E i \in Id : x = Left(ss[i])
  BY <1>6, LeastLeft
<1>8. x \in Int
  BY <1>7, TimestampValues
<1>9. inputTs <= x /\ from <= x
  BY <1>6, <1>7
<1>10. x <= MaxTs \/ x = inputTs
  <2>1. CASE from <= inputTs
    <3>1. from <= Head(streams[j].queue) /\ from <= Last(streams[j].queue)
      <4>1. PICK h, l : h = Head(streams[j].queue) /\ l = Last(streams[j].queue)
        OBVIOUS
      <4>2. h <= l /\ h \in PreStream .. PostStream /\ l \in PreStream .. PostStream
        BY <4>1, <1>3, <1>4, QueueFacts
      <4>3. from <= h /\ from <= l
        BY <4>1, <4>2, <2>1, <1>2, <1>4, TimestampValues
      <4>4. QED
        BY <4>1, <4>3
    <3>2. ss[j].queue # <<>> /\ Head(ss[j].queue) = inputTs
      BY <3>1, <1>4, <1>5
    <3>3. x <= inputTs
      BY <3>2, <1>7 DEF Left
    <3>4. QED
      BY <3>3, <1>3, <1>8, <1>9
  <2>2. ASSUME NEW i \in Id, streams[i].queue # <<>>, from <= Last(streams[i].queue),
               Last(streams[i].queue) <= MaxTs
        PROVE  x <= MaxTs
    <3>1. ss[i].queue # <<>> /\ Head(ss[i].queue) <= Last(streams[i].queue)
      BY <2>2, <1>5
    <3>2. PICK h, l : h = Head(ss[i].queue) /\ l = Last(streams[i].queue)
      OBVIOUS
    <3>3. x <= h
      BY <3>1, <3>2, <1>7 DEF Left
    <3>4. h \in PreStream .. PostStream /\ l \in PreStream .. PostStream
      BY <3>1, <3>2, <2>2, <1>3, <1>6, QueueFacts
    <3>5. h <= l /\ l <= MaxTs
      BY <3>1, <3>2, <2>2
    <3>6. QED
      BY <3>3, <3>4, <3>5, <1>8, TimestampValues
  <2>3. QED
    BY <1>1, <2>1, <2>2
<1>11. x \in PreStream .. PostStream
  BY <1>3, <1>7, <1>8, <1>10, TimestampValues
<1>12. ASSUME NEW i \in Id
       PROVE  \/ Settled(ss[i], x)
              \/ /\ AtMin(ss[i], x) /\ inputTs = PreStream /\ policy = "FixedSize"
  <2>1. Settled(ss[i], x) \/ (AtMin(ss[i], x) /\ inputTs < MinTs)
    BY <1>3, <1>6, <1>7, <1>8, <1>9, <1>10, LeftFacts
  <2>2. ASSUME AtMin(ss[i], x), inputTs < MinTs
        PROVE  inputTs = PreStream /\ policy = "FixedSize"
    <3>1. inputTs = PreStream /\ x = MinTs /\ ss[i].queue = <<>>
      BY <2>2, <1>3, TimestampValues DEF AtMin
    <3>2. ASSUME from = Unset PROVE FALSE
      <4>1. from <= Head(streams[j].queue) /\ from <= Last(streams[j].queue)
        <5>1. PICK h, l : h = Head(streams[j].queue) /\ l = Last(streams[j].queue)
          OBVIOUS
        <5>2. h \in PreStream .. PostStream /\ l \in PreStream .. PostStream
          BY <5>1, <1>3, <1>4, QueueFacts
        <5>3. from <= h /\ from <= l
          BY <5>2, <3>2, TimestampValues
        <5>4. QED
          BY <5>1, <5>3
      <4>2. ss[j].queue # <<>> /\ Head(ss[j].queue) = inputTs
        BY <4>1, <1>4, <1>5
      <4>3. x <= inputTs
        BY <4>2, <1>7 DEF Left
      <4>4. QED
        BY <4>3, <3>1, TimestampValues
    <3>3. ASSUME streams[i].queue # <<>>, from <= Last(streams[i].queue) PROVE FALSE
      BY <3>1, <3>3, <1>5
    <3>4. QED
      BY <3>1, <3>2, <3>3, <1>1
  <2>3. QED
    BY <2>1, <2>2
<1>13. \A i \in Id : ss[i].queue # <<>> => x <= Head(ss[i].queue)
  BY <1>7 DEF Left
<1>14. QED
  BY <1>9, <1>11, <1>12, <1>13

\* What the fixed size handler discards then is behind the input set.
LEMMA RefillSurplus ==
  ASSUME TypeOK, StreamsInv, StageInv, ErasedInv, Refill
  PROVE  /\ FixedSize /\ pc = "refill"
         /\ streams' \in [Id -> Stream] /\ kept' \in Unset .. MaxTs
         /\ erased \subseteq erased' /\ erased' \subseteq PreStream .. PostStream
         /\ policy # "FixedSize" => kept' = Unset
         /\ \A i \in Id : /\ Moves(streams[i], streams'[i])
                          /\ streams'[i].bound = streams[i].bound
         /\ \A e \in erased' : \/ e < kept'
                               \/ \A i \in Id : e < MinTimestampOrBound(streams'[i])
         /\ inputTs \in PreStream .. PostStream
         /\ \A i \in Id : Settled(streams[i], inputTs)
         /\ inputTs' \in PreStream .. PostStream /\ inputTs <= inputTs'
         /\ \A i \in Id : \/ Settled(streams'[i], inputTs')
                          \/ /\ AtMin(streams'[i], inputTs')
                             /\ policy = "FixedSize" /\ PreStream \in erased'
         /\ inputTs' \notin erased'
<1> DEFINE new == {t \in UNION {Range(streams[i].queue) : i \in Id} : \E i \in Id :
                     t \in Range(streams[i].queue) \ Range(Truncated(TRUE).streams[i].queue)}
<1>1. /\ pc = "refill" /\ EraseSurplusPackets(TRUE)
      /\ inputTs' = MinTimestampToProcess(Truncated(TRUE).streams)
  BY DEF Refill
<1>2. FixedSize
  BY <1>1 DEF StageInv
<1>3. PICK from, ss : from = RefilledFrom /\ ss = Truncated(TRUE).streams
  OBVIOUS
<1>4. /\ streams' = ss /\ inputTs' = MinTimestampToProcess(ss)
      /\ kept' = IF policy = "FixedSize" THEN from ELSE kept
      /\ erased' = erased \cup new
  BY <1>1, <1>3 DEF EraseSurplusPackets, RefilledFrom
<1>5. ss = [i \in Id |-> EraseEarlier(streams[i], from)]
  BY <1>3 DEF Truncated, RefilledFrom
<1>6. ASSUME NEW e \in new
      PROVE  \E i \in Id : e \in Range(streams[i].queue) /\ e \notin Range(ss[i].queue)
  BY <1>3
<1>7. ASSUME NEW i \in Id, NEW t \in Range(streams[i].queue), t \notin Range(ss[i].queue)
       PROVE  t \in new
  BY <1>3, <1>7
<1> HIDE DEF new
<1>8. \A i \in Id : ss[i] = EraseEarlier(streams[i], from)
  BY <1>5
<1>9. /\ from \in Unset .. MaxTs
      /\ policy # "FixedSize" =>
           \/ from = Unset
           \/ \A i \in Id : streams[i].queue # <<>> /\ from <= Last(streams[i].queue)
  BY <1>1, <1>2, <1>3, RefillFrom
<1>10. from \in Unset .. Done /\ from \in Int
  BY <1>9, TimestampValues
<1>11. /\ \A i \in Id : Waiting(streams[i])
       /\ kept \in Unset .. MaxTs /\ (policy # "FixedSize" => kept = Unset)
       /\ inputTs \in PreStream .. PostStream
       /\ policy = "FixedSize" => kept <= inputTs
       /\ \A i \in Id : Settled(streams[i], inputTs)
  BY <1>1 DEF StreamsInv, ErasedInv
<1>12. ASSUME NEW i \in Id
       PROVE  /\ Moves(streams[i], ss[i]) /\ ss[i].bound = streams[i].bound
              /\ ss[i].queue # <<>> => from <= Head(ss[i].queue)
              /\ streams[i].queue # <<>> /\ from <= Last(streams[i].queue)
                   => ss[i].queue # <<>>
              /\ \A x \in Range(streams[i].queue) \ Range(ss[i].queue) : x < from
  BY <1>8, <1>10, <1>11, EraseMoves
<1>13. \A i \in Id : Waiting(ss[i])
  BY <1>12 DEF Moves
<1>14. ss \in [Id -> Stream]
  BY <1>5, <1>13 DEF Waiting
<1>15. PICK x : x = MinTimestampToProcess(ss)
  OBVIOUS
<1>16. /\ x \in PreStream .. PostStream /\ inputTs <= x /\ from <= x
       /\ \A i \in Id : /\ ss[i].queue # <<>> => x <= Head(ss[i].queue)
                        /\ \/ Settled(ss[i], x)
                           \/ /\ AtMin(ss[i], x) /\ inputTs = PreStream
                              /\ policy = "FixedSize"
  BY <1>1, <1>2, <1>3, <1>8, <1>14, <1>15, RefillMin
<1>17. \A e \in new : e \in PreStream .. PostStream /\ e < from
  <2> SUFFICES ASSUME NEW e \in new PROVE e \in PreStream .. PostStream /\ e < from
    OBVIOUS
  <2>1. PICK i \in Id : e \in Range(streams[i].queue) /\ e \notin Range(ss[i].queue)
    BY <1>6
  <2>2. e \in PreStream .. PostStream
    BY <2>1, <1>11, QueuedFrom
  <2>3. QED
    BY <2>1, <2>2, <1>12
<1>18. /\ \A i \in Id : /\ MinTimestampOrBound(streams[i]) \in PreStream .. Done
                        /\ MinTimestampOrBound(ss[i]) \in PreStream .. Done
                        /\ MinTimestampOrBound(streams[i]) <= MinTimestampOrBound(ss[i])
                        /\ inputTs <= MinTimestampOrBound(streams[i])
  <2> SUFFICES ASSUME NEW i \in Id
               PROVE  /\ MinTimestampOrBound(streams[i]) \in PreStream .. Done
                      /\ MinTimestampOrBound(ss[i]) \in PreStream .. Done
                      /\ MinTimestampOrBound(streams[i]) <= MinTimestampOrBound(ss[i])
                      /\ inputTs <= MinTimestampOrBound(streams[i])
    OBVIOUS
  <2>1. MinTimestampOrBound(streams[i]) <= MinTimestampOrBound(ss[i])
    BY <1>12 DEF Moves
  <2>2. inputTs \in Int
    BY <1>11, TimestampValues
  <2>3. QED
    BY <2>1, <2>2, <1>11, <1>13, MinFacts
<1>19. ASSUME NEW e \in erased
       PROVE  /\ e \in Int /\ e < inputTs
              /\ \A i \in Id : e < MinTimestampOrBound(ss[i])
  <2>1. e \in Int /\ kept \in Int /\ inputTs \in Int
    BY <1>11, TimestampValues DEF TypeOK
  <2>2. e < kept \/ \A i \in Id : e < MinTimestampOrBound(streams[i])
    BY DEF ErasedInv
  <2>3. e < inputTs
    <3>1. CASE e < kept
      <4>1. kept <= inputTs
        BY <1>11, TimestampValues
      <4>2. QED
        BY <4>1, <3>1, <2>1
    <3>2. CASE \A i \in Id : e < MinTimestampOrBound(streams[i])
      <4>1. PICK j \in Id : streams[j].queue # <<>> /\ Head(streams[j].queue) = inputTs
        BY <1>1 DEF ErasedInv
      <4>2. MinTimestampOrBound(streams[j]) = inputTs
        BY <4>1 DEF MinTimestampOrBound
      <4>3. QED
        BY <4>2, <3>2
    <3>3. QED
      BY <2>2, <3>1, <3>2
  <2>4. ASSUME NEW i \in Id PROVE e < MinTimestampOrBound(ss[i])
    <3>1. PICK m, l : m = MinTimestampOrBound(ss[i]) /\ l = MinTimestampOrBound(streams[i])
      OBVIOUS
    <3>2. m \in Int /\ l \in Int /\ l <= m /\ inputTs <= l
      BY <3>1, <1>18, TimestampValues
    <3>3. QED
      BY <3>1, <3>2, <2>1, <2>3
  <2>5. QED
    BY <2>1, <2>3, <2>4
<1>20. ASSUME NEW e \in new
       PROVE  e < kept' \/ \A i \in Id : e < MinTimestampOrBound(ss[i])
  <2>1. e < from /\ e \in PreStream .. PostStream
    BY <1>17
  <2>2. CASE policy = "FixedSize"
    BY <2>1, <2>2, <1>4
  <2>3. CASE policy # "FixedSize"
    <3>1. from # Unset
      BY <2>1, TimestampValues
    <3>2. ASSUME NEW i \in Id PROVE e < MinTimestampOrBound(ss[i])
      <4>1. streams[i].queue # <<>> /\ from <= Last(streams[i].queue)
        BY <1>9, <2>3, <3>1
      <4>2. ss[i].queue # <<>> /\ from <= Head(ss[i].queue)
        BY <4>1, <1>12
      <4>3. from <= MinTimestampOrBound(ss[i])
        BY <4>2 DEF MinTimestampOrBound
      <4>4. MinTimestampOrBound(ss[i]) \in Int /\ e \in Int
        BY <1>18, <2>1, TimestampValues
      <4>5. QED
        BY <2>1, <4>3, <4>4, <1>10
    <3>3. QED
      BY <3>2
  <2>4. QED
    BY <2>2, <2>3
<1>21. \A e \in erased' : e < kept' \/ \A i \in Id : e < MinTimestampOrBound(ss[i])
  BY <1>4, <1>19, <1>20
<1>22. x \notin erased'
  <2> SUFFICES ASSUME x \in erased' PROVE FALSE
    OBVIOUS
  <2>1. x \in Int /\ inputTs \in Int
    BY <1>11, <1>16, TimestampValues
  <2>2. CASE x \in erased
    BY <2>1, <2>2, <1>16, <1>19
  <2>3. CASE x \in new
    BY <2>1, <2>3, <1>10, <1>16, <1>17
  <2>4. QED
    BY <2>2, <2>3, <1>4
<1>23. kept' \in Unset .. MaxTs /\ (policy # "FixedSize" => kept' = Unset)
  BY <1>4, <1>9, <1>11
<1>24. erased' \subseteq PreStream .. PostStream
  BY <1>4, <1>17 DEF TypeOK
<1>25. inputTs' = x
  BY <1>4, <1>15
<1>26. ASSUME NEW i \in Id, AtMin(ss[i], x), inputTs = PreStream
       PROVE  PreStream \in erased'
  <2>1. PICK j \in Id : streams[j].queue # <<>> /\ Head(streams[j].queue) = PreStream
    BY <1>1, <1>26 DEF ErasedInv
  <2>2. PreStream \in Range(streams[j].queue)
    <3>1. PICK q : q = streams[j].queue
      OBVIOUS
    <3>2. Len(q) \in Nat /\ Len(q) >= 1 /\ Head(q) = q[1]
      BY <2>1, <3>1, <1>11, QueueFacts, StreamFacts
    <3>3. q \in Seq(PreStream .. PostStream)
      BY <3>1, <1>11, StreamFacts
    <3>4. 1 \in DOMAIN q /\ q[1] = PreStream
      BY <2>1, <3>1, <3>2, <3>3
    <3>5. QED
      BY <3>1, <3>4 DEF Range
  <2>3. PreStream \notin Range(ss[j].queue)
    <3> SUFFICES ASSUME PreStream \in Range(ss[j].queue) PROVE FALSE
      OBVIOUS
    <3>1. MinTimestampOrBound(ss[j]) <= PreStream
      BY <1>13, QueuedFrom
    <3>2. ss[j].queue # <<>>
      <4>1. ss[j].queue = <<>> => Range(ss[j].queue) = {}
        BY DEF Range
      <4>2. QED
        BY <4>1
    <3>3. MinTimestampOrBound(ss[j]) = Head(ss[j].queue)
      BY <3>2 DEF MinTimestampOrBound
    <3>4. MinTs <= Head(ss[j].queue) /\ Head(ss[j].queue) \in PreStream .. PostStream
      BY <3>2, <1>13, <1>16, <1>26, QueueFacts DEF AtMin
    <3>5. QED
      BY <3>1, <3>3, <3>4, TimestampValues
  <2>4. QED
    BY <2>2, <2>3, <1>7, <1>4
<1>27. erased \subseteq erased'
  BY <1>4
<1>28. \A i \in Id : \/ Settled(streams'[i], inputTs')
                     \/ /\ AtMin(streams'[i], inputTs')
                        /\ policy = "FixedSize" /\ PreStream \in erased'
  BY <1>4, <1>16, <1>25, <1>26
<1>29. QED
  BY <1>1, <1>2, <1>4, <1>11, <1>12, <1>14, <1>16, <1>21, <1>22, <1>23, <1>24, <1>25,
     <1>27, <1>28

LEMMA RefillStep ==
  ASSUME IInv, Refill
  PROVE  IInv' /\ inputBound <= inputTs'
<1> USE DEF IInv
<1>1. /\ FixedSize /\ pc = "refill"
      /\ streams' \in [Id -> Stream] /\ kept' \in Unset .. MaxTs
      /\ erased \subseteq erased' /\ erased' \subseteq PreStream .. PostStream
      /\ policy # "FixedSize" => kept' = Unset
      /\ \A i \in Id : /\ Moves(streams[i], streams'[i])
                       /\ streams'[i].bound = streams[i].bound
      /\ \A e \in erased' : \/ e < kept'
                            \/ \A i \in Id : e < MinTimestampOrBound(streams'[i])
      /\ inputTs \in PreStream .. PostStream
      /\ \A i \in Id : Settled(streams[i], inputTs)
      /\ inputTs' \in PreStream .. PostStream /\ inputTs <= inputTs'
      /\ \A i \in Id : \/ Settled(streams'[i], inputTs')
                       \/ /\ AtMin(streams'[i], inputTs')
                          /\ policy = "FixedSize" /\ PreStream \in erased'
      /\ inputTs' \notin erased'
  BY RefillSurplus
<1>2. /\ pc' = "fill" /\ policy' = policy /\ processBounds' = processBounds
      /\ choice' = choice /\ promised' = promised /\ notified' = notified
      /\ sets' = sets /\ ready' = ready /\ offsets' = offsets /\ aligned' = aligned
      /\ owed' = owed /\ seen' = seen /\ filled' = filled /\ inputBound' = inputBound
      /\ failed' = failed
  BY DEF Refill, config
<1>3. policy \in {"FixedSize", "FixedMinSize"}
  BY <1>1 DEF FixedSize
<1>4. inputBound <= inputTs'
  <2>1. inputBound <= inputTs
    BY <1>1 DEF AheadInv
  <2>2. inputBound \in Int /\ inputTs \in Int /\ inputTs' \in Int
    BY <1>1, TimestampValues DEF TypeOK
  <2>3. QED
    BY <2>1, <2>2, <1>1
<1>5. \A i \in Id : /\ streams'[i].selected = streams[i].selected
                    /\ streams[i].selected < MinTimestampOrBound(streams[i])
                    /\ Waiting(streams[i]) /\ Waiting(streams'[i])
  BY <1>1 DEF Moves, StreamsInv
<1>6. TypeOK'
  <2>1. kept' \in Timestamp /\ inputTs' \in Timestamp
    BY <1>1, TimestampValues
  <2>2. QED
    BY <1>1, <1>2, <2>1 DEF TypeOK
<1>7. StreamsInv'
  BY <1>1, <1>2, StreamsDrift
<1>8. StageInv'
  <2>1. FreshSets' = FreshSets
    BY <1>2 DEF FreshSets
  <2>2. filled' < NumStreams
    BY <1>1, <1>2, IdFacts DEF StageInv
  <2>3. QED
    BY <1>1, <1>2, <1>3, <2>1, <2>2 DEF StageInv
<1>9. SeenInv' /\ AheadInv' /\ NothingForgotten'
  BY <1>2 DEF SeenInv, AheadInv, NothingForgotten
<1>10. FillInv'
  <2>1. inputTs' \in PreStream .. OneOverPostStream /\ IsAllowedInStream(inputTs')
    BY <1>1, TimestampValues DEF IsAllowedInStream
  <2>2. ASSUME NEW i \in Id
        PROVE  /\ Settled(streams'[i], inputTs') \/ AtBound(streams[i])'
               /\ streams'[i].selected < inputTs'
    <3>1. PICK j \in Id : streams[j].queue # <<>> /\ Head(streams[j].queue) = inputTs
      BY <1>1 DEF ErasedInv
    <3>2. MinTimestampOrBound(streams[j]) = inputTs
      BY <3>1 DEF MinTimestampOrBound
    <3>3. streams[i].selected = streams[j].selected
      BY <1>1, <1>3 DEF TogetherInv, Together, Between
    <3>4. streams[i].selected < inputTs /\ streams[i].selected \in Unstarted .. Done
      BY <3>2, <3>3, <1>5, StreamFacts
    <3>5. streams'[i].selected < inputTs'
      BY <3>4, <1>1, <1>5, TimestampValues
    <3>6. AtMin(streams'[i], inputTs') /\ policy = "FixedSize" /\ PreStream \in erased'
            => AtBound(streams[i])'
      BY <1>2 DEF AtMin, AtBound
    <3>7. QED
      BY <3>5, <3>6, <1>1
  <2>3. filled' + 1 .. NumStreams \subseteq Id
    BY <1>1, <1>2, IdFacts DEF StageInv
  <2>4. QED
    BY <1>2, <1>3, <2>1, <2>2, <2>3 DEF FillInv
<1>11. TogetherInv'
  <2>1. \A i \in Id : Wanted(i)'
    BY <1>2, <1>3 DEF Wanted
  <2>2. \A i, j \in Id : streams'[i].selected = streams'[j].selected
    BY <1>1, <1>3, <1>5 DEF TogetherInv, Together, Between
  <2>3. filled' = 0
    BY <1>1, <1>2 DEF StageInv
  <2>4. \A i \in Id : filled' < i
    BY <2>3, IdFacts
  <2>5. QED
    BY <2>1, <2>2, <2>4 DEF TogetherInv
<1>12. LastInv'
  BY <1>2, <1>3 DEF LastInv
<1>13. BoundInv'
  <2>1. ASSUME NEW i \in Id PROVE inputBound <= MinTimestampOrBound(streams'[i])
    <3>1. PICK m, l : m = MinTimestampOrBound(streams'[i]) /\ l = MinTimestampOrBound(streams[i])
      OBVIOUS
    <3>2. inputBound <= l
      BY <3>1, <1>1, <1>3 DEF BoundInv
    <3>3. l <= m
      BY <3>1, <1>1 DEF Moves
    <3>4. m \in Int /\ l \in Int /\ inputBound \in Int
      BY <3>1, <1>5, MinFacts, TimestampValues DEF TypeOK
    <3>5. QED
      BY <3>1, <3>2, <3>3, <3>4
  <2>2. inputBound = Unset \/ IsRangeValue(inputBound)
    BY <1>1 DEF BoundInv
  <2>3. QED
    BY <1>2, <1>3, <2>1, <2>2 DEF BoundInv
<1>14. AlignInv' /\ MuxInv'
  BY <1>2, <1>3 DEF AlignInv, MuxInv
<1>15. ErasedInv'
  BY <1>1, <1>2, <1>3 DEF ErasedInv, FixedSize
<1>16. QED
  BY <1>4, <1>6, <1>7, <1>8, <1>9, <1>10, <1>11, <1>12, <1>13, <1>14, <1>15

-----------------------------------------------------------------------------
\* The bound of stream s becomes that of r: the packet of a set leaves it alone,
\* unless the fixed size handler has taken the stream at its bound.
KeepsBound(s, r) ==
  r.bound = s.bound \/ (AtBound(s) /\ r.bound = NextAllowedInStream(MinTs))

LEMMA KeptBound ==
  ASSUME NEW s, Waiting(s), NEW r, Waiting(r), KeepsBound(s, r)
  PROVE  /\ s.bound <= r.bound
         /\ policy # "FixedSize" => r.bound = s.bound
<1>1. s.bound \in PreStream .. Done /\ r.bound \in PreStream .. Done
  BY StreamFacts
<1>2. MinTs \in PreStream .. PostStream
  BY TimestampValues
<1>3. NextAllowedInStream(MinTs) \in MinTs + 1 .. OneOverPostStream
  BY <1>2, NextValues
<1>4. QED
  BY <1>1, <1>3, TimestampValues DEF KeepsBound, AtBound

\* An empty stream that is taken at its bound.
EmptyAt(s, t) == s.queue = <<>> /\ s.bound <= t

LEMMA PopEmpty ==
  ASSUME NEW s, Waiting(s), NEW t \in PreStream .. PostStream,
         EmptyAt(s, t), NEW r, r = PopAt(s, t).stream
  PROVE  /\ PopAt(s, t).dropped = 0
         /\ Waiting(r) /\ r.selected = t /\ r.closed = s.closed
         /\ r.bound = NextAllowedInStream(t)
         /\ MinTimestampOrBound(s) <= MinTimestampOrBound(r)
         /\ t < MinTimestampOrBound(r)
<1>1. t \in Int /\ t \in Unstarted .. Done
  BY TimestampValues
<1>2. PICK n \in 0 .. Len(s.queue) :
        /\ \A i \in 1 .. n : s.queue[i] <= t
        /\ \A i \in n + 1 .. Len(s.queue) : s.queue[i] > t
        /\ PopAt(s, t).stream =
             [s EXCEPT !.queue = Rest(s, n),
                       !.selected = t,
                       !.bound = IF s.bound <= t THEN NextAllowedInStream(t)
                                 ELSE s.bound]
        /\ PopAt(s, t).dropped = IF n > 0 /\ s.queue[n] = t THEN n - 1 ELSE n
  BY <1>1, PopTakes
<1>3. PICK next : next = NextAllowedInStream(t)
  OBVIOUS
<1>4. next \in t + 1 .. OneOverPostStream
  BY <1>1, <1>3, NextValues
<1>5. /\ s \in Stream /\ s.bound \in PreStream .. Done /\ s.bound <= t
      /\ s.queue = <<>> /\ Len(s.queue) = 0
  BY StreamFacts DEF Waiting, EmptyAt
<1>6. n = 0
  BY <1>5
<1>7. PICK q : q = Rest(s, n)
  OBVIOUS
<1>8. q = <<>>
  <2>1. n \in 0 .. Len(s.queue) /\ n = Len(s.queue)
    BY <1>5, <1>6
  <2>2. QED
    BY <2>1, <1>7, Suffix
<1>9. r = [s EXCEPT !.queue = <<>>, !.selected = t, !.bound = next]
  BY <1>2, <1>3, <1>5, <1>7, <1>8
<1>10. next \in PreStream .. Done
  BY <1>1, <1>4, TimestampValues
<1>11. /\ r \in Stream /\ r.queue = <<>> /\ r.selected = t
       /\ r.closed = s.closed /\ r.bound = next /\ r.added = s.added
  BY <1>1, <1>5, <1>9, <1>10 DEF Stream
<1>12. Waiting(r)
  BY <1>11 DEF Waiting, Increasing
<1>13. MinTimestampOrBound(s) = s.bound /\ MinTimestampOrBound(r) = next
  BY <1>5, <1>11 DEF MinTimestampOrBound
<1>14. MinTimestampOrBound(s) <= MinTimestampOrBound(r) /\ t < MinTimestampOrBound(r)
  BY <1>1, <1>4, <1>5, <1>13, TimestampValues
<1>15. QED
  BY <1>2, <1>3, <1>6, <1>11, <1>12, <1>14

LEMMA PopAtBound ==
  ASSUME NEW s, Waiting(s), AtBound(s), NEW t, t = MinTs, NEW r, r = PopAt(s, t).stream
  PROVE  /\ PopAt(s, t).dropped = 0
         /\ Waiting(r) /\ r.selected = t /\ r.closed = s.closed
         /\ KeepsBound(s, r)
         /\ MinTimestampOrBound(s) <= MinTimestampOrBound(r)
         /\ t < MinTimestampOrBound(r)
<1>1. t \in PreStream .. PostStream /\ EmptyAt(s, t)
  BY TimestampValues DEF AtBound, EmptyAt
<1>2. /\ PopAt(s, t).dropped = 0
      /\ Waiting(r) /\ r.selected = t /\ r.closed = s.closed
      /\ r.bound = NextAllowedInStream(t)
      /\ MinTimestampOrBound(s) <= MinTimestampOrBound(r)
      /\ t < MinTimestampOrBound(r)
  BY <1>1, PopEmpty
<1>3. QED
  BY <1>2 DEF KeepsBound

\* The packets of an input set: the timestamp that is looked for is settled.
LEMMA PopTsFacts ==
  ASSUME IInv, pc = "fill", failed = "none", NEW i \in filled + 1 .. NumStreams,
         Wanted(i), policy = "TimestampAlign" /\ aligned => IsRangeValue(inputTs),
         policy # "Barrier", NEW t, t = PopTs(i)
  PROVE  /\ t \in PreStream .. PostStream
         /\ Settled(streams[i], t) \/ (AtBound(streams[i]) /\ t = MinTs)
         /\ streams[i].selected <= t
         /\ IsAllowedInStream(inputTs) /\ inputTs \in PreStream .. PostStream
         /\ policy # "TimestampAlign" => t = inputTs /\ streams[i].selected < inputTs
<1> USE DEF IInv
<1>1. /\ inputTs \in PreStream .. OneOverPostStream
      /\ \/ policy = "TimestampAlign" /\ aligned
         \/ IsAllowedInStream(inputTs)
      /\ policy \notin {"Barrier", "TimestampAlign"} =>
           /\ Settled(streams[i], inputTs) \/ AtBound(streams[i])
           /\ streams[i].selected < inputTs
      /\ policy = "TimestampAlign" /\ (aligned => IsRangeValue(inputTs)) =>
           /\ Settled(streams[i], PopTs(i))
           /\ streams[i].selected <= PopTs(i)
  BY DEF FillInv
<1>2. /\ IsRangeValue(inputTs) => inputTs \in MinTs .. MaxTs
      /\ IsAllowedInStream(inputTs) => inputTs \in PreStream .. PostStream
      /\ inputTs \in MinTs .. MaxTs =>
           /\ IsAllowedInStream(inputTs)
           /\ inputTs \in PreStream .. PostStream
  BY <1>1, TimestampValues DEF IsRangeValue, IsAllowedInStream
<1>3. i \in Id
  <2>1. filled \in 0 .. NumStreams
    BY DEF TypeOK
  <2>2. QED
    BY <2>1, IdFacts
<1>4. CASE policy = "TimestampAlign" /\ aligned
  <2>1. inputTs \in MinTs .. MaxTs /\ -offsets[i] \in Int
    <3>1. PICK o \in -Latest .. Latest : o = offsets[i]
      BY <1>3 DEF TypeOK
    <3>2. -o \in Int
      BY LatestAssumption
    <3>3. QED
      BY <3>1, <3>2, <1>2, <1>4
  <2>2. t = Plus(inputTs, -offsets[i])
    BY <1>4 DEF PopTs
  <2>3. PICK o : o = -offsets[i]
    OBVIOUS
  <2>4. t \in MinTs .. MaxTs
    BY <2>1, <2>2, <2>3, PlusFacts
  <2>5. t \in PreStream .. PostStream
    BY <2>4, TimestampValues
  <2>6. QED
    BY <2>1, <2>5, <1>1, <1>2, <1>4
<1>5. CASE ~(policy = "TimestampAlign" /\ aligned)
  <2>1. t = inputTs
    BY <1>5 DEF PopTs
  <2>2. streams[i].selected \in Int /\ inputTs \in Int
    BY <1>1, <1>3, StreamFacts, TimestampValues DEF StreamsInv
  <2>3. AtBound(streams[i]) => inputTs = MinTs
    BY DEF AtBound
  <2>4. QED
    BY <2>1, <2>2, <2>3, <1>1, <1>2, <1>5
<1>6. QED
  BY <1>4, <1>5

\* What becomes of the stream.
Popped(i) ==
  IF ~Wanted(i) THEN streams[i]
  ELSE IF policy = "Barrier" THEN PopQueueHead(streams[i])
  ELSE PopAt(streams[i], PopTs(i)).stream

LEMMA PoppedFacts ==
  ASSUME IInv, pc = "fill", failed = "none", NEW i \in filled + 1 .. NumStreams,
         policy = "TimestampAlign" /\ aligned => IsRangeValue(inputTs),
         NEW r, r = Popped(i)
  PROVE  /\ Failure(i) = "none"
         /\ Waiting(r) /\ r.closed = streams[i].closed
         /\ KeepsBound(streams[i], r)
         /\ MinTimestampOrBound(streams[i]) <= MinTimestampOrBound(r)
         /\ r.selected < MinTimestampOrBound(r)
         /\ ~Wanted(i) => r = streams[i]
         /\ Wanted(i) => /\ IsAllowedInStream(inputTs)
                         /\ inputTs \in PreStream .. PostStream
         /\ Wanted(i) /\ policy # "Barrier" => r.selected = PopTs(i)
         /\ Wanted(i) /\ policy \notin {"Barrier", "TimestampAlign"} =>
              r.selected = inputTs
<1> USE DEF IInv
<1>1. i \in Id
  <2>1. filled \in 0 .. NumStreams
    BY DEF TypeOK
  <2>2. QED
    BY <2>1, IdFacts
<1>2. /\ Waiting(streams[i])
      /\ streams[i].selected < MinTimestampOrBound(streams[i])
      /\ streams[i].selected \in Int
      /\ MinTimestampOrBound(streams[i]) \in Int
  <2>1. Waiting(streams[i]) /\ streams[i].selected < MinTimestampOrBound(streams[i])
    BY <1>1 DEF StreamsInv
  <2>2. QED
    BY <2>1, StreamFacts, MinFacts, TimestampValues
<1>3. CASE ~Wanted(i)
  <2>1. r = streams[i] /\ KeepsBound(streams[i], r)
    BY <1>3 DEF Popped, KeepsBound
  <2>2. Failure(i) = "none"
    BY <1>3 DEF Failure
  <2>3. QED
    BY <2>1, <2>2, <1>2, <1>3
<1>4. CASE Wanted(i) /\ policy = "Barrier"
  <2>1. /\ inputTs \in PreStream .. OneOverPostStream /\ IsAllowedInStream(inputTs)
        /\ streams[i].queue # <<>>
    BY <1>4 DEF FillInv
  <2>2. inputTs \in PreStream .. PostStream
    BY <2>1, TimestampValues DEF IsAllowedInStream
  <2>3. Failure(i) = "none"
    BY <2>1, <1>4 DEF Failure
  <2>4. r = PopQueueHead(streams[i])
    BY <1>4 DEF Popped
  <2>5. /\ Waiting(r) /\ r.selected = streams[i].selected
        /\ r.closed = streams[i].closed /\ r.bound = streams[i].bound
        /\ MinTimestampOrBound(streams[i]) <= MinTimestampOrBound(r)
    BY <2>1, <2>4, <1>2, TailTaken
  <2>6. MinTimestampOrBound(r) \in Int /\ KeepsBound(streams[i], r)
    BY <2>5, MinFacts, TimestampValues DEF KeepsBound
  <2>7. r.selected < MinTimestampOrBound(r)
    BY <2>5, <2>6, <1>2
  <2>8. QED
    BY <2>1, <2>2, <2>3, <2>5, <2>6, <2>7, <1>4
<1>5. CASE Wanted(i) /\ policy # "Barrier"
  <2>1. PICK t : t = PopTs(i)
    OBVIOUS
  <2>2. /\ t \in PreStream .. PostStream
        /\ Settled(streams[i], t) \/ (AtBound(streams[i]) /\ t = MinTs)
        /\ streams[i].selected <= t
        /\ IsAllowedInStream(inputTs) /\ inputTs \in PreStream .. PostStream
        /\ policy # "TimestampAlign" => t = inputTs /\ streams[i].selected < inputTs
    BY <2>1, <1>5, PopTsFacts
  <2>3. r = PopAt(streams[i], t).stream
    BY <2>1, <1>5 DEF Popped
  <2>4. /\ PopAt(streams[i], t).dropped = 0
        /\ Waiting(r) /\ r.selected = t /\ r.closed = streams[i].closed
        /\ KeepsBound(streams[i], r)
        /\ MinTimestampOrBound(streams[i]) <= MinTimestampOrBound(r)
        /\ t < MinTimestampOrBound(r)
    <3>1. CASE Settled(streams[i], t)
      <4>1. /\ PopAt(streams[i], t).dropped = 0
            /\ Waiting(r) /\ r.selected = t /\ r.closed = streams[i].closed
            /\ r.bound = streams[i].bound
            /\ MinTimestampOrBound(streams[i]) <= MinTimestampOrBound(r)
            /\ t < MinTimestampOrBound(r)
        BY <3>1, <2>2, <2>3, <1>2, PopSettled
      <4>2. QED
        BY <4>1 DEF KeepsBound
    <3>2. CASE AtBound(streams[i]) /\ t = MinTs
      BY <3>2, <2>3, <1>2, PopAtBound
    <3>3. QED
      BY <3>1, <3>2, <2>2
  <2>5. Failure(i) = "none"
    <3>1. ~(streams[i].selected > t)
      <4>1. t \in Int
        BY <2>2, TimestampValues
      <4>2. QED
        BY <4>1, <2>2, <1>2
    <3>2. ~(PopAt(streams[i], t).dropped > 0)
      BY <2>4
    <3>3. QED
      BY <3>1, <3>2, <2>1, <2>2, <1>5 DEF Failure
  <2>6. QED
    BY <2>1, <2>2, <2>4, <2>5, <1>5
<1>6. QED
  BY <1>3, <1>4, <1>5

\* A step of FillInputSet that passes its checks.
Fills(i) ==
  /\ pc = "fill" /\ failed = "none" /\ failed' = "none"
  /\ i = filled + 1 /\ filled' = i /\ i \in Id
  /\ policy = "TimestampAlign" /\ aligned => IsRangeValue(inputTs)
  /\ streams' \in [Id -> Stream] /\ ready' \in [Id -> Timestamp]
  /\ \A j \in Id \ {i} : streams'[j] = streams[j] /\ ready'[j] = ready[j]
  /\ Waiting(streams'[i]) /\ streams'[i].closed = streams[i].closed
  /\ KeepsBound(streams[i], streams'[i])
  /\ MinTimestampOrBound(streams[i]) <= MinTimestampOrBound(streams'[i])
  /\ streams'[i].selected < MinTimestampOrBound(streams'[i])
  /\ ready'[i] = IF Wanted(i) THEN Unset ELSE ready[i]
  /\ ~Wanted(i) => streams'[i] = streams[i]
  /\ Wanted(i) => IsAllowedInStream(inputTs) /\ inputTs \in PreStream .. PostStream
  /\ Wanted(i) /\ policy # "Barrier" => streams'[i].selected = PopTs(i)
  /\ Wanted(i) /\ policy \notin {"Barrier", "TimestampAlign"} =>
       streams'[i].selected = inputTs
  /\ pc' = IF i = NumStreams THEN IF policy = "Mux" THEN "tidy" ELSE "process" ELSE "fill"
  /\ policy' = policy /\ processBounds' = processBounds /\ choice' = choice
  /\ promised' = promised /\ notified' = notified /\ sets' = sets
  /\ offsets' = offsets /\ aligned' = aligned /\ kept' = kept /\ erased' = erased
  /\ owed' = owed /\ seen' = seen /\ inputTs' = inputTs /\ inputBound' = inputBound

\* One that does not: the timestamps of an aligned node are special.
Refuses ==
  /\ pc = "fill" /\ failed = "none" /\ failed' = "special"
  /\ policy = "TimestampAlign" /\ aligned /\ ~IsRangeValue(inputTs)
  /\ filled' = filled + 1 /\ filled + 1 \in Id
  /\ streams' = streams /\ ready' \in [Id -> Timestamp] /\ pc' \in {"fill", "process"}
  /\ policy' = policy /\ processBounds' = processBounds /\ choice' = choice
  /\ promised' = promised /\ notified' = notified /\ sets' = sets
  /\ offsets' = offsets /\ aligned' = aligned /\ kept' = kept /\ erased' = erased
  /\ owed' = owed /\ seen' = seen /\ inputTs' = inputTs /\ inputBound' = inputBound

LEMMA FillEffect ==
  ASSUME IInv, FillStream, NEW i, i = filled + 1
  PROVE  Fills(i) \/ Refuses
<1> USE DEF IInv
<1>1. /\ pc = "fill" /\ failed = "none" /\ failed' = Failure(i)
      /\ streams' = IF Failure(i) = "none" THEN [streams EXCEPT ![i] = Popped(i)]
                    ELSE streams
      /\ filled' = i
      /\ ready' = IF Wanted(i) THEN [ready EXCEPT ![i] = Unset] ELSE ready
      /\ pc' = IF i = NumStreams THEN IF policy = "Mux" THEN "tidy" ELSE "process" ELSE "fill"
  BY DEF FillStream, Popped
<1>2. /\ policy' = policy /\ processBounds' = processBounds /\ choice' = choice
      /\ promised' = promised /\ notified' = notified /\ sets' = sets
      /\ offsets' = offsets /\ aligned' = aligned /\ kept' = kept /\ erased' = erased
      /\ owed' = owed /\ seen' = seen /\ inputTs' = inputTs /\ inputBound' = inputBound
  BY DEF FillStream, config
<1>3. /\ i \in Id /\ i \in filled + 1 .. NumStreams
  <2>1. filled \in 0 .. NumStreams /\ filled < NumStreams
    BY <1>1 DEF TypeOK, StageInv
  <2>2. QED
    BY <2>1, IdFacts
<1>4. /\ ready' \in [Id -> Timestamp]
      /\ ready'[i] = IF Wanted(i) THEN Unset ELSE ready[i]
      /\ \A j \in Id \ {i} : ready'[j] = ready[j]
  BY <1>1, <1>3, TimestampValues DEF TypeOK
<1>5. CASE policy = "TimestampAlign" /\ aligned /\ ~IsRangeValue(inputTs)
  <2>1. Failure(i) = "special"
    BY <1>5 DEF Failure
  <2>2. failed' = "special" /\ streams' = streams /\ pc' \in {"fill", "process"}
    BY <2>1, <1>1, <1>5
  <2>3. QED
    BY <2>2, <1>1, <1>2, <1>3, <1>4, <1>5 DEF Refuses
<1>6. CASE ~(policy = "TimestampAlign" /\ aligned /\ ~IsRangeValue(inputTs))
  <2>1. PICK r : r = Popped(i)
    OBVIOUS
  <2>2. /\ Failure(i) = "none"
        /\ Waiting(r) /\ r.closed = streams[i].closed
        /\ KeepsBound(streams[i], r)
        /\ MinTimestampOrBound(streams[i]) <= MinTimestampOrBound(r)
        /\ r.selected < MinTimestampOrBound(r)
        /\ ~Wanted(i) => r = streams[i]
        /\ Wanted(i) => /\ IsAllowedInStream(inputTs)
                        /\ inputTs \in PreStream .. PostStream
        /\ Wanted(i) /\ policy # "Barrier" => r.selected = PopTs(i)
        /\ Wanted(i) /\ policy \notin {"Barrier", "TimestampAlign"} =>
             r.selected = inputTs
    BY <2>1, <1>1, <1>3, <1>6, PoppedFacts
  <2>3. streams' = [streams EXCEPT ![i] = r] /\ failed' = "none"
    BY <2>1, <2>2, <1>1
  <2>4. /\ streams' \in [Id -> Stream] /\ streams'[i] = r
        /\ \A j \in Id \ {i} : streams'[j] = streams[j]
    BY <2>2, <2>3, <1>3 DEF TypeOK, Waiting
  <2>5. QED
    BY <2>2, <2>3, <2>4, <1>1, <1>2, <1>3, <1>4, <1>6 DEF Fills
<1>7. QED
  BY <1>5, <1>6

LEMMA RefusesStep ==
  ASSUME IInv, Refuses
  PROVE  IInv'
<1> USE DEF IInv, Refuses
<1>1. filled' \in 0 .. NumStreams
  BY IdFacts
<1>2. TypeOK'
  BY <1>1 DEF TypeOK
<1>3. StreamsInv'
  BY DEF StreamsInv, Overtaken
<1>4. StageInv'
  <2>1. FreshSets' = FreshSets
    BY DEF FreshSets
  <2>2. QED
    BY <2>1 DEF StageInv
<1>5. SeenInv' /\ FillInv' /\ AheadInv' /\ NothingForgotten' /\ MuxInv'
  BY DEF SeenInv, FillInv, AheadInv, NothingForgotten, MuxInv
<1>6. TogetherInv'
  BY DEF TogetherInv, Together
<1>7. LastInv'
  BY DEF LastInv
<1>8. BoundInv'
  BY DEF BoundInv, Shift
<1>9. AlignInv'
  BY DEF AlignInv, AlignedAt
<1>10. ErasedInv'
  BY DEF ErasedInv, FixedSize
<1>11. QED
  BY <1>2, <1>3, <1>4, <1>5, <1>6, <1>7, <1>8, <1>9, <1>10

\* What a filled stream leaves to the others.
LEMMA FillsFacts ==
  ASSUME IInv, NEW i, Fills(i)
  PROVE  /\ i \in Id /\ filled \in 0 .. NumStreams - 1 /\ i = filled + 1
         /\ \A j \in Id : /\ Waiting(streams[j]) /\ Waiting(streams'[j])
                          /\ streams'[j].closed = streams[j].closed
                          /\ streams[j].bound <= streams'[j].bound
                          /\ policy # "FixedSize" =>
                               streams'[j].bound = streams[j].bound
                          /\ MinTimestampOrBound(streams[j])
                               <= MinTimestampOrBound(streams'[j])
                          /\ MinTimestampOrBound(streams[j]) \in PreStream .. Done
                          /\ MinTimestampOrBound(streams'[j]) \in PreStream .. Done
                          /\ streams'[j].selected < MinTimestampOrBound(streams'[j])
                          /\ streams[j].selected \in Unstarted .. Done
         /\ \A j \in Id : j # i => /\ Wanted(j)' = Wanted(j) /\ PopTs(j)' = PopTs(j)
                                   /\ j <= filled <=> j <= i
                                   /\ filled < j <=> i < j
<1> USE DEF IInv
<1>1. i \in Id /\ filled \in 0 .. NumStreams - 1 /\ i = filled + 1
  BY IdFacts DEF Fills, TypeOK
<1>2. ASSUME NEW j \in Id
      PROVE  /\ Waiting(streams[j]) /\ Waiting(streams'[j])
             /\ streams'[j].closed = streams[j].closed
             /\ streams[j].bound <= streams'[j].bound
             /\ policy # "FixedSize" => streams'[j].bound = streams[j].bound
             /\ MinTimestampOrBound(streams[j]) <= MinTimestampOrBound(streams'[j])
             /\ MinTimestampOrBound(streams[j]) \in PreStream .. Done
             /\ MinTimestampOrBound(streams'[j]) \in PreStream .. Done
             /\ streams'[j].selected < MinTimestampOrBound(streams'[j])
             /\ streams[j].selected \in Unstarted .. Done
  <2>1. /\ Waiting(streams[j]) /\ streams[j].selected < MinTimestampOrBound(streams[j])
    BY DEF StreamsInv, Fills
  <2>2. MinTimestampOrBound(streams[j]) \in PreStream .. Done
    BY <2>1, MinFacts
  <2>3. MinTimestampOrBound(streams[j]) <= MinTimestampOrBound(streams[j])
    BY <2>2, TimestampValues
  <2>4. /\ Waiting(streams'[j]) /\ streams'[j].closed = streams[j].closed
        /\ KeepsBound(streams[j], streams'[j])
        /\ MinTimestampOrBound(streams[j]) <= MinTimestampOrBound(streams'[j])
        /\ streams'[j].selected < MinTimestampOrBound(streams'[j])
    <3>1. CASE j = i
      BY <3>1 DEF Fills
    <3>2. CASE j # i
      BY <3>2, <2>1, <2>3 DEF Fills, KeepsBound
    <3>3. QED
      BY <3>1, <3>2
  <2>5. /\ streams[j].bound <= streams'[j].bound
        /\ policy # "FixedSize" => streams'[j].bound = streams[j].bound
    BY <2>1, <2>4, KeptBound
  <2>6. QED
    BY <2>1, <2>2, <2>4, <2>5, MinFacts, StreamFacts
<1>3. ASSUME NEW j \in Id, j # i
      PROVE  /\ Wanted(j)' = Wanted(j) /\ PopTs(j)' = PopTs(j)
             /\ j <= filled <=> j <= i
             /\ filled < j <=> i < j
  <2>1. ready'[j] = ready[j] /\ policy' = policy /\ aligned' = aligned
        /\ offsets' = offsets /\ choice' = choice /\ inputTs' = inputTs
    BY <1>3 DEF Fills
  <2>2. Wanted(j)' = Wanted(j)
    BY <2>1, Zenon DEF Wanted
  <2>3. PopTs(j)' = PopTs(j)
    BY <2>1 DEF PopTs
  <2>4. (j <= filled <=> j <= i) /\ (filled < j <=> i < j)
    BY <1>1, <1>3, IdFacts
  <2>5. QED
    BY <2>2, <2>3, <2>4
<1>4. QED
  BY <1>1, <1>2, <1>3

LEMMA FillsPlain ==
  ASSUME IInv, NEW i, Fills(i)
  PROVE  TypeOK' /\ StreamsInv' /\ StageInv' /\ SeenInv' /\ AheadInv' /\ NothingForgotten'
<1> USE DEF IInv
<1>1. filled' \in 0 .. NumStreams /\ filled' = i /\ i \in Id
  BY IdFacts DEF Fills
<1>2. TypeOK'
  BY <1>1 DEF TypeOK, Fills
<1>3. StreamsInv'
  <2>1. pc = "fill" /\ pc' # "closed" /\ promised' = promised
    BY DEF Fills
  <2>2. \A j \in Id : /\ Waiting(streams'[j])
                      /\ streams'[j].closed = streams[j].closed
                      /\ streams'[j].selected < MinTimestampOrBound(streams'[j])
    BY FillsFacts
  <2>3. \A j \in Id : /\ streams[j].closed = FALSE
                      /\ streams[j].bound = promised[j] \/ Overtaken(j)
    BY <2>1 DEF StreamsInv
  <2>4. ASSUME NEW j \in Id PROVE streams'[j].bound = promised[j] \/ Overtaken(j)'
    <3>1. policy' = policy /\ erased' = erased /\ promised' = promised
      BY DEF Fills
    <3>2. CASE j = i /\ streams'[i].bound # streams[i].bound
      <4>1. AtBound(streams[i]) /\ streams'[i].bound = NextAllowedInStream(MinTs)
        BY <3>2 DEF Fills, KeepsBound
      <4>2. NextAllowedInStream(MinTs) # MinTs
        <5>1. MinTs \in PreStream .. PostStream /\ MinTs \in Int
          BY TimestampValues
        <5>2. NextAllowedInStream(MinTs) \in MinTs + 1 .. OneOverPostStream
          BY <5>1, NextValues
        <5>3. QED
          BY <5>1, <5>2
      <4>3. promised[i] = MinTs
        BY <4>1, <4>2, <1>1, <2>3 DEF AtBound, Overtaken
      <4>4. QED
        BY <3>1, <3>2, <4>1, <4>3 DEF AtBound, Overtaken
    <3>3. CASE streams'[j].bound = streams[j].bound
      BY <3>1, <3>3, <2>3 DEF Overtaken
    <3>4. j # i => streams'[j] = streams[j]
      BY DEF Fills
    <3>5. QED
      BY <3>2, <3>3, <3>4
  <2>5. QED
    BY <2>1, <2>2, <2>3, <2>4 DEF StreamsInv
<1>4. StageInv'
  <2>1. FreshSets' = FreshSets
    BY DEF FreshSets, Fills
  <2>2. i # NumStreams => i < NumStreams
    BY <1>1, IdFacts
  <2>3. /\ pc' = "fill" => filled' < NumStreams
        /\ pc' \in {"fill", "tidy", "process"} /\ (pc' = "tidy" => policy' = "Mux")
    BY <1>1, <2>2 DEF Fills
  <2>4. /\ policy' = policy /\ processBounds' = processBounds /\ choice' = choice
        /\ sets' = sets /\ failed' = "none"
    BY DEF Fills
  <2>5. QED
    BY <2>1, <2>3, <2>4 DEF StageInv
<1>5. SeenInv' /\ AheadInv' /\ NothingForgotten'
  BY DEF SeenInv, AheadInv, NothingForgotten, Fills
<1>6. QED
  BY <1>2, <1>3, <1>4, <1>5

LEMMA FillsFill ==
  ASSUME IInv, NEW i, Fills(i)
  PROVE  FillInv'
<1> USE DEF IInv
<1>1. /\ inputTs' = inputTs /\ filled' = i /\ policy' = policy /\ aligned' = aligned
      /\ pc = "fill" /\ failed = "none" /\ erased' = erased
      /\ \A j \in Id \ {i} : streams'[j] = streams[j]
  BY DEF Fills
<1>2. ASSUME NEW j \in i + 1 .. NumStreams
      PROVE  /\ j \in Id \ {i} /\ j \in filled + 1 .. NumStreams
             /\ Wanted(j)' = Wanted(j) /\ PopTs(j)' = PopTs(j)
  <2>1. i \in Id /\ filled \in 0 .. NumStreams - 1 /\ i = filled + 1
    BY FillsFacts
  <2>2. j \in Id /\ j # i /\ j \in filled + 1 .. NumStreams
    BY <2>1, IdFacts
  <2>3. QED
    BY <2>2, FillsFacts
<1>3. inputTs \in PreStream .. OneOverPostStream
  BY <1>1 DEF FillInv
<1>4. ASSUME NEW j \in i + 1 .. NumStreams, Wanted(j)'
      PROVE  /\ \/ policy' = "TimestampAlign" /\ aligned'
                \/ IsAllowedInStream(inputTs')
             /\ policy' = "Barrier" => streams'[j].queue # <<>>
             /\ policy' \notin {"Barrier", "TimestampAlign"} =>
                  /\ Settled(streams'[j], inputTs') \/ AtBound(streams[j])'
                  /\ streams'[j].selected < inputTs'
             /\ policy' = "TimestampAlign" /\ (aligned' => IsRangeValue(inputTs')) =>
                  /\ Settled(streams'[j], PopTs(j)')
                  /\ streams'[j].selected <= PopTs(j)'
  <2>1. streams'[j] = streams[j] /\ PopTs(j)' = PopTs(j) /\ Wanted(j)
        /\ j \in filled + 1 .. NumStreams
    BY <1>1, <1>2, <1>4
  <2>2. /\ \/ policy = "TimestampAlign" /\ aligned
           \/ IsAllowedInStream(inputTs)
        /\ policy = "Barrier" => streams[j].queue # <<>>
        /\ policy \notin {"Barrier", "TimestampAlign"} =>
             /\ Settled(streams[j], inputTs) \/ AtBound(streams[j])
             /\ streams[j].selected < inputTs
        /\ policy = "TimestampAlign" /\ (aligned => IsRangeValue(inputTs)) =>
             /\ Settled(streams[j], PopTs(j))
             /\ streams[j].selected <= PopTs(j)
    BY <2>1, <1>1 DEF FillInv
  <2>3. AtBound(streams[j]) => AtBound(streams[j])'
    BY <2>1, <1>1 DEF AtBound
  <2>4. QED
    BY <2>1, <2>2, <2>3, <1>1
<1>5. QED
  BY <1>1, <1>3, <1>4 DEF FillInv

\* The streams of a set take the timestamp one after the other.
LEMMA FillsTogether ==
  ASSUME IInv, NEW i, Fills(i)
  PROVE  /\ TogetherInv'
         /\ \A j \in Id :
              Together(j, NumStreams) /\ policy # "SyncSet" /\ i = NumStreams =>
                streams'[j].selected = inputTs
<1> USE DEF IInv
<1> DEFINE sel(j) == streams[j].selected
           new(j) == streams'[j].selected
<1>1. /\ i \in Id /\ filled \in 0 .. NumStreams - 1 /\ i = filled + 1
      /\ \A j \in Id : j # i => /\ Wanted(j)' = Wanted(j)
                                /\ j <= filled <=> j <= i
                                /\ filled < j <=> i < j
  BY FillsFacts
<1>2. /\ pc = "fill" /\ filled' = i /\ inputTs' = inputTs /\ policy' = policy
      /\ \A j \in Id : j # i => new(j) = sel(j)
      /\ ~Wanted(i) => new(i) = sel(i)
      /\ Wanted(i) /\ policy \notin {"Barrier", "TimestampAlign"} => new(i) = inputTs
      /\ pc' = "fill" <=> i # NumStreams
  BY DEF Fills
<1>3. filled < i /\ ~(i <= filled) /\ ~(i < i)
  BY <1>1
<1>4. \A j, k \in Id : Together(j, k) =>
        /\ Together(k, j) /\ policy \notin {"Barrier", "TimestampAlign"}
        /\ Together(j, k)' = Together(j, k)
  BY <1>2 DEF Together
<1>5. \A j, k \in Id : Together(j, k) =>
        /\ \/ sel(j) = sel(k)
           \/ j <= filled /\ filled < k /\ Wanted(k) /\ sel(j) = inputTs
           \/ k <= filled /\ filled < j /\ Wanted(j) /\ sel(k) = inputTs
        /\ filled < j /\ Wanted(j) =>
             IF filled < k THEN Wanted(k) ELSE sel(k) = inputTs
  BY <1>2 DEF TogetherInv, Between
<1>6. \A j \in Id : i < j => pc' = "fill"
  BY <1>1, <1>2, IdFacts
<1>7. \A j \in Id : j <= i \/ i < j
  BY <1>1, IdFacts
<1> HIDE DEF sel, new
<1>8. ASSUME NEW j \in Id, NEW k \in Id, Together(j, k)
      PROVE  \/ new(j) = new(k)
             \/ pc' = "fill" /\ j <= i /\ i < k /\ Wanted(k)' /\ new(j) = inputTs
             \/ pc' = "fill" /\ k <= i /\ i < j /\ Wanted(j)' /\ new(k) = inputTs
  <2>1. CASE j # i /\ k # i
    BY <2>1, <1>1, <1>2, <1>5, <1>6, <1>8
  <2>2. CASE j = i /\ k # i
    <3>1. CASE Wanted(i)
      <4>1. new(i) = inputTs
        BY <3>1, <1>2, <1>4, <1>8
      <4>2. IF filled < k THEN Wanted(k) ELSE sel(k) = inputTs
        BY <2>2, <3>1, <1>3, <1>5, <1>8
      <4>3. CASE filled < k
        <5>1. i < k /\ Wanted(k)' /\ pc' = "fill" /\ i <= i
          BY <4>2, <4>3, <2>2, <1>1, <1>6, <1>7
        <5>2. QED
          BY <5>1, <4>1, <2>2
      <4>4. CASE ~(filled < k)
        BY <4>1, <4>2, <4>4, <2>2, <1>2
      <4>5. QED
        BY <4>3, <4>4
    <3>2. CASE ~Wanted(i)
      BY <3>2, <2>2, <1>2, <1>3, <1>5, <1>8
    <3>3. QED
      BY <3>1, <3>2
  <2>3. CASE j # i /\ k = i
    <3>0. Together(k, j)
      BY <1>4, <1>8
    <3>1. CASE Wanted(i)
      <4>1. new(i) = inputTs
        BY <3>1, <1>2, <1>4, <1>8
      <4>2. IF filled < j THEN Wanted(j) ELSE sel(j) = inputTs
        BY <2>3, <3>0, <3>1, <1>3, <1>5
      <4>3. CASE filled < j
        <5>1. i < j /\ Wanted(j)' /\ pc' = "fill" /\ i <= i
          BY <4>2, <4>3, <2>3, <1>1, <1>6, <1>7
        <5>2. QED
          BY <5>1, <4>1, <2>3
      <4>4. CASE ~(filled < j)
        BY <4>1, <4>2, <4>4, <2>3, <1>2
      <4>5. QED
        BY <4>3, <4>4
    <3>2. CASE ~Wanted(i)
      BY <3>2, <2>3, <1>2, <1>3, <1>5, <1>8
    <3>3. QED
      BY <3>1, <3>2
  <2>4. CASE j = i /\ k = i
    BY <2>4
  <2>5. QED
    BY <2>1, <2>2, <2>3, <2>4
<1>9. ASSUME NEW j \in Id, NEW k \in Id, Together(j, k), i < j, Wanted(j)'
      PROVE  IF i < k THEN Wanted(k)' ELSE new(k) = inputTs
  <2>1. j # i /\ filled < j /\ Wanted(j)
    BY <1>1, <1>3, <1>9
  <2>2. IF filled < k THEN Wanted(k) ELSE sel(k) = inputTs
    BY <2>1, <1>5, <1>9
  <2>3. CASE k # i
    BY <2>2, <2>3, <1>1, <1>2
  <2>4. CASE k = i
    BY <2>2, <2>4, <1>2, <1>3, <1>4, <1>9
  <2>5. QED
    BY <2>3, <2>4
<1>10. TogetherInv'
  <2> SUFFICES ASSUME NEW j \in Id, NEW k \in Id, Together(j, k)'
               PROVE  /\ \/ streams'[j].selected = streams'[k].selected
                         \/ Between(j, k)' \/ Between(k, j)'
                      /\ pc' = "fill" /\ filled' < j /\ Wanted(j)' =>
                           IF filled' < k THEN Wanted(k)'
                           ELSE streams'[k].selected = inputTs'
    BY DEF TogetherInv
  <2>1. Together(j, k)
    BY <1>2 DEF Together
  <2>2. \/ new(j) = new(k)
        \/ pc' = "fill" /\ j <= i /\ i < k /\ Wanted(k)' /\ new(j) = inputTs
        \/ pc' = "fill" /\ k <= i /\ i < j /\ Wanted(j)' /\ new(k) = inputTs
    BY <2>1, <1>8
  <2>3. \/ streams'[j].selected = streams'[k].selected
        \/ Between(j, k)' \/ Between(k, j)'
    BY <2>2, <1>2 DEF new, Between
  <2>4. i < j /\ Wanted(j)' =>
          IF i < k THEN Wanted(k)' ELSE streams'[k].selected = inputTs
    BY <2>1, <1>9 DEF new
  <2>5. QED
    BY <2>3, <2>4, <1>2
<1>11. ASSUME NEW j \in Id, Together(j, NumStreams), policy # "SyncSet", i = NumStreams
       PROVE  streams'[j].selected = inputTs
  <2>1. Together(i, j) /\ policy \notin {"Barrier", "TimestampAlign"} /\ i \in Id
    BY <1>1, <1>4, <1>11
  <2>2. Wanted(i)
    BY <2>1, <1>11 DEF Wanted, Together
  <2>3. CASE j = i
    BY <2>1, <2>2, <2>3, <1>2 DEF new
  <2>4. CASE j # i
    <3>1. ~(filled < j)
      BY <2>4, <1>1, <1>11, IdFacts
    <3>2. sel(j) = inputTs
      BY <3>1, <2>1, <2>2, <1>3, <1>5
    <3>3. QED
      BY <3>2, <2>4, <1>2 DEF new
  <2>5. QED
    BY <2>3, <2>4
<1>12. QED
  BY <1>10, <1>11

LEMMA FillsLast ==
  ASSUME IInv, NEW i, Fills(i)
  PROVE  LastInv'
<1> USE DEF IInv
<1>1. /\ i \in Id /\ filled \in 0 .. NumStreams - 1 /\ i = filled + 1
      /\ \A j \in Id : j # i => Wanted(j)' = Wanted(j)
  BY FillsFacts
<1>2. /\ pc = "fill" /\ pc' # "closed" /\ inputTs' = inputTs /\ policy' = policy
      /\ processBounds' = processBounds /\ sets' = sets
      /\ \A j \in Id : j # i => streams'[j] = streams[j] /\ ready'[j] = ready[j]
      /\ ready'[i] = IF Wanted(i) THEN Unset ELSE ready[i]
      /\ ~Wanted(i) => streams'[i] = streams[i]
      /\ Wanted(i) => inputTs \in PreStream .. PostStream
      /\ Wanted(i) /\ policy \notin {"Barrier", "TimestampAlign"} =>
           streams'[i].selected = inputTs
      /\ pc' = "fill" <=> i # NumStreams
  BY DEF Fills
<1>3. policy = "Default" =>
        IF pc' = "fill" THEN inputTs' = sets'[1].last
        ELSE \A j \in Id : streams'[j].selected = Later(sets'[1].last, Unstarted)
  <2> SUFFICES ASSUME policy = "Default", i = NumStreams, NEW j \in Id
               PROVE  streams'[j].selected = Later(sets[1].last, Unstarted)
    BY <1>2 DEF LastInv
  <2>1. inputTs = sets[1].last
    BY <1>2 DEF LastInv
  <2>2. streams'[j].selected = inputTs
    BY FillsTogether, IdFacts DEF Together
  <2>3. Wanted(i)
    BY DEF Wanted
  <2>4. inputTs \in PreStream .. PostStream
    BY <2>3, <1>2
  <2>5. Later(inputTs, Unstarted) = inputTs
    BY <2>4, TimestampValues DEF Later
  <2>6. QED
    BY <2>1, <2>2, <2>5
<1>4. policy = "SyncSet" /\ processBounds =>
        \A k \in 1 .. Len(sets') : \A j \in sets'[k].ids :
          /\ streams'[j].selected <= Later(sets'[k].last, Unstarted)
          /\ pc' = "fill" /\ Wanted(j)' => inputTs' <= sets'[k].last
  <2> SUFFICES ASSUME policy = "SyncSet", processBounds,
                      NEW k \in 1 .. Len(sets), NEW j \in sets[k].ids
               PROVE  /\ streams'[j].selected <= Later(sets[k].last, Unstarted)
                      /\ pc' = "fill" /\ Wanted(j)' => inputTs <= sets[k].last
    BY <1>2
  <2>1. j \in Id /\ sets[k].last \in Timestamp
    BY SetFacts
  <2>2. /\ streams[j].selected <= Later(sets[k].last, Unstarted)
        /\ Wanted(j) => inputTs <= sets[k].last
    BY <1>2 DEF LastInv
  <2>3. CASE j # i
    BY <2>1, <2>2, <2>3, <1>1, <1>2
  <2>4. CASE j = i
    <3>1. CASE Wanted(i)
      <4>1. streams'[i].selected = inputTs /\ inputTs \in PreStream .. PostStream
            /\ ready'[i] = Unset
        BY <3>1, <1>2
      <4>2. PICK l \in Timestamp : l = sets[k].last
        BY <2>1
      <4>3. inputTs <= l
        BY <4>2, <2>2, <2>4, <3>1
      <4>4. inputTs <= Later(l, Unstarted)
        BY <4>1, <4>2, <4>3, TimestampValues DEF Later
      <4>5. QED
        BY <4>1, <4>2, <4>3, <4>4, <2>4
    <3>2. CASE ~Wanted(i)
      <4>1. streams'[i] = streams[i] /\ ready'[i] = ready[i]
        BY <3>2, <1>2
      <4>2. ~(Wanted(i)')
        BY <4>1, <3>2, <1>2 DEF Wanted
      <4>3. QED
        BY <4>1, <4>2, <2>2, <2>4
    <3>3. QED
      BY <3>1, <3>2
  <2>5. QED
    BY <2>3, <2>4
<1>5. policy = "Immediate" => \A k \in Id :
        \/ /\ ready'[k] = Unset
           /\ streams'[k].selected = Later(sets'[k].last, Unstarted)
        \/ /\ ready'[k] \in PreStream .. PostStream
           /\ sets'[k].last = ready'[k]
           /\ streams'[k].selected < ready'[k]
           /\ Settled(streams'[k], ready'[k])
        \/ /\ ready'[k] = Done
           /\ streams'[k].queue = <<>> /\ streams'[k].bound >= OneOverPostStream
  <2> SUFFICES ASSUME policy = "Immediate", NEW k \in Id
               PROVE  \/ /\ ready'[k] = Unset
                         /\ streams'[k].selected = Later(sets[k].last, Unstarted)
                      \/ /\ ready'[k] \in PreStream .. PostStream
                         /\ sets[k].last = ready'[k]
                         /\ streams'[k].selected < ready'[k]
                         /\ Settled(streams'[k], ready'[k])
                      \/ /\ ready'[k] = Done
                         /\ streams'[k].queue = <<>>
                         /\ streams'[k].bound >= OneOverPostStream
    BY <1>2
  <2>1. \/ ready[k] = Unset /\ streams[k].selected = Later(sets[k].last, Unstarted)
        \/ /\ ready[k] \in PreStream .. PostStream
           /\ sets[k].last = ready[k]
           /\ streams[k].selected < ready[k]
           /\ Settled(streams[k], ready[k])
        \/ /\ ready[k] = Done
           /\ streams[k].queue = <<>> /\ streams[k].bound >= OneOverPostStream
    BY <1>2 DEF LastInv
  <2>2. CASE k # i \/ ~Wanted(i)
    <3>1. streams'[k] = streams[k] /\ ready'[k] = ready[k]
      BY <2>2, <1>2
    <3>2. QED
      BY <3>1, <2>1
  <2>3. CASE k = i /\ Wanted(i)
    <3>1. /\ streams'[k].selected = inputTs /\ inputTs \in PreStream .. PostStream
          /\ ready'[k] = Unset /\ ready[k] = inputTs
      BY <2>3, <1>2 DEF Wanted
    <3>2. inputTs # Unset /\ inputTs # Done
      BY <3>1, TimestampValues
    <3>3. sets[k].last = inputTs
      BY <3>1, <3>2, <2>1
    <3>4. Later(inputTs, Unstarted) = inputTs
      BY <3>1, TimestampValues DEF Later
    <3>5. QED
      BY <3>1, <3>3, <3>4
  <2>4. QED
    BY <2>2, <2>3
<1>6. QED
  BY <1>2, <1>3, <1>4, <1>5 DEF LastInv

LEMMA FillsBound ==
  ASSUME IInv, NEW i, Fills(i)
  PROVE  BoundInv'
<1> USE DEF IInv
<1>1. /\ pc = "fill" /\ inputBound' = inputBound /\ policy' = policy
      /\ processBounds' = processBounds /\ sets' = sets
      /\ offsets' = offsets /\ aligned' = aligned
      /\ \A j \in Id : \/ ready'[j] = ready[j]
                       \/ /\ ready[j] # Done \/ policy # "Immediate"
                          /\ ready'[j] = Unset
  <2>1. \A j \in Id : \/ ready'[j] = ready[j]
                      \/ /\ ready[j] # Done \/ policy # "Immediate"
                         /\ ready'[j] = Unset
    <3> SUFFICES ASSUME NEW j \in Id, ready'[j] # ready[j]
                 PROVE  (ready[j] # Done \/ policy # "Immediate") /\ ready'[j] = Unset
      OBVIOUS
    <3>1. j = i /\ Wanted(i) /\ ready'[i] = Unset /\ inputTs \in PreStream .. PostStream
      BY DEF Fills
    <3>2. inputTs # Done
      BY <3>1, TimestampValues
    <3>3. QED
      BY <3>1, <3>2 DEF Wanted
  <2>2. QED
    BY <2>1 DEF Fills
<1>2. \A j \in Id : /\ policy # "FixedSize" =>
                         streams'[j].bound = streams[j].bound
                    /\ MinTimestampOrBound(streams[j])
                         <= MinTimestampOrBound(streams'[j])
                    /\ MinTimestampOrBound(streams[j]) \in PreStream .. Done
                    /\ MinTimestampOrBound(streams'[j]) \in PreStream .. Done
  BY FillsFacts
<1>3. ASSUME NEW j \in Id, inputBound <= MinTimestampOrBound(streams[j])
      PROVE  inputBound <= MinTimestampOrBound(streams'[j])
  <2>1. PICK m, l : m = MinTimestampOrBound(streams'[j]) /\ l = MinTimestampOrBound(streams[j])
    OBVIOUS
  <2>2. m \in Int /\ l \in Int /\ l <= m /\ inputBound <= l /\ inputBound \in Int
    BY <2>1, <1>2, <1>3, TimestampValues DEF TypeOK
  <2>3. QED
    BY <2>1, <2>2
<1>4. ASSUME NEW j \in Id, inputBound <= Shift(j, MinTimestampOrBound(streams[j]))
      PROVE  inputBound <= Shift(j, MinTimestampOrBound(streams[j]))'
  <2>1. PICK m, l : m = MinTimestampOrBound(streams'[j]) /\ l = MinTimestampOrBound(streams[j])
    OBVIOUS
  <2>2. m \in PreStream .. Done /\ l \in PreStream .. Done /\ l <= m
        /\ offsets[j] \in Int
    BY <2>1, <1>2, LatestAssumption DEF TypeOK
  <2>3. /\ Shift(j, l) \in PreStream .. Done /\ Shift(j, m) \in PreStream .. Done
        /\ Shift(j, l) <= Shift(j, m)
    BY <2>2, ShiftGrows
  <2>4. inputBound <= Shift(j, l) /\ inputBound \in Int
    BY <2>1, <1>4, TimestampValues DEF TypeOK
  <2>5. inputBound <= Shift(j, m)
    BY <2>3, <2>4, TimestampValues
  <2>6. Shift(j, MinTimestampOrBound(streams[j]))' = Shift(j, m)
    BY <2>1, <1>1 DEF Shift
  <2>7. QED
    BY <2>5, <2>6
<1>5. inputBound = Unset \/ IsRangeValue(inputBound)
  BY <1>1 DEF BoundInv
<1>6. policy \in {"Default", "FixedSize", "FixedMinSize", "Barrier", "EarlyClose"} =>
        \A j \in Id : inputBound <= MinTimestampOrBound(streams'[j])
  BY <1>1, <1>3 DEF BoundInv
<1>7. policy = "Default" /\ processBounds =>
        \/ inputBound <= MinTs \/ inputBound <= sets[1].last + 1
        \/ \A j \in Id : inputBound < streams'[j].bound
  BY <1>1, <1>2 DEF BoundInv
<1>8. policy = "Immediate" => \A k \in Id :
        \/ ready'[k] = Done
        \/ /\ inputBound <= MinTimestampOrBound(streams'[k])
           /\ ready'[k] # Unset => inputBound <= ready'[k]
           /\ processBounds => Passed(k, sets[k].last, inputBound)'
  <2> SUFFICES ASSUME policy = "Immediate", NEW k \in Id, ready'[k] # Done
               PROVE  /\ inputBound <= MinTimestampOrBound(streams'[k])
                      /\ ready'[k] # Unset => inputBound <= ready'[k]
                      /\ processBounds => Passed(k, sets[k].last, inputBound)'
    OBVIOUS
  <2>1. ready[k] # Done
    BY <1>1
  <2>2. /\ inputBound <= MinTimestampOrBound(streams[k])
        /\ ready[k] # Unset => inputBound <= ready[k]
        /\ processBounds => Passed(k, sets[k].last, inputBound)
    BY <2>1, <1>1 DEF BoundInv
  <2>3. ready'[k] # Unset => ready'[k] = ready[k]
    BY <1>1
  <2>4. processBounds => Passed(k, sets[k].last, inputBound)'
    BY <2>2, <1>1, <1>2 DEF Passed
  <2>5. QED
    BY <2>2, <2>3, <2>4, <1>3
<1>9. policy = "Mux" => inputBound <= MinTimestampOrBound(streams'[Control])
  BY <1>1, <1>3, IdFacts DEF BoundInv
<1>10. policy = "TimestampAlign" =>
         IF aligned
         THEN \A j \in Id : inputBound <= Shift(j, MinTimestampOrBound(streams[j]))'
         ELSE inputBound <= MinTimestampOrBound(streams'[Base])
  BY <1>1, <1>3, <1>4, IdFacts DEF BoundInv
<1>11. /\ policy' = "Immediate" => \A k \in Id :
            \/ ready'[k] = Done
            \/ /\ inputBound' <= MinTimestampOrBound(streams'[k])
               /\ ready'[k] # Unset => inputBound' <= ready'[k]
               /\ processBounds' => Passed(k, sets[k].last, inputBound)'
  BY <1>1, <1>8
<1>12. QED
  BY <1>1, <1>5, <1>6, <1>7, <1>9, <1>10, <1>11 DEF BoundInv

LEMMA FillsAlign ==
  ASSUME IInv, NEW i, Fills(i)
  PROVE  AlignInv' /\ MuxInv'
<1> USE DEF IInv
<1>1. /\ pc = "fill" /\ inputTs' = inputTs /\ policy' = policy
      /\ offsets' = offsets /\ aligned' = aligned /\ i \in Id
      /\ policy = "TimestampAlign" /\ aligned => IsRangeValue(inputTs)
      /\ \A j \in Id : j # i => streams'[j] = streams[j]
      /\ ~Wanted(i) => streams'[i] = streams[i]
      /\ Wanted(i) /\ policy # "Barrier" => streams'[i].selected = PopTs(i)
      /\ Wanted(i) /\ policy \notin {"Barrier", "TimestampAlign"} =>
           streams'[i].selected = inputTs
      /\ pc' = IF i = NumStreams THEN IF policy = "Mux" THEN "tidy" ELSE "process" ELSE "fill"
      /\ Wanted(i) => inputTs \in PreStream .. PostStream
  BY DEF Fills
<1>2. \A j \in Id : /\ MinTimestampOrBound(streams[j])
                         <= MinTimestampOrBound(streams'[j])
                    /\ MinTimestampOrBound(streams[j]) \in PreStream .. Done
                    /\ MinTimestampOrBound(streams'[j]) \in PreStream .. Done
                    /\ streams[j].selected \in Unstarted .. Done
  BY FillsFacts
<1>3. ASSUME policy = "TimestampAlign", aligned
      PROVE  inputTs \in MinTs .. MaxTs /\ AlignedAt(inputTs)'
  <2>1. IsRangeValue(inputTs) /\ AlignedAt(inputTs)
    BY <1>1, <1>3 DEF AlignInv
  <2>2. inputTs \in MinTs .. MaxTs
    BY <2>1, TimestampValues DEF TypeOK, IsRangeValue
  <2>3. ASSUME NEW j \in Id
        PROVE  /\ inputTs - offsets[j] >= MinTs
               /\ \/ MinTimestampOrBound(streams'[j]) >= inputTs - offsets[j]
                  \/ MinTimestampOrBound(streams'[j]) > MaxTs
               /\ streams'[j].selected <= Plus(inputTs, -offsets[j])
    <3>1. PICK m, l, o : /\ m = MinTimestampOrBound(streams'[j])
                         /\ l = MinTimestampOrBound(streams[j]) /\ o = offsets[j]
      OBVIOUS
    <3>2. /\ m \in Int /\ l \in Int /\ l <= m
          /\ o \in Int /\ inputTs \in Int /\ MaxTs \in Int
      BY <3>1, <1>2, <2>2, LatestAssumption, TimestampValues DEF TypeOK
    <3>3. /\ inputTs - o >= MinTs /\ (l >= inputTs - o \/ l > MaxTs)
          /\ streams[j].selected <= Plus(inputTs, -o)
      BY <3>1, <2>1 DEF AlignedAt
    <3>4. m >= inputTs - o \/ m > MaxTs
      BY <3>2, <3>3
    <3>5. Plus(inputTs, -o) \in Int
      <4>1. -o \in Int
        BY <3>2
      <4>2. QED
        BY <4>1, <2>2, PlusFacts, TimestampValues
    <3>6. streams'[j].selected <= Plus(inputTs, -o)
      <4>1. CASE j = i /\ Wanted(i)
        <5>1. streams'[j].selected = Plus(inputTs, -o)
          BY <4>1, <3>1, <1>1, <1>3 DEF PopTs
        <5>2. QED
          BY <5>1, <3>5
      <4>2. CASE ~(j = i /\ Wanted(i))
        BY <4>2, <3>3, <1>1
      <4>3. QED
        BY <4>1, <4>2
    <3>7. QED
      BY <3>1, <3>3, <3>4, <3>6
  <2>4. AlignedAt(inputTs)'
    BY <2>3, <1>1 DEF AlignedAt
  <2>5. QED
    BY <2>2, <2>4
<1>4. AlignInv'
  <2>1. ASSUME policy = "TimestampAlign", aligned
        PROVE  /\ \E b \in MinTs .. MaxTs : AlignedAt(b)'
               /\ AlignedAt(inputTs)'
    <3>1. inputTs \in MinTs .. MaxTs /\ AlignedAt(inputTs)'
      BY <2>1, <1>3
    <3>2. PICK b \in MinTs .. MaxTs : b = inputTs
      BY <3>1
    <3>3. AlignedAt(b)'
      BY <3>1, <3>2, <1>1 DEF AlignedAt
    <3>4. QED
      BY <3>1, <3>3
  <2>2. offsets'[Base] = 0
    BY <1>1 DEF AlignInv
  <2>3. QED
    BY <2>1, <2>2, <1>1 DEF AlignInv
<1>5. MuxInv'
  <2> SUFFICES ASSUME policy = "Mux"
               PROVE  /\ streams'[Control].selected = inputTs
                      /\ \A j \in Data : streams'[j].selected <= inputTs
    <3>1. Control \in Id /\ inputTs \in Int
      BY IdFacts, TimestampValues DEF TypeOK
    <3>2. QED
      BY <3>1, <1>1 DEF MuxInv
  <2>1. Control \in Id /\ Control = 1 /\ i = filled + 1 /\ filled \in Nat
    BY IdFacts, FillsFacts
  <2>2. streams'[Control].selected = inputTs
    <3>1. CASE i = Control
      <4>1. Wanted(i)
        BY <3>1 DEF Wanted
      <4>2. QED
        BY <3>1, <4>1, <1>1
    <3>2. CASE i # Control
      <4>1. filled >= 1 /\ failed = "none"
        BY <3>2, <2>1 DEF Fills
      <4>2. streams[Control].selected = inputTs
        BY <4>1, <1>1 DEF MuxInv
      <4>3. QED
        BY <3>2, <4>2, <2>1, <1>1
    <3>3. QED
      BY <3>1, <3>2
  <2>3. ASSUME NEW j \in Data PROVE streams'[j].selected <= inputTs
    <3>1. j \in Id /\ streams[j].selected <= inputTs
      BY <1>1, IdFacts DEF MuxInv
    <3>2. CASE j = i /\ Wanted(i)
      BY <3>2, <1>1, TimestampValues
    <3>3. CASE ~(j = i /\ Wanted(i))
      BY <3>1, <3>3, <1>1
    <3>4. QED
      BY <3>2, <3>3
  <2>4. QED
    BY <2>2, <2>3
<1>6. QED
  BY <1>4, <1>5

LEMMA FillsErased ==
  ASSUME IInv, NEW i, Fills(i)
  PROVE  ErasedInv'
<1> USE DEF IInv
<1>1. /\ pc = "fill" /\ inputTs' = inputTs /\ policy' = policy /\ kept' = kept
      /\ erased' = erased /\ owed' = owed
      /\ pc' = IF i = NumStreams THEN IF policy = "Mux" THEN "tidy" ELSE "process" ELSE "fill"
  BY DEF Fills
<1>2. \A j \in Id : /\ MinTimestampOrBound(streams[j])
                         <= MinTimestampOrBound(streams'[j])
                    /\ MinTimestampOrBound(streams[j]) \in PreStream .. Done
                    /\ MinTimestampOrBound(streams'[j]) \in PreStream .. Done
  BY FillsFacts
<1>3. ASSUME NEW e \in erased
      PROVE  e < kept \/ \A j \in Id : e < MinTimestampOrBound(streams'[j])
  <2>1. e \in Int
    BY TimestampValues DEF TypeOK
  <2>2. ASSUME NEW j \in Id, e < MinTimestampOrBound(streams[j])
        PROVE  e < MinTimestampOrBound(streams'[j])
    <3>1. PICK m, l : m = MinTimestampOrBound(streams'[j]) /\ l = MinTimestampOrBound(streams[j])
      OBVIOUS
    <3>2. m \in Int /\ l \in Int /\ l <= m /\ e < l
      BY <3>1, <1>2, <2>2, TimestampValues
    <3>3. QED
      BY <3>1, <3>2, <2>1
  <2>3. e < kept \/ \A j \in Id : e < MinTimestampOrBound(streams[j])
    BY DEF ErasedInv
  <2>4. QED
    BY <2>2, <2>3
<1>4. ASSUME FixedSize, pc' = "process", NEW j \in Id
      PROVE  streams'[j].selected = inputTs
  <2>1. i = NumStreams /\ NumStreams \in Id
    BY <1>1, <1>4, IdFacts
  <2>2. Together(j, NumStreams) /\ policy # "SyncSet"
    BY <1>4 DEF FixedSize, Together
  <2>3. QED
    BY <2>1, <2>2, FillsTogether
<1>5. FixedSize' = FixedSize
  BY <1>1 DEF FixedSize
<1>6. FixedSize => inputTs \notin erased
  BY <1>1 DEF ErasedInv
<1>7. QED
  BY <1>1, <1>3, <1>4, <1>5, <1>6 DEF ErasedInv

LEMMA FillStep ==
  ASSUME IInv, FillStream
  PROVE  IInv'
<1>1. PICK i : i = filled + 1
  OBVIOUS
<1>2. CASE Fills(i)
  BY <1>2, FillsPlain, FillsFill, FillsTogether, FillsLast, FillsBound, FillsAlign,
     FillsErased DEF IInv
<1>3. CASE Refuses
  BY <1>3, RefusesStep
<1>4. QED
  BY <1>1, <1>2, <1>3, FillEffect

-----------------------------------------------------------------------------
\* The start of a run.
Fresh ==
  /\ policy \in Policies /\ processBounds \in BOOLEAN
  /\ policy \notin {"Default", "Immediate", "SyncSet"} => ~processBounds
  /\ policy = "Mux" => choice \in [PreStream .. PostStream -> Data]
  /\ streams = [i \in Id |-> FreshStream]
  /\ promised = [i \in Id |-> PreStream]
  /\ pc = "idle" /\ notified = FALSE /\ seen = <<>>
  /\ sets = FreshSets /\ ready = [i \in Id |-> Unset]
  /\ inputTs = Unset /\ filled = 0 /\ inputBound = Unset
  /\ offsets \in [Id -> -Latest .. Latest] /\ offsets[Base] = 0 /\ aligned = FALSE
  /\ kept \in Unset .. MaxTs /\ (policy # "FixedSize" => kept = Unset)
  /\ erased = {} /\ owed = {}
  /\ failed \in {"none", "special", "torn"}
  /\ failed # "none" => policy \in {"TimestampAlign", "Mux"}

LEMMA FreshNotDue ==
  ASSUME Fresh, NEW ids \in SUBSET Id, ids # {}
  PROVE  ~Due(ids)
<1>1. /\ FreshStream.queue = <<>> /\ FreshStream.bound = PreStream
  BY FreshWaits
<1>2. \A i \in ids : /\ streams[i].queue = <<>>
                     /\ MinTimestampOrBound(streams[i]) = PreStream
                     /\ ~IsDone(streams[i])
  BY <1>1, TimestampValues DEF Fresh, MinTimestampOrBound, IsDone
<1>3. \A i \in ids : At(i) = PreStream
  BY <1>2, TimestampValues DEF At, Shift, IsRangeValue
<1>4. BoundsOf(ids) \subseteq Unset .. Done
  BY <1>3, TimestampValues DEF BoundsOf
<1>5. PacketsOf(ids) = {}
  BY <1>2 DEF PacketsOf
<1>6. PICK b, p : b = Earliest(BoundsOf(ids)) /\ p = Earliest(PacketsOf(ids))
  OBVIOUS
<1>7. b \in Unset .. Done
  BY <1>4, <1>6, EarliestOf
<1>8. p = Done
  <2>1. PICK T : T = PacketsOf(ids)
    OBVIOUS
  <2>2. T \subseteq Unset .. Done /\ T = {}
    BY <2>1, <1>5
  <2>3. p \in T \cup {Done}
    BY <2>1, <2>2, <1>6, EarliestIs
  <2>4. QED
    BY <2>2, <2>3
<1>9. ~(p < b)
  BY <1>7, <1>8, TimestampValues
<1>10. QED
  BY <1>2, <1>6, <1>9, DueMeans

LEMMA FreshInv ==
  ASSUME Fresh
  PROVE  IInv
<1>1. /\ Waiting(FreshStream) /\ FreshStream \in Stream
      /\ FreshStream.queue = <<>> /\ FreshStream.bound = PreStream
      /\ FreshStream.selected = Unstarted /\ ~FreshStream.closed
      /\ FreshStream.closed \in BOOLEAN
  <2>1. /\ Waiting(FreshStream)
        /\ FreshStream.queue = <<>> /\ FreshStream.bound = PreStream
        /\ FreshStream.selected = Unstarted /\ ~FreshStream.closed
    BY FreshWaits
  <2>2. QED
    BY <2>1, StreamFacts DEF Waiting
<1>2. \A i \in Id : /\ streams[i] = FreshStream /\ promised[i] = PreStream
                    /\ ready[i] = Unset
                    /\ MinTimestampOrBound(streams[i]) = PreStream
                    /\ ~IsDone(streams[i])
  BY <1>1, TimestampValues DEF Fresh, MinTimestampOrBound, IsDone
<1>3. /\ sets = FreshSets /\ FreshSets \in Seq([ids : SUBSET Id, last : Timestamp])
      /\ policy = "Immediate" => /\ Len(FreshSets) = NumStreams
                                 /\ \A k \in Id : FreshSets[k].ids = {k}
      /\ policy = "SyncSet" => /\ Len(FreshSets) = 2
                               /\ FreshSets[1].ids = {1} /\ FreshSets[2].ids = Id \ {1}
      /\ policy \notin {"Immediate", "SyncSet"} => /\ Len(FreshSets) = 1
                                                  /\ FreshSets[1].ids = Id
      /\ \A k \in 1 .. Len(FreshSets) : FreshSets[k].last = Unset
  BY FreshFacts DEF Fresh
<1>4. Later(Unset, Unstarted) = Unstarted /\ Unstarted < PreStream
  BY TimestampValues DEF Later
<1>5. TypeOK
  <2>1. /\ kept \in Timestamp /\ Unset \in Timestamp /\ PreStream \in Timestamp
        /\ 0 \in 0 .. NumStreams
    BY IdFacts, TimestampValues DEF Fresh
  <2>2. sets \in Seq([ids : SUBSET Id, last : Timestamp])
    BY <1>3
  <2>3. seen \in Seq([ts : Timestamp, empty : BOOLEAN]) /\ Len(seen) <= NumStreams
    BY IdFacts DEF Fresh
  <2>4. streams \in [Id -> Stream] /\ promised \in [Id -> Timestamp]
        /\ ready \in [Id -> Timestamp]
    BY <2>1, <1>1 DEF Fresh
  <2> HIDE DEF FreshStream
  <2>5. QED
    BY <2>1, <2>2, <2>3, <2>4 DEF TypeOK, Fresh
<1>6. StreamsInv
  BY <1>1, <1>2, <1>4, Zenon DEF StreamsInv, Fresh
<1>7. StageInv
  BY <1>3, IdFacts DEF StageInv, Fresh
<1>8. SeenInv /\ FillInv /\ AheadInv
  BY DEF SeenInv, FillInv, AheadInv, Fresh
<1>9. TogetherInv
  BY <1>2 DEF TogetherInv, Fresh
<1>10. LastInv
  <2>1. policy = "Default" => \A i \in Id :
          streams[i].selected = Later(sets[1].last, Unstarted)
    BY <1>1, <1>2, <1>3, <1>4
  <2>2. policy = "SyncSet" => \A k \in 1 .. Len(sets) : \A i \in sets[k].ids :
          streams[i].selected <= Later(sets[k].last, Unstarted)
    <3> SUFFICES ASSUME policy = "SyncSet",
                        NEW k \in 1 .. Len(sets), NEW i \in sets[k].ids
                 PROVE  streams[i].selected <= Later(sets[k].last, Unstarted)
      OBVIOUS
    <3>1. i \in Id
      BY <1>5, SetFacts
    <3>2. sets[k].last = Unset
      BY <1>3
    <3>3. streams[i].selected = Unstarted /\ Unstarted <= Unstarted
      BY <3>1, <1>1, <1>2, TimestampValues
    <3>4. QED
      BY <3>2, <3>3, <1>4
  <2>3. policy = "Immediate" => \A k \in Id :
          ready[k] = Unset /\ streams[k].selected = Later(sets[k].last, Unstarted)
    BY <1>1, <1>2, <1>3, <1>4, IdFacts
  <2>4. pc = "idle"
    BY DEF Fresh
  <2>5. QED
    BY <2>1, <2>2, <2>3, <2>4 DEF LastInv
<1>11. BoundInv
  <2>1. inputBound = Unset /\ Unset <= PreStream /\ Unset <= MinTs
    BY TimestampValues DEF Fresh
  <2>2. \A i \in Id : inputBound <= MinTimestampOrBound(streams[i])
    BY <2>1, <1>2
  <2>3. \A k \in Id : Passed(k, sets[k].last, inputBound)
    BY <2>1 DEF Passed
  <2>4. ~aligned
    BY DEF Fresh
  <2>5. QED
    BY <2>1, <2>2, <2>3, <2>4, <1>2, IdFacts DEF BoundInv
<1>12. AlignInv
  BY DEF AlignInv, Fresh
<1>13. MuxInv
  <2>1. \A i \in Id : streams[i].selected = Unstarted
    BY <1>1, <1>2
  <2>2. Unstarted <= Unstarted
    BY TimestampValues
  <2>3. QED
    BY <2>1, <2>2, IdFacts DEF MuxInv, Fresh
<1>14. ErasedInv
  BY DEF ErasedInv, Fresh
<1>15. NothingForgotten
  <2>1. \A i \in Id : /\ streams[i].queue = <<>> /\ streams[i].bound = PreStream
                      /\ ~IsDone(streams[i])
    BY <1>1, <1>2
  <2>2. ~Due(Id)
    BY FreshNotDue, IdFacts
  <2>3. \A k \in DOMAIN sets : sets[k].ids # {} => ~Due(sets[k].ids)
    <3> SUFFICES ASSUME NEW k \in DOMAIN sets, sets[k].ids # {}
                 PROVE  ~Due(sets[k].ids)
      OBVIOUS
    <3>1. PICK ids : ids = sets[k].ids
      OBVIOUS
    <3>2. ids \in SUBSET Id /\ ids # {}
      BY <3>1, <1>5, SetFacts
    <3>3. QED
      BY <3>1, <3>2, FreshNotDue
  <2>4. PreStream # Done
    BY TimestampValues
  <2>5. ~aligned
    BY DEF Fresh
  <2>6. policy \in {"Default", "Immediate", "SyncSet", "TimestampAlign",
                    "Mux", "Barrier", "EarlyClose", "FixedSize", "FixedMinSize"}
    BY <1>5, Policy
  <2>7. QED
    BY <2>1, <2>2, <2>3, <2>4, <2>5, <2>6, IdFacts DEF NothingForgotten
<1>16. QED
  BY <1>5, <1>6, <1>7, <1>8, <1>9, <1>10, <1>11, <1>12, <1>13, <1>14, <1>15 DEF IInv

LEMMA FreshInvNext == (Fresh => IInv)'
<1>1. Fresh => IInv
  BY FreshInv
<1>2. QED
  BY <1>1, PTL

LEMMA InitStep ==
  ASSUME Init
  PROVE  IInv
<1>1. Fresh
  <2>1. offsets \in [Id -> -Latest .. Latest] /\ offsets[Base] = 0
    <3>1. 0 \in -Latest .. Latest
      BY LatestAssumption
    <3>2. QED
      BY <3>1, IdFacts DEF Init
  <2>2. kept \in Unset .. MaxTs
    BY TimestampValues DEF Init
  <2>3. QED
    BY <2>1, <2>2 DEF Init, Fresh
<1>2. QED
  BY <1>1, FreshInv

LEMMA PrepareStep ==
  ASSUME IInv, PrepareForRun
  PROVE  IInv'
<1>1. Fresh'
  <2>1. FreshSets' = FreshSets
    BY DEF FreshSets, PrepareForRun, config
  <2>2. /\ policy' = policy /\ processBounds' = processBounds /\ choice' = choice
        /\ offsets' = offsets /\ kept' = kept /\ owed' = owed /\ failed' = failed
        /\ owed = {}
        /\ streams' = [i \in Id |-> FreshStream] /\ promised' = [i \in Id |-> PreStream]
        /\ pc' = "idle" /\ notified' = FALSE /\ seen' = <<>>
        /\ sets' = FreshSets /\ ready' = [i \in Id |-> Unset]
        /\ inputTs' = Unset /\ filled' = 0 /\ inputBound' = Unset
        /\ aligned' = FALSE /\ erased' = {}
    BY DEF PrepareForRun, config
  <2>3. /\ policy \in Policies /\ processBounds \in BOOLEAN
        /\ offsets \in [Id -> -Latest .. Latest]
    BY DEF IInv, TypeOK
  <2>4. /\ policy \notin {"Default", "Immediate", "SyncSet"} => ~processBounds
        /\ policy = "Mux" => choice \in [PreStream .. PostStream -> Data]
        /\ failed \in {"none", "special", "torn"}
        /\ failed # "none" => policy \in {"TimestampAlign", "Mux"}
    BY DEF IInv, StageInv
  <2>5. /\ kept \in Unset .. MaxTs /\ (policy # "FixedSize" => kept = Unset)
        /\ offsets[Base] = 0
    BY DEF IInv, ErasedInv, AlignInv
  <2>6. QED
    BY <2>1, <2>2, <2>3, <2>4, <2>5 DEF Fresh
<1>2. QED
  BY <1>1, FreshInvNext

-----------------------------------------------------------------------------
\* Every step.
LEMMA StutterStep ==
  ASSUME IInv, UNCHANGED vars
  PROVE  IInv'
<1>1. /\ policy' = policy /\ processBounds' = processBounds /\ choice' = choice
      /\ streams' = streams /\ promised' = promised /\ notified' = notified
      /\ sets' = sets /\ ready' = ready /\ offsets' = offsets /\ aligned' = aligned
      /\ kept' = kept /\ erased' = erased /\ owed' = owed
      /\ pc' = pc /\ seen' = seen /\ inputTs' = inputTs /\ filled' = filled
      /\ inputBound' = inputBound /\ failed' = failed
  BY DEF vars, config, input, handler, round
<1> USE DEF IInv
<1>2. TypeOK' /\ StreamsInv' /\ SeenInv' /\ MuxInv'
  BY <1>1 DEF TypeOK, StreamsInv, Overtaken, SeenInv, IsRead, MuxInv
<1>3. StageInv'
  <2>1. FreshSets' = FreshSets
    BY <1>1 DEF FreshSets
  <2>2. QED
    BY <1>1, <2>1 DEF StageInv, FixedSize
<1>4. FillInv' /\ TogetherInv'
  <2>1. \A i : Wanted(i)' = Wanted(i) /\ PopTs(i)' = PopTs(i)
    BY <1>1, Zenon DEF Wanted, PopTs
  <2>2. \A i, j : Together(i, j)' = Together(i, j) /\ Between(i, j)' = Between(i, j)
    BY <1>1, <2>1, Zenon DEF Together, Between
  <2>3. FillInv'
    BY <1>1, <2>1 DEF FillInv, AtBound
  <2>4. TogetherInv'
    BY <1>1, <2>1, <2>2 DEF TogetherInv
  <2>5. QED
    BY <2>3, <2>4
<1>5. LastInv'
  <2>1. \A i : Wanted(i)' = Wanted(i)
    BY <1>1, Zenon DEF Wanted
  <2>2. QED
    BY <1>1, <2>1 DEF LastInv
<1>6. BoundInv' /\ AheadInv'
  <2>1. BoundInv'
    BY <1>1 DEF BoundInv, Shift, Passed
  <2>2. AheadInv'
    BY <1>1, SameAhead
  <2>3. QED
    BY <2>1, <2>2
<1>7. AlignInv'
  BY <1>1 DEF AlignInv, AlignedAt
<1>8. ErasedInv'
  BY <1>1 DEF ErasedInv, FixedSize
<1>9. NothingForgotten'
  <2>1. \A i \in Id : /\ (streams'[i].queue = <<>>) <=> (streams[i].queue = <<>>)
                      /\ MinTimestampOrBound(streams'[i]) = MinTimestampOrBound(streams[i])
    BY <1>1
  <2>2. QED
    BY <1>1, <2>1, StillAsleep
<1>10. QED
  BY <1>2, <1>3, <1>4, <1>5, <1>6, <1>7, <1>8, <1>9

LEMMA NextStep ==
  ASSUME IInv, [Next]_vars
  PROVE  IInv'
<1>1. CASE \E i \in Id : Add(i) \/ Raise(i)
  BY <1>1, AddStep, RaiseStep
<1>2. CASE TruncateAfterAdd
  BY <1>2, TruncateStep
<1>3. CASE Schedule
  BY <1>3, BeginStep, ReadStreamStep, ReadControlStep, RemoveStep, DecideDefaultStep,
     DecideImmediateStep, DecideSyncSetStep, DecideTimestampAlignStep, DecideBarrierStep,
     DecideMuxStep, RefillStep, FillStep DEF Schedule
<1>4. CASE PrepareForRun
  BY <1>4, PrepareStep
<1>5. CASE UNCHANGED vars
  BY <1>5, StutterStep
<1>6. QED
  BY <1>1, <1>2, <1>3, <1>4, <1>5 DEF Next

\* The invariant that carries the others: what has been read is not ahead of the
\* streams, the timestamp that was decided is settled on every stream that is
\* still to be filled, and the streams of one set are asked for the same.  For the
\* fixed size handler the timestamp may also be Min() with a stream still at the
\* bound Min(), but only if a packet at PreStream has been discarded.
THEOREM AlwaysIInv == Spec => []IInv
<1>1. Init => IInv
  BY InitStep
<1>2. IInv /\ [Next]_vars => IInv'
  BY NextStep
<1>3. QED
  BY <1>1, <1>2, PTL DEF Spec

\* Under every policy, however the producers and the scheduling thread interleave,
\* the ABSL_CHECKs of FillInputSet and PopPacketAtTimestamp hold: no packet that
\* was to be delivered is dropped, no stream goes back, no set has an illegal
\* timestamp, and no handler takes a stream beyond what its producer has stated,
\* but for the fixed size handler at Min(), where bound - 1 stops: see Overtaken.
\* (Checks of two handlers of their own, on a packet at PreStream or PostStream to
\* be aligned and on the view of the mux, are not among them: those can fail.)
THEOREM AlwaysSetsWhole == Spec => []SetsWhole
<1>1. IInv => SetsWhole
  BY DEF IInv, StreamsInv, StageInv, SetsWhole
<1>2. QED
  BY <1>1, AlwaysIInv, PTL

\* A timestamp that the fixed size handlers have discarded from one stream is in
\* no input set, although they truncate while the set is being chosen.
THEOREM AlwaysDroppedTogether == Spec => []DroppedTogether
<1>1. IInv => DroppedTogether
  BY DEF IInv, ErasedInv, DroppedTogether
<1>2. QED
  BY <1>1, AlwaysIInv, PTL

\* A node that has gone to sleep with no notification pending has nothing to do:
\* that a stream notifies only when its queue was empty loses no wake-up.
THEOREM AlwaysNothingForgotten == Spec => []NothingForgotten
<1>1. IInv => NothingForgotten
  BY DEF IInv
<1>2. QED
  BY <1>1, AlwaysIInv, PTL

-----------------------------------------------------------------------------
\* The input sets come in order.
LEMMA LowestAhead ==
  ASSUME NEW T, T \subseteq Unset .. Done, NEW low, low = Earliest(T),
         NEW b \in Timestamp, b <= Done, \A x \in T : b <= x
  PROVE  b <= low
<1>1. low \in T \cup {Done}
  BY EarliestIs
<1>2. QED
  BY <1>1

LEMMA BarrierAhead ==
  ASSUME IInv, DecideBarrierOrEarlyClose, pc' = "fill"
  PROVE  inputBound <= inputTs'
<1> USE DEF IInv
<1> DEFINE T == {s.ts : s \in Range(seen)}
<1>1. PICK low : low = Earliest(T)
  OBVIOUS
<1>2. /\ pc = "decide" /\ policy \in {"Barrier", "EarlyClose"}
      /\ \/ Conclude("close", Done) \/ Conclude("process", low) \/ Conclude("not", low)
  BY <1>1 DEF DecideBarrierOrEarlyClose
<1>3. inputTs' = low
  BY <1>2 DEF Conclude
<1>4. ASSUME NEW x \in T
      PROVE  x \in Unset .. Done /\ inputBound <= x
  <2>1. PICK i \in Id : x = seen[i].ts
    BY <1>2, DecideFacts, SeenFacts, IdFacts DEF Range
  <2>2. x \in PreStream .. Done
    BY <2>1, <1>2, DecideFacts DEF IsRead
  <2>3. Ahead(i, seen[i])
    BY <1>2, DecideFacts, IdFacts DEF AheadInv
  <2>4. QED
    BY <2>1, <2>2, <2>3, <1>2, TimestampValues DEF Ahead
<1>5. T \subseteq Unset .. Done /\ \A x \in T : inputBound <= x
  BY <1>4
<1>6. inputBound \in Timestamp /\ inputBound <= Done
  BY TimestampValues DEF TypeOK
<1> HIDE DEF T
<1>7. QED
  BY <1>1, <1>3, <1>5, <1>6, LowestAhead

LEMMA AlignAhead ==
  ASSUME IInv, DecideTimestampAlign, pc' = "fill"
  PROVE  inputBound <= inputTs'
<1> USE DEF IInv
<1> DEFINE shifted == [i \in Id |-> IF IsRangeValue(seen[i].ts)
                                    THEN Plus(seen[i].ts, offsets[i])
                                    ELSE seen[i].ts]
           T == Range(shifted)
<1>1. PICK low : low = Earliest(T)
  OBVIOUS
<1>2. /\ pc = "decide" /\ policy = "TimestampAlign"
      /\ \/ ~aligned /\ \/ Conclude("not", seen[Base].ts)
                        \/ Conclude("process", seen[Base].ts)
         \/ pc' = "idle"
         \/ aligned /\ \/ Conclude("close", Done) \/ Conclude("process", low)
                       \/ Conclude("not", low)
  BY <1>1 DEF DecideTimestampAlign
<1>3. /\ ~FixedSize
      /\ \/ ~aligned /\ inputTs' = seen[Base].ts
         \/ aligned /\ inputTs' = low
  BY <1>2 DEF Conclude, FixedSize
<1>4. ASSUME NEW i \in Id
      PROVE  Ahead(i, seen[i]) /\ seen[i].ts \in PreStream .. Done /\ offsets[i] \in Int
  <2>1. Ahead(i, seen[i])
    BY <1>2, DecideFacts, IdFacts DEF AheadInv
  <2>2. seen[i].ts \in PreStream .. Done
    BY <1>2, DecideFacts DEF IsRead
  <2>3. offsets[i] \in Int
    BY LatestAssumption DEF TypeOK
  <2>4. QED
    BY <2>1, <2>2, <2>3
<1>5. CASE ~aligned
  BY <1>2, <1>3, <1>4, <1>5, IdFacts DEF Ahead
<1>6. CASE aligned
  <2>1. ASSUME NEW i \in Id
        PROVE  /\ shifted[i] \in PreStream .. Done
               /\ inputBound <= shifted[i]
    <3>1. PICK h : h = seen[i].ts
      OBVIOUS
    <3>2. h \in PreStream .. Done /\ offsets[i] \in Int /\ h <= h
      BY <3>1, <1>4, TimestampValues
    <3>3. shifted[i] = Shift(i, h)
      BY <3>1 DEF Shift
    <3>4. Shift(i, h) \in PreStream .. Done
      BY <3>2, ShiftGrows
    <3>5. inputBound <= Shift(i, h)
      BY <3>1, <1>2, <1>4, <1>6 DEF Ahead
    <3>6. QED
      BY <3>3, <3>4, <3>5
  <2>2. \A x \in T : \E i \in Id : x = shifted[i]
    BY DEF Range
  <2>3. T \subseteq Unset .. Done /\ \A x \in T : inputBound <= x
    BY <2>1, <2>2, TimestampValues
  <2>4. inputBound \in Timestamp /\ inputBound <= Done
    BY TimestampValues DEF TypeOK
  <2> HIDE DEF T, shifted
  <2>5. QED
    BY <1>1, <1>3, <1>6, <2>3, <2>4, LowestAhead
<1>7. QED
  BY <1>5, <1>6

LEMMA EntersFill ==
  ASSUME IInv, Next, pc # "fill", pc' = "fill", policy # "SyncSet"
  PROVE  inputBound <= inputTs'
<1> USE DEF IInv
<1>1. ~(\E i \in Id : Add(i) \/ Raise(i)) /\ ~TruncateAfterAdd /\ ~PrepareForRun
  BY DEF Add, Raise, TruncateAfterAdd, PrepareForRun, round
<1>2. Schedule
  BY <1>1 DEF Next
<1>3. ~BeginRound /\ ~ReadStream /\ ~ReadControl /\ ~RemoveOutdated /\ ~FillStream
      /\ ~DecideSyncSet
  BY DEF BeginRound, StartReading, ReadStream, ReadControl, RemoveOutdated, FillStream,
         DecideSyncSet
<1>4. CASE DecideDefault
  <2>1. PICK last : last = sets[1].last
    OBVIOUS
  <2>2. PICK r : r = GetReadiness(Id, last)
    OBVIOUS
  <2>3. /\ pc = "decide" /\ policy \in {"Default", "FixedSize", "FixedMinSize"}
        /\ StartReading \/ Conclude(r.is, r.ts)
    BY <1>4, <2>1, <2>2 DEF DecideDefault, FixedSize
  <2>4. Conclude(r.is, r.ts)
    BY <2>3 DEF StartReading
  <2>5. r.is = "process" /\ inputTs' = r.ts
    BY <2>4 DEF Conclude, Readiness
  <2>6. last \in Timestamp
    <3>1. 1 \in 1 .. Len(sets)
      BY <2>3, FreshFacts, SetFacts DEF StageInv
    <3>2. QED
      BY <3>1, <2>1, SetFacts
  <2>7. QED
    BY <2>1, <2>2, <2>3, <2>5, <2>6, DefaultAhead
<1>5. CASE DecideMux
  <2>1. pc = "select" /\ inputTs' = seen[1].ts
    BY <1>5 DEF DecideMux, Conclude
  <2>2. QED
    BY <2>1 DEF AheadInv
<1>6. QED
  BY <1>2, <1>3, <1>4, <1>5, ImmediateAhead, BarrierAhead, AlignAhead, RefillStep DEF Schedule

LEMMA InOrderStep ==
  ASSUME IInv, Next
  PROVE  /\ pc = "fill" /\ filled' # filled /\ Wanted(filled')
              /\ policy \notin {"Barrier", "TimestampAlign"} =>
              streams[filled'].selected < PopTs(filled')
         /\ pc' = "fill" /\ pc # "fill" /\ policy # "SyncSet" =>
              inputBound <= inputTs'
<1> USE DEF IInv
<1>1. ASSUME pc = "fill", filled' # filled, Wanted(filled'),
             policy \notin {"Barrier", "TimestampAlign"}
      PROVE  streams[filled'].selected < PopTs(filled')
  <2>1. FillStream
    <3>1. ~(\E i \in Id : Add(i) \/ Raise(i)) /\ ~TruncateAfterAdd /\ ~PrepareForRun
      BY <1>1 DEF Add, Raise, TruncateAfterAdd, PrepareForRun, round
    <3>2. ~BeginRound /\ ~ReadStream /\ ~ReadControl /\ ~RemoveOutdated
          /\ ~DecideDefault /\ ~DecideImmediate /\ ~DecideSyncSet
          /\ ~DecideTimestampAlign /\ ~DecideBarrierOrEarlyClose /\ ~DecideMux /\ ~Refill
      BY <1>1 DEF BeginRound, ReadStream, ReadControl, RemoveOutdated, DecideDefault,
         DecideImmediate, DecideSyncSet, DecideTimestampAlign, DecideBarrierOrEarlyClose,
         DecideMux, Refill
    <3>3. QED
      BY <3>1, <3>2 DEF Next, Schedule
  <2>2. PICK i : i = filled + 1
    OBVIOUS
  <2>3. filled' = i /\ failed = "none"
    BY <2>1, <2>2 DEF FillStream
  <2>4. i \in filled + 1 .. NumStreams
    BY <2>2, <2>3, <1>1, IdFacts DEF StageInv, TypeOK
  <2>5. Wanted(i)
    BY <1>1, <2>3
  <2>6. PopTs(i) = inputTs
    BY <1>1 DEF PopTs
  <2>7. streams[i].selected < inputTs
    BY <1>1, <2>3, <2>4, <2>5 DEF FillInv
  <2>8. QED
    BY <2>3, <2>6, <2>7
<1>2. pc' = "fill" /\ pc # "fill" /\ policy # "SyncSet" => inputBound <= inputTs'
  BY EntersFill
<1>3. QED
  BY <1>1, <1>2

\* A stream is asked for a later timestamp every time, and no input set is behind
\* the bound that the node has reported while it was not ready: what goes on to
\* the nodes behind it is never taken back.
THEOREM AlwaysInputsInOrder == Spec => InputsInOrder
<1> DEFINE InOrder ==
      /\ pc = "fill" /\ filled' # filled /\ Wanted(filled')
           /\ policy \notin {"Barrier", "TimestampAlign"} =>
           streams[filled'].selected < PopTs(filled')
      /\ pc' = "fill" /\ pc # "fill" /\ policy # "SyncSet" =>
           inputBound <= inputTs'
<1>1. IInv /\ [Next]_vars => [InOrder]_vars
  BY InOrderStep
<1>2. Spec => [][InOrder]_vars
  BY <1>1, AlwaysIInv, PTL DEF Spec
<1>3. QED
  BY <1>2 DEF InputsInOrder
=============================================================================
