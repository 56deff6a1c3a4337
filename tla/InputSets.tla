----------------------------- MODULE InputSets -----------------------------
(***************************************************************************)
(* How the input sets of a calculator are built: InputStreamHandler::      *)
(* ScheduleInvocations and the policies under stream_handler/.  The policy *)
(* is chosen in Init.  The scheduling thread reads the streams one after   *)
(* the other, each under its own mutex, decides, and takes the packets one *)
(* stream after the other, while the producers go on.                      *)
(*                                                                         *)
(* One invocation at a time; parallel ones are in module ParallelNode.     *)
(***************************************************************************)
EXTENDS InputStream, SequencesExt, FiniteSetsExt

CONSTANTS
  NumStreams,  \* the input streams are 1 .. NumStreams
  Policies,    \* the policies to choose from
  Trigger,     \* trigger_queue_size_
  Target       \* target_queue_size_

ASSUME InputSetsAssumption ==
  /\ NumStreams \in Nat \ {0, 1}
  /\ Policies \subseteq {"Default", "Immediate", "SyncSet", "TimestampAlign",
       "Mux", "Barrier", "EarlyClose", "FixedSize", "FixedMinSize"}
  /\ Target \in Nat \ {0} /\ Trigger \in Nat /\ Trigger > Target

Id == 1 .. NumStreams
Control == 1              \* GetControlStreamId of the mux, whatever its id
Data == 2 .. NumStreams
Base == 1                 \* timestamp_base_stream_id_

VARIABLES
  policy,         \* the input stream handler
  processBounds,  \* process_timestamps_
  streams,        \* the input streams
  promised,       \* promised[i]: the bound the producer of i has stated
  choice,         \* choice[ts]: the data stream a control packet names
  pc,             \* where the scheduling thread is
  notified,       \* the node is to be looked at again
  seen,           \* what MinTimestampOrBound returned, stream by stream
  sets,           \* the SyncSets: streams and last_processed_ts_
  ready,          \* ready[k]: ready_timestamps_ of the immediate handler
  inputTs,        \* the timestamp of the input set
  filled,         \* the streams done in FillInputSet
  inputBound,     \* the last range value ScheduleInvocations has reported
  offsets,        \* timestamp_offsets_
  aligned,        \* offsets_initialized_
  kept,           \* kept_timestamp_
  erased,         \* the timestamps of the packets discarded in this run
  owed,           \* the producers that have added and not yet truncated
  failed          \* the check that has ended the process, or "none"

input == <<streams, promised, notified>>
handler == <<sets, ready, offsets, aligned, kept, erased, owed>>
round == <<pc, seen, inputTs, filled, inputBound, failed>>
config == <<policy, processBounds, choice>>
vars == <<config, input, handler, round>>

FixedSize == policy \in {"FixedSize", "FixedMinSize"}
OwnSets == policy \in {"Default", "FixedSize", "FixedMinSize", "Immediate",
                       "SyncSet"}

TypeOK ==
  /\ policy \in Policies /\ processBounds \in BOOLEAN
  /\ streams \in [Id -> Stream] /\ promised \in [Id -> Timestamp]
  /\ pc \in {"idle", "read", "discard", "select", "decide", "refill", "fill",
             "tidy", "process", "closed"}
  /\ notified \in BOOLEAN /\ aligned \in BOOLEAN /\ owed \subseteq Id
  /\ seen \in Seq([ts : Timestamp, empty : BOOLEAN]) /\ Len(seen) <= NumStreams
  /\ sets \in Seq([ids : SUBSET Id, last : Timestamp])
  /\ ready \in [Id -> Timestamp]
  /\ inputTs \in Timestamp /\ filled \in 0 .. NumStreams
  /\ inputBound \in Timestamp /\ kept \in Timestamp
  /\ offsets \in [Id -> -Latest .. Latest]
  /\ erased \subseteq PreStream .. PostStream
  /\ failed \in {"none", "dropped", "order", "illegal", "special", "torn"}

\* The sets of PrepareForRun: the sync set handler is configured with its
\* first stream alone.
FreshSets ==
  LET partition == IF policy = "Immediate" THEN [i \in Id |-> {i}]
                   ELSE IF policy = "SyncSet" THEN <<{1}, Id \ {1}>>
                   ELSE <<Id>>
  IN [k \in DOMAIN partition |-> [ids |-> partition[k], last |-> Unset]]

Init ==
  /\ policy \in Policies
  /\ processBounds \in IF policy \in {"Default", "Immediate", "SyncSet"}
                       THEN BOOLEAN ELSE {FALSE}
  /\ choice \in IF policy = "Mux" THEN [PreStream .. PostStream -> Data]
                ELSE {[ts \in PreStream .. PostStream |-> 1]}
  /\ streams = [i \in Id |-> FreshStream]
  /\ promised = [i \in Id |-> PreStream]
  /\ pc = "idle" /\ notified = FALSE /\ seen = <<>>
  /\ sets = FreshSets /\ ready = [i \in Id |-> Unset]
  /\ inputTs = Unset /\ filled = 0 /\ inputBound = Unset
  /\ offsets = [i \in Id |-> 0] /\ aligned = FALSE
  /\ kept = Unset /\ erased = {} /\ owed = {}
  /\ failed = "none"

Earliest(T) == Min(T \cup {Done})
Earlier(a, b) == IF a < b THEN a ELSE b
Later(a, b) == IF a < b THEN b ELSE a

-----------------------------------------------------------------------------
Produce_NotifyLost(i, done, bound) ==
  /\ failed = "none" /\ ~streams[i].closed /\ ~done.refused
  /\ streams' = [streams EXCEPT ![i] = done.stream]
  /\ promised' = [promised EXCEPT ![i] = bound]
  /\ notified' = done.notify

\* The producers.  Timestamps are disabled by the barrier, but the producer
\* still keeps its own order.  A packet comes at the bound, and the bound grows
\* by one value: a larger jump is several steps with no read between them.  An
\* update that is refused ends the run with an error; it has no step here.
Produce(i, done, bound) ==
  /\ failed = "none" /\ ~streams[i].closed /\ ~done.refused
  /\ streams' = [streams EXCEPT ![i] = done.stream]
  /\ promised' = [promised EXCEPT ![i] = bound]
  /\ notified' = (notified \/ done.notify)

\* FixedSizeInputStreamHandler::AddPackets truncates once it has the mutex.
Add(i) ==
  LET ts == promised[i] IN
  /\ ts <= PostStream /\ i \notin owed
  /\ Produce(i, AddPackets(streams[i], <<ts>>), NextAllowedInStream(ts))
  /\ owed' = IF FixedSize THEN owed \cup {i} ELSE owed
  /\ UNCHANGED <<config, sets, ready, offsets, aligned, kept, erased, round>>

Raise(i) ==
  LET b == promised[i] + 1 IN
  /\ b <= Done
  /\ Produce(i, SetNextTimestampBound(streams[i], b), b)
  /\ UNCHANGED <<config, handler, round>>

-----------------------------------------------------------------------------
\* Truncation of the FixedSizeInputStreamHandler.

\* ErasePacketsEarlierThan pops from the front, as PopPacketAtTimestamp does.
EraseEarlier(s, ts) == [s EXCEPT !.queue = PopAt(s, ts - 1).stream.queue]

\* GetMinTimestampAmongNLatest
AmongLatest(s, n) ==
  IF s.queue = <<>> THEN Unset
  ELSE s.queue[Len(s.queue) - Earlier(n, Len(s.queue)) + 1]

\* FixedSizeInputStreamHandler::PreviousAllowedInStream: operator- stays at Min().
Previous(bound) == IF IsRangeValue(bound) THEN Plus(bound, -1) ELSE bound

MinStreamBound ==
  Min({IF s.queue = <<>> THEN s.bound ELSE NextAllowedInStream(Last(s.queue)) :
       s \in Range(streams)})

\* EraseAnySurplus: what is kept of the streams that are too long.
KeptOfAny(keepOne) ==
  LET size(s) == IF Len(s.queue) >= Trigger THEN Target ELSE Trigger - 1
      longer == {s \in Range(streams) : Len(s.queue) > size(s)}
      from == Max({kept} \cup {NextAllowedInStream(AmongLatest(s, size(s) + 1)) :
                               s \in longer})
  IN IF keepOne THEN Earlier(from, Previous(MinStreamBound)) ELSE from

\* EraseAllSurplus: nothing unless every stream is too long.
KeptOfAll ==
  IF \E i \in Id : Len(streams[i].queue) < Trigger THEN Unset
  ELSE Min({MaxTs} \cup {AmongLatest(s, Target) : s \in Range(streams)})

\* EraseSurplusPackets as one step.
Truncated(keepOne) ==
  LET from == IF policy = "FixedMinSize" THEN KeptOfAll ELSE KeptOfAny(keepOne)
  IN [from |-> from, streams |-> [i \in Id |-> EraseEarlier(streams[i], from)]]

EraseSurplusPackets(keepOne) ==
  LET done == Truncated(keepOne)
      queued(ss) == UNION {Range(ss[i].queue) : i \in Id}
  IN /\ streams' = done.streams
     /\ kept' = IF policy = "FixedSize" THEN done.from ELSE kept
     /\ erased' = erased \cup {t \in queued(streams) : \E i \in Id :
          t \in Range(streams[i].queue) \ Range(done.streams[i].queue)}

\* The end of AddPackets: erase_mutex_ is free, and pending_ is false, when no
\* input set is being chosen or filled.
TruncateAfterAdd ==
  /\ pc \notin {"read", "decide", "fill"}
  /\ \E i \in owed : owed' = owed \ {i}
  /\ IF pc = "refill" THEN UNCHANGED <<streams, kept, erased>>
     ELSE EraseSurplusPackets(FALSE)
  /\ UNCHANGED <<config, promised, notified, sets, ready, offsets, aligned,
                 round>>

-----------------------------------------------------------------------------
\* GetNodeReadiness: the streams are read one after the other.

StartReading ==
  /\ seen' = <<>>
  /\ pc' = "read"
  /\ IF FixedSize THEN EraseSurplusPackets(FALSE)
     ELSE UNCHANGED <<streams, kept, erased>>

BeginRound ==
  /\ pc \in {"idle", "process"} /\ failed = "none"
  /\ pc = "idle" => notified
  /\ StartReading
  /\ notified' = FALSE
  /\ inputTs' = Unset /\ filled' = 0
  /\ UNCHANGED <<config, promised, sets, ready, inputBound, offsets, aligned,
                 owed, failed>>

Reading(i) == [ts |-> MinTimestampOrBound(streams[i]),
               empty |-> streams[i].queue = <<>>]

ReadStream ==
  /\ pc = "read" /\ policy # "Mux"
  /\ seen' = Append(seen, Reading(Len(seen) + 1))
  /\ pc' = IF Len(seen') = NumStreams THEN "decide" ELSE "read"
  /\ UNCHANGED <<config, input, handler, inputTs, filled, inputBound, failed>>

Readiness == {"not", "process", "close"}

\* What follows the decision: the input bound is reported, the input set
\* filled, or the node closed.
Conclude(is, ts) ==
  /\ is \in Readiness
  /\ pc' = IF is = "not" THEN "idle"
           ELSE IF is = "close" THEN "closed"
           ELSE IF FixedSize THEN "refill" ELSE "fill"
  /\ inputBound' = IF is = "not" /\ IsRangeValue(ts) THEN ts ELSE inputBound
  /\ inputTs' = IF is = "process" THEN ts ELSE Unset
  /\ streams' = IF is = "close" THEN [i \in Id |-> CloseStream(streams[i])]
                ELSE streams
  /\ seen' = <<>>
  /\ UNCHANGED <<config, promised, notified, filled, kept, erased, owed, failed>>

GetReadiness_Again(ids, last) ==
  LET minPacket == Earliest({seen[i].ts : i \in {j \in ids : ~seen[j].empty}})
      minBound == Earliest({seen[i].ts : i \in {j \in ids : seen[j].empty}})
      nextTs == Earlier(minPacket, PreviousAllowedInStream(minBound))
  IN IF Earlier(minPacket, minBound) >= OneOverPostStream
     THEN [is |-> "close", ts |-> Done, last |-> PreviousAllowedInStream(Done)]
     ELSE IF nextTs >= Later(last, PreStream)
     THEN [is |-> "process", ts |-> nextTs, last |-> nextTs]
     ELSE [is |-> "not", ts |-> Earlier(minPacket, minBound), last |-> last]

\* SyncSet::GetReadiness for the streams in ids.
GetReadiness(ids, last) ==
  LET minPacket == Earliest({seen[i].ts : i \in {j \in ids : ~seen[j].empty}})
      minBound == Earliest({seen[i].ts : i \in {j \in ids : seen[j].empty}})
      minTs == Earlier(minPacket, minBound)
      settled == IF minPacket = PostStream /\ minBound > minPacket
                 THEN minPacket ELSE PreviousAllowedInStream(minBound)
      nextTs == Earlier(minPacket, settled)
  IN IF minTs >= OneOverPostStream
     THEN [is |-> "close", ts |-> Done, last |-> PreviousAllowedInStream(Done)]
     ELSE IF ~processBounds /\ minBound > minPacket
     THEN [is |-> "process", ts |-> minTs, last |-> minTs]
     ELSE IF processBounds /\ nextTs > Later(last, Unstarted)
     THEN [is |-> "process", ts |-> nextTs, last |-> nextTs]
     ELSE [is |-> "not", ts |-> minTs, last |-> last]

DecideDefault_NoRecheck ==
  LET r == GetReadiness(Id, sets[1].last) IN
  /\ pc = "decide" /\ (policy = "Default" \/ FixedSize)
  /\ sets' = [sets EXCEPT ![1].last = r.last]
  /\ Conclude(r.is, r.ts)
  /\ UNCHANGED <<ready, offsets, aligned>>

DecideDefault ==
  LET r == GetReadiness(Id, sets[1].last) IN
  /\ pc = "decide" /\ (policy = "Default" \/ FixedSize)
  /\ sets' = [sets EXCEPT ![1].last = r.last]
  /\ IF FixedSize /\ r.is = "process" /\ r.ts < kept
     THEN StartReading
          /\ UNCHANGED <<config, promised, notified, inputTs, filled,
                         inputBound, owed, failed>>
     ELSE Conclude(r.is, r.ts)
  /\ UNCHANGED <<ready, offsets, aligned>>

\* Each stream is a set of its own, and stays ready until it is filled.
DecideImmediate ==
  LET r == [k \in Id |-> GetReadiness({k}, sets[k].last)]
      waiting == {k \in Id : ready[k] > Unset}
      asked == Id \ waiting
      done == {k \in asked : r[k].is = "close"}
      last == PreviousAllowedInStream(Done)
      readyAt(k) ==
        IF k \in waiting THEN ready[k]
        ELSE IF k \in done
        THEN IF processBounds
             THEN IF sets[k].last < last THEN last ELSE Done
             ELSE IF sets[k].last < Done THEN Done ELSE Unset
        ELSE IF r[k].is = "process" THEN r[k].ts ELSE Unset
      minBound == Earliest({IF k \in waiting THEN ready[k]
                            ELSE IF k \in done THEN readyAt(k)
                            ELSE r[k].ts : k \in Id})
      nextTs == Earliest({readyAt(k) : k \in Id} \ {Unset})
  IN
  /\ pc = "decide" /\ policy = "Immediate"
  /\ ready' = [k \in Id |-> readyAt(k)]
  /\ sets' = [k \in Id |-> IF k \in asked THEN [sets[k] EXCEPT !.last = r[k].last]
                           ELSE sets[k]]
  /\ IF minBound = Done THEN Conclude("close", Done)
     ELSE IF nextTs < Done THEN Conclude("process", nextTs)
     ELSE IF done # {} /\ ~processBounds THEN Conclude("process", minBound)
     ELSE Conclude("not", minBound)
  /\ UNCHANGED <<offsets, aligned>>

\* The earliest ready set goes first; a set that is done is emptied, which is
\* to say removed.  The bound of a node that is not ready is the one of the last
\* set asked.
DecideSyncSet ==
  LET r == [k \in DOMAIN sets |-> GetReadiness(sets[k].ids, sets[k].last)]
      due == {k \in DOMAIN sets : r[k].is = "process"}
      open == {k \in DOMAIN sets : r[k].is # "close"}
      asked == {k \in DOMAIN sets : sets[k].ids # {}}
      first == CHOOSE k \in due : \A m \in due :
                 r[k].ts < r[m].ts \/ (r[k].ts = r[m].ts /\ k <= m)
  IN
  /\ pc = "decide" /\ policy = "SyncSet"
  /\ sets' = [k \in DOMAIN sets |->
                [ids |-> IF k \in open THEN sets[k].ids ELSE {}, last |-> r[k].last]]
  /\ ready' = [i \in Id |-> IF due # {} /\ i \in sets[first].ids
                            THEN r[first].ts ELSE Unset]
  /\ IF due # {} THEN Conclude("process", r[first].ts)
     ELSE IF open = {} THEN Conclude("close", Done)
     ELSE Conclude("not", r[Max(asked)].ts)
  /\ UNCHANGED <<offsets, aligned>>

\* operator- on the first packets of the base and of stream i.
Offset(i) == seen[Base].ts - seen[i].ts

\* The timestamps of the other streams are shifted to those of the base; until
\* every stream has a packet the packets of the base pass alone.
DecideTimestampAlign ==
  LET base == seen[Base]
      known == {i \in Id \ {Base} : ~seen[i].empty}
      shifted == [i \in Id |-> IF IsRangeValue(seen[i].ts)
                               THEN Plus(seen[i].ts, offsets[i])
                               ELSE seen[i].ts]
      minBound == Earliest({shifted[i] : i \in {j \in Id : seen[j].empty}})
      minTs == Earliest(Range(shifted))
      special == \E i \in known \cup {Base} : ~IsRangeValue(seen[i].ts)
  IN
  /\ pc = "decide" /\ policy = "TimestampAlign"
  /\ \/ /\ ~aligned /\ base.empty
        /\ Conclude("not", base.ts)
        /\ UNCHANGED <<offsets, aligned>>
     \/ /\ ~aligned /\ ~base.empty /\ ~(special /\ known # {})
        /\ offsets' = [i \in Id |-> IF i \in known THEN Offset(i)
                                    ELSE offsets[i]]
        /\ aligned' = (known = Id \ {Base})
        /\ Conclude("process", base.ts)
     \/ /\ ~aligned /\ ~base.empty /\ special /\ known # {}
        /\ failed' = "special" /\ pc' = "idle"
        /\ UNCHANGED <<config, input, kept, erased, owed, seen, inputTs,
                       filled, inputBound, offsets, aligned>>
     \/ /\ aligned
        /\ IF minTs = Done THEN Conclude("close", Done)
           ELSE IF minBound > minTs THEN Conclude("process", minTs)
           ELSE Conclude("not", minTs)
        /\ UNCHANGED <<offsets, aligned>>
  /\ UNCHANGED <<sets, ready>>

\* Ready with a packet on every stream; done with the first stream that is.
\* EarlyClose waits as the default handler does.
DecideBarrierOrEarlyClose ==
  LET minTs == Earliest({s.ts : s \in Range(seen)})
      minBound == Earliest({s.ts : s \in {x \in Range(seen) : x.empty}})
      empty == \E s \in Range(seen) : s.empty
  IN
  /\ pc = "decide" /\ policy \in {"Barrier", "EarlyClose"}
  /\ IF \E s \in Range(seen) : s.empty /\ s.ts = Done
     THEN Conclude("close", Done)
     ELSE IF (policy = "Barrier" /\ ~empty)
             \/ (policy = "EarlyClose" /\ minBound > minTs)
     THEN Conclude("process", minTs)
     ELSE Conclude("not", minTs)
  /\ UNCHANGED <<sets, ready, offsets, aligned>>

\* The mux reads its control stream, discards what is older on the data
\* streams, one by one, ...
ReadControl ==
  /\ pc = "read" /\ policy = "Mux"
  /\ seen' = <<Reading(Control)>>
  /\ pc' = "discard" /\ filled' = 0
  /\ UNCHANGED <<config, input, handler, inputTs, inputBound, failed>>

RemoveOutdated ==
  LET i == IF filled \in {0, NumStreams} THEN 2 ELSE filled + 1
      from == IF pc = "discard" THEN seen[1].ts ELSE NextAllowedInStream(inputTs)
      last == i = NumStreams
  IN
  /\ pc \in {"discard", "tidy"}
  /\ streams' = [streams EXCEPT ![i] = EraseEarlier(@, from)]
  /\ filled' = IF last THEN 0 ELSE i
  /\ pc' = IF ~last THEN pc ELSE IF pc = "discard" THEN "select" ELSE "process"
  /\ UNCHANGED <<config, promised, notified, handler, seen, inputTs,
                 inputBound, failed>>

\* ... and looks at the data stream its packet names.  A packet that has come
\* since, at an earlier timestamp, fails the ABSL_CHECK_EQ.
DecideMux ==
  LET control == seen[1]
      data == Reading(choice[control.ts])
  IN
  /\ pc = "select"
  /\ \/ /\ control.empty
        /\ Conclude(IF control.ts = Done THEN "close" ELSE "not", control.ts)
     \/ /\ ~control.empty /\ data.empty /\ data.ts <= control.ts
        /\ Conclude("not", control.ts)
     \/ /\ ~control.empty
        /\ data.ts > control.ts \/ (~data.empty /\ data.ts = control.ts)
        /\ Conclude("process", control.ts)
     \/ /\ ~control.empty /\ ~data.empty /\ data.ts < control.ts
        /\ failed' = "torn" /\ pc' = "idle"
        /\ UNCHANGED <<config, input, kept, erased, owed, seen, inputTs,
                       filled, inputBound>>
  /\ UNCHANGED <<sets, ready, offsets, aligned>>

-----------------------------------------------------------------------------
\* FillInputSet, one stream after the other; the mux takes its control stream
\* first.  A stream that is not wanted is skipped, without an effect.

MinTimestampToProcess_Latest(ss) ==
  Max({IF s.queue = <<>> THEN Unstarted ELSE Head(s.queue) : s \in Range(ss)})

\* The lowest timestamp with nothing left to come.
MinTimestampToProcess(ss) ==
  Min({IF s.queue = <<>> THEN Previous(s.bound) ELSE Head(s.queue) :
       s \in Range(ss)})

\* The fixed size handler computes the timestamp again.
Refill ==
  /\ pc = "refill"
  /\ EraseSurplusPackets(TRUE)
  /\ inputTs' = MinTimestampToProcess(Truncated(TRUE).streams)
  /\ pc' = "fill"
  /\ UNCHANGED <<config, promised, notified, sets, ready, offsets, aligned,
                 owed, seen, filled, inputBound, failed>>

\* Does stream i belong to the input set?
Wanted(i) ==
  CASE policy \in {"Immediate", "SyncSet"} -> ready[i] = inputTs
    [] policy = "TimestampAlign" -> aligned \/ i = Base
    [] policy = "Mux" -> i \in {Control, choice[inputTs]}
    [] OTHER -> TRUE

\* The timestamp to look for on stream i.
PopTs(i) == IF policy = "TimestampAlign" /\ aligned
            THEN Plus(inputTs, -offsets[i]) ELSE inputTs

PopQueueHead(s) == [s EXCEPT !.queue = Tail(@)]

\* The checks of FillInputSet and PopPacketAtTimestamp.
Failure(i) ==
  IF policy = "TimestampAlign" /\ aligned /\ ~IsRangeValue(inputTs)
  THEN "special"
  ELSE IF ~Wanted(i) THEN "none"
  ELSE IF ~IsAllowedInStream(inputTs) THEN "illegal"
  ELSE IF policy = "Barrier" THEN "none"
  ELSE IF streams[i].selected > PopTs(i) THEN "order"
  ELSE IF PopAt(streams[i], PopTs(i)).dropped > 0 THEN "dropped"
  ELSE "none"

FillStream ==
  LET i == filled + 1
      popped == IF ~Wanted(i) THEN streams[i]
                ELSE IF policy = "Barrier" THEN PopQueueHead(streams[i])
                ELSE PopAt(streams[i], PopTs(i)).stream
      all == i = NumStreams
  IN
  /\ pc = "fill" /\ failed = "none"
  /\ failed' = Failure(i)
  /\ streams' = IF Failure(i) = "none" THEN [streams EXCEPT ![i] = popped]
                ELSE streams
  /\ filled' = i
  /\ ready' = IF Wanted(i) THEN [ready EXCEPT ![i] = Unset] ELSE ready
  /\ pc' = IF all THEN IF policy = "Mux" THEN "tidy" ELSE "process" ELSE "fill"
  /\ UNCHANGED <<config, promised, notified, sets, offsets, aligned, kept,
                 erased, owed, seen, inputTs, inputBound>>

-----------------------------------------------------------------------------
\* PrepareForRun: kept_timestamp_ and the offsets stay as the last run left
\* them.
PrepareForRun ==
  /\ pc = "closed" /\ owed = {}
  /\ streams' = [i \in Id |-> FreshStream]
  /\ promised' = [i \in Id |-> PreStream]
  /\ pc' = "idle" /\ notified' = FALSE /\ seen' = <<>>
  /\ sets' = FreshSets /\ ready' = [i \in Id |-> Unset]
  /\ inputTs' = Unset /\ filled' = 0 /\ inputBound' = Unset
  /\ aligned' = FALSE /\ erased' = {}
  /\ UNCHANGED <<config, offsets, kept, owed, failed>>

Schedule ==
  \/ BeginRound \/ ReadStream \/ ReadControl \/ RemoveOutdated
  \/ DecideDefault \/ DecideImmediate \/ DecideSyncSet
  \/ DecideTimestampAlign \/ DecideBarrierOrEarlyClose \/ DecideMux
  \/ Refill \/ FillStream

Next ==
  \/ \E i \in Id : Add(i) \/ Raise(i)
  \/ TruncateAfterAdd
  \/ Schedule
  \/ PrepareForRun

Spec == Init /\ [][Next]_vars

-----------------------------------------------------------------------------
\* The fixed size handler means to stop before the bound of an empty stream,
\* "because a packet may still arrive at that time"
\* (fixed_size_input_stream_handler.cc:99).  There is nothing before Min():
\* bound - 1 is Min() again.  So it goes wrong once, when it has discarded a
\* packet at PreStream for the sake of a longer stream and takes instead Min()
\* from a stream whose producer may still send it.
Overtaken(i) ==
  /\ policy = "FixedSize" /\ PreStream \in erased
  /\ promised[i] = MinTs /\ streams[i].bound = NextAllowedInStream(MinTs)

\* No packet that was to be delivered is lost, no stream goes back, and no set
\* has an illegal timestamp: the ABSL_CHECKs of FillInputSet and
\* PopPacketAtTimestamp (input_stream_handler.cc:487, input_stream_manager.cc:276)
\* hold.  And nothing can come late: although the streams are read one by one, no
\* handler takes a stream beyond what its producer has stated, but for the one
\* that Overtaken describes.
SetsWhole ==
  /\ TypeOK
  /\ failed \notin {"dropped", "order", "illegal"}
  /\ pc # "closed" =>
       \A i \in Id : streams[i].bound = promised[i] \/ Overtaken(i)

\* No stream is asked twice for the same timestamp, nor for an earlier one,
\* although the sets of different streams may go back (the immediate handler).
\* An alignment that overflows is left out: its sums are clamped.  And the bound
\* reported when the node is not ready, which goes on to the nodes behind it, is
\* not beyond any later input set, when it is a range value; the sync set handler
\* leaves it undefined.
InputsInOrder ==
  [][/\ pc = "fill" /\ filled' # filled /\ Wanted(filled')
        /\ policy \notin {"Barrier", "TimestampAlign"} =>
          streams[filled'].selected < PopTs(filled')
     /\ pc' = "fill" /\ pc # "fill" /\ policy # "SyncSet" =>
          inputBound <= inputTs']_vars

\* A timestamp dropped from one stream is dropped from all
\* (fixed_size_input_stream_handler.h:33): no set has it.
DroppedTogether == pc = "process" => inputTs \notin erased

\* What is there to do for the streams in ids: a packet that nothing can
\* precede any more, or their end.  With process_timestamps_ packets wait
\* while the bound is Min() or PostStream(), which have no predecessor.
Due(ids) ==
  LET at(i) == IF policy = "TimestampAlign" /\ IsRangeValue(MinTimestampOrBound(streams[i]))
               THEN Plus(MinTimestampOrBound(streams[i]), offsets[i])
               ELSE MinTimestampOrBound(streams[i])
      bounds == {at(i) : i \in {j \in ids : streams[j].queue = <<>>}}
      packets == {at(i) : i \in {j \in ids : streams[j].queue # <<>>}}
      waits == processBounds /\ Earliest(bounds) \in {MinTs, PostStream}
  IN \/ Earliest(packets) < Earliest(bounds) /\ ~waits
     \/ \A i \in ids : IsDone(streams[i])

\* A stream notifies its node only when its queue was empty.  That is enough:
\* a node that waits has nothing to do.  Not so for an aligned node whose base
\* has ended before the offsets are known (it never closes), and for sync sets
\* that are to process bounds: last_processed_ts_ passes over a set that was
\* ready and not chosen.
NothingForgotten ==
  pc = "idle" /\ ~notified /\ failed = "none" =>
    CASE policy \in {"Default", "FixedSize", "FixedMinSize"} -> ~Due(Id)
      [] policy = "Immediate" -> \A i \in Id : streams[i].queue = <<>>
      [] policy = "SyncSet" ->
           processBounds \/ \A k \in DOMAIN sets :
                              sets[k].ids # {} => ~Due(sets[k].ids)
      [] policy = "TimestampAlign" ->
           IF aligned THEN ~Due(Id) ELSE streams[Base].queue = <<>>
      [] policy = "Barrier" ->
           /\ \E i \in Id : streams[i].queue = <<>>
           /\ \A i \in Id : ~IsDone(streams[i])
      [] policy = "EarlyClose" ->
           ~Due(Id) /\ \A i \in Id : ~IsDone(streams[i])
      [] policy = "Mux" ->
           LET control == streams[Control] IN
           IF control.queue = <<>> THEN control.bound # Done
           ELSE ~Due({Control, choice[Head(control.queue)]})

\* mux_input_stream_handler.h:74 "Must be acquired when manipulating the control
\* and data streams to ensure we have a consistent view of the two streams":
\* the ABSL_CHECK_EQ of GetNodeReadiness never fails.
ConsistentView == failed # "torn"
=============================================================================
