----------------------------- MODULE MCScheduler -----------------------------
(* Small graphs for TLC. *)
EXTENDS Scheduler, TLC

CONSTANTS q1, q2, s1, j1

\* Source s1 is in a layer of its own, above the others.
MCLayer == [s \in Source |-> IF s = s1 THEN 1 ELSE 0]

\* Sources on q1 and joins on q2, or j1 on q1 and the other joins on q2.
MCQueueOf == [n \in Node |-> IF n \in Source THEN q1 ELSE q2]
MCQueueOfApart == [n \in Node |-> IF n = j1 THEN q1 ELSE q2]

\* What the joins read.
MCFeedsAll == [n \in Join |-> Source \cup {Input}]

\* j1, which makes the side packet of the late sources, does without them.
MCFeedsLate == [n \in Join |-> IF n = j1 THEN Source \ (Late \cup {s1})
                               ELSE Source]
=============================================================================
