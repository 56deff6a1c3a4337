---------------------------- MODULE MCThrottling ----------------------------
(* A small graph for TLC: a node that joins a source and a graph input, and *)
(* whose output the application polls.                                      *)
EXTENDS Throttling, TLC

CONSTANTS in1, src1, join1, fromInput, fromSource, out

MCFrom == fromInput :> in1 @@ fromSource :> src1 @@ out :> join1
MCTo == fromInput :> join1 @@ fromSource :> join1 @@ out :> Poller
MCMaxPackets == [f \in Feeder |-> IF f = in1 THEN 2 ELSE 1]
MCAncestors == [n \in Node |-> {in1, src1}]
==============================================================================
