-------------------------- MODULE MCSchedulerQueue --------------------------
(* Small instances of SchedulerQueue for TLC. *)
EXTENDS SchedulerQueue, TLC

Symmetry == Permutations(Queue) \cup Permutations(Worker)
=============================================================================
