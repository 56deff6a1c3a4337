---------------------------- MODULE MCVisionLoop -----------------------------
(* Short clocks for TLC, in the order of those of the program. *)
EXTENDS VisionLoop

CONSTANTS Left, Right

\* swipe > right click > click, and two units for the longest.
MCDebounce == [c \in Clock |-> IF c \in {"swipe", "desktop"} THEN 2 ELSE 1]
=============================================================================
