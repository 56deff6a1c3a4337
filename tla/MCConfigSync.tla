---------------------------- MODULE MCConfigSync -----------------------------
(* Two values of a setting; the page and the engine have different defaults. *)
EXTENDS ConfigSync

CONSTANTS v, w

MCDefault == [k \in Keys |-> v]
MCPageDefault ==
  [k \in PageKeys |-> IF k = "suav_val" THEN w ELSE v]
=============================================================================
