--------------------------- MODULE MCContinuation ---------------------------
(* Two sessions; two tasks, so that one of an older generation overlaps a new one.  *)
(* The prompts for the first evidence of either session say the same.               *)
EXTENDS Continuation

MCText == [k \in Keys |-> IF k.ev = 0 THEN "resume" ELSE "recover"]
=============================================================================
