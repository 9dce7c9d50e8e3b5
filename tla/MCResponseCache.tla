--------------------------- MODULE MCResponseCache ---------------------------
(* Instances of ResponseCache for TLC. *)
EXTENDS ResponseCache

CONSTANTS f1, f2, r1, r2, t1, t2
==============================================================================
