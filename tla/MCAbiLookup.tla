----------------------------- MODULE MCAbiLookup -----------------------------
(* Instances of AbiLookup for TLC. *)
EXTENDS AbiLookup, TLC

CONSTANTS a1, a2, s1, r1, r2

(* The contract may have an ABI without the selector of the request. *)
MCSelectorsOf == (a1 :> {}) @@ (a2 :> {s1})

MCSymmetry == Permutations(Requests)
==============================================================================
