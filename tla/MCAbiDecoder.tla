----------------------------- MODULE MCAbiDecoder -----------------------------
(* Instances of AbiDecoder for TLC. *)
EXTENDS AbiDecoder, TLC

CONSTANTS a1, a2, a3, s1, s2, w1, w2, r1, r2

(* Two ABIs that collide on s1. *)
MCSelectorsOf == (a1 :> {s1}) @@ (a2 :> {s1, s2})

(* Three ABIs that collide on s1; only a3, which is not local, has s2. *)
MCSelectorsOf3 == (a1 :> {s1}) @@ (a2 :> {s1}) @@ (a3 :> {s1, s2})

(* The local ABIs of the startup, the most relevant first. *)
MCLocalAbis == <<[abi |-> a1, relevance |-> 2], [abi |-> a2, relevance |-> 1]>>

MCOneLocalAbi == <<[abi |-> a1, relevance |-> 1]>>

MCSymmetry == Permutations(Workers) \union Permutations(Requests)
==============================================================================
