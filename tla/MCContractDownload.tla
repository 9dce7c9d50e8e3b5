-------------------------- MODULE MCContractDownload --------------------------
(* Instances of ContractDownload for TLC. *)
EXTENDS ContractDownload, TLC

CONSTANTS c1, c2, t1, t2

(* Two contracts that are reported as proxies of each other. *)
MCImplementations == (c1 :> {c2}) @@ (c2 :> {c1})

(* One contract that is reported as no proxy or as a proxy of itself. *)
MCOwnImplementation == c1 :> {c1, NoContract}

(* Failures that lose an increment, or that use up one retry; of the two    *)
(* contracts, the downloads of one succeed.                                 *)
MCThreeFailures == c1 :> 3

MCTwoFailures == c1 :> 2

MCFailuresOfOne == (c1 :> 2) @@ (c2 :> 0)

MCSymmetry == Permutations(Tasks)
==============================================================================
