-------------------------------- MODULE MCEvents -------------------------------
EXTENDS Events

CONSTANT c1

(* Calls of the second Safe deployment, of another contract and of the null *)
(* address, in one MultiSend.                                               *)
MCKind == [e \in Event |-> "call"]
MCInvolved == [e \in Event |-> {2, 9, NULL_ADDRESS}]
MCChainOf == [e \in Event |-> c1]
==============================================================================
