----------------------------- MODULE SelectorTable -----------------------------
(***************************************************************************)
(* What the loading of ABIs promises to who decodes with the table: it is   *)
(* built in one go from everything stored, the shipped ABIs among it, the   *)
(* most relevant ABI of every selector winning, and while the process       *)
(* serves it only grows: a selector that is decoded keeps its ABI until the *)
(* process stops.  No ids, no cursor, no lock, no transactions: AbiDecoder  *)
(* implements this, and this implements FunctionTable.                      *)
(***************************************************************************)
EXTENDS Naturals

CONSTANTS
    Abi,            \* the different ABI JSONs
    NoAbi,          \* a selector without a function in the table
    Selector,       \* the 4-byte selectors
    SelectorsOf,    \* the selectors of the functions of each ABI
    Shipped         \* the ABIs shipped with the code: a set of [abi, relevance]

VARIABLES
    stored,         \* the ABIs of the database: a set of [abi, relevance]
    table,          \* the ABI each selector is decoded with
    serving         \* the web process answers requests

vars == <<stored, table, serving>>

NothingLoaded == [s \in Selector |-> NoAbi]

Has(entry, s) == s \in SelectorsOf[entry.abi]

Init ==
    /\ stored = {}
    /\ table = NothingLoaded
    /\ serving = FALSE

AllShipped == \A a \in Shipped : \E entry \in stored : entry.abi = a.abi

(* An ABI is stored once: as a shipped one, or downloaded, which is the     *)
(* lowest relevance, also if it is the same as a shipped one.               *)
Store ==
    /\ \E entry \in stored' :
        /\ entry.abi \in Abi /\ entry.relevance \in Nat
        /\ entry.relevance = 0 \/ entry \in Shipped
        /\ \A other \in stored : other.abi # entry.abi
        /\ stored' = stored \union {entry}
    /\ UNCHANGED <<table, serving>>

(* The startup has stored what is shipped and gives every selector an ABI   *)
(* of the highest relevance.                                                *)
Build ==
    /\ AllShipped
    /\ ~serving
    /\ serving' = TRUE
    /\ table' \in [Selector -> Abi \union {NoAbi}]
    /\ \A s \in Selector :
        \/ /\ table'[s] = NoAbi
           /\ \A entry \in stored : ~Has(entry, s)
        \/ \E best \in stored :
            /\ table'[s] = best.abi
            /\ Has(best, s)
            /\ \A entry \in stored : Has(entry, s) => entry.relevance <= best.relevance
    /\ UNCHANGED stored

(* A stored ABI takes the selectors nobody has. *)
Extend(entry) ==
    /\ serving
    /\ table' = [s \in Selector |->
                    IF table[s] = NoAbi /\ Has(entry, s) THEN entry.abi ELSE table[s]]
    /\ UNCHANGED <<stored, serving>>

Stop ==
    /\ serving' = FALSE
    /\ table' = NothingLoaded
    /\ UNCHANGED stored

Next ==
    \/ Store
    \/ Build
    \/ \E entry \in stored : Extend(entry)
    \/ Stop

Spec == Init /\ [][Next]_vars
==============================================================================
