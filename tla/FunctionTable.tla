----------------------------- MODULE FunctionTable -----------------------------
(***************************************************************************)
(* What the decoding of a call relies on: the selector table and the        *)
(* database, seen through one function.  An ABI is the names that it gives  *)
(* the inputs of the function, and ABIs that give it the same names are     *)
(* one.  SelectorTable implements this for every selector, and DecodeData   *)
(* decodes with it.                                                         *)
(***************************************************************************)
EXTENDS Naturals

CONSTANT NoNames    \* the function is not in the table

VARIABLES
    stored,         \* its variants in the database: a set of [names, relevance]
    names,          \* the names that the table has for it
    serving,        \* the web process answers requests
    complete        \* every ABI shipped with the code is stored

vars == <<stored, names, serving, complete>>

Init ==
    /\ stored = {}
    /\ names = NoNames
    /\ serving = FALSE
    /\ complete \in BOOLEAN

(* Nothing stored is more relevant. *)
IsTop(v) == v \in stored /\ \A other \in stored : other.relevance <= v.relevance

(* An ABI with the function is stored: once the shipped ABIs are, only ABIs *)
(* of the lowest relevance are added.                                       *)
Store(v) ==
    /\ v.names # NoNames /\ v.relevance \in Nat
    /\ complete => v.relevance = 0
    /\ stored' = stored \union {v}
    /\ complete' \in BOOLEAN
    /\ complete => complete'
    /\ UNCHANGED <<names, serving>>

(* The last of the shipped ABIs is stored, and does not have the function. *)
Complete ==
    /\ complete' = TRUE
    /\ UNCHANGED <<stored, names, serving>>

(* The startup picks the names of a most relevant variant. *)
Build ==
    /\ complete
    /\ ~serving
    /\ serving' = TRUE
    /\ \/ stored = {} /\ names' = NoNames
       \/ \E v \in stored : IsTop(v) /\ names' = v.names
    /\ complete' = complete
    /\ UNCHANGED stored

(* A load adds a variant of a function that the table does not have. *)
Extend(v) ==
    /\ serving
    /\ names = NoNames
    /\ names' = v.names
    /\ complete' = complete
    /\ UNCHANGED <<stored, serving>>

Stop ==
    /\ serving' = FALSE
    /\ names' = NoNames
    /\ complete' = complete
    /\ UNCHANGED stored

Next ==
    \/ \E v \in stored' : Store(v)
    \/ Complete
    \/ Build
    \/ \E v \in stored : Extend(v)
    \/ Stop

Spec == Init /\ [][Next]_vars
==============================================================================
