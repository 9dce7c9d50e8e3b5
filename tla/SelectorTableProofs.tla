-------------------------- MODULE SelectorTableProofs --------------------------
(***************************************************************************)
(* SelectorTable seen through one selector is FunctionTable, for any ABIs, *)
(* any selector and any names that the ABIs give its function.             *)
(***************************************************************************)
EXTENDS SelectorTable, TLAPS

CONSTANTS
    fn,             \* a selector
    NamesOf,        \* the names of the inputs of its function in each ABI
    NoNames         \* the function is not in the table

(* The ABIs that have the function, and the names that each gives it. *)
variants ==
    {[names |-> NamesOf[entry.abi], relevance |-> entry.relevance] :
        entry \in {e \in stored : Has(e, fn)}}

namesInTable == IF table[fn] = NoAbi THEN NoNames ELSE NamesOf[table[fn]]

Fun == INSTANCE FunctionTable WITH
    stored <- variants,
    names <- namesInTable,
    complete <- AllShipped

EntriesInv == \A entry \in stored : entry.abi \in Abi /\ entry.relevance \in Nat

(* Only ABIs are stored. *)
LEMMA EntriesStep ==
    ASSUME EntriesInv, [Next]_vars
    PROVE  EntriesInv'
BY DEF EntriesInv, Next, Store, Build, Extend, Stop, vars

(* An entry with the function is a variant of it. *)
LEMMA EntryVariant ==
    ASSUME NEW entry \in stored, Has(entry, fn)
    PROVE  [names |-> NamesOf[entry.abi], relevance |-> entry.relevance] \in variants
BY DEF variants

(* Each variant comes from an entry. *)
LEMMA VariantEntry ==
    ASSUME NEW v \in variants
    PROVE  \E entry \in stored :
            /\ Has(entry, fn)
            /\ v = [names |-> NamesOf[entry.abi], relevance |-> entry.relevance]
BY DEF variants

(* Storing: a shipped ABI that is stored is not stored again, so that all   *)
(* that follows the last of them has the lowest relevance.                  *)
LEMMA StoreImplements ==
    ASSUME EntriesInv, \A a \in Abi : NamesOf[a] # NoNames, Store
    PROVE  [Fun!Next]_(Fun!vars)
<1>1. PICK new \in stored' :
        /\ new.abi \in Abi /\ new.relevance \in Nat
        /\ new.relevance = 0 \/ new \in Shipped
        /\ \A other \in stored : other.abi # new.abi
        /\ stored' = stored \union {new}
  BY DEF Store
<1>2. UNCHANGED <<table, serving, namesInTable>>
  BY DEF Store, namesInTable
<1>3. AllShipped => AllShipped' /\ new.relevance = 0
  BY <1>1 DEF AllShipped
<1>4. CASE Has(new, fn)
  <2> DEFINE v == [names |-> NamesOf[new.abi], relevance |-> new.relevance]
  <2>1. variants' = variants \union {v}
    BY <1>1, <1>4 DEF variants, Has
  <2>2. v.names # NoNames /\ v.relevance = new.relevance
    BY <1>1
  <2>3. AllShipped' \in BOOLEAN
    BY DEF AllShipped
  <2> HIDE DEF v
  <2>4. Fun!Store(v)
    BY <1>1, <1>2, <1>3, <2>1, <2>2, <2>3 DEF Fun!Store
  <2> QED
    BY <2>1, <2>4 DEF Fun!Next
<1>5. CASE ~Has(new, fn)
  <2>1. variants' = variants
    BY <1>1, <1>5 DEF variants, Has
  <2>2. CASE AllShipped'
    BY <1>2, <2>1, <2>2 DEF Fun!Next, Fun!Complete
  <2>3. CASE ~AllShipped'
    <3>1. AllShipped' = AllShipped
      BY <1>3, <2>3 DEF AllShipped
    <3> QED
      BY <1>2, <2>1, <3>1 DEF Fun!vars
  <2> QED
    BY <2>2, <2>3
<1> QED
  BY <1>4, <1>5

(* Building: the most relevant entry is a most relevant variant. *)
LEMMA BuildImplements ==
    ASSUME EntriesInv, fn \in Selector, NoAbi \notin Abi, Build
    PROVE  Fun!Build
<1>1. AllShipped /\ ~serving /\ serving' /\ stored' = stored
  BY DEF Build
<1>2. variants' = variants /\ AllShipped' = AllShipped
  BY <1>1 DEF variants, AllShipped, Has
<1>3. CASE table'[fn] = NoAbi /\ \A entry \in stored : ~Has(entry, fn)
  <2>1. variants = {} /\ namesInTable' = NoNames
    BY <1>3 DEF variants, namesInTable
  <2> QED
    BY <1>1, <1>2, <2>1 DEF Fun!Build, Build
<1>4. ASSUME NEW best \in stored, table'[fn] = best.abi, Has(best, fn),
             \A entry \in stored : Has(entry, fn) => entry.relevance <= best.relevance
      PROVE  Fun!Build
  <2> DEFINE v == [names |-> NamesOf[best.abi], relevance |-> best.relevance]
  <2>1. v \in variants
    BY <1>4, EntryVariant
  <2>2. \A other \in variants : other.relevance <= v.relevance
    BY <1>4, VariantEntry
  <2>3. namesInTable' = v.names
    BY <1>4 DEF namesInTable, EntriesInv
  <2> HIDE DEF v
  <2>4. Fun!IsTop(v)
    BY <2>1, <2>2 DEF Fun!IsTop
  <2> QED
    BY <1>1, <1>2, <2>1, <2>3, <2>4 DEF Fun!Build, Build
<1> QED
  BY <1>3, <1>4 DEF Build

(* Extending: only a selector without an ABI gets one. *)
LEMMA ExtendImplements ==
    ASSUME EntriesInv, fn \in Selector, NoAbi \notin Abi, NEW entry \in stored, Extend(entry)
    PROVE  [Fun!Next]_(Fun!vars)
<1>1. serving /\ serving' = serving /\ stored' = stored
  BY DEF Extend
<1>2. variants' = variants /\ AllShipped' = AllShipped
  BY <1>1 DEF variants, AllShipped, Has
<1>3. CASE table[fn] = NoAbi /\ Has(entry, fn)
  <2> DEFINE v == [names |-> NamesOf[entry.abi], relevance |-> entry.relevance]
  <2>1. v \in variants
    BY <1>3, EntryVariant
  <2>2. table'[fn] = entry.abi /\ entry.abi # NoAbi
    BY <1>3 DEF Extend, EntriesInv
  <2>3. namesInTable = NoNames /\ namesInTable' = v.names
    BY <1>3, <2>2 DEF namesInTable
  <2> HIDE DEF v
  <2>4. Fun!Extend(v)
    BY <1>1, <1>2, <2>3 DEF Fun!Extend
  <2> QED
    BY <2>1, <2>4 DEF Fun!Next
<1>4. CASE ~(table[fn] = NoAbi /\ Has(entry, fn))
  <2>1. namesInTable' = namesInTable
    BY <1>4 DEF Extend, namesInTable
  <2> QED
    BY <1>1, <1>2, <2>1 DEF Fun!vars
<1> QED
  BY <1>3, <1>4

LEMMA StopImplements ==
    ASSUME fn \in Selector, Stop
    PROVE  Fun!Stop
<1>1. variants' = variants /\ AllShipped' = AllShipped
  BY DEF Stop, variants, AllShipped, Has
<1> QED
  BY <1>1 DEF Stop, Fun!Stop, NothingLoaded, namesInTable

(* Every step of the table is a step of the function's part of it. *)
LEMMA FunctionStep ==
    ASSUME EntriesInv, fn \in Selector, NoAbi \notin Abi, \A a \in Abi : NamesOf[a] # NoNames,
           [Next]_vars
    PROVE  [Fun!Next]_(Fun!vars)
<1>1. CASE UNCHANGED vars
  BY <1>1 DEF vars, Fun!vars, variants, namesInTable, AllShipped, Has
<1>2. CASE Build
  BY <1>2, BuildImplements DEF Fun!Next
<1>3. CASE Stop
  BY <1>3, StopImplements DEF Fun!Next
<1> QED
  BY <1>1, <1>2, <1>3, StoreImplements, ExtendImplements DEF Next

(* What is decoded with a selector is the most relevant stored variant of   *)
(* its function, kept until the process stops, whatever else the ABIs hold. *)
THEOREM FunctionImplemented ==
    ASSUME fn \in Selector, NoAbi \notin Abi, \A a \in Abi : NamesOf[a] # NoNames
    PROVE  Spec => Fun!Spec
<1>1. Init => EntriesInv /\ Fun!Init
  BY DEF Init, EntriesInv, Fun!Init, NothingLoaded, variants, namesInTable, AllShipped
<1>2. EntriesInv /\ [Next]_vars => EntriesInv'
  BY EntriesStep
<1>3. EntriesInv /\ [Next]_vars => [Fun!Next]_(Fun!vars)
  BY FunctionStep
<1> QED
  BY <1>1, <1>2, <1>3, PTL DEF Spec, Fun!Spec
==============================================================================
