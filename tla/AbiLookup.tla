------------------------------- MODULE AbiLookup -------------------------------
(***************************************************************************)
(* How a request finds the function that decodes a call to a contract, and *)
(* the accuracy it reports.                                                *)
(*                                                                         *)
(* get_abi_function takes the selector from the ABI of the contract, in    *)
(* the chain of the request or else in another chain, and falls back to    *)
(* the general table of AbiDecoder.  The ABI of the contract goes through  *)
(* two alru_cache layers without expiry: get_contract_abi, and on top of   *)
(* it get_contract_abi_selectors_with_functions.  get_decoding_accuracy    *)
(* runs afterwards and asks the lower layer again.                         *)
(*                                                                         *)
(* The module follows one contract address.  The entries of a cache key    *)
(* are evicted at any moment, by the lookups of other addresses.           *)
(***************************************************************************)
EXTENDS Integers

CONSTANTS
    Abi,
    NoAbi,        \* Python's None as an ABI, or a selector that is not in the table
    Selector,
    SelectorsOf,  \* the selectors of the functions of each ABI
    Chain,        \* the ids of the chains where the address has a contract
    NoChain,      \* a request, or a key of the caches, without a chain id
    NoAddress,    \* a request without an address
    Requests

ASSUME AbiAssumption == NoAbi \notin Abi
ASSUME SelectorAssumption == SelectorsOf \in [Abi -> SUBSET Selector]
ASSUME ChainAssumption == Chain \subseteq Nat /\ NoChain \notin Chain

Key == Chain \union {NoChain}

ASSUME AddressAssumption == NoAddress \notin Key

VARIABLES
    contractAbi,   \* the ABI of the contract in each chain, in the database
    table,         \* fn_selectors_with_abis
    cached,        \* the keys with an entry in the cache of get_contract_abi
    abiCache,      \* that entry
    selState,      \* the entry of the selectors' cache: "absent", "first", "second", "done"
    selAbi,        \* the ABI it was made of
    selKey,        \* the key get_contract_abi found that ABI under
    rpc,           \* where each request is
    selector,      \* the selector of its data
    key,           \* its chain id, or NoChain, or NoAddress
    used,          \* the ABI its function was taken from
    usedKey,       \* the key that ABI was found under, NoAddress for the general table
    accuracy       \* what it reports

dbVars == <<contractAbi, table>>
cacheVars == <<cached, abiCache>>
selVars == <<selState, selAbi, selKey>>
requestVars == <<rpc, selector, key, used, usedKey, accuracy>>
vars == <<dbVars, cacheVars, selVars, requestVars>>

Accuracy == {"FULL_MATCH", "PARTIAL_MATCH", "ONLY_FUNCTION_MATCH", "NO_MATCH"}

TypeOK ==
    /\ contractAbi \in [Chain -> Abi \union {NoAbi}]
    /\ table \in [Selector -> Abi \union {NoAbi}]
    /\ cached \subseteq Key
    /\ abiCache \in [Key -> Abi \union {NoAbi}]
    /\ selState \in [Key -> {"absent", "first", "second", "done"}]
    /\ selAbi \in [Key -> Abi \union {NoAbi}]
    /\ selKey \in [Key -> Key]
    /\ rpc \in [Requests -> {"idle", "find", "selectors", "accuracy", "chain", "any",
                             "answered", "not_found"}]
    /\ selector \in [Requests -> Selector]
    /\ key \in [Requests -> Key \union {NoAddress}]
    /\ used \in [Requests -> Abi \union {NoAbi}]
    /\ usedKey \in [Requests -> Key \union {NoAddress}]
    /\ accuracy \in [Requests -> Accuracy]

Init ==
    /\ contractAbi = [c \in Chain |-> NoAbi]
    /\ table = [s \in Selector |-> NoAbi]
    /\ cached = {}
    /\ abiCache = [k \in Key |-> NoAbi]
    /\ selState = [k \in Key |-> "absent"]
    /\ selAbi = [k \in Key |-> NoAbi]
    /\ selKey = [k \in Key |-> NoChain]
    /\ rpc = [r \in Requests |-> "idle"]
    /\ \E s \in Selector : selector = [r \in Requests |-> s]
    /\ key = [r \in Requests |-> NoAddress]
    /\ used = [r \in Requests |-> NoAbi]
    /\ usedKey = [r \in Requests |-> NoAddress]
    /\ accuracy = [r \in Requests |-> "NO_MATCH"]

Goto(r, label) == rpc' = [rpc EXCEPT ![r] = label]

-----------------------------------------------------------------------------
(* What others write. *)

(* process_contract_metadata sets abi_id, never to null. *)
StoreContractAbi(c, a) ==
    /\ contractAbi' = [contractAbi EXCEPT ![c] = a]
    /\ UNCHANGED <<table, cacheVars, selVars, requestVars>>

(* load_new_abis of some request (module AbiDecoder): a free selector. *)
LearnSelector(s, a) ==
    /\ table[s] = NoAbi
    /\ s \in SelectorsOf[a]
    /\ table' = [table EXCEPT ![s] = a]
    /\ UNCHANGED <<contractAbi, cacheVars, selVars, requestVars>>

-----------------------------------------------------------------------------
(* The two caches. *)

(* Contract.get_abi_by_contract_address: of the chain, or of the first. *)
IsContractAbi(k, v) ==
    IF k \in Chain THEN v = contractAbi[k]
    ELSE \/ v = NoAbi /\ \A c \in Chain : contractAbi[c] = NoAbi
         \/ \E c \in Chain :
             /\ v = contractAbi[c]
             /\ v # NoAbi
             /\ \A d \in Chain : d < c => contractAbi[d] = NoAbi

(* get_contract_abi: also a None is cached. *)
GetContractAbi(k, v) ==
    /\ IF k \in cached THEN v = abiCache[k] ELSE IsContractAbi(k, v)
    /\ cached' = cached \union {k}
    /\ abiCache' = [abiCache EXCEPT ![k] = v]

FinishSelectors(k, v, from) ==
    /\ selState' = [selState EXCEPT ![k] = "done"]
    /\ selAbi' = [selAbi EXCEPT ![k] = v]
    /\ selKey' = [selKey EXCEPT ![k] = from]

(* get_contract_abi_selectors_with_functions, which the requests of one key *)
(* share: first the chain of the key, ...                                   *)
SelectorsOfChain(k, v) ==
    /\ selState[k] = "first"
    /\ GetContractAbi(k, v)
    /\ IF v = NoAbi /\ k # NoChain
         THEN selState' = [selState EXCEPT ![k] = "second"] /\ UNCHANGED <<selAbi, selKey>>
         ELSE FinishSelectors(k, v, k)
    /\ UNCHANGED <<dbVars, requestVars>>

(* ... then any chain. *)
SelectorsOfAnyChain(k, v) ==
    /\ selState[k] = "second"
    /\ GetContractAbi(NoChain, v)
    /\ FinishSelectors(k, v, NoChain)
    /\ UNCHANGED <<dbVars, requestVars>>

EvictAbi(k) ==
    /\ k \in cached
    /\ cached' = cached \ {k}
    /\ abiCache' = [abiCache EXCEPT ![k] = NoAbi]
    /\ UNCHANGED <<dbVars, selVars, requestVars>>

EvictSelectors(k) ==
    /\ selState[k] = "done"
    /\ selState' = [selState EXCEPT ![k] = "absent"]
    /\ selAbi' = [selAbi EXCEPT ![k] = NoAbi]
    /\ selKey' = [selKey EXCEPT ![k] = NoChain]
    /\ UNCHANGED <<dbVars, cacheVars, requestVars>>

-----------------------------------------------------------------------------
(* A request. *)

Arrive(r, s, k) ==
    /\ rpc[r] = "idle"
    /\ selector' = [selector EXCEPT ![r] = s]
    /\ key' = [key EXCEPT ![r] = k]
    /\ Goto(r, "find")
    /\ UNCHANGED <<dbVars, cacheVars, selVars, used, usedKey, accuracy>>

(* The function is known: its parameters decode, or the answer is a 404. *)
Decoded(r, a, k) ==
    /\ used' = [used EXCEPT ![r] = a]
    /\ usedKey' = [usedKey EXCEPT ![r] = k]
    /\ \E label \in {"accuracy", "not_found"} : Goto(r, label)

(* Mutant of FindFunction: the ABI of the contract is looked at first. *)
FindFunctionAnyway(r) ==
    /\ rpc[r] = "find"
    /\ \/ /\ key[r] = NoAddress
          /\ Decoded(r, table[selector[r]], NoAddress)
          /\ UNCHANGED selState
       \/ /\ key[r] # NoAddress
          /\ Goto(r, "selectors")
          /\ selState' = IF selState[key[r]] = "absent"
                           THEN [selState EXCEPT ![key[r]] = "first"] ELSE selState
          /\ UNCHANGED <<used, usedKey>>
    /\ UNCHANGED <<dbVars, cacheVars, selAbi, selKey, selector, key, accuracy>>

(* get_abi_function: only selectors of the general table are decoded. *)
FindFunction(r) ==
    /\ rpc[r] = "find"
    /\ \/ /\ table[selector[r]] = NoAbi
          /\ Goto(r, "not_found")
          /\ UNCHANGED <<selState, used, usedKey>>
       \/ /\ table[selector[r]] # NoAbi
          /\ key[r] = NoAddress
          /\ Decoded(r, table[selector[r]], NoAddress)
          /\ UNCHANGED selState
       \/ /\ table[selector[r]] # NoAbi
          /\ key[r] # NoAddress
          /\ Goto(r, "selectors")
          /\ selState' = IF selState[key[r]] = "absent"
                           THEN [selState EXCEPT ![key[r]] = "first"] ELSE selState
          /\ UNCHANGED <<used, usedKey>>
    /\ UNCHANGED <<dbVars, cacheVars, selAbi, selKey, selector, key, accuracy>>

(* The ABI of the contract if it has the selector, else the general one. *)
UseSelectors(r) ==
    /\ rpc[r] = "selectors"
    /\ selState[key[r]] = "done"
    /\ LET own == selAbi[key[r]]
       IN  IF own \in Abi /\ selector[r] \in SelectorsOf[own]
             THEN Decoded(r, own, selKey[key[r]])
             ELSE Decoded(r, table[selector[r]], NoAddress)
    /\ UNCHANGED <<dbVars, cacheVars, selVars, selector, key, accuracy>>

(* The entry was evicted while the request was on its way to it. *)
AskSelectorsAgain(r) ==
    /\ rpc[r] = "selectors"
    /\ selState[key[r]] = "absent"
    /\ selState' = [selState EXCEPT ![key[r]] = "first"]
    /\ UNCHANGED <<dbVars, cacheVars, selAbi, selKey, requestVars>>

Report(r, value) ==
    /\ accuracy' = [accuracy EXCEPT ![r] = value]
    /\ Goto(r, "answered")

(* get_decoding_accuracy: the checks before the first await. *)
StartAccuracy(r) ==
    /\ rpc[r] = "accuracy"
    /\ IF table[selector[r]] = NoAbi THEN Report(r, "NO_MATCH")
       ELSE IF key[r] = NoAddress THEN Report(r, "ONLY_FUNCTION_MATCH")
       ELSE Goto(r, IF key[r] = NoChain THEN "any" ELSE "chain") /\ UNCHANGED accuracy
    /\ UNCHANGED <<dbVars, cacheVars, selVars, selector, key, used, usedKey>>

(* Mutant of AccuracyOfChain: an ABI that was evicted is not read again. *)
AccuracyOfCachedChain(r, v) ==
    /\ rpc[r] = "chain"
    /\ v = IF key[r] \in cached THEN abiCache[key[r]] ELSE NoAbi
    /\ IF v # NoAbi THEN Report(r, "FULL_MATCH") ELSE Goto(r, "any") /\ UNCHANGED accuracy
    /\ UNCHANGED <<dbVars, cacheVars, selVars, selector, key, used, usedKey>>

AccuracyOfChain(r, v) ==
    /\ rpc[r] = "chain"
    /\ GetContractAbi(key[r], v)
    /\ IF v # NoAbi THEN Report(r, "FULL_MATCH") ELSE Goto(r, "any") /\ UNCHANGED accuracy
    /\ UNCHANGED <<dbVars, selVars, selector, key, used, usedKey>>

AccuracyOfAnyChain(r, v) ==
    /\ rpc[r] = "any"
    /\ GetContractAbi(NoChain, v)
    /\ Report(r, IF v # NoAbi THEN "PARTIAL_MATCH" ELSE "ONLY_FUNCTION_MATCH")
    /\ UNCHANGED <<dbVars, selVars, selector, key, used, usedKey>>

Answer(r) ==
    /\ rpc[r] \in {"answered", "not_found"}
    /\ Goto(r, "idle")
    /\ key' = [key EXCEPT ![r] = NoAddress]
    /\ used' = [used EXCEPT ![r] = NoAbi]
    /\ usedKey' = [usedKey EXCEPT ![r] = NoAddress]
    /\ accuracy' = [accuracy EXCEPT ![r] = "NO_MATCH"]
    /\ UNCHANGED <<dbVars, cacheVars, selVars, selector>>

Next ==
    \/ \E c \in Chain, a \in Abi : StoreContractAbi(c, a)
    \/ \E s \in Selector, a \in Abi : LearnSelector(s, a)
    \/ \E k \in Key, v \in Abi \union {NoAbi} :
        SelectorsOfChain(k, v) \/ SelectorsOfAnyChain(k, v)
    \/ \E k \in Key : EvictAbi(k) \/ EvictSelectors(k)
    \/ \E r \in Requests :
        \/ \E s \in Selector, k \in Key \union {NoAddress} : Arrive(r, s, k)
        \/ FindFunction(r)
        \/ UseSelectors(r)
        \/ AskSelectorsAgain(r)
        \/ StartAccuracy(r)
        \/ \E v \in Abi \union {NoAbi} : AccuracyOfChain(r, v) \/ AccuracyOfAnyChain(r, v)
        \/ Answer(r)

Spec == Init /\ [][Next]_vars

-----------------------------------------------------------------------------
(* Properties. *)

(* FunctionHasSelector: a request that is decoded, in whatever state the    *)
(* caches and the tables were while it ran, is decoded with an ABI that has *)
(* its selector, and never reports that nothing matched.                    *)
FunctionHasSelector ==
    \A r \in Requests :
        /\ rpc[r] \in {"accuracy", "chain", "any", "answered"} =>
            used[r] \in Abi /\ selector[r] \in SelectorsOf[used[r]]
        /\ rpc[r] = "answered" => accuracy[r] # "NO_MATCH"

(* AccuracyNotUnderstated: the two caches are evicted apart and ABIs are    *)
(* stored meanwhile; still a call decoded with the ABI of the contract in   *)
(* its chain is reported as FULL_MATCH, and one decoded with the ABI of the *)
(* address in another chain never as a match of the function only.          *)
AccuracyNotUnderstated ==
    \A r \in Requests :
        rpc[r] = "answered" =>
            /\ usedKey[r] \in Chain => accuracy[r] = "FULL_MATCH"
            /\ usedKey[r] = NoChain => accuracy[r] \in {"FULL_MATCH", "PARTIAL_MATCH"}

-----------------------------------------------------------------------------
(* The inductive invariant behind the proofs. *)

HasAbi(k) == IF k \in Chain THEN contractAbi[k] # NoAbi
                            ELSE \E c \in Chain : contractAbi[c] # NoAbi

(* get_contract_abi can only find an ABI under k. *)
Known(k) == HasAbi(k) /\ (k \in cached => abiCache[k] # NoAbi)

(* An ABI, once stored, is found again, whatever is evicted. *)
CacheInv ==
    /\ \A k \in Key : k \in cached /\ abiCache[k] # NoAbi => HasAbi(k)
    /\ \A k \in Key : selKey[k] \in {k, NoChain}
    /\ \A k \in Key : selState[k] = "done" /\ selAbi[k] # NoAbi => Known(selKey[k])

(* The general table has functions under their own selectors. *)
TableInv ==
    \A s \in Selector : table[s] # NoAbi => s \in SelectorsOf[table[s]]

(* What a request relies on after each of its awaits. *)
RequestInv ==
    \A r \in Requests :
        /\ rpc[r] \in {"selectors", "accuracy", "chain", "any", "answered"} =>
            table[selector[r]] # NoAbi
        /\ rpc[r] \in {"selectors", "chain", "any"} => key[r] # NoAddress
        /\ rpc[r] = "chain" => key[r] # NoChain
        /\ rpc[r] \in {"idle", "find", "selectors"} => usedKey[r] = NoAddress
        /\ usedKey[r] # NoAddress =>
            key[r] # NoAddress /\ usedKey[r] \in {key[r], NoChain} /\ Known(usedKey[r])
        /\ rpc[r] = "any" => usedKey[r] \in {NoAddress, NoChain}

IndInv ==
    /\ TypeOK
    /\ CacheInv
    /\ TableInv
    /\ RequestInv
    /\ FunctionHasSelector
    /\ AccuracyNotUnderstated

-----------------------------------------------------------------------------
(* What the code says of itself and does not hold. *)

(* AccuracyIsOfFunction: the documentation of the endpoint and of           *)
(* get_decoding_accuracy: FULL_MATCH and PARTIAL_MATCH matched the address, *)
(* "ONLY_FUNCTION_MATCH: Matched function from another contract", which is  *)
(* what the functions of the general table are.                             *)
AccuracyIsOfFunction ==
    \A r \in Requests :
        rpc[r] = "answered" /\ usedKey[r] = NoAddress =>
            accuracy[r] = "ONLY_FUNCTION_MATCH"
==============================================================================
