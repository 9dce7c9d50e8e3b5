------------------------------ MODULE DecodeData ------------------------------
(***************************************************************************)
(* The decoding of nested data: get_data_decoded and what it calls.         *)
(*                                                                         *)
(* The data of a request is a tree of calls.  A multiSend holds a list of   *)
(* transactions and the execTransaction of a Safe holds one; each of them   *)
(* is decoded in turn, the inner calls of a call before its next sibling,   *)
(* so that the calls, numbered in the order they are met, are decoded one   *)
(* after the other.  Every look-up of an ABI awaits, and other requests     *)
(* extend the selector table in between.                                    *)
(*                                                                         *)
(* The module follows one function, data.fn: the selector table and the     *)
(* database are those of FunctionTable, which AbiDecoder implements.  The   *)
(* ABI of the contract that is called has preference over the table; it is  *)
(* stored and changed at any moment, and two caches without expiry, but     *)
(* with evictions, stand before it.  How they work is AbiLookup; here they  *)
(* show any ABI that the contract has had since the process started.        *)
(***************************************************************************)
EXTENDS Integers

CONSTANTS
    Function,       \* the functions that may be called
    Names,          \* the lists of input names an ABI may give a function
    NoNames,        \* no function: a selector not in the table, data not decoded
    SafeNames,      \* the names of the inputs of multiSend and execTransaction
    Databases,      \* of each function, what the first startup may find stored
    Downloads,      \* the names that downloaded ABIs give a function
    Key,            \* the contracts that calls are for, with the function called
    NoKey,          \* a call without an address
    MaxCalls,       \* bound: calls in the data of a request
    Data,           \* the data of the requests
    MaxCrashes,     \* bound: how often the web process dies
    MaxChanges      \* bound: how often the ABI of a contract changes

Call == 1..MaxCalls

Kind == {"function", "multiSend", "execTransaction", "unknown", "empty"}

Variant == [names : Names, relevance : Nat]

(* The request: of each call, the call that holds it (0 for the outermost), *)
(* all the calls it is within, what it calls, of which contract, whether    *)
(* the parameters fit the types, and whether the list of a multiSend can be *)
(* taken apart.                                                             *)
DataType ==
    [fn : Function, size : Call,
     parent : [Call -> 0..MaxCalls], within : [Call -> SUBSET Call],
     kind : [Call -> Kind], key : [Call -> Key \union {NoKey}],
     params : [Call -> BOOLEAN], txs : [Call -> BOOLEAN]]

ASSUME NamesAssumption == NoNames \notin Names /\ SafeNames \in Names
ASSUME KeyAssumption == NoKey \notin Key
ASSUME DatabasesAssumption == Databases \in [Function -> SUBSET SUBSET Variant]
ASSUME DownloadsAssumption == Downloads \subseteq Names
ASSUME BoundAssumption == MaxCalls \in Nat \ {0} /\ MaxCrashes \in Nat /\ MaxChanges \in Nat
ASSUME DataAssumption ==
    /\ Data \subseteq DataType
    /\ \A d \in Data : \A c \in 1..d.size :
        /\ d.parent[c] \in 0..(c - 1)
        /\ d.within[c] \subseteq 1..(c - 1)
        /\ d.within[c] = IF d.parent[c] = 0 THEN {}
                           ELSE d.within[d.parent[c]] \union {d.parent[c]}

VARIABLES
    data,           \* the data, sent again and again
    stored,         \* the variants of the function in the database
    names,          \* fn_selectors_with_abis: the names of the function
    serving,        \* the web process answers requests
    own,            \* the names the stored ABI of each contract gives its function
    visible,        \* all that own was since the process started
    at,             \* the call the request is at, 0 without a request
    pc,             \* "check": before the look-up of the ABI, "use": after its await
    result,         \* data_decoded of each call: its names, or NoNames for null
    found,          \* history: the table when the request arrived
    before,         \* history: the previous answer
    restarted,      \* history: the process restarted after that answer
    changed,        \* history: of which contracts the look-ups may differ from those of
                    \* that answer
    crashes,        \* how often the web process died
    changes         \* how often the ABI of a contract changed

contractVars == <<own, visible, changes>>
requestVars == <<at, pc, result, found>>
historyVars == <<before, restarted, changed>>
vars == <<data, stored, names, serving, contractVars, requestVars, historyVars, crashes>>

(* The loading of ABIs, once those shipped with the code are stored. *)
Table == INSTANCE FunctionTable WITH complete <- TRUE

Nothing == [c \in Call |-> NoNames]

TypeOK ==
    /\ data \in Data
    /\ stored \subseteq Variant
    /\ names \in Names \union {NoNames}
    /\ serving \in BOOLEAN
    /\ own \in [Key -> Names \union {NoNames}]
    /\ visible \in [Key -> SUBSET (Names \union {NoNames})]
    /\ at \in 0..(data.size + 1)
    /\ pc \in {"check", "use"}
    /\ result \in [Call -> Names \union {NoNames}]
    /\ found \in Names \union {NoNames}
    /\ before \in [Call -> Names \union {NoNames}]
    /\ restarted \in BOOLEAN
    /\ changed \subseteq Key
    /\ crashes \in 0..MaxCrashes
    /\ changes \in 0..MaxChanges

(* load_local_abis_in_database has stored the shipped ABIs, but for those   *)
(* that a worker had stored already, which it leaves as they are.           *)
Init ==
    /\ data \in Data
    /\ stored \in Databases[data.fn]
    /\ names = NoNames
    /\ serving = FALSE
    /\ own = [k \in Key |-> NoNames]
    /\ visible = [k \in Key |-> {NoNames}]
    /\ at = 0
    /\ pc = "check"
    /\ result = Nothing
    /\ found = NoNames
    /\ before = Nothing
    /\ restarted = FALSE
    /\ changed = {}
    /\ crashes = 0
    /\ changes = 0

-----------------------------------------------------------------------------
(* The table. *)

(* Mutant of BuildTable: the rows are read without ORDER BY. *)
BuildTableUnordered ==
    /\ ~serving
    /\ serving' = TRUE
    /\ \/ stored = {} /\ names' = NoNames
       \/ \E v \in stored : names' = v.names
    /\ UNCHANGED <<data, stored, contractVars, requestVars, historyVars, crashes>>

(* init: the ABIs override each other in the order of their relevance, and  *)
(* nothing orders ABIs of one relevance.                                    *)
BuildTable ==
    /\ Table!Build
    /\ UNCHANGED <<data, contractVars, requestVars, historyVars, crashes>>

(* A worker stores an ABI that it downloaded. *)
Download(n) ==
    /\ Table!Store([names |-> n, relevance |-> 0])
    /\ UNCHANGED <<data, contractVars, requestVars, historyVars, crashes>>

(* Mutant of AddAbi: the new ABI overrides. *)
AddAbiOverriding(v) ==
    /\ serving
    /\ names' = v.names
    /\ UNCHANGED <<data, stored, serving, contractVars, requestVars, historyVars, crashes>>

(* add_abi, called by the load_new_abis of any request. *)
AddAbi(v) ==
    /\ Table!Extend(v)
    /\ UNCHANGED <<data, contractVars, requestVars, historyVars, crashes>>

Crash ==
    /\ crashes < MaxCrashes
    /\ crashes' = crashes + 1
    /\ serving
    /\ Table!Stop
    /\ at' = 0
    /\ pc' = "check"
    /\ result' = Nothing
    /\ found' = NoNames
    /\ restarted' = TRUE
    /\ visible' = [k \in Key |-> {own[k]}]
    /\ UNCHANGED <<data, own, before, changed, changes>>

(* The names that an ABI of the contract of a call can give its function.   *)
ContractNames(c) ==
    {NoNames} \union IF data.kind[c] = "function" THEN {v.names : v \in stored} ELSE Downloads

(* The ABI of a contract is set: a worker links one that it has just stored *)
(* (of which `stored` has the function followed), or an administrator any   *)
(* or none.  Nothing tells the caches.                                      *)
SetContractAbi(c) ==
    LET k == data.key[c]
    IN  /\ changes < MaxChanges
        /\ changes' = changes + 1
        /\ k # NoKey
        /\ \E n \in ContractNames(c) \ {own[k]} :
            /\ own' = [own EXCEPT ![k] = n]
            /\ visible' = [visible EXCEPT ![k] = IF serving THEN @ \union {n} ELSE {n}]
        /\ changed' = changed \union {k}
        /\ UNCHANGED <<data, stored, names, serving, requestVars, before, restarted, crashes>>

-----------------------------------------------------------------------------
(* The request. *)

Arrive ==
    /\ serving
    /\ at = 0
    /\ at' = 1
    /\ found' = names
    /\ UNCHANGED <<data, stored, names, serving, contractVars, pc, result, historyVars,
                   crashes>>

(* decode_parameters_data: a multiSend whose list can be taken apart and an *)
(* execTransaction show what they hold.                                     *)
Opens(c) ==
    \/ data.kind[c] = "multiSend" /\ data.txs[c]
    \/ data.kind[c] = "execTransaction"

(* The inner calls of a call are met if the call was decoded and opens. *)
Met(c) ==
    data.parent[c] # 0 => result[data.parent[c]] # NoNames /\ Opens(data.parent[c])

(* The selector of the call is in the table. *)
InTable(c, table) ==
    \/ data.kind[c] = "function" /\ table # NoNames
    \/ data.kind[c] \in {"multiSend", "execTransaction"}

(* The ABI of the contract of a call, as it is stored and as the caches may *)
(* show it.                                                                 *)
Own(c) == IF data.key[c] = NoKey THEN NoNames ELSE own[data.key[c]]

Visible(c) == IF data.key[c] = NoKey THEN {NoNames} ELSE visible[data.key[c]]

TableNames(c, table) == IF data.kind[c] = "function" THEN table ELSE SafeNames

(* get_abi_function: the ABI of the contract has preference over the table. *)
AbiFunctions(c, table) ==
    {IF n = NoNames THEN TableNames(c, table) ELSE n : n \in Visible(c)}

(* get_data_decoded of the call at hand returns, and the next one is met. *)
Return(decoded) ==
    /\ result' = [result EXCEPT ![at] = decoded]
    /\ at' = at + 1
    /\ pc' = "check"
    /\ UNCHANGED <<data, stored, names, serving, contractVars, found, historyVars, crashes>>

(* Nobody meets the call: data_decoded of it does not exist. *)
Pass ==
    /\ at \in 1..data.size
    /\ ~Met(at)
    /\ Return(NoNames)

(* Mutant of CannotDecode: the exception leaves the loop of the multiSend.  *)
CannotDecodeAnything ==
    /\ at \in 1..data.size
    /\ pc = "check"
    /\ Met(at)
    /\ ~InTable(at, names)
    /\ at' = data.size + 1
    /\ UNCHANGED <<data, stored, names, serving, contractVars, pc, result, found,
                   historyVars, crashes>>

(* No data or a selector that nobody knows: data_decoded is null. *)
CannotDecode ==
    /\ at \in 1..data.size
    /\ pc = "check"
    /\ Met(at)
    /\ ~InTable(at, names)
    /\ Return(NoNames)

(* get_abi_function finds the selector and awaits the ABI of the address. *)
CheckSelector ==
    /\ at \in 1..data.size
    /\ pc = "check"
    /\ Met(at)
    /\ InTable(at, names)
    /\ pc' = "use"
    /\ UNCHANGED <<data, stored, names, serving, contractVars, at, result, found,
                   historyVars, crashes>>

(* _decode_data: the parameters are named after the function of the ABI of  *)
(* the contract, or as it is in the table now; parameters that do not fit   *)
(* its types make UnexpectedProblemDecoding, which only get_data_decoded of *)
(* this call sees.                                                          *)
DecodeParameters ==
    /\ pc = "use"
    /\ \/ /\ data.params[at]
          /\ \E n \in AbiFunctions(at, names) : Return(n)
       \/ /\ ~data.params[at]
          /\ Return(NoNames)

(* The answer goes out and the same data is sent again later. *)
Answer ==
    /\ at = data.size + 1
    /\ at' = 0
    /\ before' = result
    /\ restarted' = FALSE
    /\ result' = Nothing
    /\ found' = NoNames
    /\ changed' = {k \in Key : visible[k] # {own[k]}}
    /\ UNCHANGED <<data, stored, names, serving, contractVars, pc, crashes>>

Next ==
    \/ BuildTable
    \/ \E n \in Downloads : Download(n)
    \/ \E v \in stored : AddAbi(v)
    \/ Crash
    \/ \E c \in 1..data.size : SetContractAbi(c)
    \/ Arrive
    \/ Pass
    \/ CannotDecode
    \/ CheckSelector
    \/ DecodeParameters
    \/ Answer

Spec == Init /\ [][Next]_vars

-----------------------------------------------------------------------------
(* Properties. *)

(* The call alone is decodable with a table. *)
Decodable(c, table) == InTable(c, table) /\ data.params[c]

(* AnswerComplete: nothing that fails elsewhere in the data costs a call    *)
(* its decoding.  A call that could be decoded with the table the request   *)
(* found, and so could every call that it is within, is decoded in the      *)
(* answer: get_data_decoded keeps a sibling's CannotDecode and              *)
(* UnexpectedProblemDecoding to the sibling.                                *)
AnswerComplete ==
    at > 0 =>
        \A c \in 1..(at - 1) :
            /\ Decodable(c, found)
            /\ \A d \in data.within[c] : Decodable(d, found) /\ Opens(d)
            => result[c] # NoNames

(* AnswerSound: although every look-up awaits while other requests extend   *)
(* the table, what an answer takes from the table is what the table has     *)
(* now: of the calls whose contract has no ABI with the function, no two    *)
(* are named after two ABIs.  A call whose contract has or had one may be   *)
(* named after any it had since the process started, and only after those;  *)
(* two such calls of one function, also of one contract, may differ in one  *)
(* answer.  No call is shown inside one that is not.                        *)
AnswerSound ==
    at > 0 =>
        \A c \in 1..(at - 1) :
            result[c] # NoNames =>
                /\ Decodable(c, names)
                /\ result[c] \in AbiFunctions(c, names)
                /\ \A d \in data.within[c] : result[d] # NoNames /\ Opens(d)

(* Nothing stored is more relevant than an ABI that gives these names. *)
IsTopName(n) == \E v \in stored : Table!IsTop(v) /\ v.names = n

(* AnswersRepeat: data that is sent again is decoded at least as far as the *)
(* last time, and named the same, whatever is stored and loaded meanwhile,  *)
(* with two exceptions.  The ABI of the contract has changed since the      *)
(* start of the process that gave the last answer: the caches may have      *)
(* shown the old one then and lost it, by eviction or by a restart.  Or the *)
(* contract has none, the process restarted, and the two names tie: each is *)
(* given by an ABI of the highest relevance stored.                         *)
(* get_abis_sorted_by_relevance orders by nothing else, so that every       *)
(* restart picks among them anew.                                           *)
AnswersRepeat ==
    at = data.size + 1 =>
        \A c \in 1..data.size :
            before[c] # NoNames =>
                /\ result[c] # NoNames
                /\ \/ result[c] = before[c]
                   \/ data.key[c] \in changed
                   \/ /\ restarted
                      /\ data.kind[c] = "function" /\ Own(c) = NoNames
                      /\ IsTopName(before[c]) /\ IsTopName(result[c])

-----------------------------------------------------------------------------
(* The inductive invariant behind the proofs. *)

(* The table has the names of a most relevant variant; what it does not     *)
(* have was downloaded since it was built.                                  *)
TableInv ==
    /\ names # NoNames => IsTopName(names)
    /\ serving /\ names = NoNames => \A v \in stored : v.relevance = 0

(* A request has a process; what it checked and what it found still hold. *)
RequestInv ==
    /\ at > 0 => serving
    /\ pc = "use" => at \in 1..data.size /\ Met(at) /\ InTable(at, names)
    /\ at > 0 /\ found # NoNames => names = found

(* The caches show what is stored, unless that has changed. *)
ContractInv ==
    \A k \in Key :
        /\ own[k] \in visible[k]
        /\ k \notin changed => visible[k] = {own[k]}

(* What the previous answer decoded is still decodable, and where its names *)
(* come from.                                                               *)
BeforeInv ==
    \A c \in 1..data.size :
        before[c] # NoNames =>
            /\ data.params[c]
            /\ data.kind[c] \in {"function", "multiSend", "execTransaction"}
            /\ \A d \in data.within[c] : before[d] # NoNames /\ Opens(d)
            /\ data.kind[c] = "function" =>
                /\ stored # {}
                /\ serving => names # NoNames
                /\ at > 0 => found # NoNames
            /\ \/ data.key[c] \in changed
               \/ before[c] = Own(c)
               \/ /\ Own(c) = NoNames
                  /\ data.kind[c] # "function" /\ before[c] = SafeNames
               \/ /\ Own(c) = NoNames
                  /\ data.kind[c] = "function"
                  /\ IsTopName(before[c])
                  /\ ~restarted => serving /\ names = before[c]

IndInv ==
    /\ TypeOK
    /\ TableInv
    /\ RequestInv
    /\ ContractInv
    /\ BeforeInv
    /\ AnswerSound
    /\ AnswerComplete
==============================================================================
