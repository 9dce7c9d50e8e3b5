--------------------------- MODULE ContractDownload ---------------------------
(***************************************************************************)
(* How the metadata of a contract gets into the `contract` table.          *)
(*                                                                         *)
(* Dramatiq delivers get_contract_metadata_task messages at least once to  *)
(* concurrent tasks.  A task decides whether to download                   *)
(* (should_attempt_download, with a Redis key that remembers a `no`), asks *)
(* the block explorers in turn (get_contract_metadata), stores what it     *)
(* found or one more retry (process_contract_metadata), and sends a task   *)
(* for the implementation of a proxy.  Two periodic tasks send again the   *)
(* contracts without an ABI and the proxies.  An administrator creates,    *)
(* edits and deletes rows at any moment.                                   *)
(*                                                                         *)
(* A contract is an address of a chain.  A step of a task is the code      *)
(* between two awaits that reach the database, Redis or an explorer.       *)
(***************************************************************************)
EXTENDS Integers, FiniteSets

CONSTANTS
    Contract,        \* the addresses that are not the null address
    NoContract,      \* no implementation, or the null address
    Implementations, \* the implementations an explorer may report of each contract
    Tasks,           \* the worker's concurrent executions
    Clients,         \* the number of enabled explorer clients of the chain
    CONTRACT_MAX_DOWNLOAD_RETRIES,
    EditedRetries,   \* the fetch_retries an administrator may enter
    MaxFailures,     \* bound: failed downloads of each contract
    MaxFaults        \* bound: failed executions and interventions of administrators

ASSUME ContractAssumption == NoContract \notin Contract
ASSUME ImplementationsAssumption ==
    Implementations \in [Contract -> SUBSET (Contract \union {NoContract})]
ASSUME CountAssumption ==
    /\ Clients \in Nat
    /\ CONTRACT_MAX_DOWNLOAD_RETRIES \in Nat
    /\ EditedRetries \subseteq Nat
    /\ MaxFailures \in [Contract -> Nat]
    /\ MaxFaults \in Nat

VARIABLES
    exists,          \* the contracts that have a row
    abi,             \* the contracts whose row has an abi_id
    fetch_retries,   \* of the row of each contract
    implementation,  \* of the row of each contract
    attempted,       \* the contracts with a should_attempt_download key in Redis
    queue,           \* the messages that wait
    pc,              \* where each task is
    msg,             \* the message it executes
    client,          \* the explorer client it asks next
    found,           \* the metadata it got: "none", "bad" (without a usable ABI), "ok"
    proxied,         \* the implementation in that metadata
    retriesRead,     \* fetch_retries of the row it has loaded
    failures,        \* history: the failed downloads stored of each contract
    faults,          \* history: how many executions failed or administrators intervened
    unsent,          \* history: implementations without a row whose task was never sent
    administered     \* history: the contracts whose row an administrator wrote

tableVars == <<exists, abi, fetch_retries, implementation>>
taskVars == <<pc, msg, client, found, proxied, retriesRead>>
faultVars == <<faults, unsent, administered>>
vars == <<tableVars, attempted, queue, taskVars, failures, faultVars>>

Message == [address : Contract, skip_attempt_download : BOOLEAN]

NoMessage == [address |-> NoContract, skip_attempt_download |-> FALSE]

TypeOK ==
    /\ exists \subseteq Contract
    /\ abi \subseteq Contract
    /\ fetch_retries \in [Contract -> Nat]
    /\ implementation \in [Contract -> Contract \union {NoContract}]
    /\ attempted \subseteq Contract
    /\ queue \subseteq Message
    /\ pc \in [Tasks -> {"idle", "gate", "lookup", "settle", "ask", "create", "store",
                         "gone", "invalidate", "proxy"}]
    /\ msg \in [Tasks -> Message \union {NoMessage}]
    /\ client \in [Tasks -> 1..(Clients + 1)]
    /\ found \in [Tasks -> {"none", "bad", "ok"}]
    /\ proxied \in [Tasks -> Contract \union {NoContract}]
    /\ retriesRead \in [Tasks -> Nat]
    /\ failures \in [Contract -> Nat]
    /\ faults \in 0..MaxFaults
    /\ unsent \subseteq Contract
    /\ administered \subseteq Contract

Init ==
    /\ exists = {}
    /\ abi = {}
    /\ fetch_retries = [c \in Contract |-> 0]
    /\ implementation = [c \in Contract |-> NoContract]
    /\ attempted = {}
    /\ queue = {}
    /\ pc = [t \in Tasks |-> "idle"]
    /\ msg = [t \in Tasks |-> NoMessage]
    /\ client = [t \in Tasks |-> 1]
    /\ found = [t \in Tasks |-> "none"]
    /\ proxied = [t \in Tasks |-> NoContract]
    /\ retriesRead = [t \in Tasks |-> 0]
    /\ failures = [c \in Contract |-> 0]
    /\ faults = 0
    /\ unsent = {}
    /\ administered = {}

Address(t) == msg[t].address

Goto(t, label) == pc' = [pc EXCEPT ![t] = label]

(* The execution is over and what it had in memory is gone. *)
End(t) ==
    /\ Goto(t, "idle")
    /\ msg' = [msg EXCEPT ![t] = NoMessage]
    /\ client' = [client EXCEPT ![t] = 1]
    /\ found' = [found EXCEPT ![t] = "none"]
    /\ proxied' = [proxied EXCEPT ![t] = NoContract]
    /\ retriesRead' = [retriesRead EXCEPT ![t] = 0]

Send(cs, skip) ==
    queue' = queue \union {[address |-> c, skip_attempt_download |-> skip] : c \in cs}

-----------------------------------------------------------------------------
(* Who sends messages. *)

(* EventsService.process_event: the loop over the contracts of a transaction *)
(* sends one message for each but the null address.                          *)
ProcessEvent(c) ==
    /\ Send({c}, FALSE)
    /\ UNCHANGED <<tableVars, attempted, taskVars, failures, faultVars>>

(* Contract.get_contracts_without_abi *)
ContractsWithoutAbi ==
    {c \in exists \ abi : fetch_retries[c] <= CONTRACT_MAX_DOWNLOAD_RETRIES}

(* Mutant of GetMissingContractMetadata: the periodic task does not skip the *)
(* check, which after a failed download says no.                             *)
GetMissingUnskipped ==
    /\ Send(ContractsWithoutAbi, FALSE)
    /\ UNCHANGED <<tableVars, attempted, taskVars, failures, faultVars>>

GetMissingContractMetadata ==
    /\ Send(ContractsWithoutAbi, TRUE)
    /\ UNCHANGED <<tableVars, attempted, taskVars, failures, faultVars>>

(* Contract.get_proxy_contracts *)
ProxyContracts == {c \in exists : implementation[c] # NoContract}

(* Mutant of UpdateProxies: the periodic task does not skip the check. *)
UpdateProxiesUnskipped ==
    /\ Send(ProxyContracts, FALSE)
    /\ UNCHANGED <<tableVars, attempted, taskVars, failures, faultVars>>

UpdateProxies ==
    /\ Send(ProxyContracts, TRUE)
    /\ UNCHANGED <<tableVars, attempted, taskVars, failures, faultVars>>

-----------------------------------------------------------------------------
(* get_contract_metadata_task *)

Take(t, m) ==
    /\ pc[t] = "idle"
    /\ m \in queue
    /\ queue' = queue \ {m}
    /\ msg' = [msg EXCEPT ![t] = m]
    /\ Goto(t, IF m.skip_attempt_download THEN "ask" ELSE "gate")
    /\ UNCHANGED <<tableVars, attempted, client, found, proxied, retriesRead, failures, faultVars>>

(* should_attempt_download: a key in Redis answers no. *)
CheckRedis(t) ==
    /\ pc[t] = "gate"
    /\ IF Address(t) \in attempted
         THEN End(t)
         ELSE Goto(t, "lookup") /\ UNCHANGED <<msg, client, found, proxied, retriesRead>>
    /\ UNCHANGED <<tableVars, attempted, queue, failures, faultVars>>

Settled(c) == c \in exists /\ (fetch_retries[c] > 0 \/ c \in abi)

(* Mutant of CheckContract: an ABI is no reason not to download. *)
CheckRetriesOnly(t) ==
    /\ pc[t] = "lookup"
    /\ Goto(t, IF Address(t) \in exists /\ fetch_retries[Address(t)] > 0
                 THEN "settle" ELSE "ask")
    /\ UNCHANGED <<tableVars, attempted, queue, msg, client, found, proxied,
                   retriesRead, failures, faultVars>>

(* Mutant of CheckContract: a row is reason enough not to download. *)
CheckRow(t) ==
    /\ pc[t] = "lookup"
    /\ Goto(t, IF Address(t) \in exists THEN "settle" ELSE "ask")
    /\ UNCHANGED <<tableVars, attempted, queue, msg, client, found, proxied,
                   retriesRead, failures, faultVars>>

(* should_attempt_download with max_retries 0: the row answers. *)
CheckContract(t) ==
    /\ pc[t] = "lookup"
    /\ Goto(t, IF Settled(Address(t)) THEN "settle" ELSE "ask")
    /\ UNCHANGED <<tableVars, attempted, queue, msg, client, found, proxied,
                   retriesRead, failures, faultVars>>

(* The `no` of the row is cached for a day and the task ends. *)
CacheNo(t) ==
    /\ pc[t] = "settle"
    /\ attempted' = attempted \union {Address(t)}
    /\ End(t)
    /\ UNCHANGED <<tableVars, queue, failures, faultVars>>

ExpireNo(c) ==
    /\ c \in attempted
    /\ attempted' = attempted \ {c}
    /\ UNCHANGED <<tableVars, queue, taskVars, failures, faultVars>>

Failing(c) ==
    {t \in Tasks : pc[t] \in {"create", "store"} /\ found[t] # "ok" /\ Address(t) = c}

MayFail(c) == failures[c] + Cardinality(Failing(c)) < MaxFailures[c]

(* get_contract_metadata: a client without an answer, or with an OSError   *)
(* or a rate limit, makes room for the next one.                           *)
AskNext(t) ==
    /\ pc[t] = "ask"
    /\ client[t] <= Clients
    /\ client[t] < Clients \/ MayFail(Address(t))
    /\ client' = [client EXCEPT ![t] = client[t] + 1]
    /\ UNCHANGED <<tableVars, attempted, queue, pc, msg, found, proxied,
                   retriesRead, failures, faultVars>>

ClientAnswers(t, answer, i) ==
    /\ pc[t] = "ask"
    /\ client[t] <= Clients
    /\ i \in Implementations[Address(t)]
    /\ answer = "ok" \/ MayFail(Address(t))
    /\ found' = [found EXCEPT ![t] = answer]
    /\ proxied' = [proxied EXCEPT ![t] = i]
    /\ Goto(t, "create")
    /\ UNCHANGED <<tableVars, attempted, queue, msg, client, retriesRead, failures, faultVars>>

NoClientAnswers(t) ==
    /\ pc[t] = "ask"
    /\ client[t] > Clients
    /\ found' = [found EXCEPT ![t] = "none"]
    /\ proxied' = [proxied EXCEPT ![t] = NoContract]
    /\ Goto(t, "create")
    /\ UNCHANGED <<tableVars, attempted, queue, msg, client, retriesRead, failures, faultVars>>

(* process_contract_metadata: Contract.get_or_create inserts the row or    *)
(* loads the one that is there.  If that row is deleted between the two    *)
(* the error is raised again, which is a Crash.                            *)
GetOrCreate(t) ==
    /\ pc[t] = "create"
    /\ exists' = exists \union {Address(t)}
    /\ unsent' = unsent \ {Address(t)}
    /\ retriesRead' = [retriesRead EXCEPT ![t] = fetch_retries[Address(t)]]
    /\ Goto(t, "store")
    /\ UNCHANGED <<abi, fetch_retries, implementation, attempted, queue, msg, client,
                   found, proxied, failures, faults, administered>>

(* Mutant of StoreFailure: the whole row is written, as it was read. *)
StoreFailureWholeRow(t) ==
    /\ pc[t] = "store"
    /\ found[t] # "ok"
    /\ fetch_retries' = [fetch_retries EXCEPT ![Address(t)] = retriesRead[t] + 1]
    /\ failures' = [failures EXCEPT ![Address(t)] = @ + 1]
    /\ abi' = abi \ {Address(t)}
    /\ Goto(t, "proxy")
    /\ UNCHANGED <<exists, implementation, attempted, queue, msg, client, found, proxied,
                   retriesRead, faultVars>>

(* Mutant of StoreFailure: the retries of the task are written. *)
StoreFailureAsRead(t) ==
    /\ pc[t] = "store"
    /\ found[t] # "ok"
    /\ fetch_retries' = [fetch_retries EXCEPT ![Address(t)] = retriesRead[t]]
    /\ failures' = [failures EXCEPT ![Address(t)] = @ + 1]
    /\ Goto(t, "proxy")
    /\ UNCHANGED <<exists, abi, implementation, attempted, queue, msg, client, found,
                   proxied, retriesRead, faultVars>>

(* fetch_retries += 1 on the loaded row; the update writes that column. *)
StoreFailure(t) ==
    /\ pc[t] = "store"
    /\ found[t] # "ok"
    /\ fetch_retries' = [fetch_retries EXCEPT ![Address(t)] = retriesRead[t] + 1]
    /\ failures' = [failures EXCEPT ![Address(t)] = @ + 1]
    /\ Goto(t, "proxy")
    /\ UNCHANGED <<exists, abi, implementation, attempted, queue, msg, client, found,
                   proxied, retriesRead, faultVars>>

(* abi_id, name and, if there is one, the implementation are written, also  *)
(* when they are what was read: the rollback in get_or_create_abi has made  *)
(* the session forget it.                                                   *)
StoreMetadata(t) ==
    /\ pc[t] = "store"
    /\ found[t] = "ok"
    /\ abi' = abi \union {Address(t)}
    /\ implementation' = IF proxied[t] = NoContract THEN implementation
                           ELSE [implementation EXCEPT ![Address(t)] = proxied[t]]
    /\ Goto(t, "invalidate")
    /\ UNCHANGED <<exists, fetch_retries, attempted, queue, msg, client, found, proxied,
                   retriesRead, failures, faultVars>>

(* contract.update() of a row that is gone changes no row, which SQLAlchemy *)
(* raises as an error: the execution fails and the message comes again.     *)
UpdateGone(t) ==
    /\ pc[t] = "gone"
    /\ queue' = queue \union {msg[t]}
    /\ End(t)
    /\ UNCHANGED <<tableVars, attempted, failures, faultVars>>

(* Mutant of InvalidateCache: the task returns when it has stored an ABI. *)
InvalidateAndReturn(t) ==
    /\ pc[t] = "invalidate"
    /\ End(t)
    /\ UNCHANGED <<tableVars, attempted, queue, failures, faultVars>>

(* del_contract_cache: the cached answers of the API, which no task reads. *)
InvalidateCache(t) ==
    /\ pc[t] = "invalidate"
    /\ Goto(t, "proxy")
    /\ UNCHANGED <<tableVars, attempted, queue, msg, client, found, proxied,
                   retriesRead, failures, faultVars>>

(* get_proxy_implementation_address: the implementation gets a task. *)
SendProxy(t) ==
    /\ pc[t] = "proxy"
    /\ Send({proxied[t]} \ {NoContract}, FALSE)
    /\ End(t)
    /\ UNCHANGED <<tableVars, attempted, failures, faultVars>>

Fault ==
    /\ faults < MaxFaults
    /\ faults' = faults + 1

(* The implementation an execution has read and not sent yet. *)
InHand(t) == IF pc[t] \in {"invalidate", "proxy"} THEN {proxied[t]} \ {NoContract} ELSE {}

(* Mutant of Crash: the message is acknowledged when it is taken. *)
CrashAndLose(t) ==
    /\ Fault
    /\ pc[t] # "idle"
    /\ unsent' = unsent \union (InHand(t) \ exists)
    /\ End(t)
    /\ UNCHANGED <<tableVars, attempted, queue, failures, administered>>

(* The execution fails or its process dies: Dramatiq delivers the message  *)
(* again, whatever the execution has done.                                 *)
Crash(t) ==
    /\ Fault
    /\ pc[t] # "idle"
    /\ queue' = queue \union {msg[t]}
    /\ unsent' = unsent \union (InHand(t) \ exists)
    /\ End(t)
    /\ UNCHANGED <<tableVars, attempted, failures, administered>>

-----------------------------------------------------------------------------
(* ContractAdmin: the forms show every column, and nothing else is told.    *)

Intervene(c) ==
    /\ Fault
    /\ administered' = administered \union {c}

(* The row is deleted, also under an execution that has loaded it. *)
AdminDelete(c) ==
    /\ Intervene(c)
    /\ c \in exists
    /\ exists' = exists \ {c}
    /\ abi' = abi \ {c}
    /\ fetch_retries' = [fetch_retries EXCEPT ![c] = 0]
    /\ implementation' = [implementation EXCEPT ![c] = NoContract]
    /\ pc' = [t \in Tasks |-> IF pc[t] = "store" /\ Address(t) = c THEN "gone" ELSE pc[t]]
    /\ UNCHANGED <<attempted, queue, msg, client, found, proxied, retriesRead, failures,
                   unsent>>

(* A row is created, or one that is there gets the values of the form. *)
AdminSave(c, cs, n, i) ==
    /\ Intervene(c)
    /\ exists' = exists \union {c}
    /\ abi' = (abi \ {c}) \union cs
    /\ fetch_retries' = [fetch_retries EXCEPT ![c] = n]
    /\ implementation' = [implementation EXCEPT ![c] = i]
    /\ unsent' = unsent \ {c}
    /\ UNCHANGED <<attempted, queue, taskVars, failures>>

Administer(c) ==
    \/ AdminDelete(c)
    \/ \E cs \in SUBSET {c}, n \in EditedRetries, i \in Contract \union {NoContract} :
        AdminSave(c, cs, n, i)

-----------------------------------------------------------------------------

TaskStep(t) ==
    \/ CheckRedis(t)
    \/ CheckContract(t)
    \/ CacheNo(t)
    \/ AskNext(t)
    \/ \E answer \in {"bad", "ok"}, i \in Contract \union {NoContract} :
        ClientAnswers(t, answer, i)
    \/ NoClientAnswers(t)
    \/ GetOrCreate(t)
    \/ StoreFailure(t)
    \/ StoreMetadata(t)
    \/ UpdateGone(t)
    \/ InvalidateCache(t)
    \/ SendProxy(t)

Next ==
    \/ \E c \in Contract : ProcessEvent(c) \/ ExpireNo(c) \/ Administer(c)
    \/ GetMissingContractMetadata
    \/ UpdateProxies
    \/ \E t \in Tasks :
        \/ \E m \in Message : Take(t, m)
        \/ TaskStep(t)
        \/ Crash(t)

Spec == Init /\ [][Next]_vars

(* Explorers answer or time out, the database and Redis answer, Dramatiq    *)
(* hands out its messages in order to workers that keep becoming free, and  *)
(* periodiq sends the periodic tasks.  Events, faults, administrators and the  *)
(* expiry of a key are never owed.                                          *)
Fairness ==
    /\ \A t \in Tasks : WF_vars(TaskStep(t))
    /\ \A m \in Message : SF_vars(\E t \in Tasks : Take(t, m))
    /\ WF_vars(GetMissingContractMetadata)
    /\ WF_vars(UpdateProxies)

FairSpec == Spec /\ Fairness

-----------------------------------------------------------------------------
(* Properties. *)

(* CachedNoIsRight: the `no` that should_attempt_download keeps in Redis    *)
(* for a day, set after other tasks may have written the row, is never      *)
(* about a contract whose row would now say yes.  Only an administrator who *)
(* deletes or resets the row makes it wrong: nothing removes the key.       *)
CachedNoIsRight == \A c \in attempted : Settled(c) \/ c \in administered

(* FailuresRemembered: concurrent tasks lose increments of fetch_retries,   *)
(* which they read when they load the row and write later; still the column *)
(* of a row no administrator wrote never counts more failures than there    *)
(* were, and never forgets them all, so that a failed contract is left to   *)
(* the periodic task.                                                       *)
FailuresRemembered ==
    \A c \in Contract :
        \/ c \in administered
        \/ /\ fetch_retries[c] <= failures[c]
           /\ failures[c] > 0 => fetch_retries[c] > 0 /\ c \in exists

(* AbiKept: a task that failed with a row loaded before another stored the  *)
(* ABI does not take the ABI or the implementation away, and no other step  *)
(* but that of an administrator does.                                       *)
AbiKept ==
    [][\A c \in Contract :
        \/ Administer(c)
        \/ /\ c \in abi => c \in abi'
           /\ implementation[c] # NoContract => implementation'[c] # NoContract]_vars

(* TasksSettle: an execution of a task ends only with its contract in the   *)
(* table, with an ABI or with a failure counted, or with its message back   *)
(* in the queue; a `no` of Redis or of the row that was found before others *)
(* wrote is no exception, unless the other is an administrator.             *)
TasksSettle ==
    [][\A t \in Tasks, c \in Contract :
        pc[t] # "idle" /\ Address(t) = c /\ pc'[t] = "idle" =>
            Settled(c)' \/ msg[t] \in queue' \/ c \in administered']_vars

Waiting(c) ==
    \/ \E m \in queue : m.address = c
    \/ \E t \in Tasks : pc[t] # "idle" /\ Address(t) = c

(* ImplementationsSent: the implementation a row names is in the table or   *)
(* on its way: its task waits or runs, or the execution that stored it has  *)
(* still to send one.  The exceptions are an execution that died between    *)
(* the two, the message it leaves behind finds the ABI and sends nothing,   *)
(* and rows an administrator made name it or deleted.                       *)
ImplementationsSent ==
    \A c, i \in Contract :
        implementation[c] = i =>
            \/ i \in exists
            \/ Waiting(i)
            \/ \E t \in Tasks : i \in InHand(t)
            \/ i \in unsent
            \/ c \in administered \/ i \in administered

(* MessagesAreHandled: a contract somebody sent a task for ends up in the   *)
(* table, with an ABI or with a failure counted, whatever executions die;   *)
(* the `no` in Redis may outlive a row that an administrator took away.     *)
MessagesAreHandled ==
    \A c \in Contract :
        (\E m \in queue : m.address = c) ~> Settled(c) \/ c \in administered

(* ProxyFollowed: the implementation of a stored proxy ends up in the       *)
(* table, also if the execution dies between the two: its second delivery   *)
(* finds the ABI and stops, and only the daily update_proxies_task, which   *)
(* skips the check, sends the implementation again.                         *)
ProxyFollowed ==
    \A c, i \in Contract :
        implementation[c] = i ~> i \in exists \/ c \in administered \/ i \in administered

(* MissingRetried: a contract without an ABI is downloaded again by         *)
(* get_missing_contract_metadata_task until it has one or its retries are   *)
(* used up, which is one failure later than the docstring of                *)
(* get_contracts_without_abi says (FewerRetriesFetched), or until an        *)
(* administrator deletes its row.                                           *)
MissingRetried ==
    \A c \in Contract :
        (c \in exists \ abi) ~>
            \/ c \in abi
            \/ c \notin exists
            \/ fetch_retries[c] > CONTRACT_MAX_DOWNLOAD_RETRIES

(* UnscheduledStop: the tasks of events and of implementations stop         *)
(* downloading ("Just try the first time, following retries should be       *)
(* scheduled"), also when two contracts name each other as implementation   *)
(* or a deleted row starts them again.                                      *)
UnscheduledStop ==
    <>[](\A t \in Tasks : pc[t] = "ask" => msg[t].skip_attempt_download)

-----------------------------------------------------------------------------
(* What a task knows of the row of its contract, whatever others write. *)
TaskInv ==
    \A t \in Tasks :
        /\ pc[t] # "idle" => msg[t] \in Message
        /\ pc[t] \in {"settle", "invalidate", "proxy"} =>
            Settled(Address(t)) \/ Address(t) \in administered
        /\ pc[t] = "store" =>
            /\ Address(t) \in exists
            /\ retriesRead[t] <= failures[Address(t)] \/ Address(t) \in administered

IndInv ==
    /\ TypeOK
    /\ TaskInv
    /\ CachedNoIsRight
    /\ FailuresRemembered
    /\ ImplementationsSent

-----------------------------------------------------------------------------
(* What the code says of itself and does not hold. *)

(* FewerRetriesFetched: get_contracts_without_abi says that it "Fetches     *)
(* contracts without an ABI and fewer retries than max_retries".            *)
FewerRetriesFetched ==
    \A c \in ContractsWithoutAbi : fetch_retries[c] < CONTRACT_MAX_DOWNLOAD_RETRIES
==============================================================================
