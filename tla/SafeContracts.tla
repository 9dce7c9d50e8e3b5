------------------------------ MODULE SafeContracts ----------------------------
(***************************************************************************)
(* SafeContractsService and its tasks: the rows of the Safe deployments in *)
(* the contract table of each chain.                                       *)
(*                                                                         *)
(* create_safe_contracts_task_for_new_chains inserts the missing rows of a *)
(* chain, one transaction per row, under a Redis key that keeps others out. *)
(* The key expires, and whoever ends deletes it, also if it has become the *)
(* key of another task.  update_safe_contracts_info_task names, once an    *)
(* hour, the rows that something else created.                             *)
(***************************************************************************)
EXTENDS Integers, FiniteSets

CONSTANTS
    Chain,
    Deployments,     \* length of _get_default_deployments_by_version()
    Creator,         \* executions of the creating task
    NoChain,
    MaxSafeFaults    \* bound: failures, crashes, early expiries, deletions

ASSUME DeploymentsAssumption == Deployments \in Nat \ {0}
ASSUME NoChainAssumption == NoChain \notin Chain
ASSUME CreatorAssumption == IsFiniteSet(Creator)
ASSUME SafeFaultsAssumption == MaxSafeFaults \in Nat

(* The place of a deployment in the list. *)
Deployment == 1..Deployments

VARIABLES
    rows,          \* the deployments of each chain in the contract table
    named,         \* those with display_name and trusted_for_delegate_call
    safe_cache,    \* _safe_contracts_cache of the web process
    creates,       \* waiting messages of the creating task, by chain
    locked,        \* the chains whose key is in Redis
    cpc,           \* where each execution is
    chain,         \* its chain_id
    position,      \* the deployment its loop is at
    update,        \* the deployment the hourly task is at or will begin with
    expired,       \* history: how often the key of a chain expired under a task
    dropped,       \* history: the chains whose last message met a dead task's key
    deleted,       \* history: rows an administrator deleted
    safeFaults     \* history: how many faults there were

tableVars == <<rows, named, deleted>>
creatorVars == <<cpc, chain, position>>
safeVars == <<tableVars, safe_cache, creates, locked, creatorVars, update, expired, dropped,
              safeFaults>>

SafeTypeOK ==
    /\ rows \subseteq Chain \X Deployment
    /\ named \subseteq rows
    /\ safe_cache \subseteq Chain
    /\ creates \subseteq Chain
    /\ locked \subseteq Chain
    /\ cpc \in [Creator -> {"idle", "create", "release", "raise"}]
    /\ chain \in [Creator -> Chain \union {NoChain}]
    /\ position \in [Creator -> Deployment]
    /\ update \in Deployment
    /\ expired \in [Chain -> Nat]
    /\ dropped \subseteq Chain
    /\ deleted \subseteq Chain \X Deployment
    /\ safeFaults \in 0..MaxSafeFaults

SafeInit ==
    /\ rows = {}
    /\ named = {}
    /\ safe_cache = {}
    /\ creates = {}
    /\ locked = {}
    /\ cpc = [t \in Creator |-> "idle"]
    /\ chain = [t \in Creator |-> NoChain]
    /\ position = [t \in Creator |-> 1]
    /\ update = 1
    /\ expired = [ch \in Chain |-> 0]
    /\ dropped = {}
    /\ deleted = {}
    /\ safeFaults = 0

SafeFault ==
    /\ safeFaults < MaxSafeFaults
    /\ safeFaults' = safeFaults + 1

-----------------------------------------------------------------------------
(* The web process. *)

(* Mutant of ExistsSafeContracts: one of the rows is enough. *)
ExistsSafeContract(ch) == \E d \in Deployment : <<ch, d>> \in rows

(* Contract.exists_safe_contracts: as many rows as addresses. *)
ExistsSafeContracts(ch) == \A d \in Deployment : <<ch, d>> \in rows

(* safe_contracts_exist *)
SafeContractsExist(ch, answer) ==
    /\ answer = (ch \in safe_cache \/ ExistsSafeContracts(ch))
    /\ safe_cache' = IF answer THEN safe_cache \union {ch} ELSE safe_cache
    /\ UNCHANGED <<tableVars, creates, locked, creatorVars, update, expired, dropped, safeFaults>>

(* create_safe_contracts_task_for_new_chains.send *)
CreateSent(ch) ==
    /\ creates' = creates \union {ch}
    /\ dropped' = dropped \ {ch}
    /\ UNCHANGED <<tableVars, safe_cache, locked, creatorVars, update, expired, safeFaults>>

(* A new process has an empty cache. *)
ForgetCache ==
    /\ safe_cache' = {}
    /\ UNCHANGED <<tableVars, creates, locked, creatorVars, update, expired, dropped, safeFaults>>

-----------------------------------------------------------------------------
(* create_safe_contracts_task_for_new_chains *)

CreatorAt(t, label) == cpc' = [cpc EXCEPT ![t] = label]

EndCreator(t) ==
    /\ CreatorAt(t, "idle")
    /\ chain' = [chain EXCEPT ![t] = NoChain]
    /\ position' = [position EXCEPT ![t] = 1]

(* The executions past the key of a chain. *)
Creating(ch) == {t \in Creator : chain[t] = ch}

(* Mutant of AcquireLock: the key is set without nx. *)
OverwriteLock(t, ch) ==
    /\ cpc[t] = "idle"
    /\ ch \in creates
    /\ creates' = creates \ {ch}
    /\ locked' = locked \union {ch}
    /\ chain' = [chain EXCEPT ![t] = ch]
    /\ CreatorAt(t, "create")
    /\ UNCHANGED <<tableVars, safe_cache, position, update, expired, dropped, safeFaults>>

(* An execution takes a message.  SET with nx and ex: the key was not there. *)
AcquireLock(t, ch) ==
    /\ cpc[t] = "idle"
    /\ ch \in creates
    /\ ch \notin locked
    /\ creates' = creates \ {ch}
    /\ locked' = locked \union {ch}
    /\ chain' = [chain EXCEPT ![t] = ch]
    /\ CreatorAt(t, "create")
    /\ UNCHANGED <<tableVars, safe_cache, position, update, expired, dropped, safeFaults>>

(* "Another task is already creating": the execution returns, and its       *)
(* message is done, also if the key belongs to a task that died.            *)
FindLock(t, ch) ==
    /\ cpc[t] = "idle"
    /\ ch \in creates
    /\ ch \in locked
    /\ creates' = creates \ {ch}
    /\ dropped' = IF Creating(ch) = {} THEN dropped \union {ch} ELSE dropped
    /\ UNCHANGED <<tableVars, safe_cache, locked, creatorVars, update, expired, safeFaults>>

(* Contract.get_or_create: a row that is there is left as it is. *)
InsertMissing(r) ==
    /\ rows' = rows \union {r}
    /\ named' = IF r \in rows THEN named ELSE named \union {r}
    /\ deleted' = deleted \ {r}

(* The loop of create_safe_contracts. *)
CreateNext(t) ==
    /\ cpc[t] = "create"
    /\ InsertMissing(<<chain[t], position[t]>>)
    /\ IF position[t] < Deployments
         THEN position' = [position EXCEPT ![t] = @ + 1] /\ UNCHANGED cpc
         ELSE CreatorAt(t, "release") /\ UNCHANGED position
    /\ UNCHANGED <<safe_cache, creates, locked, chain, update, expired, dropped, safeFaults>>

(* The database fails: `finally` and then a retry. *)
FailCreate(t) ==
    /\ cpc[t] = "create"
    /\ SafeFault
    /\ CreatorAt(t, "raise")
    /\ UNCHANGED <<tableVars, safe_cache, creates, locked, chain, position, update, expired,
                   dropped>>

(* Mutant of ReleaseLock: an error is logged in the task. *)
ReleaseAndForget(t) ==
    /\ cpc[t] \in {"release", "raise"}
    /\ locked' = locked \ {chain[t]}
    /\ EndCreator(t)
    /\ UNCHANGED <<tableVars, safe_cache, creates, update, expired, dropped, safeFaults>>

(* finally: the key is deleted, whoever set it.  Dramatiq retries the       *)
(* message of an execution that raised.                                     *)
ReleaseLock(t) ==
    /\ cpc[t] \in {"release", "raise"}
    /\ locked' = locked \ {chain[t]}
    /\ creates' = IF cpc[t] = "raise" THEN creates \union {chain[t]} ELSE creates
    /\ EndCreator(t)
    /\ UNCHANGED <<tableVars, safe_cache, update, expired, dropped, safeFaults>>

(* The worker dies: the key stays and the message is delivered again. *)
CrashCreate(t) ==
    /\ cpc[t] # "idle"
    /\ SafeFault
    /\ creates' = creates \union {chain[t]}
    /\ EndCreator(t)
    /\ UNCHANGED <<tableVars, safe_cache, locked, update, expired, dropped>>

(* The key of a dead task expires after 300 seconds. *)
ExpireDeadLock(ch) ==
    /\ ch \in locked
    /\ Creating(ch) = {}
    /\ locked' = locked \ {ch}
    /\ UNCHANGED <<tableVars, safe_cache, creates, creatorVars, update, expired, dropped,
                   safeFaults>>

(* The creation takes longer than 300 seconds. *)
ExpireHeldLock(ch) ==
    /\ ch \in locked
    /\ Creating(ch) # {}
    /\ SafeFault
    /\ locked' = locked \ {ch}
    /\ expired' = [expired EXCEPT ![ch] = @ + 1]
    /\ UNCHANGED <<tableVars, safe_cache, creates, creatorVars, update, dropped>>

-----------------------------------------------------------------------------
(* Other writers of the rows. *)

(* process_contract_metadata of get_contract_metadata_task: get_or_create   *)
(* without a display_name.                                                  *)
DownloadCreates(ch, d) ==
    /\ <<ch, d>> \notin rows
    /\ rows' = rows \union {<<ch, d>>}
    /\ deleted' = deleted \ {<<ch, d>>}
    /\ UNCHANGED <<named, safe_cache, creates, locked, creatorVars, update, expired, dropped,
                   safeFaults>>

(* The view of the administrators has the deletion of sqladmin. *)
AdminDelete(ch, d) ==
    /\ <<ch, d>> \in rows
    /\ SafeFault
    /\ rows' = rows \ {<<ch, d>>}
    /\ named' = named \ {<<ch, d>>}
    /\ deleted' = deleted \union {<<ch, d>>}
    /\ UNCHANGED <<safe_cache, creates, locked, creatorVars, update, expired, dropped>>

(* Mutant of UpdateNext: the task ends at a deployment without rows. *)
UpdateUntilMissing ==
    /\ named' = named \union {r \in rows : r[2] = update}
    /\ update' = IF update < Deployments /\ \E r \in rows : r[2] = update
                   THEN update + 1 ELSE 1
    /\ UNCHANGED <<rows, deleted, safe_cache, creates, locked, creatorVars, expired, dropped,
                   safeFaults>>

(* update_safe_contracts_info_task, which periodiq starts every hour: one   *)
(* update_contract_info after the other, each for all chains.               *)
UpdateNext ==
    /\ named' = named \union {r \in rows : r[2] = update}
    /\ update' = IF update < Deployments THEN update + 1 ELSE 1
    /\ UNCHANGED <<rows, deleted, safe_cache, creates, locked, creatorVars, expired, dropped,
                   safeFaults>>

(* The task fails or dies; Dramatiq starts it again. *)
FailUpdate ==
    /\ update > 1
    /\ SafeFault
    /\ update' = 1
    /\ UNCHANGED <<tableVars, safe_cache, creates, locked, creatorVars, expired, dropped>>

CreatorStep(t) ==
    \/ CreateNext(t)
    \/ ReleaseLock(t)

(* What happens outside the web process. *)
WorkerNext ==
    \/ \E t \in Creator :
        \/ \E ch \in Chain : AcquireLock(t, ch) \/ FindLock(t, ch)
        \/ CreatorStep(t)
        \/ FailCreate(t)
        \/ CrashCreate(t)
    \/ \E ch \in Chain : ExpireDeadLock(ch) \/ ExpireHeldLock(ch)
    \/ \E ch \in Chain, d \in Deployment : AdminDelete(ch, d)
    \/ UpdateNext
    \/ FailUpdate

SafeNext ==
    \/ \E ch \in Chain :
        \/ \E answer \in BOOLEAN : SafeContractsExist(ch, answer)
        \/ CreateSent(ch)
        \/ \E d \in Deployment : DownloadCreates(ch, d)
    \/ ForgetCache
    \/ WorkerNext

SafeSpec == SafeInit /\ [][SafeNext]_safeVars

-----------------------------------------------------------------------------
(* Properties. *)

Complete(ch) == \A d \in Deployment : <<ch, d>> \in rows \union deleted

(* CachedMeansComplete: a chain that safe_contracts_exist remembers, and    *)
(* will not look up or send a creation for until the process restarts, has  *)
(* all its deployments; a creation that died half way is never taken for a  *)
(* complete one.  The exception are rows an administrator deletes.          *)
CachedMeansComplete == \A ch \in safe_cache : Complete(ch)

(* CreatorsBounded: the Redis key does not keep creations of a chain apart: *)
(* it expires under its holder, and the holder then deletes the key of the  *)
(* next one, which lets in a third.  Still there is at most one execution   *)
(* more than keys that expired.                                             *)
CreatorsBounded ==
    \A ch \in Chain : Cardinality(Creating(ch)) <= expired[ch] + 1

(* What CreatorsBounded rests on: without the key, one less. *)
LockInv ==
    \A ch \in Chain :
        ch \notin locked => Cardinality(Creating(ch)) <= expired[ch]

ChainInv == \A t \in Creator : cpc[t] = "idle" <=> chain[t] = NoChain

(* An execution has inserted the deployments it has passed. *)
ProgressInv ==
    \A t \in Creator :
        /\ cpc[t] = "idle" => position[t] = 1
        /\ cpc[t] = "create" => \A d \in 1..(position[t] - 1) :
                                  <<chain[t], d>> \in rows \union deleted
        /\ cpc[t] = "release" => Complete(chain[t])

(* The creation of a chain is done, waits in the queue, runs, or was given  *)
(* up by an execution that met the key of a dead one.                       *)
Owed(ch) ==
    \/ Complete(ch)
    \/ ch \in creates
    \/ Creating(ch) # {}
    \/ ch \in dropped

SafeInv ==
    /\ SafeTypeOK
    /\ ChainInv
    /\ CachedMeansComplete
    /\ LockInv
    /\ CreatorsBounded
    /\ ProgressInv
==============================================================================
