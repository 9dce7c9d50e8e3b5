----------------------------- MODULE ResponseCache -----------------------------
(***************************************************************************)
(* The cached answers of the contracts endpoint (cache_response) and their *)
(* invalidation (del_contract_cache).                                      *)
(*                                                                         *)
(* The answers about an address are the fields of one Redis hash, a field  *)
(* per query.  A request that misses reads the database, stores its field, *)
(* and gives the hash an expiry if it has none; a task that stored an ABI  *)
(* unlinks the hash.  Each Redis command is a step of its own.             *)
(*                                                                         *)
(* The module follows one address.  What the database has about it is a    *)
(* version number, one more with each write.                               *)
(***************************************************************************)
EXTENDS Integers

CONSTANTS
    Field,         \* the different queries about the address
    Requests,      \* concurrent requests
    Tasks,         \* concurrent get_contract_metadata_task executions
    MaxVersion,    \* bound: writes of the rows of the address
    MaxFaults      \* bound: requests and tasks that die on the way

ASSUME BoundAssumption == MaxVersion \in Nat /\ MaxFaults \in Nat

(* A field that is not in the hash. *)
NoAnswer == -1

VARIABLES
    version,       \* of the rows of the address
    hash,          \* the version each cached answer shows
    timed,         \* whether the hash has an expiry
    pc,            \* where each request is
    field,         \* its query
    response,      \* the version it has read
    written,       \* the version each task has written and not invalidated, or NoAnswer
    invalidated,   \* history: the last version whose task unlinked the hash
    late,          \* history: the fields filled with a version older than that
    orphaned,      \* history: a request died before it gave this hash an expiry
    faults         \* history: how many requests and tasks died

cacheVars == <<hash, timed>>
requestVars == <<pc, field, response>>
historyVars == <<invalidated, late, orphaned, faults>>
vars == <<version, cacheVars, requestVars, written, historyVars>>

TypeOK ==
    /\ version \in Nat
    /\ hash \in [Field -> Nat \union {NoAnswer}]
    /\ timed \in BOOLEAN
    /\ pc \in [Requests -> {"idle", "read", "hset", "ttl", "expire"}]
    /\ field \in [Requests -> Field]
    /\ response \in [Requests -> Nat \union {NoAnswer}]
    /\ written \in [Tasks -> Nat \union {NoAnswer}]
    /\ invalidated \in Nat
    /\ late \subseteq Field
    /\ orphaned \in BOOLEAN
    /\ faults \in 0..MaxFaults

NoHash == [f \in Field |-> NoAnswer]

Init ==
    /\ version = 0
    /\ hash = NoHash
    /\ timed = FALSE
    /\ pc = [r \in Requests |-> "idle"]
    /\ \E f \in Field : field = [r \in Requests |-> f]
    /\ response = [r \in Requests |-> NoAnswer]
    /\ written = [t \in Tasks |-> NoAnswer]
    /\ invalidated = 0
    /\ late = {}
    /\ orphaned = FALSE
    /\ faults = 0

Goto(r, label) == pc' = [pc EXCEPT ![r] = label]

Finish(r) ==
    /\ Goto(r, "idle")
    /\ response' = [response EXCEPT ![r] = NoAnswer]

-----------------------------------------------------------------------------
(* A request: the wrapper of cache_response. *)

(* HGET: a hit is the answer, a miss calls the endpoint. *)
Lookup(r, f) ==
    /\ pc[r] = "idle"
    /\ hash[f] = NoAnswer
    /\ field' = [field EXCEPT ![r] = f]
    /\ Goto(r, "read")
    /\ UNCHANGED <<version, cacheVars, response, written, historyVars>>

(* list_contracts: two queries, the page and then the count.  The answer is *)
(* as old as its page.                                                      *)
ListContracts(r) ==
    /\ pc[r] = "read"
    /\ response' = [response EXCEPT ![r] = version]
    /\ Goto(r, "hset")
    /\ UNCHANGED <<version, cacheVars, field, written, historyVars>>

(* An address that is not checksummed, or an error of the database. *)
Reject(r) ==
    /\ pc[r] = "read"
    /\ Finish(r)
    /\ UNCHANGED <<version, cacheVars, field, written, historyVars>>

(* HSET creates the hash, without an expiry, or adds to it. *)
HSet(r) ==
    /\ pc[r] = "hset"
    /\ hash' = [hash EXCEPT ![field[r]] = response[r]]
    /\ late' = IF response[r] < invalidated THEN late \union {field[r]}
                                            ELSE late \ {field[r]}
    /\ Goto(r, "ttl")
    /\ UNCHANGED <<version, timed, field, response, written, invalidated, orphaned, faults>>

(* Mutant of CheckTtl: the first field of a hash is the one that has to. *)
CheckTtlOfFirst(r) ==
    /\ pc[r] = "ttl"
    /\ IF ~timed /\ \A f \in Field : hash[f] # NoAnswer => f = field[r]
         THEN Goto(r, "expire") /\ UNCHANGED response
         ELSE Finish(r)
    /\ UNCHANGED <<version, cacheVars, field, written, historyVars>>

(* TTL is -1: there is a hash, without an expiry. *)
CheckTtl(r) ==
    /\ pc[r] = "ttl"
    /\ IF hash # NoHash /\ ~timed
         THEN Goto(r, "expire") /\ UNCHANGED response
         ELSE Finish(r)
    /\ UNCHANGED <<version, cacheVars, field, written, historyVars>>

(* Mutant of Expire: EXPIRE with XX, only where there is an expiry. *)
ExpireExisting(r) ==
    /\ pc[r] = "expire"
    /\ Finish(r)
    /\ UNCHANGED <<version, cacheVars, field, written, historyVars>>

(* EXPIRE does nothing without a hash. *)
Expire(r) ==
    /\ pc[r] = "expire"
    /\ timed' = (timed \/ hash # NoHash)
    /\ orphaned' = (orphaned /\ hash = NoHash)
    /\ Finish(r)
    /\ UNCHANGED <<version, hash, field, written, invalidated, late, faults>>

(* The request is cancelled, or its process or Redis fails. *)
Die(r) ==
    /\ faults < MaxFaults
    /\ faults' = faults + 1
    /\ pc[r] # "idle"
    /\ orphaned' = (orphaned \/ (pc[r] \in {"ttl", "expire"} /\ hash # NoHash /\ ~timed))
    /\ Finish(r)
    /\ UNCHANGED <<version, cacheVars, field, written, invalidated, late>>

-----------------------------------------------------------------------------
(* What happens to the rows and to the hash. *)

DropHash ==
    /\ hash' = NoHash
    /\ timed' = FALSE
    /\ late' = {}
    /\ orphaned' = FALSE

(* Redis drops the hash at the end of its expiry. *)
Expiry ==
    /\ timed
    /\ DropHash
    /\ UNCHANGED <<version, requestVars, written, invalidated, faults>>

(* process_contract_metadata commits, ... *)
StoreMetadata(t) ==
    /\ version < MaxVersion
    /\ written[t] = NoAnswer
    /\ version' = version + 1
    /\ written' = [written EXCEPT ![t] = version']
    /\ UNCHANGED <<cacheVars, requestVars, historyVars>>

(* Mutant of Unlink: HDEL of one query. *)
UnlinkField(t) ==
    /\ written[t] # NoAnswer
    /\ \E f \in Field : hash' = [hash EXCEPT ![f] = NoAnswer] /\ late' = late \ {f}
    /\ timed' = (timed /\ hash' # NoHash)
    /\ orphaned' = (orphaned /\ hash' # NoHash)
    /\ invalidated' = IF written[t] > invalidated THEN written[t] ELSE invalidated
    /\ written' = [written EXCEPT ![t] = NoAnswer]
    /\ UNCHANGED <<version, requestVars, faults>>

(* ... and then del_contract_cache unlinks the hash. *)
Unlink(t) ==
    /\ written[t] # NoAnswer
    /\ DropHash
    /\ invalidated' = IF written[t] > invalidated THEN written[t] ELSE invalidated
    /\ written' = [written EXCEPT ![t] = NoAnswer]
    /\ UNCHANGED <<version, requestVars, faults>>

(* The task dies in between: its second delivery finds the ABI and stops.  *)
(* One that skips the check of the row is a StoreMetadata of its own.      *)
TaskDies(t) ==
    /\ faults < MaxFaults
    /\ faults' = faults + 1
    /\ written[t] # NoAnswer
    /\ written' = [written EXCEPT ![t] = NoAnswer]
    /\ UNCHANGED <<version, cacheVars, requestVars, invalidated, late, orphaned>>

(* A download that failed, create_safe_contracts, update_safe_contracts_info *)
(* and the command line write rows and do not invalidate.                    *)
WriteQuietly ==
    /\ version < MaxVersion
    /\ version' = version + 1
    /\ UNCHANGED <<cacheVars, requestVars, written, historyVars>>

RequestStep(r) ==
    \/ ListContracts(r)
    \/ Reject(r)
    \/ HSet(r)
    \/ CheckTtl(r)
    \/ Expire(r)

Next ==
    \/ \E r \in Requests :
        \/ \E f \in Field : Lookup(r, f)
        \/ RequestStep(r)
        \/ Die(r)
    \/ Expiry
    \/ \E t \in Tasks : StoreMetadata(t) \/ Unlink(t) \/ TaskDies(t)
    \/ WriteQuietly

Spec == Init /\ [][Next]_vars

(* Requests and tasks go on or die, and time passes. *)
Fairness ==
    /\ \A r \in Requests : WF_vars(RequestStep(r))
    /\ \A t \in Tasks : WF_vars(Unlink(t))
    /\ WF_vars(Expiry)

FairSpec == Spec /\ Fairness

-----------------------------------------------------------------------------
(* Properties. *)

(* EveryHashExpires: whatever requests fill the hash while tasks unlink it  *)
(* and it expires, a hash without an expiry has a request on its way that   *)
(* gives it one, unless the request that should have has died.              *)
EveryHashExpires ==
    hash # NoHash /\ ~timed =>
        orphaned \/ \E r \in Requests : pc[r] \in {"ttl", "expire"}

(* OnlyLateFillsAreStale: after del_contract_cache, an answer older than    *)
(* what the task stored is served only if a request that had read the rows  *)
(* before stored it afterwards.                                             *)
OnlyLateFillsAreStale ==
    \A f \in Field : hash[f] # NoAnswer /\ hash[f] < invalidated => f \in late

(* StaleLeaves: an answer that is older than the rows, filled too late or   *)
(* never invalidated (also because the task died after it wrote), does not  *)
(* stay: it expires or is replaced, unless the hash was left without an     *)
(* expiry.                                                                  *)
StaleLeaves ==
    \A f \in Field :
        (hash[f] # NoAnswer /\ hash[f] < version) ~>
            (hash[f] = NoAnswer \/ hash[f] = version \/ orphaned)
==============================================================================
