------------------------------ MODULE AbiDecoder ------------------------------
(***************************************************************************)
(* How an ABI travels from the `abi` table of the database to the selector *)
(* table the web process decodes with.                                     *)
(*                                                                         *)
(*  - Dramatiq workers store downloaded ABIs (Abi.get_or_create_abi).      *)
(*  - The web process stores the ABIs shipped with the code at startup     *)
(*    (AbiService), builds its table (DataDecoderService.init) and         *)
(*    refreshes it before every decoding (load_new_abis), reading only the *)
(*    rows whose id is above a cursor, `last_abi_id`, under an asyncio     *)
(*    lock that a request waits for 10 ms at most.                         *)
(*                                                                         *)
(* A database transaction is an INSERT, which takes the next value of the  *)
(* id sequence, and a COMMIT; other sessions see the row from the COMMIT   *)
(* on.  A step of a request is the code between two awaits.                *)
(***************************************************************************)
EXTENDS Integers, Sequences, FiniteSets

CONSTANTS
    Abi,            \* the different ABI JSONs (abi_hash identifies one)
    NoAbi,          \* a selector without a function in the table
    Selector,       \* the 4-byte selectors
    SelectorsOf,    \* the selectors of the functions of each ABI
    LocalAbis,      \* the ABIs shipped with the code: <<[abi, relevance], ...>>
    Workers,        \* concurrent worker tasks, a database session each
    Web,            \* the database session of the startup of the web process
    Requests,       \* concurrent requests to the data decoder endpoint
    Free,           \* nobody holds lock_load_new_abis
    MaxId,          \* bound: workers insert while the sequence is within it
    MaxFaults       \* bound: aborted transactions, failed loads and crashes

(* Python's None as a value of last_abi_id: sequence values start at 1. *)
NoId == 0

LocalAbi == [abi : Abi, relevance : Nat]

Sessions == Workers \union {Web}

ASSUME AbiAssumption == NoAbi \notin Abi
ASSUME SelectorAssumption == SelectorsOf \in [Abi -> SUBSET Selector]
ASSUME LocalAssumption == LocalAbis \in Seq(LocalAbi)
ASSUME WebAssumption == Web \notin Workers
ASSUME FreeAssumption == Free \notin Requests
ASSUME BoundAssumption == MaxId \in Nat /\ MaxFaults \in Nat

VARIABLES
    rows,            \* the committed rows of the table abi
    nextId,          \* the next value of its id sequence
    txState,         \* of each session: "none", "insert", "inserted", "conflict"
    txRow,           \* the row each session is inserting
    web,             \* the web process: "down", "local", "store", "init", "table", "ready"
    nextLocal,       \* the local ABI the startup is at
    last_abi_id,     \* the cursor
    fn_selectors_with_abis,  \* the table: the ABI each selector is decoded with
    lock_load_new_abis,      \* the request that holds the lock, or Free
    rpc,             \* where each request is
    previous_last_abi_id,    \* the cursor it found
    todo,            \* the rows of its result set it has still to add
    seen,            \* history: the rows committed when it arrived
    overtaken,       \* history: the rows committed after a row of a higher id
    dropped,         \* history: the rows a failed load had still to add
    faults           \* history: how many faults happened

dbVars == <<rows, nextId, txState, txRow>>
webVars == <<web, nextLocal>>
tableVars == <<last_abi_id, fn_selectors_with_abis>>
requestVars == <<lock_load_new_abis, rpc, previous_last_abi_id, todo, seen>>
historyVars == <<overtaken, dropped, faults>>
vars == <<dbVars, webVars, tableVars, requestVars, historyVars>>

Row == [id : Nat, abi : Abi \union {NoAbi}, relevance : Nat]

NoRow == [id |-> 0, abi |-> NoAbi, relevance |-> 0]

EmptyTable == [s \in Selector |-> NoAbi]

TypeOK ==
    /\ rows \subseteq Row
    /\ nextId \in Nat \ {0}
    /\ txState \in [Sessions -> {"none", "insert", "inserted", "conflict"}]
    /\ txRow \in [Sessions -> Row]
    /\ web \in {"down", "local", "store", "init", "table", "ready"}
    /\ nextLocal \in 1..(Len(LocalAbis) + 1)
    /\ last_abi_id \in Nat
    /\ fn_selectors_with_abis \in [Selector -> Abi \union {NoAbi}]
    /\ lock_load_new_abis \in Requests \union {Free}
    /\ rpc \in [Requests -> {"idle", "wait", "cursor", "stream", "adding",
                             "decode", "decode_stale", "error"}]
    /\ previous_last_abi_id \in [Requests -> Nat]
    /\ todo \in [Requests -> SUBSET Row]
    /\ seen \in [Requests -> SUBSET Row]
    /\ overtaken \subseteq Row
    /\ dropped \subseteq Row
    /\ faults \in 0..MaxFaults

Init ==
    /\ rows = {}
    /\ nextId = 1
    /\ txState = [s \in Sessions |-> "none"]
    /\ txRow = [s \in Sessions |-> NoRow]
    /\ web = "down"
    /\ nextLocal = 1
    /\ last_abi_id = NoId
    /\ fn_selectors_with_abis = EmptyTable
    /\ lock_load_new_abis = Free
    /\ rpc = [r \in Requests |-> "idle"]
    /\ previous_last_abi_id = [r \in Requests |-> NoId]
    /\ todo = [r \in Requests |-> {}]
    /\ seen = [r \in Requests |-> {}]
    /\ overtaken = {}
    /\ dropped = {}
    /\ faults = 0

Fault ==
    /\ faults < MaxFaults
    /\ faults' = faults + 1

-----------------------------------------------------------------------------
(* The database. *)

Defines(row, s) == row.abi \in Abi /\ s \in SelectorsOf[row.abi]

Stored(a) == \E row \in rows : row.abi = a

(* Abi.get_last_inserted_id: the highest committed id, None without rows. *)
IsLastInsertedId(n) ==
    \/ rows = {} /\ n = NoId
    \/ /\ \E row \in rows : row.id = n
       /\ \A row \in rows : row.id <= n

(* Abi.get_abis_sorted_by_relevance: the rows in an order that never       *)
(* decreases in relevance; rows of one relevance come in any order.        *)
SortedByRelevance(rs) ==
    {q \in [1..Cardinality(rs) -> rs] :
        /\ \A row \in rs : \E i \in DOMAIN q : q[i] = row
        /\ \A i, j \in DOMAIN q : i < j => q[i].relevance <= q[j].relevance}

(* The next row of a result set that is read in the order of the load: by  *)
(* relevance for the whole table, by id for the rows above the cursor.     *)
IsNextRow(row, rs, prev) ==
    /\ row \in rs
    /\ \A other \in rs : IF prev = NoId THEN row.relevance <= other.relevance
                                        ELSE row.id <= other.id

(* The INSERT of a new row takes its id from the sequence. *)
BeginInsert(s, a, relevance) ==
    /\ txState[s] = "none"
    /\ txState' = [txState EXCEPT ![s] = "insert"]
    /\ txRow' = [txRow EXCEPT ![s] = [id |-> nextId, abi |-> a, relevance |-> relevance]]
    /\ nextId' = nextId + 1
    /\ UNCHANGED rows

(* Mutant of Insert: abi_hash is not unique. *)
InsertWithoutIndex(s) ==
    /\ txState[s] = "insert"
    /\ txState' = [txState EXCEPT ![s] = "inserted"]
    /\ UNCHANGED <<rows, nextId, txRow, webVars, tableVars, requestVars, historyVars>>

(* The unique index on abi_hash: the INSERT fails if the ABI is committed, *)
(* waits while another transaction has it uncommitted, and succeeds else.  *)
Insert(s) ==
    /\ txState[s] = "insert"
    /\ \/ /\ Stored(txRow[s].abi)
          /\ txState' = [txState EXCEPT ![s] = "conflict"]
       \/ /\ ~Stored(txRow[s].abi)
          /\ \A other \in Sessions :
                txState[other] = "inserted" => txRow[other].abi # txRow[s].abi
          /\ txState' = [txState EXCEPT ![s] = "inserted"]
    /\ UNCHANGED <<rows, nextId, txRow, webVars, tableVars, requestVars, historyVars>>

EndTransaction(s) ==
    /\ txState' = [txState EXCEPT ![s] = "none"]
    /\ txRow' = [txRow EXCEPT ![s] = NoRow]

CommitRow(s) ==
    /\ txState[s] = "inserted"
    /\ rows' = rows \union {txRow[s]}
    /\ overtaken' = IF \E row \in rows : row.id > txRow[s].id
                      THEN overtaken \union {txRow[s]} ELSE overtaken
    /\ EndTransaction(s)
    /\ UNCHANGED <<nextId, dropped, faults>>

-----------------------------------------------------------------------------
(* A worker: Abi.get_or_create_abi with the relevance of a downloaded ABI. *)

GetOrCreateAbi(w, a) ==
    /\ nextId <= MaxId
    /\ BeginInsert(w, a, 0)
    /\ UNCHANGED <<webVars, tableVars, requestVars, historyVars>>

Commit(w) ==
    /\ CommitRow(w)
    /\ UNCHANGED <<webVars, tableVars, requestVars>>

(* IntegrityError: roll back and return the existing row. *)
ReturnExisting(w) ==
    /\ txState[w] = "conflict"
    /\ Stored(txRow[w].abi)
    /\ EndTransaction(w)
    /\ UNCHANGED <<rows, nextId, webVars, tableVars, requestVars, historyVars>>

(* The transaction of a worker is rolled back: a lost connection, the      *)
(* idle-in-transaction timeout, or the worker is killed.                   *)
Abort(w) ==
    /\ Fault
    /\ txState[w] # "none"
    /\ EndTransaction(w)
    /\ UNCHANGED <<rows, nextId, webVars, tableVars, requestVars, overtaken, dropped>>

-----------------------------------------------------------------------------
(* The startup of the web process (lifespan). *)

StartWeb ==
    /\ web = "down"
    /\ web' = "local"
    /\ nextLocal' = 1
    /\ UNCHANGED <<dbVars, tableVars, requestVars, historyVars>>

(* _store_abis_in_database: Abi.get_abi of the next local ABI. *)
CheckLocalAbi ==
    /\ web = "local"
    /\ nextLocal <= Len(LocalAbis)
    /\ \/ /\ Stored(LocalAbis[nextLocal].abi)
          /\ nextLocal' = nextLocal + 1
          /\ UNCHANGED web
       \/ /\ ~Stored(LocalAbis[nextLocal].abi)
          /\ web' = "store"
          /\ UNCHANGED nextLocal
    /\ UNCHANGED <<dbVars, tableVars, requestVars, historyVars>>

StoreLocalAbi ==
    /\ web = "store"
    /\ BeginInsert(Web, LocalAbis[nextLocal].abi, LocalAbis[nextLocal].relevance)
    /\ UNCHANGED <<webVars, tableVars, requestVars, historyVars>>

(* Mutant of CommitLocalAbi: the loop steps over the next ABI. *)
CommitLocalAbiAndSkip ==
    /\ CommitRow(Web)
    /\ web' = "local"
    /\ nextLocal' = nextLocal + 2
    /\ UNCHANGED <<tableVars, requestVars>>

CommitLocalAbi ==
    /\ CommitRow(Web)
    /\ web' = "local"
    /\ nextLocal' = nextLocal + 1
    /\ UNCHANGED <<tableVars, requestVars>>

(* Mutant of StartupFails: the error is caught and the session not rolled    *)
(* back, so that each of its later statements fails.                         *)
StartupKeepsTransaction == txState[Web] = "conflict" /\ UNCHANGED vars

(* The IntegrityError of a local ABI is not caught: the startup fails. *)
StartupFails ==
    /\ txState[Web] = "conflict"
    /\ EndTransaction(Web)
    /\ web' = "down"
    /\ UNCHANGED <<rows, nextId, nextLocal, tableVars, requestVars, historyVars>>

LocalAbisLoaded ==
    /\ web = "local"
    /\ nextLocal = Len(LocalAbis) + 1
    /\ web' = "init"
    /\ UNCHANGED <<dbVars, nextLocal, tableVars, requestVars, historyVars>>

(* DataDecoderService.init: the cursor is read before the table is built. *)
InitCursor ==
    /\ web = "init"
    /\ web' = "table"
    /\ \E n \in 0..nextId : IsLastInsertedId(n) /\ last_abi_id' = n
    /\ UNCHANGED <<dbVars, nextLocal, fn_selectors_with_abis, requestVars, historyVars>>

(* _generate_selectors_with_abis_from_abis: table has for each selector the *)
(* last ABI of q that defines it.                                           *)
LastWins(table, q) ==
    \A s \in Selector :
        \/ /\ table[s] = NoAbi
           /\ \A i \in DOMAIN q : ~Defines(q[i], s)
        \/ \E i \in DOMAIN q :
            /\ table[s] = q[i].abi
            /\ Defines(q[i], s)
            /\ \A j \in DOMAIN q : j > i => ~Defines(q[j], s)

InitTable ==
    /\ web = "table"
    /\ web' = "ready"
    /\ \E q \in SortedByRelevance(rows), table \in [Selector -> Abi \union {NoAbi}] :
        LastWins(table, q) /\ fn_selectors_with_abis' = table
    /\ overtaken' = {}
    /\ dropped' = {}
    /\ UNCHANGED <<dbVars, nextLocal, last_abi_id, requestVars, faults>>

(* The web process dies, with the transaction and the requests it had. *)
WebCrash ==
    /\ Fault
    /\ web # "down"
    /\ web' = "down"
    /\ nextLocal' = 1
    /\ EndTransaction(Web)
    /\ last_abi_id' = NoId
    /\ fn_selectors_with_abis' = EmptyTable
    /\ lock_load_new_abis' = Free
    /\ rpc' = [r \in Requests |-> "idle"]
    /\ previous_last_abi_id' = [r \in Requests |-> NoId]
    /\ todo' = [r \in Requests |-> {}]
    /\ seen' = [r \in Requests |-> {}]
    /\ UNCHANGED <<rows, nextId, overtaken, dropped>>

-----------------------------------------------------------------------------
(* A request: load_new_abis, and then the decoding. *)

Goto(r, label) == rpc' = [rpc EXCEPT ![r] = label]

TakeLock(r) ==
    /\ lock_load_new_abis = Free
    /\ lock_load_new_abis' = r
    /\ previous_last_abi_id' = [previous_last_abi_id EXCEPT ![r] = last_abi_id]
    /\ Goto(r, "cursor")

ReleaseLock(r, label) ==
    /\ lock_load_new_abis' = Free
    /\ todo' = [todo EXCEPT ![r] = {}]
    /\ Goto(r, label)

(* asyncio.Lock.acquire takes a free lock nobody waits for at once. *)
Arrive(r) ==
    /\ web = "ready"
    /\ rpc[r] = "idle"
    /\ seen' = [seen EXCEPT ![r] = rows]
    /\ IF lock_load_new_abis = Free /\ \A other \in Requests : rpc[other] # "wait"
         THEN TakeLock(r)
         ELSE Goto(r, "wait") /\ UNCHANGED <<lock_load_new_abis, previous_last_abi_id>>
    /\ UNCHANGED <<dbVars, webVars, tableVars, todo, historyVars>>

AcquireLock(r) ==
    /\ rpc[r] = "wait"
    /\ TakeLock(r)
    /\ UNCHANGED <<dbVars, webVars, tableVars, todo, seen, historyVars>>

(* Mutant of LockTimeout: the finally clause releases without `acquired`. *)
LockTimeoutReleases(r) ==
    /\ rpc[r] = "wait"
    /\ Goto(r, "decode_stale")
    /\ lock_load_new_abis' = Free
    /\ UNCHANGED <<dbVars, webVars, tableVars, previous_last_abi_id, todo, seen, historyVars>>

(* Mutant of LockTimeout: acquire without wait_for. *)
NoLockTimeout(r) == rpc[r] = "wait" /\ FALSE /\ UNCHANGED vars

(* wait_for gives up after 10 ms and the request decodes with what there is. *)
LockTimeout(r) ==
    /\ rpc[r] = "wait"
    /\ Goto(r, "decode_stale")
    /\ UNCHANGED <<dbVars, webVars, tableVars, lock_load_new_abis,
                   previous_last_abi_id, todo, seen, historyVars>>

(* The cursor moves to the last inserted id before anything is loaded. *)
ReadLastId(r) ==
    /\ rpc[r] = "cursor"
    /\ \E n \in 0..nextId :
        /\ IsLastInsertedId(n)
        /\ last_abi_id' = n
        /\ \/ /\ previous_last_abi_id[r] = NoId \/ n > previous_last_abi_id[r]
              /\ Goto(r, "stream")
              /\ UNCHANGED <<lock_load_new_abis, todo>>
           \/ /\ previous_last_abi_id[r] # NoId /\ n <= previous_last_abi_id[r]
              /\ ReleaseLock(r, "decode")
    /\ UNCHANGED <<dbVars, webVars, fn_selectors_with_abis, previous_last_abi_id,
                   seen, historyVars>>

(* Mutant of OpenStream: the bound is the cursor, which has moved already. *)
OpenStreamAtCursor(r) ==
    /\ rpc[r] = "stream"
    /\ todo' = [todo EXCEPT ![r] = {row \in rows : row.id > last_abi_id}]
    /\ Goto(r, "adding")
    /\ UNCHANGED <<dbVars, webVars, tableVars, lock_load_new_abis,
                   previous_last_abi_id, seen, historyVars>>

(* The query runs: the whole table without a cursor, else the rows above it. *)
OpenStream(r) ==
    /\ rpc[r] = "stream"
    /\ todo' = [todo EXCEPT ![r] =
                    {row \in rows : \/ previous_last_abi_id[r] = NoId
                                    \/ row.id > previous_last_abi_id[r]}]
    /\ Goto(r, "adding")
    /\ UNCHANGED <<dbVars, webVars, tableVars, lock_load_new_abis,
                   previous_last_abi_id, seen, historyVars>>

(* Mutant of AddAbi: a new ABI overrides the selectors it shares. *)
AddAbiOverriding(r) ==
    /\ rpc[r] = "adding"
    /\ \E row \in todo[r] :
        /\ IsNextRow(row, todo[r], previous_last_abi_id[r])
        /\ fn_selectors_with_abis' =
              [s \in Selector |->
                  IF Defines(row, s) THEN row.abi ELSE fn_selectors_with_abis[s]]
        /\ todo' = [todo EXCEPT ![r] = @ \ {row}]
    /\ UNCHANGED <<dbVars, webVars, last_abi_id, lock_load_new_abis, rpc,
                   previous_last_abi_id, seen, historyVars>>

(* Mutant of AddAbi: an ABI that shares a selector is left out. *)
AddAbiIfDisjoint(r) ==
    /\ rpc[r] = "adding"
    /\ \E row \in todo[r] :
        /\ IsNextRow(row, todo[r], previous_last_abi_id[r])
        /\ fn_selectors_with_abis' =
              [s \in Selector |->
                  IF /\ Defines(row, s)
                     /\ \A t \in SelectorsOf[row.abi] : fn_selectors_with_abis[t] = NoAbi
                    THEN row.abi ELSE fn_selectors_with_abis[s]]
        /\ todo' = [todo EXCEPT ![r] = @ \ {row}]
    /\ UNCHANGED <<dbVars, webVars, last_abi_id, lock_load_new_abis, rpc,
                   previous_last_abi_id, seen, historyVars>>

(* Mutant of AddAbi: the latest of equally relevant ABIs wins. *)
AddAbiLatest(r) ==
    /\ rpc[r] = "adding"
    /\ \E row \in todo[r] :
        /\ IsNextRow(row, todo[r], previous_last_abi_id[r])
        /\ fn_selectors_with_abis' =
              [s \in Selector |->
                  IF /\ Defines(row, s)
                     /\ \A other \in rows : other.abi = fn_selectors_with_abis[s] =>
                            other.relevance <= row.relevance
                    THEN row.abi ELSE fn_selectors_with_abis[s]]
        /\ todo' = [todo EXCEPT ![r] = @ \ {row}]
    /\ UNCHANGED <<dbVars, webVars, last_abi_id, lock_load_new_abis, rpc,
                   previous_last_abi_id, seen, historyVars>>

(* add_abi never overrides a selector. *)
AddAbi(r) ==
    /\ rpc[r] = "adding"
    /\ \E row \in todo[r] :
        /\ IsNextRow(row, todo[r], previous_last_abi_id[r])
        /\ fn_selectors_with_abis' =
              [s \in Selector |->
                  IF Defines(row, s) /\ fn_selectors_with_abis[s] = NoAbi
                    THEN row.abi ELSE fn_selectors_with_abis[s]]
        /\ todo' = [todo EXCEPT ![r] = @ \ {row}]
    /\ UNCHANGED <<dbVars, webVars, last_abi_id, lock_load_new_abis, rpc,
                   previous_last_abi_id, seen, historyVars>>

FinishLoad(r) ==
    /\ rpc[r] = "adding"
    /\ todo[r] = {}
    /\ ReleaseLock(r, "decode")
    /\ UNCHANGED <<dbVars, webVars, tableVars, previous_last_abi_id, seen, historyVars>>

(* What a load of r has read the cursor for and not added yet. *)
Pending(r) ==
    {row \in rows :
        \/ rpc[r] = "stream"
           /\ (previous_last_abi_id[r] = NoId \/ row.id > previous_last_abi_id[r])
        \/ rpc[r] = "adding" /\ row \in todo[r]}

(* Mutant of FailLoad: no finally clause. *)
FailLoadKeepsLock(r) ==
    /\ Fault
    /\ rpc[r] \in {"cursor", "stream", "adding"}
    /\ dropped' = dropped \union Pending(r)
    /\ todo' = [todo EXCEPT ![r] = {}]
    /\ Goto(r, "error")
    /\ UNCHANGED <<dbVars, webVars, tableVars, lock_load_new_abis,
                   previous_last_abi_id, seen, overtaken>>

(* A query of the load fails and the finally clause releases the lock: the *)
(* request ends with an error, or decodes if it was a TimeoutError.  The   *)
(* cursor stays where ReadLastId left it.                                  *)
FailLoad(r) ==
    /\ Fault
    /\ rpc[r] \in {"cursor", "stream", "adding"}
    /\ dropped' = dropped \union Pending(r)
    /\ \E label \in {"error", "decode_stale"} : ReleaseLock(r, label)
    /\ UNCHANGED <<dbVars, webVars, tableVars, previous_last_abi_id, seen, overtaken>>

(* get_data_decoded answers the request; a load that failed answers a 500. *)
Answer(r) ==
    /\ rpc[r] \in {"decode", "decode_stale", "error"}
    /\ Goto(r, "idle")
    /\ seen' = [seen EXCEPT ![r] = {}]
    /\ previous_last_abi_id' = [previous_last_abi_id EXCEPT ![r] = NoId]
    /\ UNCHANGED <<dbVars, webVars, tableVars, lock_load_new_abis, todo, historyVars>>

-----------------------------------------------------------------------------
WorkerStep(w) ==
    \/ \E a \in Abi : GetOrCreateAbi(w, a)
    \/ Commit(w)
    \/ ReturnExisting(w)
    \/ Abort(w)

WebStep ==
    \/ StartWeb
    \/ CheckLocalAbi
    \/ StoreLocalAbi
    \/ CommitLocalAbi
    \/ StartupFails
    \/ LocalAbisLoaded
    \/ InitCursor
    \/ InitTable

RequestStep(r) ==
    \/ ReadLastId(r)
    \/ OpenStream(r)
    \/ AddAbi(r)
    \/ FinishLoad(r)
    \/ Answer(r)

Next ==
    \/ \E w \in Workers : WorkerStep(w)
    \/ \E s \in Sessions : Insert(s)
    \/ WebStep
    \/ WebCrash
    \/ \E r \in Requests :
        \/ Arrive(r)
        \/ AcquireLock(r)
        \/ LockTimeout(r)
        \/ RequestStep(r)
        \/ FailLoad(r)

Spec == Init /\ [][Next]_vars

(* The database executes statements and ends transactions, the orchestrator *)
(* restarts a web process that is down, the event loop runs every request   *)
(* that can go on, the 10 ms timer of a wait fires, a released lock goes to *)
(* some waiter that is still there, and requests keep arriving.  A fault is *)
(* never owed.                                                              *)
Fairness ==
    /\ \A w \in Workers : WF_vars(Commit(w)) /\ WF_vars(ReturnExisting(w))
    /\ \A s \in Sessions : WF_vars(Insert(s))
    /\ WF_vars(WebStep)
    /\ \A r \in Requests :
        WF_vars(Arrive(r)) /\ WF_vars(LockTimeout(r)) /\ WF_vars(RequestStep(r))
    /\ WF_vars(\E r \in Requests : AcquireLock(r))

FairSpec == Spec /\ Fairness

-----------------------------------------------------------------------------
(* Properties. *)

Loading(r) == rpc[r] \in {"cursor", "stream", "adding"}

Covered(row) ==
    \A s \in Selector : Defines(row, s) => fn_selectors_with_abis[s] # NoAbi

(* OneLoader: load_new_abis holds its lock exactly while it loads, so that  *)
(* a request whose wait timed out or whose load failed neither releases the *)
(* lock of another nor keeps its own: never two loads at once, and no lock  *)
(* without a load.                                                          *)
OneLoader ==
    \A r \in Requests : Loading(r) <=> lock_load_new_abis = r

(* SkippedOnlyByRaceOrFailure: the cursor of load_new_abis passes an ABI    *)
(* without the table having its selectors only while the load that moved    *)
(* the cursor is running, or because the row was committed out of the order *)
(* of the ids, or because the load that had read it failed.                 *)
SkippedOnlyByRaceOrFailure ==
    web = "ready" =>
        \A row \in rows :
            row.id <= last_abi_id =>
                \/ Covered(row)
                \/ row \in overtaken
                \/ row \in dropped
                \/ \E r \in Requests : row \in Pending(r)

(* MostRelevantWins: whatever the order in which ABIs are stored, loaded at *)
(* startup and added later, a selector is decoded with an ABI of the        *)
(* highest relevance among the stored ABIs that have it (init overrides in  *)
(* the order of relevance, add_abi never overrides); only the ABIs of the   *)
(* lowest relevance are waiting to be added.                                *)
MostRelevantWins ==
    web = "ready" =>
        \A s \in Selector :
            \/ /\ fn_selectors_with_abis[s] = NoAbi
               /\ \A row \in rows : Defines(row, s) => row.relevance = 0
            \/ \E best \in rows :
                /\ best.abi = fn_selectors_with_abis[s]
                /\ Defines(best, s)
                /\ \A row \in rows : Defines(row, s) => row.relevance <= best.relevance

(* LoaderSeesCommitted: a request that got the lock decodes with every ABI  *)
(* committed before the request arrived, the ones committed out of order or *)
(* dropped by a failed load excepted.  The comment of the endpoint ("runs   *)
(* before decoding to ensure fresh ABIs") holds of no other request: one    *)
(* whose wait timed out decodes with the table as it is.                    *)
LoaderSeesCommitted ==
    \A r \in Requests :
        rpc[r] = "decode" =>
            \A row \in seen[r] :
                Covered(row) \/ row \in overtaken \/ row \in dropped

(* UniqueAbis: whatever sessions insert at the same time, abi_hash and the  *)
(* way get_or_create_abi and the startup handle its violation leave one row *)
(* per ABI, with an id of its own.                                          *)
UniqueAbis ==
    \A row, other \in rows :
        row.abi = other.abi \/ row.id = other.id => row = other

(* ShippedStored: a web process that serves has every shipped ABI in the    *)
(* database, whatever workers store, crashes and failed startups happen     *)
(* meanwhile: the loop of _store_abis_in_database passes an ABI only when   *)
(* it is committed.  That its relevance is the shipped one does not follow: *)
(* an ABI that a worker stored first keeps relevance 0.                     *)
ShippedStored ==
    web = "ready" => \A i \in 1..Len(LocalAbis) : Stored(LocalAbis[i].abi)

(* A row without its id, and the ABIs of the database as SelectorTable has  *)
(* them.                                                                    *)
Entry(row) == [abi |-> row.abi, relevance |-> row.relevance]

entries == {Entry(row) : row \in rows}

shipped == {LocalAbis[i] : i \in 1..Len(LocalAbis)}

Table == INSTANCE SelectorTable WITH
    stored <- entries,
    table <- fn_selectors_with_abis,
    serving <- (web = "ready"),
    Shipped <- shipped

(* TableRefined: with all its ids, locks, transactions and crashes, the     *)
(* loading of ABIs is the table of SelectorTable: built at startup from the *)
(* most relevant ABIs, all the shipped ones stored, then only growing.  A   *)
(* selector once decoded keeps its ABI until the process stops, whatever is *)
(* stored and loaded.                                                       *)
TableRefined == Table!Spec

(* StartupCompletes: once faults stop, the web process ends up serving,     *)
(* also when a worker stores a local ABI between the startup's check and    *)
(* its insert, which makes that startup fail.                               *)
StartupCompletes == <>[](web = "ready")

(* CommittedIsLoaded: while requests keep coming, a committed ABI is        *)
(* eventually decodable, unless it was committed out of order, a failed     *)
(* load dropped it, or the process restarts.                                *)
CommittedIsLoaded ==
    \A a \in Abi :
        (web = "ready" /\ Stored(a)) ~>
            \/ web # "ready"
            \/ \E row \in rows :
                /\ row.abi = a
                /\ Covered(row) \/ row \in overtaken \/ row \in dropped

(* RequestsAnswered: every request that arrives is answered or its process  *)
(* dies: neither the lock nor a failed load leaves it waiting.              *)
RequestsAnswered ==
    \A r \in Requests : rpc[r] # "idle" ~> rpc[r] = "idle"

-----------------------------------------------------------------------------
(* The inductive invariant behind the proofs. *)

Active(s) == txState[s] # "none"

(* Every id is given out once, and every row is the ABI of its transaction. *)
RowsInv ==
    /\ \A row \in rows : row.id \in 1..(nextId - 1) /\ row.abi \in Abi
    /\ \A s \in Sessions :
        Active(s) => txRow[s].id \in 1..(nextId - 1) /\ txRow[s].abi \in Abi
    /\ \A s, t \in Sessions :
        Active(s) /\ Active(t) /\ txRow[s].id = txRow[t].id => s = t
    /\ \A s \in Sessions : \A row \in rows : Active(s) => row.id # txRow[s].id
    /\ \A s, t \in Sessions :
        /\ txState[s] = "inserted" /\ txState[t] = "inserted"
        /\ txRow[s].abi = txRow[t].abi
        => s = t
    /\ \A s \in Sessions : \A row \in rows :
        txState[s] = "inserted" => row.abi # txRow[s].abi

(* Where the web process and its requests can be. *)
ControlInv ==
    /\ Active(Web) => web = "store"
    /\ web = "store" => nextLocal <= Len(LocalAbis)
    /\ \A r \in Requests : rpc[r] # "idle" => web = "ready"
    /\ lock_load_new_abis # Free => web = "ready"
    /\ \A w \in Workers : txRow[w].relevance = 0

(* What the startup has passed is stored, and it inserts the ABI it is at,  *)
(* with its relevance.                                                      *)
LocalInv ==
    /\ web \in {"local", "store"} =>
        \A i \in 1..Len(LocalAbis) : i < nextLocal => Stored(LocalAbis[i].abi)
    /\ web \in {"init", "table", "ready"} =>
        \A i \in 1..Len(LocalAbis) : Stored(LocalAbis[i].abi)
    /\ Active(Web) => Entry(txRow[Web]) = LocalAbis[nextLocal]

(* The cursor is None or the id of a committed row; a load keeps what it    *)
(* found there, and reads committed rows.                                   *)
CursorInv ==
    /\ last_abi_id = NoId \/ \E row \in rows : row.id = last_abi_id
    /\ \A r \in Requests :
        /\ rpc[r] = "cursor" => previous_last_abi_id[r] = last_abi_id
        /\ todo[r] \subseteq rows
        /\ seen[r] \subseteq rows
        /\ rpc[r] \in {"stream", "adding"} =>
            \A row \in seen[r] : row.id <= last_abi_id

IndInv ==
    /\ TypeOK
    /\ RowsInv
    /\ ControlInv
    /\ LocalInv
    /\ CursorInv
    /\ OneLoader
    /\ UniqueAbis
    /\ SkippedOnlyByRaceOrFailure
    /\ MostRelevantWins
    /\ LoaderSeesCommitted

-----------------------------------------------------------------------------
(* What the code says of itself and does not hold. *)

(* NewAbisNeverSkipped: load_new_abis says "Uses a monotonic `id` cursor    *)
(* (last_abi_id) so that ABIs inserted with identical timestamps are never  *)
(* skipped", and get_abis_with_id_greater_than that the cursor avoids that  *)
(* the newer of two such ABIs is "permanently skipped".  So, once the load  *)
(* of a request has moved the cursor and no load is running, every row      *)
(* between the old cursor and the new one is in the table.  The rows are    *)
(* not told apart by `created`, the clock of the worker when it makes the   *)
(* row: two transactions that are open at once may have the same.           *)
NewAbisNeverSkipped ==
    lock_load_new_abis = Free =>
        \A r \in Requests :
            rpc[r] = "decode" /\ previous_last_abi_id[r] # NoId =>
                \A row \in rows :
                    previous_last_abi_id[r] < row.id /\ row.id <= last_abi_id =>
                        Covered(row)
==============================================================================
