--------------------------- MODULE AbiDecoderProofs ---------------------------
(***************************************************************************)
(* The safety properties of AbiDecoder, proved for any ABIs, selectors,    *)
(* local ABIs, workers, requests and bounds.                               *)
(***************************************************************************)
EXTENDS AbiDecoder, TLAPS

(* The records a transaction can hold are rows. *)
LEMMA RowType ==
    /\ NoRow \in Row
    /\ \A n, m \in Nat, a \in Abi : [id |-> n, abi |-> a, relevance |-> m] \in Row
BY DEF NoRow, Row

(* A local ABI is an ABI with a relevance. *)
LEMMA LocalType ==
    ASSUME NEW i \in 1..Len(LocalAbis)
    PROVE  LocalAbis[i].abi \in Abi /\ LocalAbis[i].relevance \in Nat
<1>1. LocalAbis[i] \in LocalAbi
  BY LocalAssumption
<1> QED
  BY <1>1 DEF LocalAbi

(* Every step keeps every variable in its type. *)
LEMMA TypeStep ==
    ASSUME TypeOK, ControlInv, [Next]_vars
    PROVE  TypeOK'
<1> USE DEF TypeOK, Sessions
<1> USE RowType, BoundAssumption
<1>1. ASSUME NEW w \in Workers, NEW a \in Abi, GetOrCreateAbi(w, a)
      PROVE  TypeOK'
  BY <1>1 DEF GetOrCreateAbi, BeginInsert, webVars, tableVars, requestVars, historyVars
<1>2. ASSUME NEW w \in Workers, Commit(w)
      PROVE  TypeOK'
  BY <1>2 DEF Commit, CommitRow, EndTransaction, webVars, tableVars, requestVars
<1>3. ASSUME NEW w \in Workers, ReturnExisting(w)
      PROVE  TypeOK'
  BY <1>3 DEF ReturnExisting, EndTransaction, webVars, tableVars, requestVars, historyVars
<1>4. ASSUME NEW w \in Workers, Abort(w)
      PROVE  TypeOK'
  BY <1>4 DEF Abort, Fault, EndTransaction, webVars, tableVars, requestVars
<1>5. ASSUME NEW s \in Sessions, Insert(s)
      PROVE  TypeOK'
  BY <1>5 DEF Insert, webVars, tableVars, requestVars, historyVars
<1>6. CASE StartWeb
  BY <1>6 DEF StartWeb, dbVars, tableVars, requestVars, historyVars
<1>7. CASE CheckLocalAbi
  BY <1>7, LocalAssumption DEF CheckLocalAbi, dbVars, tableVars, requestVars, historyVars
<1>8. CASE StoreLocalAbi
  <2>1. nextLocal \in 1..Len(LocalAbis)
    BY <1>8, LocalAssumption DEF StoreLocalAbi, ControlInv
  <2>2. LocalAbis[nextLocal].abi \in Abi /\ LocalAbis[nextLocal].relevance \in Nat
    BY <2>1, LocalType
  <2>3. [id |-> nextId, abi |-> LocalAbis[nextLocal].abi,
         relevance |-> LocalAbis[nextLocal].relevance] \in Row
    BY <2>2 DEF Row
  <2> QED
    BY <1>8, <2>3 DEF StoreLocalAbi, BeginInsert, webVars, tableVars, requestVars, historyVars
<1>9. CASE CommitLocalAbi
  BY <1>9, LocalAssumption DEF CommitLocalAbi, ControlInv, Active, CommitRow,
     EndTransaction, tableVars, requestVars
<1>10. CASE StartupFails
  BY <1>10 DEF StartupFails, EndTransaction, tableVars, requestVars, historyVars
<1>11. CASE LocalAbisLoaded
  BY <1>11 DEF LocalAbisLoaded, dbVars, tableVars, requestVars, historyVars
<1>12. CASE InitCursor
  BY <1>12 DEF InitCursor, dbVars, requestVars, historyVars
<1>13. CASE InitTable
  BY <1>13 DEF InitTable, dbVars, requestVars
<1>14. CASE WebCrash
  BY <1>14 DEF WebCrash, Fault, EndTransaction, NoId, EmptyTable
<1>15. ASSUME NEW r \in Requests, Arrive(r)
       PROVE  TypeOK'
  BY <1>15 DEF Arrive, TakeLock, Goto, dbVars, webVars, tableVars, historyVars
<1>16. ASSUME NEW r \in Requests, AcquireLock(r)
       PROVE  TypeOK'
  BY <1>16 DEF AcquireLock, TakeLock, Goto, dbVars, webVars, tableVars, historyVars
<1>17. ASSUME NEW r \in Requests, LockTimeout(r)
       PROVE  TypeOK'
  BY <1>17 DEF LockTimeout, Goto, dbVars, webVars, tableVars, historyVars
<1>18. ASSUME NEW r \in Requests, ReadLastId(r)
       PROVE  TypeOK'
  <2>1. last_abi_id' \in Nat
    BY <1>18 DEF ReadLastId
  <2>2. CASE UNCHANGED <<lock_load_new_abis, todo>> /\ Goto(r, "stream")
    BY <1>18, <2>1, <2>2 DEF ReadLastId, Goto, dbVars, webVars, historyVars
  <2>3. CASE ReleaseLock(r, "decode")
    BY <1>18, <2>1, <2>3 DEF ReadLastId, ReleaseLock, Goto, dbVars, webVars, historyVars
  <2> QED
    BY <1>18, <2>2, <2>3 DEF ReadLastId
<1>19. ASSUME NEW r \in Requests, OpenStream(r)
       PROVE  TypeOK'
  BY <1>19 DEF OpenStream, Goto, dbVars, webVars, tableVars, historyVars
<1>20. ASSUME NEW r \in Requests, AddAbi(r)
       PROVE  TypeOK'
  BY <1>20 DEF AddAbi, Defines, dbVars, webVars, historyVars
<1>21. ASSUME NEW r \in Requests, FinishLoad(r)
       PROVE  TypeOK'
  BY <1>21 DEF FinishLoad, ReleaseLock, Goto, dbVars, webVars, tableVars, historyVars
<1>22. ASSUME NEW r \in Requests, FailLoad(r)
       PROVE  TypeOK'
  BY <1>22 DEF FailLoad, Fault, Pending, ReleaseLock, Goto, dbVars, webVars, tableVars
<1>23. ASSUME NEW r \in Requests, Answer(r)
       PROVE  TypeOK'
  BY <1>23 DEF Answer, Goto, NoId, dbVars, webVars, tableVars, historyVars
<1>24. CASE UNCHANGED vars
  BY <1>24 DEF vars, dbVars, webVars, tableVars, requestVars, historyVars
<1> QED
  BY <1>1, <1>2, <1>3, <1>4, <1>5, <1>6, <1>7, <1>8, <1>9, <1>10, <1>11, <1>12, <1>13,
     <1>14, <1>15, <1>16, <1>17, <1>18, <1>19, <1>20, <1>21, <1>22, <1>23, <1>24
  DEF Next, WorkerStep, WebStep, RequestStep

-----------------------------------------------------------------------------
(* What a step does to the database: it begins an insert, executes it,      *)
(* commits, ends a transaction without a commit, or leaves it alone.        *)
LEMMA DbStep ==
    ASSUME TypeOK, ControlInv, [Next]_vars
    PROVE  \/ \E s \in Sessions, a \in Abi, m \in Nat : BeginInsert(s, a, m)
           \/ \E s \in Sessions : Insert(s)
           \/ \E s \in Sessions : CommitRow(s)
           \/ \E s \in Sessions : EndTransaction(s) /\ UNCHANGED <<rows, nextId>>
           \/ UNCHANGED dbVars
<1> USE DEF Sessions
<1>1. ASSUME NEW w \in Workers, WorkerStep(w)
      PROVE  \/ \E s \in Sessions, a \in Abi, m \in Nat : BeginInsert(s, a, m)
             \/ \E s \in Sessions : CommitRow(s)
             \/ \E s \in Sessions : EndTransaction(s) /\ UNCHANGED <<rows, nextId>>
  BY <1>1 DEF WorkerStep, GetOrCreateAbi, Commit, ReturnExisting, Abort
<1>2. ASSUME StoreLocalAbi
      PROVE  \E s \in Sessions, a \in Abi, m \in Nat : BeginInsert(s, a, m)
  <2>1. nextLocal \in 1..Len(LocalAbis)
    BY <1>2, LocalAssumption DEF StoreLocalAbi, ControlInv, TypeOK
  <2> QED
    BY <1>2, <2>1, LocalType DEF StoreLocalAbi
<1>3. ASSUME WebStep, ~StoreLocalAbi
      PROVE  \/ \E s \in Sessions : CommitRow(s)
             \/ \E s \in Sessions : EndTransaction(s) /\ UNCHANGED <<rows, nextId>>
             \/ UNCHANGED dbVars
  BY <1>3 DEF WebStep, StartWeb, CheckLocalAbi, CommitLocalAbi, StartupFails,
     LocalAbisLoaded, InitCursor, InitTable
<1>4. ASSUME WebCrash
      PROVE  \E s \in Sessions : EndTransaction(s) /\ UNCHANGED <<rows, nextId>>
  BY <1>4 DEF WebCrash
<1>5. ASSUME NEW r \in Requests,
             Arrive(r) \/ AcquireLock(r) \/ LockTimeout(r) \/ RequestStep(r) \/ FailLoad(r)
      PROVE  UNCHANGED dbVars
  BY <1>5 DEF Arrive, AcquireLock, LockTimeout, RequestStep, ReadLastId, OpenStream,
     AddAbi, FinishLoad, FailLoad, Answer
<1>6. CASE UNCHANGED vars
  BY <1>6 DEF vars
<1> QED
  BY <1>1, <1>2, <1>3, <1>4, <1>5, <1>6 DEF Next

(* Ids stay unique, and the index admits one transaction per ABI. *)
LEMMA RowsStep ==
    ASSUME TypeOK, ControlInv, RowsInv, [Next]_vars
    PROVE  RowsInv'
<1> USE DEF RowsInv, Active, TypeOK
<1>1. ASSUME NEW s \in Sessions, NEW a \in Abi, NEW m \in Nat, BeginInsert(s, a, m)
      PROVE  RowsInv'
  BY <1>1 DEF BeginInsert
<1>2. ASSUME NEW s \in Sessions, Insert(s)
      PROVE  RowsInv'
  <2>1. CASE txState' = [txState EXCEPT ![s] = "conflict"]
    BY <1>2, <2>1 DEF Insert
  <2>2. CASE /\ ~Stored(txRow[s].abi)
             /\ \A other \in Sessions :
                    txState[other] = "inserted" => txRow[other].abi # txRow[s].abi
             /\ txState' = [txState EXCEPT ![s] = "inserted"]
    BY <1>2, <2>2 DEF Insert, Stored
  <2> QED
    BY <1>2, <2>1, <2>2 DEF Insert
<1>3. ASSUME NEW s \in Sessions, CommitRow(s)
      PROVE  RowsInv'
  BY <1>3 DEF CommitRow, EndTransaction
<1>4. ASSUME NEW s \in Sessions, EndTransaction(s), UNCHANGED <<rows, nextId>>
      PROVE  RowsInv'
  BY <1>4 DEF EndTransaction
<1>5. CASE UNCHANGED dbVars
  BY <1>5 DEF dbVars
<1> QED
  BY <1>1, <1>2, <1>3, <1>4, <1>5, DbStep

(* A commit adds a row whose ABI and id no other row has. *)
LEMMA UniqueStep ==
    ASSUME TypeOK, ControlInv, RowsInv, UniqueAbis, [Next]_vars
    PROVE  UniqueAbis'
<1>1. ASSUME NEW s \in Sessions, CommitRow(s)
      PROVE  UniqueAbis'
  BY <1>1 DEF CommitRow, UniqueAbis, RowsInv, Active
<1>2. CASE UNCHANGED rows
  BY <1>2 DEF UniqueAbis
<1> QED
  BY <1>1, <1>2, DbStep DEF BeginInsert, Insert, dbVars

(* The rows of the database only grow. *)
LEMMA RowsGrow ==
    ASSUME TypeOK, ControlInv, [Next]_vars
    PROVE  rows \subseteq rows'
BY DbStep DEF BeginInsert, Insert, CommitRow, dbVars

-----------------------------------------------------------------------------
(* What a step does to the requests when it is not a step of a request: a   *)
(* crash resets them all, any other step leaves them alone.                 *)
LEMMA OtherStep ==
    ASSUME [Next]_vars, ~WebCrash,
           \A r \in Requests : /\ ~Arrive(r)  /\ ~AcquireLock(r) /\ ~LockTimeout(r)
                               /\ ~RequestStep(r) /\ ~FailLoad(r)
    PROVE  UNCHANGED requestVars
BY DEF Next, WorkerStep, GetOrCreateAbi, Commit, ReturnExisting, Abort, Insert, WebStep,
   StartWeb, CheckLocalAbi, StoreLocalAbi, CommitLocalAbi, StartupFails, LocalAbisLoaded,
   InitCursor, InitTable, vars

(* Only a web process that serves has requests, only its startup has a      *)
(* transaction, and workers store ABIs of relevance 0.                      *)
LEMMA ControlStep ==
    ASSUME TypeOK, ControlInv, OneLoader, [Next]_vars
    PROVE  ControlInv'
<1> USE DEF ControlInv, Active, TypeOK, Sessions
<1> USE WebAssumption
<1>1. ASSUME NEW w \in Workers, WorkerStep(w)
      PROVE  ControlInv'
  <2>1. UNCHANGED webVars /\ UNCHANGED requestVars /\ txState'[Web] = txState[Web]
    BY <1>1 DEF WorkerStep, GetOrCreateAbi, BeginInsert, Commit, CommitRow, ReturnExisting,
       Abort, EndTransaction
  <2>2. txRow'[w].relevance = 0 /\ \A x \in Workers : x # w => txRow'[x] = txRow[x]
    BY <1>1 DEF WorkerStep, GetOrCreateAbi, BeginInsert, Commit, CommitRow, ReturnExisting,
       Abort, EndTransaction, NoRow
  <2> QED
    BY <2>1, <2>2 DEF webVars, requestVars
<1>2. ASSUME NEW s \in Sessions, Insert(s)
      PROVE  ControlInv'
  BY <1>2 DEF Insert, webVars, requestVars
<1>3. CASE StartWeb \/ CheckLocalAbi \/ LocalAbisLoaded \/ InitCursor \/ InitTable
  BY <1>3, LocalAssumption DEF StartWeb, CheckLocalAbi, LocalAbisLoaded, InitCursor,
     InitTable, dbVars, requestVars
<1>4. CASE StoreLocalAbi
  BY <1>4 DEF StoreLocalAbi, BeginInsert, webVars, requestVars
<1>5. CASE CommitLocalAbi \/ StartupFails
  BY <1>5 DEF CommitLocalAbi, CommitRow, StartupFails, EndTransaction, requestVars
<1>6. CASE WebCrash
  BY <1>6 DEF WebCrash, EndTransaction
<1>7. ASSUME NEW r \in Requests, Arrive(r) \/ AcquireLock(r) \/ LockTimeout(r)
      PROVE  ControlInv'
  BY <1>7 DEF Arrive, AcquireLock, LockTimeout, TakeLock, Goto, dbVars, webVars
<1>8. ASSUME NEW r \in Requests, RequestStep(r) \/ FailLoad(r)
      PROVE  ControlInv'
  <2>1. web = "ready"
    BY <1>8 DEF RequestStep, ReadLastId, OpenStream, AddAbi, FinishLoad, Answer, FailLoad
  <2>2. UNCHANGED dbVars /\ UNCHANGED webVars
    BY <1>8 DEF RequestStep, ReadLastId, OpenStream, AddAbi, FinishLoad, Answer, FailLoad
  <2> QED
    BY <2>1, <2>2 DEF dbVars, webVars
<1>9. CASE UNCHANGED vars
  BY <1>9 DEF vars, dbVars, webVars, requestVars
<1> QED
  BY <1>1, <1>2, <1>3, <1>4, <1>5, <1>6, <1>7, <1>8, <1>9 DEF Next, WebStep

(* What is stored stays stored. *)
LEMMA StoredKept ==
    ASSUME TypeOK, ControlInv, [Next]_vars, NEW a, Stored(a)
    PROVE  Stored(a)'
BY RowsGrow DEF Stored

(* The startup passes an ABI that it finds or commits, and only then. *)
LEMMA LocalStep ==
    ASSUME TypeOK, ControlInv, LocalInv, [Next]_vars
    PROVE  LocalInv'
<1> USE DEF TypeOK, Sessions
<1> USE WebAssumption, LocalAssumption
<1>0. \A a : Stored(a) => Stored(a)'
  BY StoredKept
<1>1. ASSUME UNCHANGED webVars, txState'[Web] = txState[Web], txRow'[Web] = txRow[Web]
      PROVE  LocalInv'
  BY <1>0, <1>1 DEF LocalInv, webVars, Active, Entry
<1>2. ASSUME NEW w \in Workers, WorkerStep(w)
      PROVE  LocalInv'
  <2>1. UNCHANGED webVars /\ txState'[Web] = txState[Web] /\ txRow'[Web] = txRow[Web]
    BY <1>2 DEF WorkerStep, GetOrCreateAbi, BeginInsert, Commit, CommitRow, ReturnExisting,
       Abort, EndTransaction
  <2> QED
    BY <1>1, <2>1
<1>3. ASSUME NEW s \in Sessions, Insert(s)
      PROVE  LocalInv'
  <2>1. UNCHANGED <<webVars, txRow>> /\ (Active(Web)' => Active(Web))
    BY <1>3 DEF Insert, Active
  <2> QED
    BY <1>0, <2>1 DEF LocalInv, webVars, Entry
<1>4. CASE StartWeb
  <2>1. ~Active(Web)'
    BY <1>4 DEF StartWeb, dbVars, ControlInv, Active
  <2> QED
    BY <1>4, <2>1 DEF StartWeb, LocalInv
<1>5. CASE CheckLocalAbi
  <2>1. ~Active(Web)'
    BY <1>5 DEF CheckLocalAbi, dbVars, ControlInv, Active
  <2>2. web' \in {"local", "store"}
    BY <1>5 DEF CheckLocalAbi
  <2>3. ASSUME NEW i \in 1..Len(LocalAbis), i < nextLocal'
        PROVE  Stored(LocalAbis[i].abi)
    BY <1>5, <2>3 DEF CheckLocalAbi, LocalInv
  <2> QED
    BY <1>0, <2>1, <2>2, <2>3 DEF LocalInv
<1>6. CASE StoreLocalAbi
  <2>1. nextLocal \in 1..Len(LocalAbis) /\ UNCHANGED webVars
    BY <1>6 DEF StoreLocalAbi, ControlInv
  <2>2. LocalAbis[nextLocal] \in LocalAbi
    BY <2>1
  <2>3. Entry(txRow[Web])' = LocalAbis[nextLocal]
    BY <1>6, <2>2 DEF StoreLocalAbi, BeginInsert, Entry, LocalAbi
  <2> QED
    BY <1>0, <2>1, <2>3 DEF LocalInv, webVars
<1>7. CASE CommitLocalAbi
  <2>1. /\ web = "store" /\ web' = "local" /\ nextLocal' = nextLocal + 1 /\ ~Active(Web)'
    BY <1>7 DEF CommitLocalAbi, CommitRow, EndTransaction, ControlInv, Active
  <2>2. Entry(txRow[Web]) = LocalAbis[nextLocal] /\ txRow[Web] \in rows'
    BY <1>7 DEF CommitLocalAbi, CommitRow, LocalInv, Active
  <2>3. \E row \in rows' : row.abi = LocalAbis[nextLocal].abi
    BY <2>2 DEF Entry
  <2>4. ASSUME NEW i \in 1..Len(LocalAbis), i < nextLocal'
        PROVE  Stored(LocalAbis[i].abi)'
    <3>1. CASE i = nextLocal
      BY <2>3, <3>1 DEF Stored
    <3>2. CASE i # nextLocal
      BY <1>0, <2>1, <2>4, <3>2 DEF LocalInv
    <3> QED
      BY <3>1, <3>2
  <2> QED
    BY <2>1, <2>4 DEF LocalInv
<1>8. CASE LocalAbisLoaded
  <2>1. ~Active(Web)' /\ web' = "init"
    BY <1>8 DEF LocalAbisLoaded, dbVars, ControlInv, Active
  <2>2. \A i \in 1..Len(LocalAbis) : Stored(LocalAbis[i].abi)
    BY <1>8 DEF LocalAbisLoaded, LocalInv
  <2> QED
    BY <1>0, <2>1, <2>2 DEF LocalInv
<1>9. CASE InitCursor \/ InitTable
  <2>1. ~Active(Web)' /\ web \in {"init", "table"} /\ web' \in {"table", "ready"}
    BY <1>9 DEF InitCursor, InitTable, dbVars, ControlInv, Active
  <2> QED
    BY <1>0, <2>1 DEF LocalInv
<1>10. CASE StartupFails \/ WebCrash
  <2>1. ~Active(Web)' /\ web' = "down"
    BY <1>10 DEF StartupFails, WebCrash, EndTransaction, Active
  <2> QED
    BY <2>1 DEF LocalInv
<1>11. ASSUME NEW r \in Requests,
              Arrive(r) \/ AcquireLock(r) \/ LockTimeout(r) \/ RequestStep(r) \/ FailLoad(r)
       PROVE  LocalInv'
  <2>1. UNCHANGED webVars /\ UNCHANGED dbVars
    BY <1>11 DEF Arrive, AcquireLock, LockTimeout, RequestStep, ReadLastId, OpenStream,
       AddAbi, FinishLoad, Answer, FailLoad
  <2> QED
    BY <1>1, <2>1 DEF dbVars
<1>12. CASE UNCHANGED vars
  BY <1>1, <1>12 DEF vars, dbVars
<1> QED
  BY <1>2, <1>3, <1>4, <1>5, <1>6, <1>7, <1>8, <1>9, <1>10, <1>11, <1>12 DEF Next, WebStep

(* The lock changes hands with the loads. *)
LEMMA LoaderStep ==
    ASSUME TypeOK, OneLoader, [Next]_vars
    PROVE  OneLoader'
<1> USE DEF OneLoader, Loading, TypeOK
<1> USE FreeAssumption
<1>1. ASSUME NEW r \in Requests, Arrive(r)
      PROVE  OneLoader'
  BY <1>1 DEF Arrive, TakeLock, Goto
<1>2. ASSUME NEW r \in Requests, AcquireLock(r) \/ LockTimeout(r)
      PROVE  OneLoader'
  BY <1>2 DEF AcquireLock, LockTimeout, TakeLock, Goto
<1>3. ASSUME NEW r \in Requests, ReadLastId(r)
      PROVE  OneLoader'
  <2>1. CASE UNCHANGED <<lock_load_new_abis, todo>> /\ Goto(r, "stream")
    BY <1>3, <2>1 DEF ReadLastId, Goto
  <2>2. CASE ReleaseLock(r, "decode")
    BY <1>3, <2>2 DEF ReadLastId, ReleaseLock, Goto
  <2> QED
    BY <1>3, <2>1, <2>2 DEF ReadLastId
<1>4. ASSUME NEW r \in Requests, OpenStream(r) \/ AddAbi(r)
      PROVE  OneLoader'
  BY <1>4 DEF OpenStream, AddAbi, Goto
<1>5. ASSUME NEW r \in Requests, FinishLoad(r) \/ FailLoad(r)
      PROVE  OneLoader'
  BY <1>5 DEF FinishLoad, FailLoad, ReleaseLock, Goto
<1>6. ASSUME NEW r \in Requests, Answer(r)
      PROVE  OneLoader'
  BY <1>6 DEF Answer, Goto
<1>7. CASE WebCrash
  BY <1>7 DEF WebCrash
<1>8. CASE UNCHANGED requestVars
  BY <1>8 DEF requestVars
<1> QED
  BY <1>1, <1>2, <1>3, <1>4, <1>5, <1>6, <1>7, <1>8, OtherStep DEF RequestStep

(* The cursor stands at a committed row, and a load knows where it stood. *)
LEMMA CursorStep ==
    ASSUME TypeOK, ControlInv, CursorInv, OneLoader, [Next]_vars
    PROVE  CursorInv'
<1> USE DEF CursorInv, TypeOK
<1>0. rows \subseteq rows'
  BY RowsGrow
<1>1. ASSUME NEW r \in Requests, Arrive(r)
      PROVE  CursorInv'
  BY <1>1 DEF Arrive, TakeLock, Goto, dbVars, tableVars
<1>2. ASSUME NEW r \in Requests, AcquireLock(r) \/ LockTimeout(r)
      PROVE  CursorInv'
  BY <1>2 DEF AcquireLock, LockTimeout, TakeLock, Goto, dbVars, tableVars
<1>3. ASSUME NEW r \in Requests, ReadLastId(r)
      PROVE  CursorInv'
  <2>1. IsLastInsertedId(last_abi_id') /\ UNCHANGED <<rows, previous_last_abi_id, seen>>
    BY <1>3 DEF ReadLastId, dbVars
  <2>2. last_abi_id' = NoId \/ \E row \in rows' : row.id = last_abi_id'
    BY <2>1 DEF IsLastInsertedId
  <2>3. \A x \in Requests : rpc'[x] = "cursor" => x # r /\ rpc[x] = "cursor"
    BY <1>3 DEF ReadLastId, ReleaseLock, Goto
  <2>4. \A x \in Requests : x # r => rpc[x] \notin {"cursor", "stream", "adding"}
    BY <1>3 DEF ReadLastId, OneLoader, Loading
  <2>5. \A x \in Requests : todo'[x] \subseteq rows' /\ seen'[x] \subseteq rows'
    BY <1>3, <2>1 DEF ReadLastId, ReleaseLock
  <2>6. \A row \in rows : row.id <= last_abi_id'
    BY <2>1 DEF IsLastInsertedId
  <2>7. \A x \in Requests : rpc'[x] \in {"stream", "adding"} => x = r
    BY <1>3, <2>4 DEF ReadLastId, ReleaseLock, Goto
  <2> QED
    BY <2>1, <2>2, <2>3, <2>4, <2>5, <2>6, <2>7
<1>4. ASSUME NEW r \in Requests, OpenStream(r)
      PROVE  CursorInv'
  BY <1>4 DEF OpenStream, Goto, dbVars, tableVars
<1>5. ASSUME NEW r \in Requests, AddAbi(r)
      PROVE  CursorInv'
  BY <1>5 DEF AddAbi, dbVars
<1>6. ASSUME NEW r \in Requests, FinishLoad(r) \/ FailLoad(r)
      PROVE  CursorInv'
  BY <1>6 DEF FinishLoad, FailLoad, ReleaseLock, Goto, dbVars, tableVars
<1>7. ASSUME NEW r \in Requests, Answer(r)
      PROVE  CursorInv'
  BY <1>7 DEF Answer, Goto, dbVars, tableVars
<1>8. CASE WebCrash
  BY <1>8 DEF WebCrash
<1>9. CASE InitCursor
  <2>1. \A r \in Requests : rpc[r] = "idle"
    BY <1>9 DEF InitCursor, ControlInv
  <2> QED
    BY <1>9, <2>1 DEF InitCursor, IsLastInsertedId, dbVars, requestVars
<1>10. CASE UNCHANGED requestVars /\ UNCHANGED last_abi_id
  BY <1>0, <1>10 DEF requestVars
<1>11. CASE /\ ~WebCrash /\ ~InitCursor
            /\ \A r \in Requests : /\ ~Arrive(r)  /\ ~AcquireLock(r) /\ ~LockTimeout(r)
                                  /\ ~RequestStep(r) /\ ~FailLoad(r)
  <2>1. UNCHANGED last_abi_id
    BY <1>11 DEF Next, WorkerStep, GetOrCreateAbi, Commit, ReturnExisting, Abort, Insert,
       WebStep, StartWeb, CheckLocalAbi, StoreLocalAbi, CommitLocalAbi, StartupFails,
       LocalAbisLoaded, InitTable, tableVars, vars
  <2> QED
    BY <1>10, <1>11, <2>1, OtherStep
<1> QED
  BY <1>1, <1>2, <1>3, <1>4, <1>5, <1>6, <1>7, <1>8, <1>9, <1>11 DEF RequestStep

-----------------------------------------------------------------------------
(* While the process lives, a selector keeps its ABI and the histories grow. *)
LEMMA TableKept ==
    ASSUME TypeOK, [Next]_vars, ~WebCrash, ~InitTable
    PROVE  /\ \A s \in Selector : fn_selectors_with_abis[s] # NoAbi =>
                  fn_selectors_with_abis'[s] = fn_selectors_with_abis[s]
           /\ overtaken \subseteq overtaken'
           /\ dropped \subseteq dropped'
<1> USE DEF TypeOK
<1>1. ASSUME NEW r \in Requests, AddAbi(r)
      PROVE  /\ \A s \in Selector : fn_selectors_with_abis[s] # NoAbi =>
                    fn_selectors_with_abis'[s] = fn_selectors_with_abis[s]
             /\ UNCHANGED <<overtaken, dropped>>
  BY <1>1 DEF AddAbi, historyVars
<1>2. ASSUME NEW r \in Requests,
             \/ Arrive(r) \/ AcquireLock(r) \/ LockTimeout(r) \/ ReadLastId(r)
             \/ OpenStream(r) \/ FinishLoad(r) \/ FailLoad(r) \/ Answer(r)
      PROVE  /\ UNCHANGED <<fn_selectors_with_abis, overtaken>>
             /\ dropped \subseteq dropped'
  BY <1>2 DEF Arrive, AcquireLock, LockTimeout, ReadLastId, OpenStream, FinishLoad,
     FailLoad, Answer, tableVars, historyVars
<1>3. ASSUME ~(\E r \in Requests : \/ Arrive(r) \/ AcquireLock(r) \/ LockTimeout(r)
                                   \/ RequestStep(r) \/ FailLoad(r))
      PROVE  /\ UNCHANGED <<fn_selectors_with_abis, dropped>>
             /\ overtaken \subseteq overtaken'
  BY <1>3 DEF Next, WorkerStep, GetOrCreateAbi, Commit, CommitRow, ReturnExisting, Abort,
     Insert, WebStep, StartWeb, CheckLocalAbi, StoreLocalAbi, CommitLocalAbi,
     StartupFails, LocalAbisLoaded, InitCursor, tableVars, historyVars, vars
<1> QED
  BY <1>1, <1>2, <1>3 DEF RequestStep

(* A covered row stays covered while the process lives. *)
LEMMA CoveredKept ==
    ASSUME TypeOK, [Next]_vars, ~WebCrash, ~InitTable, NEW row \in Row, Covered(row)
    PROVE  Covered(row)'
BY TableKept DEF Covered, Defines, TypeOK

(* The table of InitTable covers every committed row, and gives a selector  *)
(* to a row of the highest relevance.                                       *)
LEMMA InitTableCovers ==
    ASSUME TypeOK, InitTable
    PROVE  /\ \A row \in rows : Covered(row)'
           /\ \A s \in Selector :
                \/ /\ fn_selectors_with_abis'[s] = NoAbi
                   /\ \A row \in rows : ~Defines(row, s)
                \/ \E best \in rows :
                    /\ best.abi = fn_selectors_with_abis'[s]
                    /\ Defines(best, s)
                    /\ \A row \in rows : Defines(row, s) => row.relevance <= best.relevance
<1> DEFINE n == Cardinality(rows)
<1>1. PICK q \in SortedByRelevance(rows) : LastWins(fn_selectors_with_abis', q)
  BY DEF InitTable
<1>2. /\ q \in [1..n -> rows]
      /\ \A row \in rows : \E i \in 1..n : q[i] = row
      /\ \A i, j \in 1..n : i < j => q[i].relevance <= q[j].relevance
  BY <1>1 DEF SortedByRelevance
<1> HIDE DEF n
<1>3. ASSUME NEW s \in Selector
      PROVE  \/ /\ fn_selectors_with_abis'[s] = NoAbi
                /\ \A row \in rows : ~Defines(row, s)
             \/ \E best \in rows :
                 /\ best.abi = fn_selectors_with_abis'[s]
                 /\ Defines(best, s)
                 /\ \A row \in rows : Defines(row, s) => row.relevance <= best.relevance
  <2>1. CASE /\ fn_selectors_with_abis'[s] = NoAbi
             /\ \A i \in DOMAIN q : ~Defines(q[i], s)
    BY <1>2, <2>1
  <2>2. ASSUME NEW i \in 1..n,
               fn_selectors_with_abis'[s] = q[i].abi,
               Defines(q[i], s),
               \A j \in 1..n : j > i => ~Defines(q[j], s)
        PROVE  \E best \in rows :
                 /\ best.abi = fn_selectors_with_abis'[s]
                 /\ Defines(best, s)
                 /\ \A row \in rows : Defines(row, s) => row.relevance <= best.relevance
    <3>1. q[i] \in rows
      BY <1>2
    <3>2. ASSUME NEW row \in rows, Defines(row, s)
          PROVE  row.relevance <= q[i].relevance
      <4>1. PICK j \in 1..n : q[j] = row
        BY <1>2
      <4>2. ~(j > i)
        BY <2>2, <3>2, <4>1
      <4>3. row.relevance \in Nat
        BY DEF TypeOK, Row
      <4> QED
        BY <1>2, <4>1, <4>2, <4>3
    <3> QED
      BY <2>2, <3>1, <3>2
  <2> QED
    BY <1>1, <1>2, <2>1, <2>2 DEF LastWins
<1>4. ASSUME NEW row \in rows
      PROVE  Covered(row)'
  BY <1>3, AbiAssumption DEF Covered, Defines
<1> QED
  BY <1>3, <1>4

-----------------------------------------------------------------------------
(* Nothing is pending but what the holder of the lock has to load. *)
LEMMA PendingOfHolder ==
    ASSUME OneLoader, NEW r \in Requests, NEW row \in Pending(r)
    PROVE  lock_load_new_abis = r /\ row \in rows
BY DEF OneLoader, Loading, Pending

(* A row the cursor passes is covered, excused or pending: a commit is      *)
(* above the cursor or out of order, and a load covers what it takes off    *)
(* its result set.                                                          *)
LEMMA SkippedStep ==
    ASSUME TypeOK, RowsInv, ControlInv, CursorInv, OneLoader,
           SkippedOnlyByRaceOrFailure, [Next]_vars
    PROVE  SkippedOnlyByRaceOrFailure'
<1> USE DEF TypeOK
<1> DEFINE Excused(row) ==
        \/ Covered(row)
        \/ row \in overtaken
        \/ row \in dropped
        \/ \E r \in Requests : row \in Pending(r)
<1> SUFFICES ASSUME web' = "ready", NEW row \in rows', row.id <= last_abi_id'
             PROVE  Excused(row)'
  BY DEF SkippedOnlyByRaceOrFailure
<1>1. ~WebCrash
  BY DEF WebCrash
<1>2. CASE InitTable
  <2>1. row \in rows
    BY <1>2 DEF InitTable, dbVars
  <2> QED
    BY <1>2, <2>1, InitTableCovers
<1>3. ASSUME ~InitTable, row \in rows, Covered(row) \/ row \in overtaken \/ row \in dropped
      PROVE  Excused(row)'
  BY <1>1, <1>3, CoveredKept, TableKept
<1>4. ASSUME NEW w \in Workers, Commit(w)
      PROVE  Excused(row)'
  <2>1. CASE row \in rows
    <3>1. web = "ready" /\ row.id <= last_abi_id /\ ~InitTable
      BY <1>4 DEF Commit, webVars, tableVars, InitTable
    <3>2. Excused(row)
      BY <2>1, <3>1 DEF SkippedOnlyByRaceOrFailure
    <3>3. ASSUME NEW r \in Requests, row \in Pending(r)
          PROVE  row \in Pending(r)'
      BY <1>4, <2>1, <3>3 DEF Commit, CommitRow, Pending, requestVars
    <3> QED
      BY <1>3, <2>1, <3>1, <3>2, <3>3
  <2>2. CASE row = txRow[w]
    <3>1. row.id \in Nat /\ row.id # 0 /\ \A other \in rows : other.id # row.id
      BY <1>4, <2>2 DEF Commit, CommitRow, RowsInv, Active, Sessions
    <3>2. CASE \E other \in rows : other.id > row.id
      BY <1>4, <2>2, <3>2 DEF Commit, CommitRow
    <3>3. CASE \A other \in rows : ~(other.id > row.id)
      <4>1. last_abi_id < row.id
        BY <3>1, <3>3 DEF CursorInv, NoId, Row
      <4>2. last_abi_id' = last_abi_id
        BY <1>4 DEF Commit, tableVars
      <4> QED
        BY <3>1, <4>1, <4>2
    <3> QED
      BY <3>2, <3>3
  <2> QED
    BY <1>4, <2>1, <2>2 DEF Commit, CommitRow
<1>5. ASSUME NEW r \in Requests, ReadLastId(r)
      PROVE  Excused(row)'
  <2>1. /\ rpc[r] = "cursor" /\ row \in rows /\ web = "ready" /\ ~InitTable
        /\ previous_last_abi_id' = previous_last_abi_id
        /\ rows' = rows
    BY <1>5 DEF ReadLastId, dbVars, webVars, InitTable
  <2>2. \A x \in Requests : row \notin Pending(x)
    BY <1>5, <2>1 DEF Pending, OneLoader, Loading
  <2>3. CASE row.id <= last_abi_id
    BY <1>3, <2>1, <2>2, <2>3 DEF SkippedOnlyByRaceOrFailure
  <2>4. CASE ~(row.id <= last_abi_id)
    <3>1. row.id \in Nat /\ last_abi_id' \in Nat
      BY <1>5, <2>1 DEF ReadLastId, Row
    <3>2. previous_last_abi_id[r] = last_abi_id
      BY <2>1 DEF CursorInv
    <3>3. last_abi_id' > previous_last_abi_id[r]
      BY <2>4, <3>1, <3>2
    <3>4. rpc'[r] = "stream"
      <4>1. ~(last_abi_id' <= previous_last_abi_id[r])
        BY <3>1, <3>2, <3>3
      <4>2. Goto(r, "stream")
        BY <1>5, <4>1 DEF ReadLastId
      <4> QED
        BY <4>2 DEF Goto
    <3>5. row \in Pending(r)'
      BY <2>1, <2>4, <3>1, <3>2, <3>4 DEF Pending
    <3> QED
      BY <3>5
  <2> QED
    BY <2>3, <2>4
<1>6. ASSUME NEW r \in Requests,
             \/ Arrive(r) \/ AcquireLock(r) \/ LockTimeout(r) \/ OpenStream(r)
             \/ AddAbi(r) \/ FinishLoad(r) \/ FailLoad(r) \/ Answer(r)
      PROVE  Excused(row)'
  <2>1. /\ row \in rows /\ web = "ready" /\ row.id <= last_abi_id /\ ~InitTable
        /\ rows' = rows
    BY <1>6 DEF Arrive, AcquireLock, LockTimeout, OpenStream, AddAbi, FinishLoad,
       FailLoad, Answer, dbVars, webVars, tableVars, InitTable
  <2>2. Excused(row)
    BY <2>1 DEF SkippedOnlyByRaceOrFailure
  <2>3. ASSUME NEW x \in Requests, row \in Pending(x)
        PROVE  Excused(row)'
    <3>1. lock_load_new_abis = x /\ Loading(x)
      BY <2>3, PendingOfHolder DEF OneLoader
    <3>2. CASE x # r
      <4>1. UNCHANGED <<rpc[x], todo[x], previous_last_abi_id[x]>>
        BY <1>6, <3>2 DEF Arrive, AcquireLock, LockTimeout, OpenStream, AddAbi,
           FinishLoad, FailLoad, Answer, TakeLock, ReleaseLock, Goto
      <4> QED
        BY <2>1, <2>3, <4>1 DEF Pending
    <3>3. CASE x = r /\ OpenStream(r)
      BY <2>1, <2>3, <3>3 DEF OpenStream, Goto, Pending
    <3>4. CASE x = r /\ AddAbi(r)
      <4>1. PICK next \in todo[r] :
                /\ fn_selectors_with_abis' =
                      [s \in Selector |->
                          IF Defines(next, s) /\ fn_selectors_with_abis[s] = NoAbi
                            THEN next.abi ELSE fn_selectors_with_abis[s]]
                /\ todo' = [todo EXCEPT ![r] = @ \ {next}]
        BY <3>4 DEF AddAbi
      <4>2. rpc[r] = "adding" /\ rpc' = rpc /\ row \in todo[r]
        BY <2>3, <3>4 DEF AddAbi, Pending
      <4>3. CASE row = next
        BY <4>1, <4>3, AbiAssumption DEF Covered, Defines
      <4>4. CASE row # next
        BY <2>1, <4>1, <4>2, <4>4 DEF Pending
      <4> QED
        BY <4>3, <4>4
    <3>5. CASE x = r /\ FinishLoad(r)
      BY <2>3, <3>5 DEF FinishLoad, Pending
    <3>6. CASE x = r /\ FailLoad(r)
      BY <2>3, <3>6 DEF FailLoad
    <3>7. CASE x = r /\ (Arrive(r) \/ AcquireLock(r) \/ LockTimeout(r) \/ Answer(r))
      BY <3>1, <3>7 DEF Loading, Arrive, AcquireLock, LockTimeout, Answer
    <3> QED
      BY <1>6, <3>2, <3>3, <3>4, <3>5, <3>6, <3>7
  <2> QED
    BY <1>3, <2>1, <2>2, <2>3
<1>7. CASE /\ UNCHANGED <<rows, web, last_abi_id, requestVars>>
           /\ ~InitTable
  <2>1. Excused(row)
    BY <1>7 DEF SkippedOnlyByRaceOrFailure
  <2>2. ASSUME NEW r \in Requests, row \in Pending(r)
        PROVE  row \in Pending(r)'
    BY <1>7, <2>2 DEF Pending, requestVars
  <2> QED
    BY <1>3, <1>7, <2>1, <2>2
<1>8. CASE /\ \A r \in Requests : /\ ~Arrive(r)  /\ ~AcquireLock(r) /\ ~LockTimeout(r)
                                 /\ ~RequestStep(r) /\ ~FailLoad(r)
           /\ \A w \in Workers : ~Commit(w)
           /\ ~InitTable
  <2>1. UNCHANGED <<rows, web, last_abi_id>>
    BY <1>1, <1>8 DEF Next, WorkerStep, GetOrCreateAbi, BeginInsert, ReturnExisting, Abort,
       Insert, WebStep, StartWeb, CheckLocalAbi, StoreLocalAbi, CommitLocalAbi,
       StartupFails, LocalAbisLoaded, InitCursor, dbVars, webVars, tableVars, vars
  <2> QED
    BY <1>1, <1>7, <1>8, <2>1, OtherStep
<1> QED
  BY <1>2, <1>4, <1>5, <1>6, <1>8 DEF RequestStep

(* A new row has relevance 0, add_abi fills empty selectors only, and these *)
(* belong to rows of relevance 0.                                           *)
LEMMA RelevanceStep ==
    ASSUME TypeOK, ControlInv, CursorInv, MostRelevantWins, [Next]_vars
    PROVE  MostRelevantWins'
<1> USE DEF TypeOK
<1> SUFFICES ASSUME web' = "ready", NEW s \in Selector
             PROVE  \/ /\ fn_selectors_with_abis'[s] = NoAbi
                       /\ \A row \in rows' : Defines(row, s) => row.relevance = 0
                    \/ \E best \in rows' :
                        /\ best.abi = fn_selectors_with_abis'[s]
                        /\ Defines(best, s)
                        /\ \A row \in rows' : Defines(row, s) => row.relevance <= best.relevance
  BY DEF MostRelevantWins, Defines
<1>1. ~WebCrash
  BY DEF WebCrash
<1>2. CASE InitTable
  <2>1. rows' = rows
    BY <1>2 DEF InitTable, dbVars
  <2> QED
    BY <1>2, <2>1, InitTableCovers
<1>3. ASSUME web = "ready"
      PROVE  \/ /\ fn_selectors_with_abis[s] = NoAbi
                /\ \A row \in rows : Defines(row, s) => row.relevance = 0
             \/ \E best \in rows :
                 /\ best.abi = fn_selectors_with_abis[s]
                 /\ Defines(best, s)
                 /\ \A row \in rows : Defines(row, s) => row.relevance <= best.relevance
  BY <1>3 DEF MostRelevantWins
<1>4. ASSUME NEW w \in Workers, Commit(w)
      PROVE  \/ /\ fn_selectors_with_abis'[s] = NoAbi
                /\ \A row \in rows' : Defines(row, s) => row.relevance = 0
             \/ \E best \in rows' :
                 /\ best.abi = fn_selectors_with_abis'[s]
                 /\ Defines(best, s)
                 /\ \A row \in rows' : Defines(row, s) => row.relevance <= best.relevance
  <2>1. /\ web = "ready" /\ fn_selectors_with_abis' = fn_selectors_with_abis
        /\ rows' = rows \union {txRow[w]} /\ txRow[w].relevance = 0
    BY <1>4 DEF Commit, CommitRow, webVars, tableVars, ControlInv
  <2>2. \A row \in rows : row.relevance \in Nat
    BY DEF Row
  <2>3. CASE /\ fn_selectors_with_abis[s] = NoAbi
             /\ \A row \in rows : Defines(row, s) => row.relevance = 0
    BY <2>1, <2>3
  <2>4. ASSUME NEW best \in rows, best.abi = fn_selectors_with_abis[s], Defines(best, s),
               \A row \in rows : Defines(row, s) => row.relevance <= best.relevance
        PROVE  \E b \in rows' :
                 /\ b.abi = fn_selectors_with_abis'[s]
                 /\ Defines(b, s)
                 /\ \A row \in rows' : Defines(row, s) => row.relevance <= b.relevance
    <3>1. best \in rows' /\ best.abi = fn_selectors_with_abis'[s]
      BY <2>1, <2>4
    <3>2. \A row \in rows' : Defines(row, s) => row.relevance <= best.relevance
      BY <2>1, <2>2, <2>4
    <3> QED
      BY <2>4, <3>1, <3>2
  <2> QED
    BY <1>3, <2>1, <2>3, <2>4
<1>5. ASSUME NEW r \in Requests, AddAbi(r)
      PROVE  \/ /\ fn_selectors_with_abis'[s] = NoAbi
                /\ \A row \in rows' : Defines(row, s) => row.relevance = 0
             \/ \E best \in rows' :
                 /\ best.abi = fn_selectors_with_abis'[s]
                 /\ Defines(best, s)
                 /\ \A row \in rows' : Defines(row, s) => row.relevance <= best.relevance
  <2>1. PICK next \in todo[r] :
            fn_selectors_with_abis' =
              [x \in Selector |->
                  IF Defines(next, x) /\ fn_selectors_with_abis[x] = NoAbi
                    THEN next.abi ELSE fn_selectors_with_abis[x]]
    BY <1>5 DEF AddAbi
  <2>2. next \in rows /\ rows' = rows /\ web = "ready"
    BY <1>5 DEF AddAbi, CursorInv, dbVars, webVars
  <2>3. CASE Defines(next, s) /\ fn_selectors_with_abis[s] = NoAbi
    <3>1. \A row \in rows : Defines(row, s) => row.relevance = 0
      BY <1>3, <2>2, <2>3, AbiAssumption DEF Defines
    <3> QED
      BY <2>1, <2>2, <2>3, <3>1
  <2>4. CASE ~(Defines(next, s) /\ fn_selectors_with_abis[s] = NoAbi)
    BY <1>3, <2>1, <2>2, <2>4
  <2> QED
    BY <2>3, <2>4
<1>6. CASE /\ \A w \in Workers : ~Commit(w)
           /\ \A r \in Requests : ~AddAbi(r)
           /\ ~InitTable
  <2>1. UNCHANGED <<rows, web, fn_selectors_with_abis>>
    BY <1>1, <1>6 DEF Next, WorkerStep, GetOrCreateAbi, BeginInsert, ReturnExisting, Abort,
       Insert, WebStep, StartWeb, CheckLocalAbi, StoreLocalAbi, CommitLocalAbi,
       StartupFails, LocalAbisLoaded, InitCursor, RequestStep, Arrive, AcquireLock,
       LockTimeout, ReadLastId, OpenStream, FinishLoad, FailLoad, Answer, dbVars, webVars,
       tableVars, vars
  <2> QED
    BY <1>3, <2>1
<1> QED
  BY <1>2, <1>4, <1>5, <1>6

(* When a load ends, nothing the request saw at its arrival is pending. *)
LEMMA SeenStep ==
    ASSUME TypeOK, ControlInv, CursorInv, OneLoader, SkippedOnlyByRaceOrFailure,
           LoaderSeesCommitted, [Next]_vars
    PROVE  LoaderSeesCommitted'
<1> USE DEF TypeOK
<1> SUFFICES ASSUME NEW r \in Requests, rpc'[r] = "decode", NEW row \in seen'[r]
             PROVE  (Covered(row) \/ row \in overtaken \/ row \in dropped)'
  BY DEF LoaderSeesCommitted
<1>1. ~WebCrash
  BY DEF WebCrash
<1>2. seen'[r] = seen[r] /\ rpc[r] # "idle"
  <2>1. CASE UNCHANGED requestVars
    BY <2>1 DEF requestVars
  <2>2. ASSUME NEW x \in Requests,
               Arrive(x) \/ AcquireLock(x) \/ LockTimeout(x) \/ RequestStep(x) \/ FailLoad(x)
        PROVE  seen'[r] = seen[r] /\ rpc[r] # "idle"
    BY <2>2 DEF Arrive, AcquireLock, LockTimeout, RequestStep, ReadLastId, OpenStream,
       AddAbi, FinishLoad, FailLoad, Answer, TakeLock, ReleaseLock, Goto
  <2> QED
    BY <1>1, <2>1, <2>2, OtherStep
<1>3. ~InitTable /\ web = "ready"
  BY <1>2 DEF InitTable, ControlInv
<1>4. ASSUME Covered(row) \/ row \in overtaken \/ row \in dropped
      PROVE  (Covered(row) \/ row \in overtaken \/ row \in dropped)'
  BY <1>1, <1>2, <1>3, <1>4, CoveredKept, TableKept
<1>5. CASE rpc[r] = "decode"
  BY <1>2, <1>4, <1>5 DEF LoaderSeesCommitted
<1>6. CASE ReadLastId(r)
  <2>1. rpc[r] = "cursor" /\ previous_last_abi_id[r] = last_abi_id
    BY <1>6 DEF ReadLastId, CursorInv
  <2>0. ~Goto(r, "stream")
    BY DEF Goto
  <2>2. PICK n \in 0..nextId : IsLastInsertedId(n) /\ n <= previous_last_abi_id[r]
    BY <1>6, <2>0 DEF ReadLastId
  <2>3. row \in rows /\ row.id \in Nat
    BY <1>2 DEF CursorInv, Row
  <2>4. row.id <= last_abi_id
    BY <2>1, <2>2, <2>3 DEF IsLastInsertedId
  <2>5. \A x \in Requests : row \notin Pending(x)
    BY <2>1 DEF Pending, OneLoader, Loading
  <2> QED
    BY <1>3, <1>4, <2>3, <2>4, <2>5 DEF SkippedOnlyByRaceOrFailure
<1>7. CASE FinishLoad(r)
  <2>1. rpc[r] = "adding" /\ todo[r] = {}
    BY <1>7 DEF FinishLoad
  <2>2. row \in rows /\ row.id <= last_abi_id
    BY <1>2, <2>1 DEF CursorInv
  <2>3. \A x \in Requests : row \notin Pending(x)
    BY <2>1 DEF Pending, OneLoader, Loading
  <2> QED
    BY <1>3, <1>4, <2>2, <2>3 DEF SkippedOnlyByRaceOrFailure
<1>8. CASE rpc[r] # "decode" /\ ~ReadLastId(r) /\ ~FinishLoad(r)
  <2>1. ~UNCHANGED requestVars
    BY <1>8 DEF requestVars
  <2>2. ASSUME NEW x \in Requests,
               Arrive(x) \/ AcquireLock(x) \/ LockTimeout(x) \/ RequestStep(x) \/ FailLoad(x)
        PROVE  FALSE
    BY <1>8, <2>2 DEF Arrive, AcquireLock, LockTimeout, RequestStep, ReadLastId, OpenStream,
       AddAbi, FinishLoad, FailLoad, Answer, TakeLock, ReleaseLock, Goto
  <2> QED
    BY <1>1, <2>1, <2>2, OtherStep
<1> QED
  BY <1>5, <1>6, <1>7, <1>8

-----------------------------------------------------------------------------
(* The invariant holds initially. *)
LEMMA InitInv ==
    ASSUME Init
    PROVE  IndInv
<1> USE DEF Init, NoId
<1>1. TypeOK
  BY RowType, LocalAssumption, BoundAssumption DEF TypeOK, EmptyTable
<1>2. RowsInv /\ ControlInv /\ CursorInv
  BY DEF RowsInv, ControlInv, CursorInv, Active, NoRow, Sessions
<1>5. LocalInv
  BY DEF LocalInv, Active, Sessions
<1>3. OneLoader
  BY FreeAssumption DEF OneLoader, Loading
<1>4. UniqueAbis /\ SkippedOnlyByRaceOrFailure /\ MostRelevantWins /\ LoaderSeesCommitted
  BY DEF UniqueAbis, SkippedOnlyByRaceOrFailure, MostRelevantWins, LoaderSeesCommitted
<1> QED
  BY <1>1, <1>2, <1>3, <1>4, <1>5 DEF IndInv

(* The conjunction of the properties and of what they rest on is an         *)
(* invariant of every behaviour of the system.                              *)
THEOREM Invariance == Spec => []IndInv
<1>1. IndInv /\ [Next]_vars => IndInv'
  BY TypeStep, RowsStep, ControlStep, LocalStep, CursorStep, LoaderStep, UniqueStep, SkippedStep,
     RelevanceStep, SeenStep DEF IndInv
<1> QED
  BY <1>1, InitInv, PTL DEF Spec

(* Every variable keeps its type. *)
THEOREM TypeCorrect == Spec => []TypeOK
BY Invariance, PTL DEF IndInv

(* load_new_abis: the lock is held exactly while a load runs. *)
THEOREM LoadsExclude == Spec => []OneLoader
BY Invariance, PTL DEF IndInv

(* get_or_create_abi and the startup: one row per ABI and per id. *)
THEOREM AbisUnique == Spec => []UniqueAbis
BY Invariance, PTL DEF IndInv

(* load_new_abis: the cursor skips an ABI for two reasons only, a commit    *)
(* out of the order of the ids and a load that failed.                      *)
THEOREM CursorSkips == Spec => []SkippedOnlyByRaceOrFailure
BY Invariance, PTL DEF IndInv

(* _store_abis_in_database: who serves has stored all that is shipped. *)
THEOREM ShippedAreStored == Spec => []ShippedStored
<1>1. IndInv => ShippedStored
  BY DEF IndInv, LocalInv, ShippedStored
<1> QED
  BY <1>1, Invariance, PTL

(* init and add_abi: a selector is decoded with its most relevant ABI. *)
THEOREM Relevance == Spec => []MostRelevantWins
BY Invariance, PTL DEF IndInv

(* load_new_abis: the request that loads decodes with what was committed    *)
(* before it arrived.                                                       *)
THEOREM LoaderIsFresh == Spec => []LoaderSeesCommitted
BY Invariance, PTL DEF IndInv

-----------------------------------------------------------------------------
(* A row and its entry have the same selectors. *)
LEMMA EntryHas ==
    ASSUME NEW row, row.abi \in Abi, NEW s \in Selector
    PROVE  Table!Has(Entry(row), s) <=> Defines(row, s)
BY DEF Table!Has, Entry, Defines

(* A commit stores an ABI that nobody has stored: a downloaded one with     *)
(* relevance 0, or the local one that the startup is at.                    *)
LEMMA CommitStores ==
    ASSUME TypeOK, RowsInv, ControlInv, LocalInv, NEW s \in Sessions, CommitRow(s),
           UNCHANGED fn_selectors_with_abis, (web = "ready") <=> (web' = "ready")
    PROVE  Table!Store
<1> DEFINE new == Entry(txRow[s])
<1>1. entries' = entries \union {new}
  BY DEF CommitRow, entries, Entry
<1>2. \A other \in entries : other.abi # new.abi
  BY DEF CommitRow, entries, Entry, RowsInv
<1>0. new.abi \in Abi /\ new.relevance \in Nat
  BY DEF CommitRow, RowsInv, Active, Entry, TypeOK, Row
<1>3. new.relevance = 0 \/ new \in shipped
  <2>1. CASE s = Web
    <3>1. Active(Web) /\ nextLocal \in 1..Len(LocalAbis)
      BY <2>1, LocalAssumption DEF CommitRow, ControlInv, Active, TypeOK
    <3> QED
      BY <2>1, <3>1 DEF LocalInv, shipped
  <2>2. CASE s \in Workers
    BY <2>2 DEF ControlInv, Entry
  <2> QED
    BY <2>1, <2>2 DEF Sessions
<1>4. new \in entries'
  BY <1>1
<1> HIDE DEF new
<1> QED
  BY <1>0, <1>1, <1>2, <1>3, <1>4 DEF Table!Store

(* InitTable is the Build of SelectorTable. *)
LEMMA InitBuilds ==
    ASSUME TypeOK, TypeOK', RowsInv, LocalInv, InitTable
    PROVE  Table!Build
<1>0. Table!AllShipped
  <2>1. \A i \in 1..Len(LocalAbis) : Stored(LocalAbis[i].abi)
    BY DEF InitTable, LocalInv
  <2>2. ASSUME NEW a \in shipped
        PROVE  \E entry \in entries : entry.abi = a.abi
    <3>1. PICK row \in rows : row.abi = a.abi
      BY <2>1 DEF shipped, Stored
    <3>2. Entry(row) \in entries /\ Entry(row).abi = row.abi
      BY DEF entries, Entry
    <3> QED
      BY <3>1, <3>2
  <2> QED
    BY <2>2 DEF Table!AllShipped
<1>1. entries' = entries
  BY DEF InitTable, dbVars, entries
<1>2. /\ ~(web = "ready") /\ web' = "ready"
      /\ fn_selectors_with_abis' \in [Selector -> Abi \union {NoAbi}]
  BY DEF InitTable, TypeOK
<1>3. ASSUME NEW s \in Selector
      PROVE  \/ /\ fn_selectors_with_abis'[s] = NoAbi
                /\ \A entry \in entries : ~Table!Has(entry, s)
             \/ \E best \in entries :
                 /\ fn_selectors_with_abis'[s] = best.abi
                 /\ Table!Has(best, s)
                 /\ \A entry \in entries :
                        Table!Has(entry, s) => entry.relevance <= best.relevance
  <2>0. \A row \in rows : row.abi \in Abi
    BY DEF RowsInv
  <2>1. \A entry \in entries : \E row \in rows : entry = Entry(row)
    BY DEF entries
  <2>2. CASE /\ fn_selectors_with_abis'[s] = NoAbi
             /\ \A row \in rows : ~Defines(row, s)
    BY <2>0, <2>1, <2>2, EntryHas
  <2>3. ASSUME NEW best \in rows,
               best.abi = fn_selectors_with_abis'[s],
               Defines(best, s),
               \A row \in rows : Defines(row, s) => row.relevance <= best.relevance
        PROVE  \E b \in entries :
                 /\ fn_selectors_with_abis'[s] = b.abi
                 /\ Table!Has(b, s)
                 /\ \A entry \in entries :
                        Table!Has(entry, s) => entry.relevance <= b.relevance
    <3>1. Entry(best) \in entries /\ Entry(best).abi = best.abi
      BY DEF entries, Entry
    <3>2. Table!Has(Entry(best), s)
      BY <2>0, <2>3, EntryHas
    <3>3. ASSUME NEW entry \in entries, Table!Has(entry, s)
          PROVE  entry.relevance <= Entry(best).relevance
      <4>1. PICK row \in rows : entry = Entry(row)
        BY <2>1
      <4>2. Defines(row, s)
        BY <2>0, <3>3, <4>1, EntryHas
      <4> QED
        BY <2>3, <4>1, <4>2 DEF Entry
    <3> QED
      BY <2>3, <3>1, <3>2, <3>3
  <2> QED
    BY <2>2, <2>3, InitTableCovers
<1> QED
  BY <1>0, <1>1, <1>2, <1>3 DEF Table!Build

(* add_abi of a row that was read from the database extends the table. *)
LEMMA AddExtends ==
    ASSUME TypeOK, RowsInv, ControlInv, CursorInv, NEW r \in Requests, AddAbi(r)
    PROVE  \E entry \in entries : Table!Extend(entry)
<1>1. PICK row \in todo[r] :
          fn_selectors_with_abis' =
              [s \in Selector |->
                  IF Defines(row, s) /\ fn_selectors_with_abis[s] = NoAbi
                    THEN row.abi ELSE fn_selectors_with_abis[s]]
  BY DEF AddAbi
<1>2. row \in rows /\ row.abi \in Abi
  BY DEF CursorInv, RowsInv
<1>3. Entry(row) \in entries /\ Entry(row).abi = row.abi
  BY <1>2 DEF entries, Entry
<1>4. web = "ready" /\ web' = "ready" /\ entries' = entries
  BY DEF AddAbi, ControlInv, webVars, dbVars, entries
<1>5. fn_selectors_with_abis' =
          [s \in Selector |->
              IF fn_selectors_with_abis[s] = NoAbi /\ Table!Has(Entry(row), s)
                THEN Entry(row).abi ELSE fn_selectors_with_abis[s]]
  BY <1>1, <1>2, <1>3, EntryHas
<1>6. Table!Extend(Entry(row))
  BY <1>4, <1>5 DEF Table!Extend
<1> QED
  BY <1>3, <1>6

(* Every step is a step of SelectorTable or leaves it alone. *)
LEMMA TableStep ==
    ASSUME IndInv, TypeOK', [Next]_vars
    PROVE  [Table!Next]_(Table!vars)
<1> USE DEF IndInv
<1>1. ASSUME NEW w \in Workers, Commit(w)
      PROVE  Table!Store
  BY <1>1, CommitStores DEF Commit, webVars, tableVars, Sessions
<1>2. ASSUME CommitLocalAbi
      PROVE  Table!Store
  <2>1. web # "ready" /\ web' # "ready"
    BY <1>2 DEF CommitLocalAbi, CommitRow, ControlInv, Active
  <2> QED
    BY <1>2, <2>1, CommitStores DEF CommitLocalAbi, tableVars, Sessions
<1>3. ASSUME WebCrash
      PROVE  Table!Stop
  BY <1>3 DEF WebCrash, Table!Stop, Table!NothingLoaded, EmptyTable, entries
<1>4. CASE /\ \A w \in Workers : ~Commit(w)
           /\ \A r \in Requests : ~AddAbi(r)
           /\ ~InitTable /\ ~CommitLocalAbi /\ ~WebCrash
  <2>1. UNCHANGED <<rows, fn_selectors_with_abis>> /\ (web = "ready") = (web' = "ready")
    BY <1>4 DEF Next, WorkerStep, GetOrCreateAbi, BeginInsert, ReturnExisting, Abort,
       Insert, WebStep, StartWeb, CheckLocalAbi, StoreLocalAbi, StartupFails,
       LocalAbisLoaded, InitCursor, RequestStep, Arrive, AcquireLock, LockTimeout,
       ReadLastId, OpenStream, FinishLoad, FailLoad, Answer, dbVars, webVars, tableVars,
       vars, ControlInv, Active
  <2> QED
    BY <2>1 DEF Table!vars, entries
<1> QED
  BY <1>1, <1>2, <1>3, <1>4, InitBuilds, AddExtends DEF Table!Next

(* init, load_new_abis and add_abi implement the table of SelectorTable: a  *)
(* selector gets the most relevant ABI at startup or the first one loaded,  *)
(* and keeps it until the process stops.                                    *)
THEOREM TableImplemented == Spec => TableRefined
<1>1. Init => Table!Init
  BY DEF Init, Table!Init, Table!NothingLoaded, EmptyTable, entries
<1>2. IndInv /\ IndInv' /\ [Next]_vars => [Table!Next]_(Table!vars)
  BY TableStep DEF IndInv
<1> QED
  BY <1>1, <1>2, Invariance, PTL DEF Spec, TableRefined, Table!Spec

-----------------------------------------------------------------------------
CONSTANTS
    fn,             \* a selector
    NamesOf,        \* the names of the inputs of its function in each ABI
    NoNames         \* the function is not in the table

Through == INSTANCE SelectorTableProofs WITH
    stored <- entries,
    table <- fn_selectors_with_abis,
    serving <- (web = "ready"),
    Shipped <- shipped

(* Seen through any selector, the loading of ABIs is the FunctionTable that *)
(* DecodeData decodes with: what a function is named after is one of its    *)
(* most relevant stored ABIs, and stays until the process stops.            *)
THEOREM NamesImplemented ==
    ASSUME fn \in Selector, \A a \in Abi : NamesOf[a] # NoNames
    PROVE  Spec => Through!Fun!Spec
<1>1. Table!Init => Through!Init
  BY DEF Table!Init, Through!Init, Table!NothingLoaded, Through!NothingLoaded
<1>2. [Table!Next]_(Table!vars) => [Through!Next]_(Through!vars)
  <2>1. Table!Store => Through!Store
    BY DEF Table!Store, Through!Store
  <2>2. Table!Build => Through!Build
    BY DEF Table!Build, Through!Build, Table!AllShipped, Through!AllShipped,
       Table!Has, Through!Has
  <2>3. \A entry : Table!Extend(entry) => Through!Extend(entry)
    BY DEF Table!Extend, Through!Extend, Table!Has, Through!Has
  <2>4. Table!Stop => Through!Stop
    BY DEF Table!Stop, Through!Stop, Table!NothingLoaded, Through!NothingLoaded
  <2> QED
    BY <2>1, <2>2, <2>3, <2>4 DEF Table!Next, Through!Next, Table!vars, Through!vars
<1>3. Spec => Through!Spec
  BY <1>1, <1>2, TableImplemented, PTL DEF TableRefined, Table!Spec, Through!Spec
<1>4. Through!Spec => Through!Fun!Spec
  BY Through!FunctionImplemented, AbiAssumption
<1> QED
  BY <1>3, <1>4, PTL
==============================================================================
