------------------------ MODULE ContractDownloadProofs ------------------------
(***************************************************************************)
(* The safety properties of ContractDownload, proved for any contracts,    *)
(* implementations, concurrent tasks and bounds.                           *)
(***************************************************************************)
EXTENDS ContractDownload, TLAPS

USE DEF faultVars

(* Whatever a step of a task is, it is one of the actions. *)
LEMMA TaskCases ==
    ASSUME NEW t \in Tasks, TaskStep(t)
    PROVE  \/ CheckRedis(t) \/ CheckContract(t) \/ CacheNo(t) \/ AskNext(t)
           \/ \E answer \in {"bad", "ok"}, i \in Contract \union {NoContract} :
                ClientAnswers(t, answer, i)
           \/ NoClientAnswers(t) \/ GetOrCreate(t) \/ StoreFailure(t)
           \/ StoreMetadata(t) \/ UpdateGone(t) \/ InvalidateCache(t) \/ SendProxy(t)
BY DEF TaskStep

(* A message that is sent is a message. *)
LEMMA SendType ==
    ASSUME TypeOK, NEW cs \in SUBSET Contract, NEW skip \in BOOLEAN, Send(cs, skip)
    PROVE  queue' \subseteq Message
<1>1. \A c \in cs : [address |-> c, skip_attempt_download |-> skip] \in Message
  BY DEF Message
<1> QED
  BY <1>1 DEF Send, TypeOK

(* The end of an execution keeps the types of its variables. *)
LEMMA EndType ==
    ASSUME TypeOK, NEW t \in Tasks, End(t)
    PROVE  /\ pc' \in [Tasks -> {"idle", "gate", "lookup", "settle", "ask", "create",
                                 "store", "gone", "invalidate", "proxy"}]
           /\ msg' \in [Tasks -> Message \union {NoMessage}]
           /\ client' \in [Tasks -> 1..(Clients + 1)]
           /\ found' \in [Tasks -> {"none", "bad", "ok"}]
           /\ proxied' \in [Tasks -> Contract \union {NoContract}]
           /\ retriesRead' \in [Tasks -> Nat]
BY CountAssumption DEF TypeOK, End, Goto

(* Every step keeps every variable in its type. *)
LEMMA TypeStep ==
    ASSUME TypeOK, TaskInv, [Next]_vars
    PROVE  TypeOK'
<1> USE CountAssumption
<1>1. ASSUME NEW c \in Contract, ProcessEvent(c)
      PROVE  TypeOK'
  <2>1. queue' \subseteq Message
    BY <1>1, SendType DEF ProcessEvent
  <2> QED
    BY <1>1, <2>1 DEF TypeOK, ProcessEvent, tableVars, taskVars
<1>2. ASSUME NEW c \in Contract, ExpireNo(c)
      PROVE  TypeOK'
  BY <1>2 DEF TypeOK, ExpireNo, tableVars, taskVars
<1>3. CASE GetMissingContractMetadata
  <2>1. ContractsWithoutAbi \in SUBSET Contract
    BY DEF ContractsWithoutAbi, TypeOK
  <2>2. queue' \subseteq Message
    BY <1>3, <2>1, SendType DEF GetMissingContractMetadata
  <2> QED
    BY <1>3, <2>2 DEF TypeOK, GetMissingContractMetadata, tableVars, taskVars
<1>4. CASE UpdateProxies
  <2>1. ProxyContracts \in SUBSET Contract
    BY DEF ProxyContracts, TypeOK
  <2>2. queue' \subseteq Message
    BY <1>4, <2>1, SendType DEF UpdateProxies
  <2> QED
    BY <1>4, <2>2 DEF TypeOK, UpdateProxies, tableVars, taskVars
<1>5. ASSUME NEW t \in Tasks, NEW m \in Message, Take(t, m)
      PROVE  TypeOK'
  BY <1>5 DEF TypeOK, Take, Goto, tableVars
<1>6. ASSUME NEW t \in Tasks, CheckRedis(t)
      PROVE  TypeOK'
  <2>1. CASE End(t)
    BY <1>6, <2>1, EndType DEF TypeOK, CheckRedis, tableVars
  <2>2. CASE Goto(t, "lookup") /\ UNCHANGED <<msg, client, found, proxied, retriesRead>>
    BY <1>6, <2>2 DEF TypeOK, CheckRedis, Goto, tableVars
  <2> QED
    BY <1>6, <2>1, <2>2 DEF CheckRedis
<1>7. ASSUME NEW t \in Tasks, CheckContract(t)
      PROVE  TypeOK'
  BY <1>7 DEF TypeOK, CheckContract, Goto, tableVars
<1>8. ASSUME NEW t \in Tasks, CacheNo(t)
      PROVE  TypeOK'
  <2>1. Address(t) \in Contract
    BY <1>8 DEF CacheNo, TaskInv, Address, Message
  <2> QED
    BY <1>8, <2>1, EndType DEF TypeOK, CacheNo, tableVars
<1>9. ASSUME NEW t \in Tasks, AskNext(t)
      PROVE  TypeOK'
  BY <1>9 DEF TypeOK, AskNext, tableVars
<1>10. ASSUME NEW t \in Tasks, NEW answer \in {"bad", "ok"},
              NEW i \in Contract \union {NoContract}, ClientAnswers(t, answer, i)
       PROVE  TypeOK'
  BY <1>10 DEF TypeOK, ClientAnswers, Goto, tableVars
<1>11. ASSUME NEW t \in Tasks, NoClientAnswers(t)
       PROVE  TypeOK'
  BY <1>11 DEF TypeOK, NoClientAnswers, Goto, tableVars
<1>12. ASSUME NEW t \in Tasks, GetOrCreate(t)
       PROVE  TypeOK'
  <2>1. Address(t) \in Contract
    BY <1>12 DEF GetOrCreate, TaskInv, Address, Message
  <2> QED
    BY <1>12, <2>1 DEF TypeOK, GetOrCreate, Goto
<1>13. ASSUME NEW t \in Tasks, StoreFailure(t)
       PROVE  TypeOK'
  <2>0. Address(t) \in Contract
    BY <1>13 DEF StoreFailure, TaskInv, Address, Message
  <2>1. fetch_retries' \in [Contract -> Nat] /\ failures' \in [Contract -> Nat]
    BY <1>13, <2>0 DEF TypeOK, StoreFailure
  <2> QED
    BY <1>13, <2>1 DEF TypeOK, StoreFailure, Goto
<1>14. ASSUME NEW t \in Tasks, StoreMetadata(t)
       PROVE  TypeOK'
  <2>1. Address(t) \in Contract
    BY <1>14 DEF StoreMetadata, TaskInv, Address, Message
  <2> QED
    BY <1>14, <2>1 DEF TypeOK, StoreMetadata, Goto
<1>15. ASSUME NEW t \in Tasks, InvalidateCache(t)
       PROVE  TypeOK'
  BY <1>15 DEF TypeOK, InvalidateCache, Goto, tableVars
<1>16. ASSUME NEW t \in Tasks, SendProxy(t)
       PROVE  TypeOK'
  <2>1. {proxied[t]} \ {NoContract} \in SUBSET Contract
    BY DEF TypeOK
  <2>2. queue' \subseteq Message
    BY <1>16, <2>1, SendType DEF SendProxy
  <2> QED
    BY <1>16, <2>2, EndType DEF TypeOK, SendProxy, tableVars
<1>17. ASSUME NEW t \in Tasks, Crash(t)
       PROVE  TypeOK'
  <2>1. queue' \subseteq Message /\ faults' \in 0..MaxFaults /\ unsent' \subseteq Contract
    BY <1>17 DEF Crash, Fault, InHand, TaskInv, TypeOK
  <2> QED
    BY <1>17, <2>1, EndType DEF TypeOK, Crash, tableVars
<1>19. ASSUME NEW t \in Tasks, UpdateGone(t)
       PROVE  TypeOK'
  <2>1. queue' \subseteq Message
    BY <1>19 DEF UpdateGone, TaskInv, TypeOK
  <2> QED
    BY <1>19, <2>1, EndType DEF TypeOK, UpdateGone, tableVars
<1>20. ASSUME NEW c \in Contract, Administer(c)
       PROVE  TypeOK'
  <2>1. faults' \in 0..MaxFaults /\ administered' \subseteq Contract
    BY <1>20 DEF Administer, AdminDelete, AdminSave, Intervene, Fault, TypeOK
  <2>2. CASE AdminDelete(c)
    BY <2>1, <2>2 DEF AdminDelete, TypeOK
  <2>3. ASSUME NEW cs \in SUBSET {c}, NEW n \in EditedRetries,
               NEW i \in Contract \union {NoContract}, AdminSave(c, cs, n, i)
        PROVE  TypeOK'
    <3>1. fetch_retries' \in [Contract -> Nat]
      BY <2>3 DEF AdminSave, TypeOK
    <3> QED
      BY <2>1, <2>3, <3>1 DEF AdminSave, TypeOK, taskVars
  <2> QED
    BY <1>20, <2>2, <2>3 DEF Administer
<1>18. CASE UNCHANGED vars
  BY <1>18 DEF TypeOK, vars, tableVars, taskVars
<1> QED
  BY <1>1, <1>2, <1>3, <1>4, <1>5, <1>6, <1>7, <1>8, <1>9, <1>10, <1>11, <1>12, <1>13,
     <1>14, <1>15, <1>16, <1>17, <1>18, <1>19, <1>20, TaskCases DEF Next

-----------------------------------------------------------------------------
(* An administrator is remembered. *)
LEMMA AdministeredKept ==
    ASSUME [Next]_vars, NEW c \in Contract
    PROVE  /\ c \in administered => c \in administered'
           /\ Administer(c) => c \in administered'
<1>1. ASSUME NEW d \in Contract, Administer(d)
      PROVE  administered' = administered \union {d}
  BY <1>1 DEF Administer, AdminDelete, AdminSave, Intervene
<1>2. ASSUME ~\E d \in Contract : Administer(d)
      PROVE  administered' = administered
  BY <1>2, TaskCases DEF Next, ProcessEvent, ExpireNo, GetMissingContractMetadata,
     UpdateProxies, Take, Crash, CheckRedis, CheckContract, CacheNo, AskNext,
     ClientAnswers, NoClientAnswers, GetOrCreate, StoreFailure, StoreMetadata, UpdateGone,
     InvalidateCache, SendProxy, vars
<1> QED
  BY <1>1, <1>2

(* An administrator writes one row. *)
LEMMA OtherRowsKept ==
    ASSUME TypeOK, NEW d \in Contract, Administer(d), NEW c \in Contract, c # d
    PROVE  /\ c \in exists' <=> c \in exists
           /\ c \in abi' <=> c \in abi
           /\ fetch_retries'[c] = fetch_retries[c]
           /\ implementation'[c] = implementation[c]
           /\ failures' = failures
           /\ c \in unsent => c \in unsent'
<1> USE DEF TypeOK
<1>1. CASE AdminDelete(d)
  BY <1>1 DEF AdminDelete
<1>2. ASSUME NEW cs \in SUBSET {d}, NEW n \in EditedRetries,
             NEW i \in Contract \union {NoContract}, AdminSave(d, cs, n, i)
      PROVE  /\ c \in exists' <=> c \in exists
             /\ c \in abi' <=> c \in abi
             /\ fetch_retries'[c] = fetch_retries[c]
             /\ implementation'[c] = implementation[c]
             /\ failures' = failures
             /\ c \in unsent => c \in unsent'
  BY <1>2 DEF AdminSave
<1> QED
  BY <1>1, <1>2 DEF Administer

(* What a step may do to the row of a contract, whoever but an              *)
(* administrator takes it: rows and ABIs stay, an implementation may change *)
(* but not vanish, a positive number of retries stays positive.             *)
LEMMA RowsKept ==
    ASSUME TypeOK, [Next]_vars, NEW c \in Contract, ~Administer(c)
    PROVE  /\ c \in exists => c \in exists'
           /\ c \in abi => c \in abi'
           /\ implementation[c] # NoContract => implementation'[c] # NoContract
           /\ fetch_retries[c] > 0 => fetch_retries'[c] > 0
           /\ failures[c] <= failures'[c]
<1> DEFINE Kept == /\ c \in exists => c \in exists'
                   /\ c \in abi => c \in abi'
                   /\ implementation[c] # NoContract => implementation'[c] # NoContract
                   /\ fetch_retries[c] > 0 => fetch_retries'[c] > 0
                   /\ failures[c] <= failures'[c]
<1> USE DEF TypeOK
<1>1. ASSUME NEW t \in Tasks, StoreFailure(t)
      PROVE  Kept
  BY <1>1 DEF StoreFailure
<1>2. ASSUME NEW t \in Tasks, StoreMetadata(t)
      PROVE  Kept
  BY <1>2 DEF StoreMetadata
<1>3. ASSUME NEW t \in Tasks, GetOrCreate(t)
      PROVE  Kept
  BY <1>3 DEF GetOrCreate
<1>4. CASE UNCHANGED <<tableVars, failures>>
  BY <1>4 DEF tableVars
<1>5. ASSUME NEW d \in Contract, Administer(d)
      PROVE  Kept
  BY <1>5, OtherRowsKept
<1>6. CASE /\ \A t \in Tasks : ~StoreFailure(t) /\ ~StoreMetadata(t) /\ ~GetOrCreate(t)
           /\ ~\E d \in Contract : Administer(d)
  BY <1>4, <1>6, TaskCases DEF Next, ProcessEvent, ExpireNo, GetMissingContractMetadata,
     UpdateProxies, Take, Crash, CheckRedis, CheckContract, CacheNo, AskNext,
     ClientAnswers, NoClientAnswers, UpdateGone, InvalidateCache, SendProxy, vars
<1> QED
  BY <1>1, <1>2, <1>3, <1>5, <1>6

(* A contract that needs no download stays so. *)
LEMMA SettledKept ==
    ASSUME TypeOK, [Next]_vars, NEW c \in Contract, Settled(c) \/ c \in administered
    PROVE  Settled(c)' \/ c \in administered'
<1>1. CASE Administer(c) \/ c \in administered
  BY <1>1, AdministeredKept
<1>2. CASE ~Administer(c) /\ Settled(c)
  BY <1>2, RowsKept DEF Settled
<1> QED
  BY <1>1, <1>2

(* A task's knowledge is established by its own steps and survives those of *)
(* the others.                                                              *)
LEMMA TaskInvStep ==
    ASSUME TypeOK, TaskInv, FailuresRemembered, [Next]_vars
    PROVE  TaskInv'
<1> DEFINE Done == {"settle", "invalidate", "proxy"}
<1> DEFINE Right(t) ==
             /\ pc'[t] # "idle" => msg'[t] \in Message
             /\ pc'[t] \in Done => Settled(Address(t))' \/ Address(t)' \in administered'
             /\ pc'[t] = "store" =>
                   /\ Address(t)' \in exists'
                   /\ \/ retriesRead'[t] <= failures'[Address(t)']
                      \/ Address(t)' \in administered'
<1> SUFFICES ASSUME NEW t \in Tasks
             PROVE  Right(t)
  BY DEF TaskInv, Address
<1> USE DEF Address
<1>1. ASSUME UNCHANGED <<pc[t], msg[t], retriesRead[t]>>
      PROVE  Right(t)
  <2>1. CASE pc[t] = "idle"
    BY <1>1, <2>1
  <2>2. CASE pc[t] # "idle"
    <3>0. msg[t] \in Message
      BY <2>2 DEF TaskInv
    <3>1. PICK c \in Contract : c = msg[t].address
      BY <3>0 DEF Message
    <3>2. pc[t] \in Done => Settled(c)' \/ c \in administered'
      BY <3>1, SettledKept DEF TaskInv
    <3>3. ASSUME pc[t] = "store"
          PROVE  c \in exists' /\ (retriesRead[t] <= failures'[c] \/ c \in administered')
      <4>1. failures'[c] \in Nat
        BY <3>1, TypeStep DEF TypeOK
      <4>2. CASE Administer(c)
        <5>1. c \in administered'
          BY <4>2, AdministeredKept
        <5>2. ~AdminDelete(c)
          BY <1>1, <3>1, <3>3 DEF AdminDelete
        <5>3. c \in exists'
          BY <4>2, <5>2 DEF Administer, AdminSave
        <5> QED
          BY <5>1, <5>3
      <4>3. CASE ~Administer(c)
        BY <3>1, <3>3, <4>1, <4>3, RowsKept, AdministeredKept DEF TaskInv, TypeOK
      <4> QED
        BY <4>2, <4>3
    <3>4. Address(t)' = c
      BY <1>1, <3>1
    <3> QED
      BY <1>1, <3>0, <3>2, <3>3, <3>4
  <2> QED
    BY <2>1, <2>2
<1>11. ASSUME NEW c \in Contract, Administer(c)
       PROVE  /\ msg'[t] = msg[t] /\ retriesRead'[t] = retriesRead[t]
              /\ \/ pc'[t] = pc[t]
                 \/ pc[t] = "store" /\ pc'[t] = "gone"
  <2>1. CASE AdminDelete(c)
    <3>1. pc'[t] = IF pc[t] = "store" /\ Address(t) = c THEN "gone" ELSE pc[t]
      BY <2>1 DEF AdminDelete
    <3>2. msg' = msg /\ retriesRead' = retriesRead
      BY <2>1 DEF AdminDelete
    <3> QED
      BY <3>1, <3>2
  <2>2. CASE pc' = pc /\ msg' = msg /\ retriesRead' = retriesRead
    BY <2>2
  <2>3. CASE \E cs \in SUBSET {c}, n \in EditedRetries, i \in Contract \union {NoContract} :
              AdminSave(c, cs, n, i)
    BY <2>2, <2>3 DEF AdminSave, taskVars
  <2> QED
    BY <1>11, <2>1, <2>3 DEF Administer
<1>12. ASSUME msg'[t] = msg[t], pc[t] = "store", pc'[t] = "gone"
       PROVE  Right(t)
  BY <1>12 DEF TaskInv
<1>2. ASSUME End(t)
      PROVE  pc'[t] = "idle"
  BY <1>2 DEF End, Goto, TypeOK
<1>3. ASSUME NEW m \in Message, Take(t, m)
      PROVE  msg'[t] \in Message /\ pc'[t] \in {"ask", "gate"}
  BY <1>3 DEF Take, Goto, TypeOK
<1>4. ASSUME CheckContract(t)
      PROVE  /\ msg'[t] \in Message /\ pc'[t] \in {"settle", "ask"}
             /\ pc'[t] = "settle" => Settled(Address(t))' \/ Address(t)' \in administered'
  <2>1. msg'[t] = msg[t] /\ msg[t] \in Message /\ msg[t].address \in Contract
    BY <1>4 DEF CheckContract, TaskInv, Message
  <2>2. pc'[t] = IF Settled(msg[t].address) THEN "settle" ELSE "ask"
    BY <1>4 DEF CheckContract, Goto, TypeOK
  <2>3. /\ UNCHANGED <<exists, abi, fetch_retries>>
        /\ Settled(msg[t].address) => Settled(msg[t].address)'
    BY <1>4 DEF CheckContract, Settled, tableVars
  <2> QED
    BY <2>1, <2>2, <2>3 DEF Settled
<1>5. ASSUME GetOrCreate(t)
      PROVE  /\ msg'[t] \in Message /\ pc'[t] = "store"
             /\ Address(t)' \in exists'
             /\ \/ retriesRead'[t] <= failures'[Address(t)']
                \/ Address(t)' \in administered'
  <2>1. msg' = msg /\ msg[t] \in Message /\ msg[t].address \in Contract
    BY <1>5 DEF GetOrCreate, TaskInv, Message
  <2> QED
    BY <1>5, <2>1 DEF GetOrCreate, Goto, TypeOK, FailuresRemembered
<1>6. ASSUME \/ AskNext(t)
             \/ \E answer \in {"bad", "ok"}, i \in Contract \union {NoContract} :
                  ClientAnswers(t, answer, i)
             \/ NoClientAnswers(t)
             \/ CheckRedis(t) /\ ~End(t)
      PROVE  msg'[t] \in Message /\ pc'[t] \in {"ask", "create", "lookup"}
  BY <1>6 DEF AskNext, ClientAnswers, NoClientAnswers, CheckRedis, Goto, TaskInv, TypeOK
<1>10. ASSUME StoreFailure(t) \/ StoreMetadata(t) \/ InvalidateCache(t)
       PROVE  /\ msg'[t] \in Message /\ pc'[t] \in {"proxy", "invalidate"}
              /\ Settled(Address(t))' \/ Address(t)' \in administered'
  <2>1. /\ msg' = msg /\ msg[t] \in Message /\ msg[t].address \in Contract
        /\ pc'[t] \in {"proxy", "invalidate"}
    BY <1>10 DEF StoreFailure, StoreMetadata, InvalidateCache, TaskInv, Message, Goto, TypeOK
  <2>2. CASE InvalidateCache(t)
    <3>1. Settled(msg[t].address)' \/ msg[t].address \in administered'
      BY <2>1, <2>2, SettledKept DEF InvalidateCache, TaskInv
    <3> QED
      BY <2>1, <3>1 DEF Settled
  <2>3. CASE StoreFailure(t)
    BY <2>1, <2>3 DEF StoreFailure, TaskInv, TypeOK, Settled
  <2>4. CASE StoreMetadata(t)
    BY <2>1, <2>4 DEF StoreMetadata, TaskInv, Settled
  <2> QED
    BY <1>10, <2>1, <2>2, <2>3, <2>4
<1>7. ASSUME NEW x \in Tasks, x # t,
             (\E m \in Message : Take(x, m)) \/ TaskStep(x) \/ Crash(x)
      PROVE  UNCHANGED <<pc[t], msg[t], retriesRead[t]>>
  <2>1. CASE End(x)
    BY <1>7, <2>1 DEF End, Goto, TypeOK
  <2>2. CASE (\E m \in Message : Take(x, m)) \/ GetOrCreate(x)
    BY <1>7, <2>2 DEF Take, GetOrCreate, Goto, TypeOK
  <2>3. CASE UNCHANGED <<msg, retriesRead>> /\ (pc' = pc \/ \E label : Goto(x, label))
    BY <1>7, <2>3 DEF Goto, TypeOK
  <2> QED
    BY <1>7, <2>1, <2>2, <2>3, TaskCases DEF Crash, CheckRedis, CheckContract, CacheNo,
       AskNext, ClientAnswers, NoClientAnswers, StoreFailure, StoreMetadata,
       UpdateGone, InvalidateCache, SendProxy
<1>8. ASSUME \/ \E c \in Contract : ProcessEvent(c) \/ ExpireNo(c)
             \/ GetMissingContractMetadata \/ UpdateProxies \/ UNCHANGED vars
      PROVE  UNCHANGED <<pc[t], msg[t], retriesRead[t]>>
  BY <1>8 DEF ProcessEvent, ExpireNo, GetMissingContractMetadata, UpdateProxies,
     taskVars, vars
<1>9. ASSUME CacheNo(t) \/ SendProxy(t) \/ UpdateGone(t) \/ Crash(t)
      PROVE  End(t)
  BY <1>9 DEF CacheNo, SendProxy, UpdateGone, Crash
<1>13. ASSUME (\E m \in Message : Take(t, m)) \/ TaskStep(t) \/ Crash(t)
       PROVE  Right(t)
  <2>1. CASE End(t)
    BY <1>2, <2>1
  <2>2. CASE \E m \in Message : Take(t, m)
    BY <1>3, <2>2
  <2>3. CASE CheckContract(t)
    BY <1>4, <2>3
  <2>4. CASE GetOrCreate(t)
    BY <1>5, <2>4
  <2>5. CASE \/ AskNext(t)
             \/ \E answer \in {"bad", "ok"}, i \in Contract \union {NoContract} :
                  ClientAnswers(t, answer, i)
             \/ NoClientAnswers(t)
             \/ CheckRedis(t) /\ ~End(t)
    BY <1>6, <2>5
  <2>6. CASE StoreFailure(t) \/ StoreMetadata(t) \/ InvalidateCache(t)
    BY <1>10, <2>6
  <2> QED
    BY <1>9, <1>13, <2>1, <2>2, <2>3, <2>4, <2>5, <2>6, TaskCases
<1> QED
  BY <1>1, <1>7, <1>8, <1>11, <1>12, <1>13 DEF Next

(* A key is set by a task that found the contract settled. *)
LEMMA CachedNoStep ==
    ASSUME TypeOK, TaskInv, CachedNoIsRight, [Next]_vars
    PROVE  CachedNoIsRight'
<1> SUFFICES ASSUME NEW c \in attempted'
             PROVE  Settled(c)' \/ c \in administered'
  BY DEF CachedNoIsRight, Settled
<1>1. CASE c \in attempted
  BY <1>1, SettledKept DEF CachedNoIsRight, TypeOK
<1>2. CASE c \notin attempted
  <2>1. PICK t \in Tasks : CacheNo(t)
    BY <1>2, TaskCases DEF Next, ProcessEvent, ExpireNo, GetMissingContractMetadata,
       UpdateProxies, Take, Crash, CheckRedis, CheckContract, AskNext, ClientAnswers,
       NoClientAnswers, GetOrCreate, StoreFailure, StoreMetadata, UpdateGone,
       InvalidateCache, SendProxy, Administer, AdminDelete, AdminSave, vars
  <2>2. c = Address(t) /\ c \in Contract /\ (Settled(c) \/ c \in administered)
    BY <1>2, <2>1 DEF CacheNo, TaskInv, Address, Message
  <2> QED
    BY <2>2, SettledKept
<1> QED
  BY <1>1, <1>2

(* A failure is stored on top of a count that was right when it was read. *)
LEMMA FailuresStep ==
    ASSUME TypeOK, TaskInv, FailuresRemembered, [Next]_vars
    PROVE  FailuresRemembered'
<1> SUFFICES ASSUME NEW c \in Contract, c \notin administered'
             PROVE  /\ fetch_retries'[c] <= failures'[c]
                    /\ failures'[c] > 0 => fetch_retries'[c] > 0 /\ c \in exists'
  BY DEF FailuresRemembered
<1>0. c \notin administered /\ ~Administer(c)
  BY AdministeredKept
<1> USE DEF TypeOK, FailuresRemembered
<1>1. ASSUME NEW t \in Tasks, StoreFailure(t)
      PROVE  /\ fetch_retries'[c] <= failures'[c]
             /\ failures'[c] > 0 => fetch_retries'[c] > 0 /\ c \in exists'
  <2>1. /\ Address(t) \in exists
        /\ retriesRead[t] <= failures[Address(t)] \/ Address(t) \in administered
    BY <1>1 DEF StoreFailure, TaskInv
  <2> QED
    BY <1>0, <1>1, <2>1 DEF StoreFailure
<1>2. CASE fetch_retries'[c] = fetch_retries[c] /\ failures'[c] = failures[c]
  BY <1>0, <1>2, RowsKept
<1>3. ASSUME NEW d \in Contract, Administer(d)
      PROVE  fetch_retries'[c] = fetch_retries[c] /\ failures'[c] = failures[c]
  BY <1>0, <1>3, OtherRowsKept
<1>4. CASE ~(\E t \in Tasks : StoreFailure(t)) /\ ~(\E d \in Contract : Administer(d))
  BY <1>2, <1>4, TaskCases DEF Next, ProcessEvent, ExpireNo, GetMissingContractMetadata,
     UpdateProxies, Take, Crash, CheckRedis, CheckContract, CacheNo, AskNext,
     ClientAnswers, NoClientAnswers, GetOrCreate, StoreMetadata, UpdateGone,
     InvalidateCache, SendProxy, tableVars, vars
<1> QED
  BY <1>1, <1>2, <1>3, <1>4

(* An execution that ends leaves its contract settled or its message in the *)
(* queue: a key in Redis and a row both mean that the contract is settled,  *)
(* and what a task has stored settles it too.                               *)
LEMMA EndsSettled ==
    ASSUME TypeOK, TaskInv, CachedNoIsRight, [Next]_vars,
           NEW t \in Tasks, pc[t] # "idle", pc'[t] = "idle"
    PROVE  Settled(Address(t)) \/ Address(t) \in administered \/ msg[t] \in queue'
<1>1. CheckRedis(t) \/ CacheNo(t) \/ SendProxy(t) \/ UpdateGone(t) \/ Crash(t)
  <2>1. ASSUME NEW x \in Tasks, x # t,
               (\E m \in Message : Take(x, m)) \/ TaskStep(x) \/ Crash(x)
        PROVE  pc'[t] = pc[t]
    BY <2>1, TaskCases DEF Take, Crash, CheckRedis, CheckContract, CacheNo, AskNext,
       ClientAnswers, NoClientAnswers, GetOrCreate, StoreFailure, StoreMetadata,
       UpdateGone, InvalidateCache, SendProxy, End, Goto, TypeOK
  <2>2. ASSUME \/ \E m \in Message : Take(t, m)
               \/ CheckContract(t) \/ AskNext(t)
               \/ \E answer \in {"bad", "ok"}, i \in Contract \union {NoContract} :
                    ClientAnswers(t, answer, i)
               \/ NoClientAnswers(t) \/ GetOrCreate(t) \/ StoreFailure(t)
               \/ StoreMetadata(t) \/ InvalidateCache(t)
        PROVE  FALSE
    BY <2>2 DEF Take, CheckContract, AskNext, ClientAnswers, NoClientAnswers, GetOrCreate,
       StoreFailure, StoreMetadata, InvalidateCache, Goto, TypeOK
  <2>3. ASSUME \/ \E c \in Contract : ProcessEvent(c) \/ ExpireNo(c)
               \/ GetMissingContractMetadata \/ UpdateProxies \/ UNCHANGED vars
        PROVE  FALSE
    BY <2>3 DEF ProcessEvent, ExpireNo, GetMissingContractMetadata, UpdateProxies,
       taskVars, vars
  <2>4. ASSUME NEW c \in Contract, Administer(c)
        PROVE  FALSE
    BY <2>4 DEF Administer, AdminDelete, AdminSave, taskVars, TypeOK
  <2> QED
    BY <2>1, <2>2, <2>3, <2>4, TaskCases DEF Next
<1>2. CASE CheckRedis(t)
  BY <1>2 DEF CheckRedis, Goto, CachedNoIsRight, TypeOK
<1>3. CASE CacheNo(t) \/ SendProxy(t)
  BY <1>3 DEF CacheNo, SendProxy, TaskInv
<1>4. CASE UpdateGone(t) \/ Crash(t)
  BY <1>4 DEF UpdateGone, Crash
<1> QED
  BY <1>1, <1>2, <1>3, <1>4

(* A contract that waits, waits until it is settled, or administered. *)
LEMMA WaitingKept ==
    ASSUME TypeOK, TaskInv, CachedNoIsRight, [Next]_vars, NEW c \in Contract, Waiting(c)
    PROVE  Waiting(c)' \/ c \in exists' \/ c \in administered'
<1> SUFFICES ASSUME c \notin exists', c \notin administered' PROVE Waiting(c)'
  OBVIOUS
<1>0. c \notin exists /\ c \notin administered
  BY RowsKept, AdministeredKept
<1>1. ASSUME NEW m \in queue, m.address = c PROVE Waiting(c)'
  <2>1. CASE m \in queue'
    BY <1>1, <2>1 DEF Waiting
  <2>2. CASE m \notin queue'
    <3>1. PICK t \in Tasks : Take(t, m)
      BY <1>1, <2>2, TaskCases DEF Next, ProcessEvent, ExpireNo, GetMissingContractMetadata,
         UpdateProxies, Send, Take, Crash, CheckRedis, CheckContract, CacheNo, AskNext,
         ClientAnswers, NoClientAnswers, GetOrCreate, StoreFailure, StoreMetadata,
         UpdateGone, InvalidateCache, SendProxy, Administer, AdminDelete, AdminSave, vars,
         TypeOK
    <3>2. msg'[t] = m /\ pc'[t] # "idle"
      BY <3>1 DEF Take, Goto, TypeOK
    <3> QED
      BY <1>1, <3>2 DEF Waiting, Address
  <2> QED
    BY <2>1, <2>2
<1>2. ASSUME NEW t \in Tasks, pc[t] # "idle", Address(t) = c PROVE Waiting(c)'
  <2>1. CASE pc'[t] = "idle"
    <3>1. Settled(Address(t)) \/ Address(t) \in administered \/ msg[t] \in queue'
      BY <1>2, <2>1, EndsSettled
    <3>2. msg[t] \in queue'
      BY <1>0, <1>2, <3>1 DEF Settled
    <3> QED
      BY <1>2, <3>2 DEF Waiting, Address
  <2>2. CASE pc'[t] # "idle"
    <3>1. msg'[t] = msg[t]
      <4>1. ASSUME NEW x \in Tasks, (\E m \in Message : Take(x, m)) \/ End(x)
            PROVE  x # t
        BY <1>2, <2>2, <4>1 DEF Take, End, Goto, TypeOK
      <4>2. ASSUME NEW x \in Tasks, (\E m \in Message : Take(x, m)) \/ End(x)
            PROVE  msg'[t] = msg[t]
        BY <4>1, <4>2 DEF Take, End, TypeOK
      <4>3. ASSUME NEW d \in Contract, Administer(d)
            PROVE  msg'[t] = msg[t]
        BY <4>3 DEF Administer, AdminDelete, AdminSave, taskVars
      <4> QED
        BY <4>2, <4>3, TaskCases DEF Next, ProcessEvent, ExpireNo,
           GetMissingContractMetadata, UpdateProxies, Crash, CheckRedis, CheckContract,
           CacheNo, AskNext, ClientAnswers, NoClientAnswers, GetOrCreate, StoreFailure,
           StoreMetadata, UpdateGone, InvalidateCache, SendProxy, taskVars, vars
    <3> QED
      BY <1>2, <2>2, <3>1 DEF Waiting, Address
  <2> QED
    BY <2>1, <2>2
<1> QED
  BY <1>1, <1>2 DEF Waiting

(* An implementation in the hands of an execution is sent, or unsent when   *)
(* the execution dies.                                                      *)
LEMMA InHandKept ==
    ASSUME TypeOK, [Next]_vars, NEW t \in Tasks, NEW i \in InHand(t)
    PROVE  i \in InHand(t)' \/ Waiting(i)' \/ i \in unsent' \/ i \in exists'
<1>1. i = proxied[t] /\ i # NoContract /\ i \in Contract /\ pc[t] \in {"invalidate", "proxy"}
  BY DEF InHand, TypeOK
<1>2. CASE SendProxy(t)
  <2>1. [address |-> i, skip_attempt_download |-> FALSE] \in queue'
    BY <1>1, <1>2 DEF SendProxy, Send
  <2> QED
    BY <2>1 DEF Waiting
<1>3. CASE Crash(t)
  BY <1>3 DEF Crash, tableVars
<1>4. CASE InvalidateCache(t)
  BY <1>1, <1>4 DEF InvalidateCache, Goto, InHand, TypeOK
<1>5. CASE pc'[t] = pc[t] /\ proxied'[t] = proxied[t]
  BY <1>1, <1>5 DEF InHand
<1>6. ASSUME NEW x \in Tasks, x # t,
             (\E m \in Message : Take(x, m)) \/ TaskStep(x) \/ Crash(x)
      PROVE  pc'[t] = pc[t] /\ proxied'[t] = proxied[t]
  <2>1. CASE End(x)
    BY <1>6, <2>1 DEF End, Goto, TypeOK
  <2>2. CASE \E answer \in {"bad", "ok"}, j \in Contract \union {NoContract} :
              ClientAnswers(x, answer, j)
    BY <1>6, <2>2 DEF ClientAnswers, Goto, TypeOK
  <2>3. CASE NoClientAnswers(x)
    BY <1>6, <2>3 DEF NoClientAnswers, Goto, TypeOK
  <2>4. CASE proxied' = proxied /\ (pc' = pc \/ \E label : Goto(x, label))
    BY <1>6, <2>4 DEF Goto, TypeOK
  <2> QED
    BY <1>6, <2>1, <2>2, <2>3, <2>4, TaskCases DEF Take, Crash, CheckRedis, CheckContract,
       CacheNo, AskNext, GetOrCreate, StoreFailure, StoreMetadata, UpdateGone,
       InvalidateCache, SendProxy
<1>7. ASSUME (\E m \in Message : Take(t, m)) \/ TaskStep(t) \/ Crash(t)
      PROVE  SendProxy(t) \/ Crash(t) \/ InvalidateCache(t)
  <2>1. pc[t] \notin {"idle", "gate", "lookup", "settle", "ask", "create", "store", "gone"}
    BY <1>1
  <2> QED
    BY <1>7, <2>1 DEF TaskStep, Take, CheckRedis, CheckContract, CacheNo, AskNext,
       ClientAnswers, NoClientAnswers, GetOrCreate, StoreFailure, StoreMetadata, UpdateGone
<1>9. ASSUME NEW c \in Contract, Administer(c)
      PROVE  pc'[t] = pc[t] /\ proxied'[t] = proxied[t]
  BY <1>1, <1>9 DEF Administer, AdminDelete, AdminSave, taskVars, TypeOK
<1>8. ASSUME \/ \E c \in Contract : ProcessEvent(c) \/ ExpireNo(c)
             \/ GetMissingContractMetadata \/ UpdateProxies \/ UNCHANGED vars
      PROVE  pc' = pc /\ proxied' = proxied
  BY <1>8 DEF ProcessEvent, ExpireNo, GetMissingContractMetadata, UpdateProxies,
     taskVars, vars
<1> QED
  BY <1>2, <1>3, <1>4, <1>5, <1>6, <1>7, <1>8, <1>9 DEF Next

(* Of an implementation a row names, none of the traces is lost. *)
LEMMA ImplementationsStep ==
    ASSUME TypeOK, TaskInv, CachedNoIsRight, ImplementationsSent, [Next]_vars
    PROVE  ImplementationsSent'
<1> SUFFICES ASSUME NEW c \in Contract, NEW i \in Contract, implementation'[c] = i,
                    c \notin administered', i \notin administered'
             PROVE  \/ i \in exists'
                    \/ Waiting(i)'
                    \/ \E t \in Tasks : i \in InHand(t)'
                    \/ i \in unsent'
  BY DEF ImplementationsSent
<1>0. /\ c \notin administered /\ ~Administer(c)
      /\ i \notin administered /\ ~Administer(i)
  BY AdministeredKept
<1>1. CASE implementation[c] = i
  <2>1. CASE i \in exists
    BY <1>0, <2>1, RowsKept
  <2>2. CASE Waiting(i)
    BY <2>2, WaitingKept
  <2>3. CASE \E t \in Tasks : i \in InHand(t)
    BY <2>3, InHandKept
  <2>4. CASE i \in unsent
    <3>1. ASSUME NEW d \in Contract, Administer(d)
          PROVE  i \in unsent'
      BY <1>0, <2>4, <3>1, OtherRowsKept
    <3> QED
      BY <2>4, <3>1, TaskCases DEF Next, ProcessEvent, ExpireNo,
         GetMissingContractMetadata, UpdateProxies, Take, Crash, CheckRedis, CheckContract,
         CacheNo, AskNext, ClientAnswers, NoClientAnswers, GetOrCreate, StoreFailure,
         StoreMetadata, UpdateGone, InvalidateCache, SendProxy, vars
  <2> QED
    BY <1>0, <1>1, <2>1, <2>2, <2>3, <2>4 DEF ImplementationsSent
<1>2. CASE implementation[c] # i
  <2>0. ASSUME NEW d \in Contract, Administer(d)
        PROVE  implementation'[c] = implementation[c]
    BY <1>0, <2>0, OtherRowsKept
  <2>1. PICK t \in Tasks : StoreMetadata(t)
    BY <1>2, <2>0, TaskCases DEF Next, ProcessEvent, ExpireNo, GetMissingContractMetadata,
       UpdateProxies, Take, Crash, CheckRedis, CheckContract, CacheNo, AskNext,
       ClientAnswers, NoClientAnswers, GetOrCreate, StoreFailure, UpdateGone,
       InvalidateCache, SendProxy, tableVars, vars
  <2>2. proxied'[t] = i /\ i # NoContract /\ pc'[t] = "invalidate"
    BY <1>2, <2>1, ContractAssumption DEF StoreMetadata, Goto, TypeOK
  <2> QED
    BY <2>2 DEF InHand
<1> QED
  BY <1>1, <1>2

-----------------------------------------------------------------------------
(* The invariant holds initially. *)
LEMMA InitInv ==
    ASSUME Init
    PROVE  IndInv
BY CountAssumption, ContractAssumption
   DEF Init, IndInv, TypeOK, TaskInv, CachedNoIsRight, FailuresRemembered, ImplementationsSent

(* The properties and what a task knows are an invariant of the system. *)
THEOREM Invariance == Spec => []IndInv
<1>1. IndInv /\ [Next]_vars => IndInv'
  BY TypeStep, TaskInvStep, CachedNoStep, FailuresStep, ImplementationsStep DEF IndInv
<1> QED
  BY <1>1, InitInv, PTL DEF Spec

(* Every variable keeps its type. *)
THEOREM TypeCorrect == Spec => []TypeOK
BY Invariance, PTL DEF IndInv

(* should_attempt_download: a cached `no` is what the row says, unless an   *)
(* administrator wrote the row.                                             *)
THEOREM CachedNo == Spec => []CachedNoIsRight
BY Invariance, PTL DEF IndInv

(* process_contract_metadata: lost increments never erase all failures of a *)
(* row that no administrator wrote.                                         *)
THEOREM Failures == Spec => []FailuresRemembered
BY Invariance, PTL DEF IndInv

(* get_contract_metadata_task: the implementation a row names is in the     *)
(* table or on its way, except after a death between the two steps or an    *)
(* intervention of an administrator.                                        *)
THEOREM ImplementationsFollowed == Spec => []ImplementationsSent
BY Invariance, PTL DEF IndInv

(* get_contract_metadata_task: an execution ends with its contract settled, *)
(* its message in the queue, or a row that an administrator wrote.          *)
THEOREM ExecutionsSettle == Spec => TasksSettle
<1>1. ASSUME IndInv, [Next]_vars
      PROVE  [\A t \in Tasks, c \in Contract :
                pc[t] # "idle" /\ Address(t) = c /\ pc'[t] = "idle" =>
                    Settled(c)' \/ msg[t] \in queue' \/ c \in administered']_vars
  BY <1>1, EndsSettled, SettledKept DEF IndInv
<1> QED
  BY <1>1, Invariance, PTL DEF Spec, TasksSettle

(* process_contract_metadata: no step but an administrator's takes an ABI   *)
(* or an implementation away.                                               *)
THEOREM AbisStay == Spec => AbiKept
<1>1. ASSUME TypeOK, [Next]_vars
      PROVE  [\A c \in Contract :
                \/ Administer(c)
                \/ /\ c \in abi => c \in abi'
                   /\ implementation[c] # NoContract =>
                        implementation'[c] # NoContract]_vars
  BY <1>1, RowsKept
<1> QED
  BY <1>1, TypeCorrect, PTL DEF Spec, AbiKept
==============================================================================
