------------------------------ MODULE EventsProofs -----------------------------
(***************************************************************************)
(* The consumer of events implements EventDelivery, and the safety of the  *)
(* Safe contracts; then both for the composed system.                      *)
(***************************************************************************)
EXTENDS Events, FiniteSetTheorems, TLAPS

-----------------------------------------------------------------------------
(* The queue. *)

LEMMA ContractsType == \A e \in Event : ContractsOf(e) \subseteq Contract
BY InvolvedAssumption DEF ContractsOf

LEMMA QueueInitInv == QueueInit => QueueInv
BY QueueFaultsAssumption DEF QueueInit, QueueInv, QueueTypeOK, HandlerInv, EventsHeld

LEMMA PublishInv ==
    ASSUME QueueInv, NEW e \in Event, Publish(e)
    PROVE  QueueInv'
<1> USE DEF QueueInv, handlerVars
<1>1. QueueTypeOK'
  BY DEF Publish, QueueTypeOK
<1>2. HandlerInv'
  BY DEF Publish, HandlerInv, QueueTypeOK
<1>3. EventsHeld'
  BY DEF Publish, EventsHeld, QueueTypeOK
<1> QED
  BY <1>1, <1>2, <1>3

LEMMA ConnectInv ==
    ASSUME QueueInv, Connect \/ FailConnect
    PROVE  QueueInv'
<1> USE DEF QueueInv, handlerVars
<1>1. QueueTypeOK'
  BY QueueFaultsAssumption DEF Connect, FailConnect, QueueFault, QueueTypeOK
<1>2. HandlerInv'
  BY DEF Connect, FailConnect, HandlerInv
<1>3. EventsHeld'
  BY DEF Connect, FailConnect, EventsHeld
<1> QED
  BY <1>1, <1>2, <1>3

LEMMA LoseInv ==
    ASSUME QueueInv, LoseConnection
    PROVE  QueueInv'
<1> USE DEF QueueInv
<1>1. QueueTypeOK'
  BY QueueFaultsAssumption DEF LoseConnection, Requeued, QueueFault, QueueTypeOK
<1>2. HandlerInv'
  BY DEF LoseConnection, Requeued, HandlerInv, QueueTypeOK
<1>3. EventsHeld'
  BY DEF LoseConnection, Requeued, EventsHeld
<1> QED
  BY <1>1, <1>2, <1>3

LEMMA StopInv ==
    ASSUME QueueInv, StopWeb
    PROVE  QueueInv'
<1> USE DEF QueueInv
<1>1. QueueTypeOK'
  BY QueueFaultsAssumption DEF StopWeb, Requeued, QueueFault, QueueTypeOK
<1>2. HandlerInv'
  BY DEF StopWeb, HandlerInv
<1>3. EventsHeld'
  BY DEF StopWeb, Requeued, EventsHeld
<1> QED
  BY <1>1, <1>2, <1>3

LEMMA DeliverInv ==
    ASSUME QueueInv, NEW h \in Handler, NEW e \in Event, Deliver(h, e)
    PROVE  QueueInv'
<1> USE DEF QueueInv
<1>1. FirstStep(e) \in {"check", "send", "nack"} /\ (FirstStep(e) = "nack" => Kind[e] = "broken")
  BY KindAssumption DEF FirstStep
<1>2. QueueTypeOK'
  BY <1>1, ContractsType DEF Deliver, HandlerAt, QueueTypeOK
<1>3. \A k \in Handler : live[k] => event[k] # e
  BY DEF Deliver, HandlerInv
<1>4. HandlerInv'
  BY <1>1, <1>3 DEF Deliver, HandlerAt, HandlerInv, QueueTypeOK
<1>5. ~live[h]
  BY DEF Deliver, HandlerInv
<1>6. EventsHeld'
  BY <1>5 DEF Deliver, EventsHeld, QueueTypeOK
<1> QED
  BY <1>2, <1>4, <1>6

LEMMA CheckInv ==
    ASSUME QueueInv, NEW h \in Handler, (\E exists \in BOOLEAN : CheckChain(h, exists)) \/ SendCreate(h)
    PROVE  QueueInv'
<1> USE DEF QueueInv
<1>1. QueueTypeOK'
  BY DEF CheckChain, SendCreate, HandlerAt, QueueTypeOK
<1>2. HandlerInv'
  BY DEF CheckChain, SendCreate, HandlerAt, HandlerInv, QueueTypeOK
<1>3. EventsHeld'
  BY DEF CheckChain, SendCreate, EventsHeld
<1> QED
  BY <1>1, <1>2, <1>3

LEMMA SendInv ==
    ASSUME QueueInv, NEW h \in Handler, NEW c \in Contract, SendMetadataTask(h, c)
    PROVE  QueueInv'
<1> USE DEF QueueInv
<1>1. event[h] \in Event
  BY DEF SendMetadataTask, HandlerInv
<1>2. QueueTypeOK'
  BY <1>1 DEF SendMetadataTask, QueueTypeOK
<1>3. HandlerInv'
  BY DEF SendMetadataTask, HandlerInv, QueueTypeOK
<1>4. EventsHeld'
  BY DEF SendMetadataTask, EventsHeld
<1> QED
  BY <1>2, <1>3, <1>4

LEMMA RaiseInv ==
    ASSUME QueueInv, NEW h \in Handler, Raise(h)
    PROVE  QueueInv'
<1> USE DEF QueueInv
<1>1. event[h] \in Event
  BY DEF Raise, HandlerInv
<1>2. QueueTypeOK'
  BY <1>1, QueueFaultsAssumption DEF Raise, HandlerAt, QueueFault, QueueTypeOK
<1>3. HandlerInv'
  BY DEF Raise, HandlerAt, HandlerInv, QueueTypeOK
<1>4. EventsHeld'
  BY DEF Raise, EventsHeld
<1> QED
  BY <1>2, <1>3, <1>4

LEMMA SettleInv ==
    ASSUME QueueInv, NEW h \in Handler, Ack(h) \/ Nack(h)
    PROVE  QueueInv'
<1> USE DEF QueueInv
<1>1. event[h] \in Event
  BY DEF Ack, Nack, HandlerInv
<1>2. QueueTypeOK'
  BY <1>1 DEF Ack, Nack, Settle, EndHandler, HandlerAt, QueueTypeOK
<1>3. HandlerInv'
  BY <1>1 DEF Ack, Nack, Settle, EndHandler, HandlerAt, HandlerInv, QueueTypeOK
<1>4. EventsHeld'
  BY <1>1 DEF Ack, Nack, Settle, EndHandler, EventsHeld, QueueTypeOK
<1> QED
  BY <1>2, <1>3, <1>4

LEMMA QueueStepInv ==
    ASSUME QueueInv, [QueueNext]_queueVars
    PROVE  QueueInv'
<1>1. CASE UNCHANGED queueVars
  BY <1>1 DEF queueVars, handlerVars, QueueInv, QueueTypeOK, HandlerInv, EventsHeld
<1> QED
  BY <1>1, PublishInv, ConnectInv, LoseInv, StopInv, DeliverInv, CheckInv, SendInv,
     RaiseInv, SettleInv DEF QueueNext, LocalStep

(* The invariant of the consumer, which is about handlers whose channel is *)
(* open and about what those that will answer have done.                   *)
THEOREM QueueInvariance == QueueSpec => []QueueInv
BY QueueStepInv, QueueInitInv, PTL DEF QueueSpec

(* The state of EventDelivery that a state of the consumer stands for. *)
fates == [e \in Event |-> Fate(broker[e])]

LEMMA SameFates ==
    ASSUME QueueInv, LoseConnection \/ StopWeb
    PROVE  fates' = fates
<1>1. \A e \in Event : Fate(broker'[e]) = Fate(broker[e])
  BY DEF LoseConnection, StopWeb, Requeued, Fate
<1> QED
  BY <1>1 DEF fates

(* One event changes its fate. *)
LEMMA OneFate ==
    ASSUME QueueInv, NEW e \in Event, NEW s, broker' = [broker EXCEPT ![e] = s]
    PROVE  fates' = [fates EXCEPT ![e] = Fate(s)]
<1>1. /\ broker'[e] = s
      /\ \A f \in Event : f # e => broker'[f] = broker[f]
  BY DEF QueueInv, QueueTypeOK
<1>2. fates' = [f \in Event |-> Fate(broker'[f])]
  BY DEF fates, Fate
<1>3. \A f \in Event : Fate(broker'[f]) = IF f = e THEN Fate(s) ELSE Fate(broker[f])
  BY <1>1
<1>4. [fates EXCEPT ![e] = Fate(s)] = [f \in Event |-> IF f = e THEN Fate(s) ELSE Fate(broker[f])]
  BY DEF fates
<1> QED
  BY <1>2, <1>3, <1>4

LEMMA DeliverySteps ==
    ASSUME QueueInv, QueueNext
    PROVE  Delivery!Next \/ UNCHANGED Delivery!vars
<1> USE DEF QueueInv
<1> DEFINE Stutters == fates' = fates /\ sent' = sent /\ failed' = failed
<1>1. Stutters => UNCHANGED Delivery!vars
  BY DEF Delivery!vars, fates
<1>2. ASSUME NEW e \in Event, Publish(e) PROVE Delivery!Publish(e)
  <2>1. fates' = [fates EXCEPT ![e] = "pending"] /\ fates[e] = "unpublished"
    <3>1. Fate("ready") = "pending"
      BY DEF Fate
    <3>2. fates[e] = "unpublished"
      BY <1>2 DEF Publish, fates, Fate
    <3> QED
      BY <1>2, <3>1, <3>2, OneFate DEF Publish
  <2> QED
    BY <1>2, <2>1 DEF Publish, Delivery!Publish, fates
<1>3. CASE Connect \/ FailConnect
  <2>1. Stutters
    BY <1>3 DEF Connect, FailConnect, fates
  <2> QED
    BY <1>1, <2>1
<1>4. CASE LoseConnection \/ StopWeb
  <2>1. Stutters
    BY <1>4, SameFates DEF LoseConnection, StopWeb
  <2> QED
    BY <1>1, <2>1
<1>5. ASSUME NEW h \in Handler, NEW e \in Event, Deliver(h, e)
      PROVE  Delivery!Fail(e) \/ UNCHANGED Delivery!vars
  <2>1. fates' = fates /\ fates[e] = "pending"
    <3>1. fates' = [fates EXCEPT ![e] = "pending"]
      <4>1. Fate("unacked") = "pending"
        BY DEF Fate
      <4> QED
        BY <1>5, <4>1, OneFate DEF Deliver
    <3>2. fates[e] = "pending"
      BY <1>5 DEF Deliver, Fate, fates
    <3> QED
      BY <3>1, <3>2 DEF fates
  <2>2. CASE Kind[e] = "broken"
    BY <1>5, <2>1, <2>2 DEF Deliver, Delivery!Fail, fates
  <2>3. CASE Kind[e] # "broken"
    <3>1. Stutters
      BY <1>5, <2>1, <2>3 DEF Deliver
    <3> QED
      BY <1>1, <3>1
  <2> QED
    BY <2>2, <2>3
<1>6. ASSUME NEW h \in Handler, (\E exists \in BOOLEAN : CheckChain(h, exists)) \/ SendCreate(h)
      PROVE  UNCHANGED Delivery!vars
  <2>1. Stutters
    BY <1>6 DEF CheckChain, SendCreate, fates
  <2> QED
    BY <1>1, <2>1
<1>7. ASSUME NEW h \in Handler, NEW c \in Contract, SendMetadataTask(h, c)
      PROVE  \E e \in Event : Delivery!SendTask(e, c)
  <2>1. /\ event[h] \in Event /\ c \in ContractsOf(event[h])
        /\ fates' = fates /\ fates[event[h]] # "unpublished"
    BY <1>7 DEF SendMetadataTask, HandlerInv, QueueTypeOK, fates, Fate
  <2>2. Delivery!SendTask(event[h], c)
    BY <1>7, <2>1 DEF SendMetadataTask, Delivery!SendTask, fates
  <2> QED
    BY <2>1, <2>2
<1>8. ASSUME NEW h \in Handler, Raise(h)
      PROVE  \E e \in Event : Delivery!Fail(e)
  <2>1. event[h] \in Event /\ fates' = fates /\ fates[event[h]] # "unpublished"
    BY <1>8 DEF Raise, HandlerInv, QueueTypeOK, fates, Fate
  <2>2. Delivery!Fail(event[h])
    BY <1>8, <2>1 DEF Raise, Delivery!Fail, fates
  <2> QED
    BY <2>1, <2>2
<1>9. ASSUME NEW h \in Handler, Ack(h) \/ Nack(h), ~live[h]
      PROVE  UNCHANGED Delivery!vars
  <2>1. Stutters
    BY <1>9 DEF Ack, Nack, Settle, fates
  <2> QED
    BY <1>1, <2>1
<1>10. ASSUME NEW h \in Handler, Ack(h), live[h]
       PROVE  \E e \in Event : Delivery!Handle(e)
  <2>1. /\ event[h] \in Event
        /\ \A c \in ContractsOf(event[h]) : <<event[h], c>> \in sent
        /\ broker[event[h]] = "unacked"
    BY <1>10 DEF Ack, HandlerInv
  <2>2. fates' = [fates EXCEPT ![event[h]] = "handled"] /\ fates[event[h]] = "pending"
    BY <1>10, <2>1, OneFate DEF Ack, Settle, Fate, fates
  <2>3. Delivery!Handle(event[h])
    BY <1>10, <2>1, <2>2 DEF Ack, Delivery!Handle, fates
  <2> QED
    BY <2>1, <2>3
<1>11. ASSUME NEW h \in Handler, Nack(h), live[h]
       PROVE  \E e \in Event : Delivery!Drop(e)
  <2>1. event[h] \in Event /\ event[h] \in failed /\ broker[event[h]] = "unacked"
    BY <1>11 DEF Nack, HandlerInv
  <2>2. fates' = [fates EXCEPT ![event[h]] = "dropped"] /\ fates[event[h]] = "pending"
    BY <1>11, <2>1, OneFate DEF Nack, Settle, Fate, fates
  <2>3. Delivery!Drop(event[h])
    BY <1>11, <2>1, <2>2 DEF Nack, Delivery!Drop, fates
  <2> QED
    BY <2>1, <2>3
<1> QED
  BY <1>2, <1>3, <1>4, <1>5, <1>6, <1>7, <1>8, <1>9, <1>10, <1>11
     DEF QueueNext, LocalStep, Delivery!Next

(* The consumer implements EventDelivery: no acknowledged event lacks a    *)
(* task, no event is dropped without a failure or settled twice, whatever  *)
(* is delivered again and whichever handlers outlive their connection.     *)
THEOREM DeliveryImplemented == QueueSpec => DeliveryRefined
<1>1. QueueInit => Delivery!Init
  BY DEF QueueInit, Delivery!Init, Fate
<1>2. ASSUME QueueInv, [QueueNext]_queueVars PROVE [Delivery!Next]_(Delivery!vars)
  <2>1. CASE UNCHANGED queueVars
    BY <2>1 DEF queueVars, Delivery!vars
  <2> QED
    BY <1>2, <2>1, DeliverySteps
<1> QED
  BY <1>1, <1>2, QueueInvariance, PTL DEF QueueSpec, DeliveryRefined, Delivery!Spec

-----------------------------------------------------------------------------
(* The Safe contracts. *)

LEMMA SafeInitInv == SafeInit => SafeInv
<1> SUFFICES ASSUME SafeInit PROVE SafeInv
  OBVIOUS
<1>1. \A ch \in Chain : Creating(ch) = {}
  BY NoChainAssumption DEF SafeInit, Creating
<1>2. LockInv /\ CreatorsBounded
  BY <1>1, FS_EmptySet DEF SafeInit, LockInv, CreatorsBounded
<1>3. SafeTypeOK /\ ChainInv /\ CachedMeansComplete /\ ProgressInv
  BY DeploymentsAssumption, SafeFaultsAssumption
     DEF SafeInit, SafeTypeOK, ChainInv, CachedMeansComplete, ProgressInv, Deployment
<1> QED
  BY <1>2, <1>3 DEF SafeInv

LEMMA CreatingFinite ==
    ASSUME NEW ch
    PROVE  IsFiniteSet(Creating(ch)) /\ Cardinality(Creating(ch)) \in Nat
BY FS_Subset, FS_CardinalityType, CreatorAssumption DEF Creating

(* Steps that leave the executions and the keys alone. *)
LEMMA SameLocks ==
    ASSUME SafeInv, chain' = chain, locked' = locked, expired' = expired
    PROVE  LockInv' /\ CreatorsBounded'
<1>1. \A ch : Creating(ch)' = Creating(ch)
  BY DEF Creating
<1> QED
  BY <1>1 DEF SafeInv, LockInv, CreatorsBounded

(* What is there or was deleted stays so. *)
LEMMA CompleteStays ==
    ASSUME rows \union deleted \subseteq (rows \union deleted)'
    PROVE  /\ CachedMeansComplete /\ safe_cache' = safe_cache => CachedMeansComplete'
           /\ \A ch : Complete(ch) => Complete(ch)'
           /\ ProgressInv /\ UNCHANGED creatorVars => ProgressInv'
<1>1. \A ch : Complete(ch) => Complete(ch)'
  BY DEF Complete
<1> QED
  BY <1>1 DEF CachedMeansComplete, ProgressInv, creatorVars

(* The steps of the web process. *)
LEMMA WebInv ==
    ASSUME SafeInv,
           \/ \E ch \in Chain : \/ \E answer \in BOOLEAN : SafeContractsExist(ch, answer)
                               \/ CreateSent(ch)
           \/ ForgetCache
    PROVE  SafeInv'
<1> USE DEF SafeInv, tableVars, creatorVars
<1>1. SafeTypeOK'
  BY DEF SafeContractsExist, CreateSent, ForgetCache, SafeTypeOK
<1>2. CachedMeansComplete'
  BY DEF SafeContractsExist, CreateSent, ForgetCache, CachedMeansComplete, Complete,
         ExistsSafeContracts
<1>3. ChainInv'
  BY DEF SafeContractsExist, CreateSent, ForgetCache, ChainInv
<1>4. chain' = chain /\ locked' = locked /\ expired' = expired
  BY DEF SafeContractsExist, CreateSent, ForgetCache
<1>5. ProgressInv'
  BY CompleteStays DEF SafeContractsExist, CreateSent, ForgetCache
<1> QED
  BY <1>1, <1>2, <1>3, <1>4, <1>5, SameLocks

(* The other writers of the rows. *)
LEMMA RowsInv ==
    ASSUME SafeInv,
           \/ \E ch \in Chain, d \in Deployment : DownloadCreates(ch, d) \/ AdminDelete(ch, d)
           \/ UpdateNext
           \/ FailUpdate
    PROVE  SafeInv'
<1> USE DEF SafeInv, tableVars, creatorVars
<1>1. SafeTypeOK'
  <2>1. ASSUME NEW ch \in Chain, NEW d \in Deployment, DownloadCreates(ch, d) PROVE SafeTypeOK'
    BY <2>1 DEF DownloadCreates, SafeTypeOK
  <2>2. ASSUME NEW ch \in Chain, NEW d \in Deployment, AdminDelete(ch, d) PROVE SafeTypeOK'
    BY <2>2, SafeFaultsAssumption DEF AdminDelete, SafeFault, SafeTypeOK
  <2>3. CASE UpdateNext
    BY <2>3, DeploymentsAssumption DEF UpdateNext, SafeTypeOK, Deployment
  <2>4. CASE FailUpdate
    BY <2>4, DeploymentsAssumption, SafeFaultsAssumption
       DEF FailUpdate, SafeFault, SafeTypeOK, Deployment
  <2> QED
    BY <2>1, <2>2, <2>3, <2>4
<1>2. CachedMeansComplete' /\ ProgressInv'
  BY CompleteStays DEF DownloadCreates, AdminDelete, UpdateNext, FailUpdate
<1>3. ChainInv'
  BY DEF DownloadCreates, AdminDelete, UpdateNext, FailUpdate, ChainInv
<1>4. chain' = chain /\ locked' = locked /\ expired' = expired
  BY DEF DownloadCreates, AdminDelete, UpdateNext, FailUpdate
<1> QED
  BY <1>1, <1>2, <1>3, <1>4, SameLocks

LEMMA InsertInv ==
    ASSUME SafeInv, NEW t \in Creator, CreateNext(t) \/ FailCreate(t)
    PROVE  SafeInv'
<1> USE DEF SafeInv, tableVars, creatorVars
<1>1. chain[t] \in Chain
  BY DEF CreateNext, FailCreate, ChainInv, SafeTypeOK
<1>2. SafeTypeOK'
  BY <1>1, DeploymentsAssumption, SafeFaultsAssumption
     DEF CreateNext, FailCreate, InsertMissing, CreatorAt, SafeFault, SafeTypeOK, Deployment
<1>3. CachedMeansComplete'
  BY CompleteStays DEF CreateNext, FailCreate, InsertMissing
<1>4. ChainInv'
  BY DEF CreateNext, FailCreate, CreatorAt, ChainInv, SafeTypeOK
<1>5. chain' = chain /\ locked' = locked /\ expired' = expired
  BY DEF CreateNext, FailCreate
<1>6. ProgressInv'
  <2>1. \A ch : Complete(ch) => Complete(ch)'
    BY CompleteStays DEF CreateNext, FailCreate, InsertMissing
  <2>2. CASE FailCreate(t)
    BY <2>2, <2>1 DEF FailCreate, CreatorAt, ProgressInv, SafeTypeOK
  <2>3. CASE CreateNext(t)
    <3>1. /\ rows \union deleted \subseteq (rows \union deleted)'
          /\ <<chain[t], position[t]>> \in rows'
          /\ chain' = chain
      BY <2>3 DEF CreateNext, InsertMissing
    <3>2. /\ Deployments \in Nat /\ Deployment = 1..Deployments
          /\ \A u \in Creator : position[u] \in 1..Deployments
      BY DeploymentsAssumption DEF Deployment, SafeTypeOK
    <3>3. \A d \in 1..position[t] : <<chain[t], d>> \in (rows \union deleted)'
      <4> TAKE d \in 1..position[t]
      <4>1. d = position[t] \/ d \in 1..(position[t] - 1)
        BY <3>2
      <4> QED
        BY <2>3, <3>1, <4>1 DEF CreateNext, ProgressInv
    <3>4. CASE position[t] < Deployments
      <4>1. cpc[t] = "create" /\ cpc' = cpc /\ position' = [position EXCEPT ![t] = @ + 1]
        BY <2>3, <3>4 DEF CreateNext
      <4>2. position'[t] = position[t] + 1 /\ \A u \in Creator \ {t} : position'[u] = position[u]
        BY <4>1 DEF SafeTypeOK
      <4>3. (position[t] + 1) - 1 = position[t]
        BY <3>2
      <4> QED
        BY <2>1, <3>1, <3>3, <4>1, <4>2, <4>3 DEF ProgressInv
    <3>5. CASE ~(position[t] < Deployments)
      <4>1. position[t] = Deployments
        BY <3>2, <3>5
      <4>2. Complete(chain[t])'
        BY <3>1, <3>2, <3>3, <4>1 DEF Complete
      <4> QED
        BY <2>1, <2>3, <3>1, <3>5, <4>2 DEF CreateNext, CreatorAt, ProgressInv, SafeTypeOK
    <3> QED
      BY <3>4, <3>5
  <2> QED
    BY <2>2, <2>3
<1> QED
  BY <1>2, <1>3, <1>4, <1>5, <1>6, SameLocks

LEMMA FindLockInv ==
    ASSUME SafeInv, NEW t \in Creator, NEW ch \in Chain, FindLock(t, ch)
    PROVE  SafeInv'
<1> USE DEF SafeInv, tableVars, creatorVars
<1>1. SafeTypeOK' /\ ChainInv'
  BY DEF FindLock, SafeTypeOK, ChainInv
<1>2. chain' = chain /\ locked' = locked /\ expired' = expired
  BY DEF FindLock
<1>3. CachedMeansComplete' /\ ProgressInv'
  BY CompleteStays DEF FindLock
<1> QED
  BY <1>1, <1>2, <1>3, SameLocks

LEMMA AcquireInv ==
    ASSUME SafeInv, NEW t \in Creator, NEW ch \in Chain, AcquireLock(t, ch)
    PROVE  SafeInv'
<1> USE DEF SafeInv, tableVars
<1>1. SafeTypeOK' /\ CachedMeansComplete'
  BY CompleteStays DEF AcquireLock, CreatorAt, SafeTypeOK
<1>2. ChainInv'
  BY NoChainAssumption DEF AcquireLock, CreatorAt, SafeTypeOK, ChainInv
<1>3. /\ chain[t] = NoChain /\ t \notin Creating(ch)
      /\ Creating(ch)' = Creating(ch) \union {t}
      /\ \A c \in Chain \ {ch} : Creating(c)' = Creating(c)
  BY NoChainAssumption DEF AcquireLock, ChainInv, Creating, SafeTypeOK
<1>4. Cardinality(Creating(ch) \union {t}) = Cardinality(Creating(ch)) + 1
  BY <1>3, CreatingFinite, FS_AddElement
<1>5. Cardinality(Creating(ch)) <= expired[ch] /\ ch \in locked'
  BY DEF AcquireLock, LockInv
<1>6. CreatorsBounded'
  <2>1. expired' = expired /\ \A c \in Chain : expired[c] \in Nat
    BY DEF AcquireLock, SafeTypeOK
  <2>2. Cardinality(Creating(ch)') <= expired'[ch] + 1
    BY <1>3, <1>4, <1>5, <2>1, CreatingFinite
  <2> QED
    BY <1>3, <2>1, <2>2 DEF CreatorsBounded
<1>7. LockInv'
  BY <1>3, <1>5 DEF AcquireLock, LockInv
<1>8. ProgressInv'
  <2>1. 1..(position[t] - 1) = {} /\ position' = position
    BY DEF AcquireLock, ProgressInv
  <2>2. \A c : Complete(c) => Complete(c)'
    BY CompleteStays DEF AcquireLock
  <2> QED
    BY <2>1, <2>2 DEF AcquireLock, CreatorAt, ProgressInv, SafeTypeOK
<1> QED
  BY <1>1, <1>2, <1>6, <1>7, <1>8

(* The end of an execution: the other chains have as many as before. *)
LEMMA EndOfCreator ==
    ASSUME SafeInv, NEW t \in Creator, NEW ch \in Chain, chain[t] = ch, EndCreator(t)
    PROVE  /\ ChainInv'
           /\ Cardinality(Creating(ch)') = Cardinality(Creating(ch)) - 1
           /\ \A c \in Chain \ {ch} : Creating(c)' = Creating(c)
<1> USE DEF SafeInv
<1>1. ChainInv'
  BY DEF EndCreator, CreatorAt, ChainInv, SafeTypeOK
<1>2. /\ Creating(ch)' = Creating(ch) \ {t}
      /\ t \in Creating(ch)
      /\ \A c \in Chain \ {ch} : Creating(c)' = Creating(c)
  BY NoChainAssumption DEF EndCreator, Creating, SafeTypeOK
<1>3. Cardinality(Creating(ch) \ {t}) = Cardinality(Creating(ch)) - 1
  BY <1>2, CreatingFinite, FS_RemoveElement
<1> QED
  BY <1>1, <1>2, <1>3

LEMMA EndInv ==
    ASSUME SafeInv, NEW t \in Creator, ReleaseLock(t) \/ CrashCreate(t)
    PROVE  SafeInv'
<1> USE DEF SafeInv, tableVars
<1>1. cpc[t] # "idle" /\ EndCreator(t) /\ expired' = expired
  BY DEF ReleaseLock, CrashCreate
<1>2. PICK ch \in Chain : chain[t] = ch
  BY <1>1 DEF ChainInv, SafeTypeOK
<1>3. SafeTypeOK'
  <2>1. /\ cpc' \in [Creator -> {"idle", "create", "release", "raise"}]
        /\ chain' \in [Creator -> Chain \union {NoChain}]
        /\ position' \in [Creator -> Deployment]
    BY <1>1, DeploymentsAssumption DEF EndCreator, CreatorAt, SafeTypeOK, Deployment
  <2> QED
    BY <1>2, <2>1, SafeFaultsAssumption DEF ReleaseLock, CrashCreate, SafeFault, SafeTypeOK
<1>4. CachedMeansComplete' /\ ProgressInv'
  <2>1. CachedMeansComplete' /\ \A c : Complete(c) => Complete(c)'
    BY CompleteStays DEF ReleaseLock, CrashCreate
  <2>2. rows' = rows /\ deleted' = deleted
    BY DEF ReleaseLock, CrashCreate
  <2> QED
    BY <1>1, <2>1, <2>2 DEF EndCreator, CreatorAt, ProgressInv, SafeTypeOK
<1>5. /\ Cardinality(Creating(ch)) \in Nat
      /\ Cardinality(Creating(ch)) <= expired[ch] + 1
      /\ ch \notin locked => Cardinality(Creating(ch)) <= expired[ch]
      /\ \A c \in Chain : expired[c] \in Nat
  BY CreatingFinite DEF CreatorsBounded, LockInv, SafeTypeOK
<1>6. /\ ChainInv'
      /\ Cardinality(Creating(ch)') = Cardinality(Creating(ch)) - 1
      /\ \A c \in Chain \ {ch} : Creating(c)' = Creating(c)
  BY <1>1, <1>2, EndOfCreator
<1>7. Cardinality(Creating(ch)') <= expired'[ch] /\ Cardinality(Creating(ch)') <= expired'[ch] + 1
  BY <1>1, <1>5, <1>6
<1>8. CreatorsBounded'
  BY <1>1, <1>6, <1>7 DEF CreatorsBounded
<1>9. LockInv'
  BY <1>1, <1>2, <1>6, <1>7 DEF ReleaseLock, CrashCreate, LockInv
<1> QED
  BY <1>3, <1>4, <1>6, <1>8, <1>9

LEMMA ExpireInv ==
    ASSUME SafeInv, NEW ch \in Chain, ExpireDeadLock(ch) \/ ExpireHeldLock(ch)
    PROVE  SafeInv'
<1> USE DEF SafeInv, tableVars, creatorVars
<1>1. SafeTypeOK' /\ CachedMeansComplete' /\ ProgressInv' /\ ChainInv'
  BY SafeFaultsAssumption, CompleteStays
     DEF ExpireDeadLock, ExpireHeldLock, SafeFault, SafeTypeOK, ChainInv
<1>2. \A c : Creating(c)' = Creating(c) /\ Cardinality(Creating(c)) \in Nat
  BY CreatingFinite DEF ExpireDeadLock, ExpireHeldLock, Creating
<1>3. CASE ExpireDeadLock(ch)
  <2>1. Cardinality(Creating(ch)) = 0 /\ expired' = expired /\ locked' = locked \ {ch}
    BY <1>3, FS_EmptySet DEF ExpireDeadLock
  <2> QED
    BY <1>1, <1>2, <2>1 DEF LockInv, CreatorsBounded, SafeTypeOK
<1>4. CASE ExpireHeldLock(ch)
  <2>1. /\ locked' = locked \ {ch}
        /\ expired'[ch] = expired[ch] + 1
        /\ \A c \in Chain \ {ch} : expired'[c] = expired[c]
        /\ \A c \in Chain : expired[c] \in Nat
    BY <1>4 DEF ExpireHeldLock, SafeTypeOK
  <2>2. CreatorsBounded'
    BY <1>2, <2>1 DEF CreatorsBounded
  <2>3. LockInv'
    BY <1>2, <2>1 DEF CreatorsBounded, LockInv
  <2> QED
    BY <1>1, <2>2, <2>3
<1> QED
  BY <1>3, <1>4

(* The invariant of the Safe contracts: the count of running creations of  *)
(* a chain follows its Redis key.                                          *)
THEOREM SafeInvariance == SafeSpec => []SafeInv
<1>1. ASSUME SafeInv, [SafeNext]_safeVars PROVE SafeInv'
  <2>1. CASE UNCHANGED safeVars
    <3>1. SafeTypeOK' /\ ChainInv' /\ CachedMeansComplete' /\ ProgressInv'
      BY <1>1, <2>1, CompleteStays
         DEF safeVars, tableVars, creatorVars, SafeInv, SafeTypeOK, ChainInv
    <3> QED
      BY <1>1, <2>1, <3>1, SameLocks DEF safeVars, creatorVars, SafeInv
  <2> QED
    BY <1>1, <2>1, WebInv, RowsInv, InsertInv, FindLockInv, AcquireInv, EndInv, ExpireInv
       DEF SafeNext, WorkerNext, CreatorStep
<1> QED
  BY <1>1, SafeInitInv, PTL DEF SafeSpec

(* Every step of the Safe contracts keeps a creation that is done, waiting  *)
(* or running: an execution ends only with its chain complete or its       *)
(* message back in the queue, and a message ends only where another        *)
(* execution runs or a dead one has left its key.                          *)
LEMMA OwedStays ==
    ASSUME SafeInv, [SafeNext]_safeVars, NEW ch \in Chain, Owed(ch)
    PROVE  Owed(ch)'
<1> USE DEF SafeInv, tableVars, creatorVars
<1>1. Complete(ch) => Complete(ch)'
  <2>1. rows \union deleted \subseteq (rows \union deleted)'
    BY DEF SafeNext, WorkerNext, CreatorStep, safeVars, SafeContractsExist, CreateSent,
           ForgetCache, AcquireLock, FindLock, CreateNext, InsertMissing, ReleaseLock,
           FailCreate, CrashCreate, ExpireDeadLock, ExpireHeldLock, DownloadCreates,
           AdminDelete, UpdateNext, FailUpdate
  <2> QED
    BY <2>1, CompleteStays
<1> SUFFICES ASSUME ~Complete(ch) PROVE Owed(ch)'
  BY <1>1 DEF Owed
<1>2. ASSUME NEW t \in Creator, ReleaseLock(t) \/ CrashCreate(t) PROVE Owed(ch)'
  <2>1. CASE chain[t] = ch
    BY <1>2, <2>1 DEF ReleaseLock, CrashCreate, ProgressInv, Owed
  <2>2. CASE chain[t] # ch
    <3>1. creates \subseteq creates' /\ dropped' = dropped /\ EndCreator(t)
      BY <1>2 DEF ReleaseLock, CrashCreate
    <3>2. Creating(ch) # {} => Creating(ch)' # {}
      BY <2>2, <3>1 DEF EndCreator, Creating, SafeTypeOK
    <3> QED
      BY <3>1, <3>2 DEF Owed
  <2> QED
    BY <2>1, <2>2
<1>3. ASSUME NEW t \in Creator, NEW c \in Chain, AcquireLock(t, c) PROVE Owed(ch)'
  <2>1. /\ creates' = creates \ {c} /\ dropped' = dropped
        /\ chain' = [chain EXCEPT ![t] = c] /\ chain[t] = NoChain
    BY <1>3 DEF AcquireLock, ChainInv
  <2>2. Creating(c)' # {} /\ (Creating(ch) # {} => Creating(ch)' # {})
    BY <2>1, NoChainAssumption DEF Creating, SafeTypeOK
  <2> QED
    BY <2>1, <2>2 DEF Owed
<1>4. ASSUME NEW t \in Creator, NEW c \in Chain, FindLock(t, c) PROVE Owed(ch)'
  BY <1>4 DEF FindLock, Owed, Creating
<1>5. ASSUME NEW c \in Chain, CreateSent(c) PROVE Owed(ch)'
  BY <1>5 DEF CreateSent, Owed, Creating
<1>6. ASSUME creates' = creates, dropped' = dropped, chain' = chain PROVE Owed(ch)'
  BY <1>6 DEF Owed, Creating
<1>7. CASE \/ UNCHANGED safeVars
           \/ \E c \in Chain :
                \/ \E answer \in BOOLEAN : SafeContractsExist(c, answer)
                \/ \E d \in Deployment : DownloadCreates(c, d) \/ AdminDelete(c, d)
                \/ ExpireDeadLock(c) \/ ExpireHeldLock(c)
           \/ ForgetCache
           \/ \E t \in Creator : CreateNext(t) \/ FailCreate(t)
           \/ UpdateNext
           \/ FailUpdate
  <2>1. creates' = creates /\ dropped' = dropped /\ chain' = chain
    BY <1>7 DEF safeVars, SafeContractsExist, DownloadCreates, AdminDelete, ExpireDeadLock,
                ExpireHeldLock, ForgetCache, CreateNext, FailCreate, UpdateNext, FailUpdate
  <2> QED
    BY <1>6, <2>1
<1> QED
  BY <1>2, <1>3, <1>4, <1>5, <1>7 DEF SafeNext, WorkerNext, CreatorStep

-----------------------------------------------------------------------------
(* The composition. *)

LEMMA StepsOfBoth ==
    ASSUME QueueInv, Next
    PROVE  [QueueNext]_queueVars /\ [SafeNext]_safeVars
<1>1. CASE QueueOnly /\ UNCHANGED safeVars
  BY <1>1 DEF QueueOnly, QueueNext
<1>2. ASSUME NEW h \in Handler, HandlerStep(h)
      PROVE  [QueueNext]_queueVars /\ [SafeNext]_safeVars
  <2>1. ASSUME ProcessCheck(h) \/ ProcessCreate(h)
        PROVE  ChainOf[event[h]] \in Chain
    BY <2>1, ChainOfAssumption
       DEF ProcessCheck, ProcessCreate, CheckChain, SendCreate, QueueInv, HandlerInv
  <2>2. CASE ProcessCheck(h)
    BY <2>1, <2>2 DEF ProcessCheck, QueueNext, SafeNext
  <2>3. CASE ProcessCreate(h)
    BY <2>1, <2>3 DEF ProcessCreate, QueueNext, SafeNext
  <2>4. CASE LocalStep(h) /\ UNCHANGED safeVars
    BY <2>4 DEF QueueNext
  <2> QED
    BY <1>2, <2>2, <2>3, <2>4 DEF HandlerStep
<1>3. CASE RestartWeb
  BY <1>3 DEF RestartWeb, QueueNext, SafeNext
<1>4. CASE WorkerNext /\ UNCHANGED queueVars
  BY <1>4 DEF SafeNext
<1>5. ASSUME NEW e \in Event, NEW d \in Deployment, Download(e, d), UNCHANGED queueVars
      PROVE  [QueueNext]_queueVars /\ [SafeNext]_safeVars
  BY <1>5, ChainOfAssumption DEF Download, SafeNext
<1> QED
  BY <1>1, <1>2, <1>3, <1>4, <1>5 DEF Next

(* Every behaviour of the composed system is one of the consumer and one   *)
(* of the Safe contracts: the checks and creations of the handlers are     *)
(* steps of both, so what is proved of each holds of the whole.            *)
THEOREM Composition == Spec => QueueSpec /\ SafeSpec
<1>1. Init => QueueInit /\ SafeInit
  BY DEF Init
<1>2. QueueInv /\ [Next]_vars => [QueueNext]_queueVars /\ [SafeNext]_safeVars
  BY StepsOfBoth DEF vars
<1> QED
  BY <1>1, <1>2, QueueStepInv, QueueInitInv, PTL DEF Spec, QueueSpec, SafeSpec

(* What the handlers know: the creation of the chain of an event is owed   *)
(* from the check that finds it complete, or the send, to the ack.         *)
LEMMA OwedStep ==
    ASSUME QueueInv, SafeInv, OwedInv, [Next]_vars
    PROVE  OwedInv'
<1> USE DEF QueueInv
<1>1. [QueueNext]_queueVars /\ [SafeNext]_safeVars
  BY StepsOfBoth DEF vars
<1>2. \A ch \in Chain : Owed(ch) => Owed(ch)'
  BY <1>1, OwedStays
<1>3. \A e \in Event : ChainOf[e] \in Chain
  BY ChainOfAssumption
<1> DEFINE Past(h) == hpc[h] = "send" /\ Kind[event[h]] = "call"
<1>4. ASSUME NEW h \in Handler, Past(h)' PROVE Owed(ChainOf[event[h]])'
  <2>1. CASE UNCHANGED <<hpc, event>>
    <3>1. event[h] \in Event /\ Past(h)
      BY <1>4, <2>1 DEF HandlerInv
    <3> QED
      BY <1>2, <1>3, <2>1, <3>1 DEF OwedInv
  <2>2. ASSUME NEW g \in Handler, ProcessCheck(g) \/ ProcessCreate(g)
        PROVE  Owed(ChainOf[event[h]])'
    <3>1. event' = event /\ event[g] \in Event /\ (h # g => hpc'[h] = hpc[h])
      BY <2>2 DEF ProcessCheck, ProcessCreate, CheckChain, SendCreate, HandlerAt, HandlerInv,
                  QueueTypeOK
    <3>2. CASE h # g
      <4>1. event[h] \in Event /\ Past(h)
        BY <1>4, <3>1, <3>2 DEF HandlerInv
      <4> QED
        BY <1>2, <1>3, <3>1, <4>1 DEF OwedInv
    <3>3. CASE h = g /\ ProcessCreate(g)
      BY <3>1, <3>3 DEF ProcessCreate, CreateSent, Owed
    <3>4. CASE h = g /\ ProcessCheck(g)
      <4> DEFINE ch == ChainOf[event[g]]
      <4>1. SafeContractsExist(ch, TRUE)
        BY <1>4, <3>1, <3>4 DEF ProcessCheck, CheckChain, HandlerAt, QueueTypeOK
      <4>2. Complete(ch)
        BY <4>1 DEF SafeContractsExist, ExistsSafeContracts, Complete, SafeInv,
                    CachedMeansComplete
      <4>3. Owed(ch)'
        BY <1>2, <1>3, <3>1, <4>2 DEF Owed
      <4> QED
        BY <3>1, <3>4, <4>3
    <3> QED
      BY <2>2, <3>2, <3>3, <3>4
  <2>3. ASSUME NEW g \in Handler, NEW e \in Event, Deliver(g, e)
        PROVE  Owed(ChainOf[event[h]])'
    <3>1. h # g
      BY <1>4, <2>3 DEF Deliver, HandlerAt, FirstStep, QueueTypeOK
    <3>2. event'[h] = event[h] /\ event[h] \in Event /\ Past(h)
      BY <1>4, <2>3, <3>1 DEF Deliver, HandlerAt, HandlerInv, QueueTypeOK
    <3> QED
      BY <1>2, <1>3, <3>2 DEF OwedInv
  <2>4. ASSUME NEW g \in Handler, Ack(g) \/ Nack(g) \/ Raise(g)
        PROVE  Owed(ChainOf[event[h]])'
    <3>1. h # g
      BY <1>4, <2>4 DEF Ack, Nack, Raise, EndHandler, HandlerAt, QueueTypeOK
    <3>2. event'[h] = event[h] /\ event[h] \in Event /\ Past(h)
      BY <1>4, <2>4, <3>1
         DEF Ack, Nack, Raise, EndHandler, HandlerAt, HandlerInv, QueueTypeOK
    <3> QED
      BY <1>2, <1>3, <3>2 DEF OwedInv
  <2>5. CASE StopWeb
    BY <1>4, <2>5 DEF StopWeb
  <2>6. CASE \/ UNCHANGED queueVars
             \/ \E e \in Event : Publish(e)
             \/ Connect \/ FailConnect \/ LoseConnection
             \/ \E g \in Handler, c \in Contract : SendMetadataTask(g, c)
    <3>1. UNCHANGED <<hpc, event>>
      BY <2>6 DEF queueVars, handlerVars, Publish, Connect, FailConnect, LoseConnection,
                  SendMetadataTask
    <3> QED
      BY <2>1, <3>1
  <2> QED
    BY <2>2, <2>3, <2>4, <2>5, <2>6
       DEF Next, vars, QueueOnly, HandlerStep, LocalStep, RestartWeb
<1>5. ASSUME NEW e \in Event, Kind[e] = "call", broker'[e] = "acked"
      PROVE  Owed(ChainOf[e])'
  <2>1. CASE broker[e] = "acked"
    BY <1>2, <1>3, <1>5, <2>1 DEF OwedInv, CreationsOwed
  <2>2. CASE broker[e] # "acked"
    <3>1. PICK h \in Handler : Ack(h) /\ event[h] = e
      BY <1>1, <1>5, <2>2
         DEF QueueNext, LocalStep, queueVars, handlerVars, Publish, Connect, FailConnect,
             LoseConnection, StopWeb, Requeued, Deliver, CheckChain, SendCreate,
             SendMetadataTask, Ack, Nack, Settle, Raise, QueueTypeOK
    <3> QED
      BY <1>2, <1>3, <1>5, <3>1 DEF Ack, OwedInv
  <2> QED
    BY <2>1, <2>2
<1> QED
  BY <1>4, <1>5 DEF OwedInv, CreationsOwed

(* Nothing the system has to do is forgotten: a delivered event that is    *)
(* not answered has a callback that will answer it, and the chain of an    *)
(* acknowledged event is complete or its creation is waiting or running,   *)
(* but for creations given up at the key of a dead task.  This is what the *)
(* liveness of the two rests on.                                           *)
THEOREM Remembered == Spec => []NothingForgotten
<1>1. Init => OwedInv
  BY DEF Init, QueueInit, OwedInv, CreationsOwed
<1>2. QueueInv /\ SafeInv /\ OwedInv /\ [Next]_vars => OwedInv'
  BY OwedStep
<1>3. QueueInv /\ OwedInv => NothingForgotten
  BY DEF QueueInv, OwedInv, NothingForgotten
<1> QED
  BY <1>1, <1>2, <1>3, Composition, QueueInvariance, SafeInvariance, PTL DEF Spec

(* The variables of the consumer and of the Safe contracts have their      *)
(* types, so that the loop of update_safe_contracts_info stays in the list.*)
THEOREM TypeCorrect == Spec => []TypeOK
BY Composition, QueueInvariance, SafeInvariance, PTL DEF QueueInv, SafeInv, TypeOK

(* The composed system implements EventDelivery. *)
THEOREM DeliveryHolds == Spec => DeliveryRefined
BY Composition, DeliveryImplemented, PTL

(* A chain in _safe_contracts_cache has all its deployments, except for    *)
(* rows an administrator deleted.                                          *)
THEOREM CacheIsRight == Spec => []CachedMeansComplete
BY Composition, SafeInvariance, PTL DEF SafeInv

(* At most one creation of a chain more than keys that expired early.      *)
THEOREM CreatorsLimited == Spec => []CreatorsBounded
BY Composition, SafeInvariance, PTL DEF SafeInv
==============================================================================
