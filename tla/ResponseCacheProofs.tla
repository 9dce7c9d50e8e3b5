-------------------------- MODULE ResponseCacheProofs --------------------------
(***************************************************************************)
(* The safety properties of ResponseCache, proved for any queries, number  *)
(* of requests and tasks, writes and faults.                               *)
(***************************************************************************)
EXTENDS ResponseCache, TLAPS

(* The invariant that every step keeps. *)
IndInv ==
    /\ TypeOK
    /\ EveryHashExpires
    /\ OnlyLateFillsAreStale

(* Every step keeps every variable in its type. *)
LEMMA TypeStep ==
    ASSUME TypeOK, [Next]_vars
    PROVE  TypeOK'
<1> USE BoundAssumption DEF TypeOK, NoAnswer, cacheVars, requestVars, historyVars, Goto, Finish
<1>1. ASSUME NEW r \in Requests, NEW f \in Field, Lookup(r, f)
      PROVE  TypeOK'
  BY <1>1 DEF Lookup
<1>2. ASSUME NEW r \in Requests, ListContracts(r)
      PROVE  TypeOK'
  BY <1>2 DEF ListContracts
<1>3. ASSUME NEW r \in Requests, Reject(r)
      PROVE  TypeOK'
  BY <1>3 DEF Reject
<1>4. ASSUME NEW r \in Requests, HSet(r)
      PROVE  TypeOK'
  <2>1. late' \subseteq Field
    BY <1>4 DEF HSet
  <2> QED
    BY <1>4, <2>1 DEF HSet
<1>5. ASSUME NEW r \in Requests, CheckTtl(r)
      PROVE  TypeOK'
  BY <1>5 DEF CheckTtl
<1>6. ASSUME NEW r \in Requests, Expire(r)
      PROVE  TypeOK'
  BY <1>6 DEF Expire
<1>7. ASSUME NEW r \in Requests, Die(r)
      PROVE  TypeOK'
  BY <1>7 DEF Die
<1>8. CASE Expiry
  BY <1>8 DEF Expiry, DropHash, NoHash
<1>9. ASSUME NEW t \in Tasks, StoreMetadata(t)
      PROVE  TypeOK'
  BY <1>9 DEF StoreMetadata
<1>10. ASSUME NEW t \in Tasks, Unlink(t)
       PROVE  TypeOK'
  BY <1>10 DEF Unlink, DropHash, NoHash
<1>11. ASSUME NEW t \in Tasks, TaskDies(t)
       PROVE  TypeOK'
  BY <1>11 DEF TaskDies
<1>12. CASE WriteQuietly
  BY <1>12 DEF WriteQuietly
<1>13. CASE UNCHANGED vars
  BY <1>13 DEF vars
<1> QED
  BY <1>1, <1>2, <1>3, <1>4, <1>5, <1>6, <1>7, <1>8, <1>9, <1>10, <1>11, <1>12, <1>13
     DEF Next, RequestStep

(* The request that created the hash, or another, gives it its expiry. *)
LEMMA ExpiryStep ==
    ASSUME TypeOK, EveryHashExpires, [Next]_vars
    PROVE  EveryHashExpires'
<1> USE DEF TypeOK, EveryHashExpires, cacheVars, requestVars, historyVars, Goto, Finish
<1>1. ASSUME NEW r \in Requests, NEW f \in Field, Lookup(r, f)
      PROVE  EveryHashExpires'
  BY <1>1 DEF Lookup
<1>2. ASSUME NEW r \in Requests, ListContracts(r)
      PROVE  EveryHashExpires'
  BY <1>2 DEF ListContracts
<1>3. ASSUME NEW r \in Requests, Reject(r)
      PROVE  EveryHashExpires'
  BY <1>3 DEF Reject
<1>4. ASSUME NEW r \in Requests, HSet(r)
      PROVE  EveryHashExpires'
  BY <1>4 DEF HSet
<1>5. ASSUME NEW r \in Requests, CheckTtl(r)
      PROVE  EveryHashExpires'
  <2>1. NoHash' = NoHash
    BY DEF NoHash
  <2> QED
    BY <1>5, <2>1 DEF CheckTtl
<1>6. ASSUME NEW r \in Requests, Expire(r)
      PROVE  EveryHashExpires'
  BY <1>6 DEF Expire
<1>7. ASSUME NEW r \in Requests, Die(r)
      PROVE  EveryHashExpires'
  BY <1>7 DEF Die
<1>8. CASE Expiry
  BY <1>8 DEF Expiry, DropHash
<1>9. ASSUME NEW t \in Tasks, StoreMetadata(t)
      PROVE  EveryHashExpires'
  BY <1>9 DEF StoreMetadata
<1>10. ASSUME NEW t \in Tasks, Unlink(t)
       PROVE  EveryHashExpires'
  BY <1>10 DEF Unlink, DropHash
<1>11. ASSUME NEW t \in Tasks, TaskDies(t)
       PROVE  EveryHashExpires'
  BY <1>11 DEF TaskDies
<1>12. CASE WriteQuietly
  BY <1>12 DEF WriteQuietly
<1>13. CASE UNCHANGED vars
  BY <1>13 DEF vars
<1> QED
  BY <1>1, <1>2, <1>3, <1>4, <1>5, <1>6, <1>7, <1>8, <1>9, <1>10, <1>11, <1>12, <1>13
     DEF Next, RequestStep

(* An unlink leaves no answer, and a fill that is too late is known as one. *)
LEMMA StaleStep ==
    ASSUME TypeOK, OnlyLateFillsAreStale, [Next]_vars
    PROVE  OnlyLateFillsAreStale'
<1> USE DEF TypeOK, OnlyLateFillsAreStale
<1>1. ASSUME NEW r \in Requests, HSet(r)
      PROVE  OnlyLateFillsAreStale'
  BY <1>1 DEF HSet, NoAnswer
<1>2. CASE DropHash
  BY <1>2 DEF DropHash, NoHash
<1>3. CASE UNCHANGED <<hash, invalidated, late>>
  BY <1>3
<1>4. \/ \E r \in Requests : HSet(r)
      \/ DropHash
      \/ UNCHANGED <<hash, invalidated, late>>
  <2> USE DEF cacheVars, historyVars
  <2>1. ASSUME NEW r \in Requests, NEW f \in Field, Lookup(r, f)
        PROVE  UNCHANGED <<hash, invalidated, late>>
    BY <2>1 DEF Lookup
  <2>2. ASSUME NEW r \in Requests,
               ListContracts(r) \/ Reject(r) \/ CheckTtl(r) \/ Expire(r) \/ Die(r)
        PROVE  UNCHANGED <<hash, invalidated, late>>
    BY <2>2 DEF ListContracts, Reject, CheckTtl, Expire, Die
  <2>3. ASSUME NEW t \in Tasks, StoreMetadata(t) \/ TaskDies(t)
        PROVE  UNCHANGED <<hash, invalidated, late>>
    BY <2>3 DEF StoreMetadata, TaskDies
  <2>4. CASE WriteQuietly
    BY <2>4 DEF WriteQuietly
  <2>5. CASE UNCHANGED vars
    BY <2>5 DEF vars
  <2> QED
    BY <2>1, <2>2, <2>3, <2>4, <2>5 DEF Next, RequestStep, Expiry, Unlink
<1> QED
  BY <1>1, <1>2, <1>3, <1>4

(* Invariance: the types and both safety properties, in every state. *)
THEOREM Invariance == Spec => []IndInv
<1>1. Init => IndInv
  <2> SUFFICES ASSUME Init
               PROVE  IndInv
    OBVIOUS
  <2>1. hash \in [Field -> Nat \union {NoAnswer}]
    BY DEF Init, NoHash
  <2>2. field \in [Requests -> Field]
    BY DEF Init
  <2>3. pc \in [Requests -> {"idle", "read", "hset", "ttl", "expire"}]
    BY DEF Init
  <2>4. /\ response \in [Requests -> Nat \union {NoAnswer}]
        /\ written \in [Tasks -> Nat \union {NoAnswer}]
    BY DEF Init
  <2>5. version \in Nat /\ invalidated \in Nat /\ faults \in 0..MaxFaults
    BY BoundAssumption DEF Init
  <2>6. timed \in BOOLEAN /\ orphaned \in BOOLEAN /\ late \subseteq Field
    BY DEF Init
  <2>7. TypeOK
    BY <2>1, <2>2, <2>3, <2>4, <2>5, <2>6 DEF TypeOK
  <2>8. EveryHashExpires
    BY DEF Init, EveryHashExpires
  <2>9. OnlyLateFillsAreStale
    BY DEF Init, OnlyLateFillsAreStale, NoHash
  <2> QED
    BY <2>7, <2>8, <2>9 DEF IndInv
<1>2. IndInv /\ [Next]_vars => IndInv'
  BY TypeStep, ExpiryStep, StaleStep DEF IndInv
<1> QED
  BY <1>1, <1>2, PTL DEF Spec

(* HashesExpire: EveryHashExpires for any number of requests and tasks: the *)
(* separate HSET, TTL and EXPIRE of cache_response leave no hash without an *)
(* expiry, unless a request dies between them.                              *)
THEOREM HashesExpire == Spec => []EveryHashExpires
<1>1. IndInv => EveryHashExpires
  BY DEF IndInv
<1> QED
  BY <1>1, Invariance, PTL

(* LateFills: OnlyLateFillsAreStale for any number of requests and tasks:   *)
(* only a fill that races del_contract_cache survives it.                   *)
THEOREM LateFills == Spec => []OnlyLateFillsAreStale
<1>1. IndInv => OnlyLateFillsAreStale
  BY DEF IndInv
<1> QED
  BY <1>1, Invariance, PTL
================================================================================
