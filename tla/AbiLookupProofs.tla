---------------------------- MODULE AbiLookupProofs ----------------------------
(***************************************************************************)
(* The safety properties of AbiLookup, proved for any ABIs, selectors,     *)
(* chains and number of concurrent requests.                               *)
(***************************************************************************)
EXTENDS AbiLookup, TLAPS

(* The result of get_contract_abi *)
Result == Abi \union {NoAbi}

-----------------------------------------------------------------------------
(* The keys under which an ABI is known. *)

(* A lookup leaves the cache in its type. *)
LEMMA LookupType ==
    ASSUME TypeOK, NEW k \in Key, NEW v \in Result, GetContractAbi(k, v)
    PROVE  cached' \subseteq Key /\ abiCache' \in [Key -> Abi \union {NoAbi}]
BY DEF TypeOK, GetContractAbi, Result

(* A lookup of a key under which an ABI is known finds one. *)
LEMMA KnownIsFound ==
    ASSUME TypeOK, NEW k \in Key, NEW v \in Result, GetContractAbi(k, v), Known(k)
    PROVE  v # NoAbi
BY DEF GetContractAbi, Known, HasAbi, IsContractAbi

(* What a lookup finds, in the cache or in the table, is known from then on. *)
LEMMA FoundIsKnown ==
    ASSUME TypeOK, CacheInv, NEW k \in Key, NEW v \in Result, GetContractAbi(k, v),
           UNCHANGED contractAbi, v # NoAbi
    PROVE  Known(k)'
<1>1. HasAbi(k)
  <2>1. CASE k \in cached
    BY <2>1 DEF CacheInv, GetContractAbi
  <2>2. CASE k \notin cached
    BY <2>2 DEF GetContractAbi, IsContractAbi, HasAbi
  <2> QED
    BY <2>1, <2>2
<1>2. HasAbi(k)'
  BY <1>1 DEF HasAbi
<1>3. abiCache'[k] = v
  BY DEF GetContractAbi, TypeOK
<1> QED
  BY <1>2, <1>3 DEF Known

(* A lookup of any key leaves known what is known. *)
LEMMA LookupKeepsKnown ==
    ASSUME TypeOK, NEW k \in Key, NEW v \in Result, GetContractAbi(k, v),
           UNCHANGED contractAbi, NEW j \in Key, Known(j)
    PROVE  Known(j)'
<1>1. HasAbi(j)'
  BY DEF Known, HasAbi
<1>2. j = k => abiCache'[j] # NoAbi
  BY KnownIsFound DEF GetContractAbi, TypeOK
<1>3. j # k => abiCache'[j] = abiCache[j] /\ (j \in cached' => j \in cached)
  BY DEF GetContractAbi, TypeOK
<1> QED
  BY <1>1, <1>2, <1>3 DEF Known

(* A lookup leaves only stored ABIs in the cache. *)
LEMMA LookupKeepsCache ==
    ASSUME TypeOK, CacheInv, NEW k \in Key, NEW v \in Result, GetContractAbi(k, v),
           UNCHANGED contractAbi
    PROVE  \A j \in Key : j \in cached' /\ abiCache'[j] # NoAbi => HasAbi(j)'
<1> SUFFICES ASSUME NEW j \in Key, j \in cached', abiCache'[j] # NoAbi
             PROVE  HasAbi(j)'
  OBVIOUS
<1>1. CASE j = k
  <2>1. abiCache'[k] = v
    BY DEF GetContractAbi, TypeOK
  <2> QED
    BY <1>1, <2>1, FoundIsKnown DEF Known
<1>2. CASE j # k
  <2>1. j \in cached /\ abiCache[j] # NoAbi
    BY <1>2 DEF GetContractAbi, TypeOK
  <2> QED
    BY <2>1 DEF CacheInv, HasAbi
<1> QED
  BY <1>1, <1>2

(* The steps that change the ABIs of the contract or their cache. *)
LEMMA CacheCases ==
    ASSUME TypeOK, RequestInv, [Next]_vars
    PROVE  \/ \E c \in Chain, a \in Abi : StoreContractAbi(c, a)
           \/ \E k \in Key, v \in Result : GetContractAbi(k, v) /\ UNCHANGED contractAbi
           \/ \E k \in Key : EvictAbi(k)
           \/ UNCHANGED <<contractAbi, cached, abiCache>>
<1> USE DEF dbVars, cacheVars, selVars, requestVars
<1>1. ASSUME NEW r \in Requests, NEW v \in Result, AccuracyOfChain(r, v)
      PROVE  \E k \in Key : GetContractAbi(k, v) /\ UNCHANGED contractAbi
  <2>1. key[r] \in Key
    BY <1>1 DEF TypeOK, RequestInv, AccuracyOfChain
  <2> QED
    BY <1>1, <2>1 DEF AccuracyOfChain
<1>2. ASSUME NEW r \in Requests, NEW v \in Result, AccuracyOfAnyChain(r, v)
      PROVE  \E k \in Key : GetContractAbi(k, v) /\ UNCHANGED contractAbi
  BY <1>2 DEF AccuracyOfAnyChain, Key
<1>3. ASSUME NEW k \in Key, NEW v \in Result,
             SelectorsOfChain(k, v) \/ SelectorsOfAnyChain(k, v)
      PROVE  \E i \in Key : GetContractAbi(i, v) /\ UNCHANGED contractAbi
  BY <1>3 DEF SelectorsOfChain, SelectorsOfAnyChain, Key
<1>4. ASSUME NEW r \in Requests, FindFunction(r) \/ UseSelectors(r)
               \/ AskSelectorsAgain(r) \/ StartAccuracy(r) \/ Answer(r)
      PROVE  UNCHANGED <<contractAbi, cached, abiCache>>
  BY <1>4 DEF FindFunction, UseSelectors, AskSelectorsAgain, StartAccuracy, Answer
<1>5. ASSUME NEW r \in Requests, NEW s \in Selector, NEW k \in Key \union {NoAddress},
             Arrive(r, s, k)
      PROVE  UNCHANGED <<contractAbi, cached, abiCache>>
  BY <1>5 DEF Arrive
<1>6. ASSUME NEW k \in Key, EvictSelectors(k)
      PROVE  UNCHANGED <<contractAbi, cached, abiCache>>
  BY <1>6 DEF EvictSelectors
<1>7. ASSUME NEW s \in Selector, NEW a \in Abi, LearnSelector(s, a)
      PROVE  UNCHANGED <<contractAbi, cached, abiCache>>
  BY <1>7 DEF LearnSelector
<1>8. CASE UNCHANGED vars
  BY <1>8 DEF vars
<1> QED
  BY <1>1, <1>2, <1>3, <1>4, <1>5, <1>6, <1>7, <1>8 DEF Next, Result

(* No step, and no eviction in particular, makes a known ABI unknown. *)
LEMMA KnownStays ==
    ASSUME TypeOK, RequestInv, [Next]_vars, NEW j \in Key, Known(j)
    PROVE  Known(j)'
<1>1. ASSUME NEW c \in Chain, NEW a \in Abi, StoreContractAbi(c, a)
      PROVE  Known(j)'
  BY <1>1, AbiAssumption DEF Known, HasAbi, StoreContractAbi, TypeOK, cacheVars
<1>2. ASSUME NEW k \in Key, NEW v \in Result, GetContractAbi(k, v), UNCHANGED contractAbi
      PROVE  Known(j)'
  BY <1>2, LookupKeepsKnown
<1>3. ASSUME NEW k \in Key, EvictAbi(k)
      PROVE  Known(j)'
  BY <1>3 DEF Known, HasAbi, EvictAbi, TypeOK, dbVars
<1>4. CASE UNCHANGED <<contractAbi, cached, abiCache>>
  BY <1>4 DEF Known, HasAbi
<1> QED
  BY <1>1, <1>2, <1>3, <1>4, CacheCases

(* Every ABI in the cache has been stored. *)
LEMMA CacheValues ==
    ASSUME TypeOK, RequestInv, CacheInv, [Next]_vars
    PROVE  \A j \in Key : j \in cached' /\ abiCache'[j] # NoAbi => HasAbi(j)'
<1>1. ASSUME NEW c \in Chain, NEW a \in Abi, StoreContractAbi(c, a), NEW j \in Key,
             j \in cached', abiCache'[j] # NoAbi
      PROVE  HasAbi(j)'
  <2>1. HasAbi(j)
    BY <1>1 DEF CacheInv, StoreContractAbi, cacheVars
  <2> QED
    BY <1>1, <2>1, AbiAssumption DEF HasAbi, StoreContractAbi, TypeOK
<1>2. ASSUME NEW k \in Key, EvictAbi(k), NEW j \in Key, j \in cached', abiCache'[j] # NoAbi
      PROVE  HasAbi(j)'
  <2>1. HasAbi(j)
    BY <1>2 DEF CacheInv, EvictAbi, TypeOK
  <2> QED
    BY <1>2, <2>1 DEF HasAbi, EvictAbi, dbVars
<1>3. CASE UNCHANGED <<contractAbi, cached, abiCache>>
  BY <1>3 DEF CacheInv, HasAbi
<1> QED
  BY <1>1, <1>2, <1>3, CacheCases, LookupKeepsCache

-----------------------------------------------------------------------------
(* The cache of the selectors. *)

(* The steps that change the cache of the selectors. *)
LEMMA SelectorCases ==
    ASSUME [Next]_vars
    PROVE  \/ \E k \in Key, v \in Result : SelectorsOfChain(k, v)
           \/ \E k \in Key, v \in Result : SelectorsOfAnyChain(k, v)
           \/ \E k \in Key : EvictSelectors(k)
           \/ \E r \in Requests : FindFunction(r) \/ AskSelectorsAgain(r)
           \/ UNCHANGED selVars
<1>1. ASSUME NEW r \in Requests, UseSelectors(r) \/ StartAccuracy(r) \/ Answer(r)
      PROVE  UNCHANGED selVars
  BY <1>1 DEF UseSelectors, StartAccuracy, Answer
<1>2. ASSUME NEW r \in Requests, NEW v \in Result,
             AccuracyOfChain(r, v) \/ AccuracyOfAnyChain(r, v)
      PROVE  UNCHANGED selVars
  BY <1>2 DEF AccuracyOfChain, AccuracyOfAnyChain
<1>3. ASSUME NEW c \in Chain, NEW a \in Abi, StoreContractAbi(c, a)
      PROVE  UNCHANGED selVars
  BY <1>3 DEF StoreContractAbi
<1>4. ASSUME NEW s \in Selector, NEW a \in Abi, LearnSelector(s, a)
      PROVE  UNCHANGED selVars
  BY <1>4 DEF LearnSelector
<1>5. ASSUME NEW r \in Requests, NEW s \in Selector, NEW k \in Key \union {NoAddress},
             Arrive(r, s, k)
      PROVE  UNCHANGED selVars
  BY <1>5 DEF Arrive
<1>6. ASSUME NEW k \in Key, EvictAbi(k)
      PROVE  UNCHANGED selVars
  BY <1>6 DEF EvictAbi
<1>7. CASE UNCHANGED vars
  BY <1>7 DEF vars
<1> QED
  BY <1>1, <1>2, <1>3, <1>4, <1>5, <1>6, <1>7 DEF Next, Result

(* An entry of the selectors' cache that has an ABI has a known one. *)
LEMMA SelectorsKnown ==
    ASSUME TypeOK, RequestInv, CacheInv, [Next]_vars
    PROVE  \A j \in Key :
               /\ selKey'[j] \in {j, NoChain}
               /\ selState'[j] = "done" /\ selAbi'[j] # NoAbi => Known(selKey[j])'
<1> SUFFICES ASSUME NEW j \in Key
             PROVE  /\ selKey'[j] \in {j, NoChain}
                    /\ selState'[j] = "done" /\ selAbi'[j] # NoAbi => Known(selKey[j])'
  OBVIOUS
<1>0. \A i \in Key : Known(i)' /\ selKey'[j] = i => Known(selKey[j])'
  BY DEF Known, HasAbi
<1>1. CASE /\ selKey'[j] = selKey[j] /\ selAbi'[j] = selAbi[j]
           /\ selState'[j] = "done" => selState[j] = "done"
  <2>1. PICK i \in Key : i = selKey[j]
    BY DEF TypeOK
  <2>2. i \in {j, NoChain}
    BY <2>1 DEF CacheInv
  <2>3. ASSUME selState'[j] = "done", selAbi'[j] # NoAbi
        PROVE  Known(i)
    BY <1>1, <2>1, <2>3 DEF CacheInv
  <2> QED
    BY <1>0, <1>1, <2>1, <2>2, <2>3, KnownStays
<1>2. ASSUME NEW k \in Key, NEW v \in Result, SelectorsOfChain(k, v), j = k,
             FinishSelectors(k, v, k)
      PROVE  /\ selKey'[j] \in {j, NoChain}
             /\ selState'[j] = "done" /\ selAbi'[j] # NoAbi => Known(selKey[j])'
  <2>1. selKey'[j] = k /\ selAbi'[j] = v
    BY <1>2 DEF FinishSelectors, TypeOK
  <2>2. v # NoAbi => Known(k)'
    BY <1>2, FoundIsKnown DEF SelectorsOfChain, dbVars
  <2> QED
    BY <1>0, <1>2, <2>1, <2>2
<1>3. ASSUME NEW k \in Key, NEW v \in Result, SelectorsOfAnyChain(k, v), j = k
      PROVE  /\ selKey'[j] \in {j, NoChain}
             /\ selState'[j] = "done" /\ selAbi'[j] # NoAbi => Known(selKey[j])'
  <2>1. selKey'[j] = NoChain /\ selAbi'[j] = v /\ NoChain \in Key
    BY <1>3 DEF SelectorsOfAnyChain, FinishSelectors, TypeOK, Key
  <2>2. v # NoAbi => Known(NoChain)'
    BY <1>3, <2>1, FoundIsKnown DEF SelectorsOfAnyChain, dbVars
  <2> QED
    BY <1>0, <2>1, <2>2
<1>4. ASSUME NEW k \in Key, NEW v \in Result, SelectorsOfChain(k, v), ~FinishSelectors(k, v, k)
      PROVE  /\ selKey'[j] = selKey[j] /\ selAbi'[j] = selAbi[j]
             /\ selState'[j] = "done" => selState[j] = "done"
  BY <1>4 DEF SelectorsOfChain, TypeOK
<1>5. ASSUME NEW k \in Key, NEW v \in Result, FinishSelectors(k, v, k) \/ FinishSelectors(k, v, NoChain), j # k
      PROVE  /\ selKey'[j] = selKey[j] /\ selAbi'[j] = selAbi[j]
             /\ selState'[j] = "done" => selState[j] = "done"
  BY <1>5 DEF FinishSelectors, TypeOK
<1>6. ASSUME NEW k \in Key, EvictSelectors(k)
      PROVE  \/ selKey'[j] = NoChain /\ selAbi'[j] = NoAbi
             \/ /\ selKey'[j] = selKey[j] /\ selAbi'[j] = selAbi[j]
                /\ selState'[j] = "done" => selState[j] = "done"
  BY <1>6 DEF EvictSelectors, TypeOK
<1>7. ASSUME NEW r \in Requests, FindFunction(r) \/ AskSelectorsAgain(r)
      PROVE  /\ selKey'[j] = selKey[j] /\ selAbi'[j] = selAbi[j]
             /\ selState'[j] = "done" => selState[j] = "done"
  BY <1>7 DEF FindFunction, AskSelectorsAgain, TypeOK
<1>8. ASSUME UNCHANGED selVars
      PROVE  /\ selKey'[j] = selKey[j] /\ selAbi'[j] = selAbi[j]
             /\ selState'[j] = "done" => selState[j] = "done"
  BY <1>8 DEF selVars
<1>9. ASSUME NEW k \in Key, NEW v \in Result, SelectorsOfAnyChain(k, v)
      PROVE  FinishSelectors(k, v, NoChain)
  BY <1>9 DEF SelectorsOfAnyChain
<1> QED
  BY <1>1, <1>2, <1>3, <1>4, <1>5, <1>6, <1>7, <1>8, <1>9, SelectorCases

-----------------------------------------------------------------------------
(* Types, and the general table. *)

(* Every step keeps every variable in its type. *)
LEMMA TypeStep ==
    ASSUME TypeOK, RequestInv, [Next]_vars
    PROVE  TypeOK'
<1> USE DEF dbVars, cacheVars, selVars, requestVars
<1>1. ASSUME NEW c \in Chain, NEW a \in Abi, StoreContractAbi(c, a)
      PROVE  TypeOK'
  BY <1>1 DEF TypeOK, StoreContractAbi
<1>2. ASSUME NEW s \in Selector, NEW a \in Abi, LearnSelector(s, a)
      PROVE  TypeOK'
  BY <1>2 DEF TypeOK, LearnSelector
<1>3. ASSUME NEW k \in Key, NEW v \in Result, SelectorsOfChain(k, v)
      PROVE  TypeOK'
  <2>1. cached' \subseteq Key /\ abiCache' \in [Key -> Abi \union {NoAbi}]
    BY <1>3, LookupType DEF SelectorsOfChain
  <2>2. /\ selState' \in [Key -> {"absent", "first", "second", "done"}]
        /\ selAbi' \in [Key -> Abi \union {NoAbi}]
        /\ selKey' \in [Key -> Key]
    BY <1>3 DEF SelectorsOfChain, FinishSelectors, TypeOK, Result
  <2> QED
    BY <1>3, <2>1, <2>2 DEF TypeOK, SelectorsOfChain
<1>4. ASSUME NEW k \in Key, NEW v \in Result, SelectorsOfAnyChain(k, v)
      PROVE  TypeOK'
  <2>0. NoChain \in Key
    BY DEF Key
  <2>1. cached' \subseteq Key /\ abiCache' \in [Key -> Abi \union {NoAbi}]
    BY <1>4, <2>0, LookupType DEF SelectorsOfAnyChain
  <2>2. /\ selState' \in [Key -> {"absent", "first", "second", "done"}]
        /\ selAbi' \in [Key -> Abi \union {NoAbi}]
        /\ selKey' \in [Key -> Key]
    BY <1>4, <2>0 DEF SelectorsOfAnyChain, FinishSelectors, TypeOK, Result
  <2> QED
    BY <1>4, <2>1, <2>2 DEF TypeOK, SelectorsOfAnyChain
<1>5. ASSUME NEW k \in Key, EvictAbi(k)
      PROVE  TypeOK'
  BY <1>5 DEF TypeOK, EvictAbi
<1>6. ASSUME NEW k \in Key, EvictSelectors(k)
      PROVE  TypeOK'
  BY <1>6 DEF TypeOK, EvictSelectors, Key
<1>7. ASSUME NEW r \in Requests, NEW s \in Selector, NEW k \in Key \union {NoAddress},
             Arrive(r, s, k)
      PROVE  TypeOK'
  BY <1>7 DEF TypeOK, Arrive, Goto
<1>8. ASSUME NEW r \in Requests, FindFunction(r)
      PROVE  TypeOK'
  <2>1. selState' \in [Key -> {"absent", "first", "second", "done"}]
    BY <1>8 DEF TypeOK, FindFunction
  <2>2. table[selector[r]] \in Abi \union {NoAbi}
    BY DEF TypeOK
  <2> QED
    BY <1>8, <2>1, <2>2 DEF TypeOK, FindFunction, Goto, Decoded
<1>9. ASSUME NEW r \in Requests, UseSelectors(r)
      PROVE  TypeOK'
  <2>1. key[r] \in Key /\ table[selector[r]] \in Abi \union {NoAbi}
    BY <1>9 DEF TypeOK, RequestInv, UseSelectors
  <2>2. PICK a \in Abi \union {NoAbi}, k \in Key \union {NoAddress} : Decoded(r, a, k)
    BY <1>9, <2>1 DEF TypeOK, UseSelectors
  <2> QED
    BY <1>9, <2>2 DEF TypeOK, UseSelectors, Goto, Decoded
<1>10. ASSUME NEW r \in Requests, AskSelectorsAgain(r)
       PROVE  TypeOK'
  BY <1>10 DEF TypeOK, AskSelectorsAgain
<1>11. ASSUME NEW r \in Requests, StartAccuracy(r)
       PROVE  TypeOK'
  BY <1>11 DEF TypeOK, StartAccuracy, Report, Goto, Accuracy
<1>12. ASSUME NEW r \in Requests, NEW v \in Result, AccuracyOfChain(r, v)
       PROVE  TypeOK'
  <2>1. key[r] \in Key
    BY <1>12 DEF TypeOK, RequestInv, AccuracyOfChain
  <2>2. cached' \subseteq Key /\ abiCache' \in [Key -> Abi \union {NoAbi}]
    BY <1>12, <2>1, LookupType DEF AccuracyOfChain
  <2> QED
    BY <1>12, <2>2 DEF TypeOK, AccuracyOfChain, Report, Goto, Accuracy
<1>13. ASSUME NEW r \in Requests, NEW v \in Result, AccuracyOfAnyChain(r, v)
       PROVE  TypeOK'
  <2>1. cached' \subseteq Key /\ abiCache' \in [Key -> Abi \union {NoAbi}]
    BY <1>13, LookupType DEF AccuracyOfAnyChain, Key
  <2> QED
    BY <1>13, <2>1 DEF TypeOK, AccuracyOfAnyChain, Report, Goto, Accuracy
<1>14. ASSUME NEW r \in Requests, Answer(r)
       PROVE  TypeOK'
  BY <1>14 DEF TypeOK, Answer, Goto, Accuracy
<1>15. CASE UNCHANGED vars
  BY <1>15 DEF TypeOK, vars
<1> QED
  BY <1>1, <1>2, <1>3, <1>4, <1>5, <1>6, <1>7, <1>8, <1>9, <1>10, <1>11, <1>12, <1>13,
     <1>14, <1>15 DEF Next, Result

(* The steps that change the general table. *)
LEMMA TableCases ==
    ASSUME [Next]_vars
    PROVE  \/ \E s \in Selector, a \in Abi : LearnSelector(s, a)
           \/ UNCHANGED table
<1> USE DEF dbVars
<1>1. ASSUME NEW c \in Chain, NEW a \in Abi, StoreContractAbi(c, a)
      PROVE  UNCHANGED table
  BY <1>1 DEF StoreContractAbi
<1>2. ASSUME NEW k \in Key, NEW v \in Abi \union {NoAbi},
             SelectorsOfChain(k, v) \/ SelectorsOfAnyChain(k, v)
      PROVE  UNCHANGED table
  BY <1>2 DEF SelectorsOfChain, SelectorsOfAnyChain
<1>3. ASSUME NEW k \in Key, EvictAbi(k) \/ EvictSelectors(k)
      PROVE  UNCHANGED table
  BY <1>3 DEF EvictAbi, EvictSelectors
<1>4. ASSUME NEW r \in Requests, NEW s \in Selector, NEW k \in Key \union {NoAddress},
             Arrive(r, s, k)
      PROVE  UNCHANGED table
  BY <1>4 DEF Arrive
<1>5. ASSUME NEW r \in Requests, FindFunction(r) \/ UseSelectors(r)
               \/ AskSelectorsAgain(r) \/ StartAccuracy(r) \/ Answer(r)
      PROVE  UNCHANGED table
  BY <1>5 DEF FindFunction, UseSelectors, AskSelectorsAgain, StartAccuracy, Answer
<1>6. ASSUME NEW r \in Requests, NEW v \in Abi \union {NoAbi},
             AccuracyOfChain(r, v) \/ AccuracyOfAnyChain(r, v)
      PROVE  UNCHANGED table
  BY <1>6 DEF AccuracyOfChain, AccuracyOfAnyChain
<1>7. CASE UNCHANGED vars
  BY <1>7 DEF vars
<1> QED
  BY <1>1, <1>2, <1>3, <1>4, <1>5, <1>6, <1>7 DEF Next

(* A selector keeps a function that has it. *)
LEMMA TableStep ==
    ASSUME TypeOK, TableInv, [Next]_vars
    PROVE  /\ TableInv'
           /\ \A s \in Selector : table[s] # NoAbi => table'[s] = table[s]
<1>1. ASSUME NEW t \in Selector, NEW a \in Abi, LearnSelector(t, a)
      PROVE  /\ TableInv'
             /\ \A s \in Selector : table[s] # NoAbi => table'[s] = table[s]
  BY <1>1 DEF TableInv, LearnSelector, TypeOK
<1>2. CASE UNCHANGED table
  BY <1>2 DEF TableInv
<1> QED
  BY <1>1, <1>2, TableCases

-----------------------------------------------------------------------------
(* One request. *)

(* The conjuncts of IndInv that are about the request q. *)
Facts(q) ==
    /\ rpc[q] \in {"selectors", "accuracy", "chain", "any", "answered"} =>
        table[selector[q]] # NoAbi
    /\ rpc[q] \in {"selectors", "chain", "any"} => key[q] # NoAddress
    /\ rpc[q] = "chain" => key[q] # NoChain
    /\ rpc[q] \in {"idle", "find", "selectors"} => usedKey[q] = NoAddress
    /\ usedKey[q] # NoAddress =>
        key[q] # NoAddress /\ usedKey[q] \in {key[q], NoChain} /\ Known(usedKey[q])
    /\ rpc[q] = "any" => usedKey[q] \in {NoAddress, NoChain}
    /\ rpc[q] \in {"accuracy", "chain", "any", "answered"} =>
        used[q] \in Abi /\ selector[q] \in SelectorsOf[used[q]]
    /\ rpc[q] = "answered" => accuracy[q] # "NO_MATCH"
    /\ rpc[q] = "answered" =>
        /\ usedKey[q] \in Chain => accuracy[q] = "FULL_MATCH"
        /\ usedKey[q] = NoChain => accuracy[q] \in {"FULL_MATCH", "PARTIAL_MATCH"}

LEMMA FactsAreInv ==
    (\A q \in Requests : Facts(q)) <=>
        RequestInv /\ FunctionHasSelector /\ AccuracyNotUnderstated
BY DEF Facts, RequestInv, FunctionHasSelector, AccuracyNotUnderstated

(* The ABI a request took its function from stays known. *)
LEMMA UsedStaysKnown ==
    ASSUME IndInv, [Next]_vars, NEW q \in Requests, usedKey[q] # NoAddress,
           usedKey'[q] = usedKey[q]
    PROVE  Known(usedKey[q])'
<1>1. PICK i \in Key : i = usedKey[q]
  BY DEF IndInv, TypeOK
<1>2. Known(i)
  BY <1>1 DEF IndInv, RequestInv
<1>3. Known(i)'
  BY <1>2, KnownStays DEF IndInv
<1> QED
  BY <1>1, <1>3 DEF Known, HasAbi

(* A step that is not of q leaves the facts about q. *)
LEMMA OthersKeepFacts ==
    ASSUME IndInv, [Next]_vars, NEW q \in Requests,
           rpc'[q] = rpc[q], selector'[q] = selector[q], key'[q] = key[q],
           used'[q] = used[q], usedKey'[q] = usedKey[q], accuracy'[q] = accuracy[q]
    PROVE  Facts(q)'
<1>1. Facts(q)
  BY FactsAreInv DEF IndInv
<1>2. selector[q] \in Selector
  BY DEF IndInv, TypeOK
<1>3. table[selector[q]] # NoAbi => table'[selector'[q]] # NoAbi
  BY <1>2, TableStep DEF IndInv
<1>4. usedKey[q] # NoAddress => Known(usedKey[q])'
  BY UsedStaysKnown
<1> QED
  BY <1>1, <1>3, <1>4 DEF Facts

(* What the steps of q itself do. *)
LEMMA OwnStepsKeepFacts ==
    ASSUME IndInv, Next, NEW q \in Requests,
           \/ \E s \in Selector, k \in Key \union {NoAddress} : Arrive(q, s, k)
           \/ FindFunction(q)
           \/ UseSelectors(q)
           \/ StartAccuracy(q)
           \/ \E v \in Result : AccuracyOfChain(q, v) \/ AccuracyOfAnyChain(q, v)
           \/ Answer(q)
    PROVE  Facts(q)'
<1> USE DEF dbVars, cacheVars, selVars
<1>0. TypeOK /\ CacheInv /\ RequestInv /\ TableInv /\ Facts(q)
  BY FactsAreInv DEF IndInv
<1>a. NoAddress \notin Chain /\ NoAddress # NoChain /\ NoChain \notin Chain
  BY AddressAssumption, ChainAssumption DEF Key
<1>b. selector[q] \in Selector /\ table[selector[q]] \in Abi \union {NoAbi}
  BY <1>0 DEF TypeOK
<1>c. table[selector[q]] # NoAbi => selector[q] \in SelectorsOf[table[selector[q]]]
  BY <1>0, <1>b DEF TableInv
<1>1. ASSUME NEW s \in Selector, NEW k \in Key \union {NoAddress}, Arrive(q, s, k)
      PROVE  Facts(q)'
  <2>1. rpc'[q] = "find" /\ usedKey'[q] = NoAddress
    BY <1>0, <1>1 DEF Arrive, Goto, TypeOK, Facts
  <2> QED
    BY <2>1 DEF Facts
<1>2. CASE FindFunction(q)
  <2>1. CASE table[selector[q]] = NoAbi
    <3>1. rpc'[q] = "not_found" /\ usedKey'[q] = NoAddress
      BY <1>0, <1>2, <2>1 DEF FindFunction, Goto, TypeOK, Facts
    <3> QED
      BY <3>1 DEF Facts
  <2>2. CASE table[selector[q]] # NoAbi /\ key[q] = NoAddress
    <3>1. /\ rpc'[q] \in {"accuracy", "not_found"}
          /\ usedKey'[q] = NoAddress
          /\ used'[q] = table[selector[q]]
          /\ UNCHANGED <<selector, key, table>>
      BY <1>0, <1>2, <2>2 DEF FindFunction, Decoded, Goto, TypeOK
    <3> QED
      BY <1>b, <1>c, <2>2, <3>1 DEF Facts
  <2>3. CASE table[selector[q]] # NoAbi /\ key[q] # NoAddress
    <3>1. /\ rpc'[q] = "selectors"
          /\ usedKey'[q] = NoAddress
          /\ UNCHANGED <<selector, key, table>>
      BY <1>0, <1>2, <2>3 DEF FindFunction, Goto, TypeOK, Facts
    <3> QED
      BY <2>3, <3>1 DEF Facts
  <2> QED
    BY <2>1, <2>2, <2>3
<1>3. CASE UseSelectors(q)
  <2>0. key[q] \in Key /\ table[selector[q]] # NoAbi
    BY <1>0, <1>3 DEF UseSelectors, Facts, TypeOK
  <2>1. PICK i \in Key : i = selKey[key[q]]
    BY <1>0, <2>0 DEF TypeOK
  <2>2. UNCHANGED <<selector, key, table>> /\ rpc'[q] \in {"accuracy", "not_found"}
    BY <1>0, <1>3 DEF UseSelectors, Decoded, Goto, TypeOK
  <2>3. CASE selAbi[key[q]] \in Abi /\ selector[q] \in SelectorsOf[selAbi[key[q]]]
    <3>1. used'[q] = selAbi[key[q]] /\ usedKey'[q] = i
      BY <1>0, <1>3, <2>1, <2>3 DEF UseSelectors, Decoded, TypeOK
    <3>2. Known(i) /\ i \in {key[q], NoChain} /\ key[q] # NoAddress
      BY <1>0, <1>3, <2>0, <2>1, <2>3, AbiAssumption, AddressAssumption
         DEF CacheInv, UseSelectors
    <3>3. Known(i)'
      BY <1>0, <3>2, KnownStays
    <3>4. Known(usedKey[q])'
      BY <3>1, <3>3 DEF Known, HasAbi
    <3> QED
      BY <2>0, <2>2, <2>3, <3>1, <3>2, <3>4 DEF Facts
  <2>4. CASE ~(selAbi[key[q]] \in Abi /\ selector[q] \in SelectorsOf[selAbi[key[q]]])
    <3>1. used'[q] = table[selector[q]] /\ usedKey'[q] = NoAddress
      BY <1>0, <1>3, <2>4 DEF UseSelectors, Decoded, TypeOK
    <3> QED
      BY <1>b, <1>c, <2>0, <2>2, <3>1 DEF Facts
  <2> QED
    BY <2>3, <2>4
<1>4. CASE StartAccuracy(q)
  <2>1. /\ table[selector[q]] # NoAbi
        /\ UNCHANGED <<selector, key, table, used, usedKey, contractAbi, cached, abiCache>>
    BY <1>0, <1>4 DEF StartAccuracy, Facts
  <2>2. Known(usedKey[q])' <=> Known(usedKey[q])
    BY <2>1 DEF Known, HasAbi
  <2>3. CASE key[q] = NoAddress
    <3>1. rpc'[q] = "answered" /\ accuracy'[q] = "ONLY_FUNCTION_MATCH"
      BY <1>0, <1>4, <2>1, <2>3 DEF StartAccuracy, Report, Goto, TypeOK
    <3>2. usedKey[q] = NoAddress
      BY <1>0, <2>3 DEF Facts
    <3> QED
      BY <1>0, <1>4, <1>a, <2>1, <2>2, <2>3, <3>1, <3>2 DEF Facts, StartAccuracy
  <2>4. CASE key[q] # NoAddress
    <3>1. rpc'[q] = IF key[q] = NoChain THEN "any" ELSE "chain"
      BY <1>0, <1>4, <2>1, <2>4 DEF StartAccuracy, Report, Goto, TypeOK
    <3> QED
      BY <1>0, <1>4, <2>1, <2>2, <2>4, <3>1 DEF Facts, StartAccuracy
  <2> QED
    BY <2>3, <2>4
<1>5. ASSUME NEW v \in Result, AccuracyOfChain(q, v)
      PROVE  Facts(q)'
  <2>1. UNCHANGED <<selector, key, table, used, usedKey, contractAbi>> /\ key[q] \in Key
    BY <1>0, <1>5 DEF AccuracyOfChain, Facts, TypeOK
  <2>2. usedKey[q] # NoAddress => Known(usedKey[q])'
    BY <2>1, UsedStaysKnown
  <2>3. usedKey[q] = key[q] => v # NoAbi
    BY <1>0, <1>5, <2>1, KnownIsFound DEF AccuracyOfChain, Facts
  <2>4. \/ v # NoAbi /\ rpc'[q] = "answered" /\ accuracy'[q] = "FULL_MATCH"
        \/ v = NoAbi /\ rpc'[q] = "any"
    BY <1>0, <1>5 DEF AccuracyOfChain, Report, Goto, TypeOK
  <2> QED
    BY <1>0, <1>5, <1>a, <2>1, <2>2, <2>3, <2>4 DEF Facts, AccuracyOfChain
<1>6. ASSUME NEW v \in Result, AccuracyOfAnyChain(q, v)
      PROVE  Facts(q)'
  <2>1. UNCHANGED <<selector, key, table, used, usedKey, contractAbi>> /\ NoChain \in Key
    BY <1>6 DEF AccuracyOfAnyChain, Key
  <2>2. usedKey[q] # NoAddress => Known(usedKey[q])'
    BY <2>1, UsedStaysKnown
  <2>3. usedKey[q] = NoChain => v # NoAbi
    BY <1>0, <1>6, <1>a, <2>1, KnownIsFound DEF AccuracyOfAnyChain, Facts
  <2>4. /\ rpc'[q] = "answered"
        /\ accuracy'[q] = IF v # NoAbi THEN "PARTIAL_MATCH" ELSE "ONLY_FUNCTION_MATCH"
    BY <1>0, <1>6 DEF AccuracyOfAnyChain, Report, Goto, TypeOK
  <2> QED
    BY <1>0, <1>6, <1>a, <2>1, <2>2, <2>3, <2>4 DEF Facts, AccuracyOfAnyChain
<1>7. CASE Answer(q)
  <2>1. rpc'[q] = "idle" /\ usedKey'[q] = NoAddress
    BY <1>0, <1>7 DEF Answer, Goto, TypeOK
  <2> QED
    BY <2>1 DEF Facts
<1> QED
  BY <1>1, <1>2, <1>3, <1>4, <1>5, <1>6, <1>7

(* Every step keeps the facts about every request. *)
LEMMA RequestsStep ==
    ASSUME IndInv, [Next]_vars
    PROVE  RequestInv' /\ FunctionHasSelector' /\ AccuracyNotUnderstated'
<1> USE DEF requestVars
<1>1. ASSUME NEW q \in Requests
      PROVE  Facts(q)'
  <2>0. TypeOK
    BY DEF IndInv
  <2> DEFINE Same == /\ rpc'[q] = rpc[q] /\ selector'[q] = selector[q]
                     /\ key'[q] = key[q] /\ used'[q] = used[q]
                     /\ usedKey'[q] = usedKey[q] /\ accuracy'[q] = accuracy[q]
  <2>1. ASSUME Same PROVE Facts(q)'
    BY <2>1, OthersKeepFacts
  <2> HIDE DEF Same
  <2>2. ASSUME NEW c \in Chain, NEW a \in Abi, StoreContractAbi(c, a) PROVE Same
    BY <2>2 DEF StoreContractAbi, Same
  <2>3. ASSUME NEW s \in Selector, NEW a \in Abi, LearnSelector(s, a) PROVE Same
    BY <2>3 DEF LearnSelector, Same
  <2>4. ASSUME NEW k \in Key, NEW v \in Result,
               SelectorsOfChain(k, v) \/ SelectorsOfAnyChain(k, v)
        PROVE  Same
    BY <2>4 DEF SelectorsOfChain, SelectorsOfAnyChain, Same
  <2>5. ASSUME NEW k \in Key, EvictAbi(k) \/ EvictSelectors(k) PROVE Same
    BY <2>5 DEF EvictAbi, EvictSelectors, Same
  <2>6. CASE UNCHANGED vars
    BY <2>1, <2>6 DEF vars, Same
  <2>7. ASSUME NEW r \in Requests, AskSelectorsAgain(r) PROVE Same
    BY <2>7 DEF AskSelectorsAgain, Same
  <2>8. ASSUME NEW r \in Requests, r # q, FindFunction(r) PROVE Same
    BY <2>0, <2>8 DEF FindFunction, Decoded, Goto, TypeOK, Same
  <2>9. ASSUME NEW r \in Requests, r # q, UseSelectors(r) PROVE Same
    BY <2>0, <2>9 DEF UseSelectors, Decoded, Goto, TypeOK, Same
  <2>10. ASSUME NEW r \in Requests, r # q, StartAccuracy(r) \/ Answer(r) PROVE Same
    BY <2>0, <2>10 DEF StartAccuracy, Answer, Report, Goto, TypeOK, Same
  <2>11. ASSUME NEW r \in Requests, r # q, NEW v \in Result,
                AccuracyOfChain(r, v) \/ AccuracyOfAnyChain(r, v)
         PROVE  Same
    BY <2>0, <2>11 DEF AccuracyOfChain, AccuracyOfAnyChain, Report, Goto, TypeOK, Same
  <2>12. ASSUME NEW r \in Requests, r # q, NEW s \in Selector,
                NEW k \in Key \union {NoAddress}, Arrive(r, s, k)
         PROVE  Same
    BY <2>0, <2>12 DEF Arrive, Goto, TypeOK, Same
  <2>13. CASE Next
    BY <2>1, <2>2, <2>3, <2>4, <2>5, <2>7, <2>8, <2>9, <2>10, <2>11, <2>12, <2>13,
       OwnStepsKeepFacts DEF Next, Result
  <2> QED
    BY <2>6, <2>13
<1>2. (\A q \in Requests : Facts(q))'
  BY <1>1
<1> QED
  BY <1>2, FactsAreInv, PTL

-----------------------------------------------------------------------------
(* Invariance: in every state of every behaviour IndInv holds: the ABI that *)
(* gave a request its function stays known to get_contract_abi, whatever is *)
(* evicted from the two caches and stored in the meantime.                  *)
THEOREM Invariance == Spec => []IndInv
<1>1. Init => IndInv
  <2> SUFFICES ASSUME Init
               PROVE  IndInv
    OBVIOUS
  <2>1. TypeOK
    BY DEF Init, TypeOK, Accuracy, Key
  <2>2. CacheInv /\ TableInv
    BY DEF Init, CacheInv, TableInv, Key
  <2>3. RequestInv /\ FunctionHasSelector /\ AccuracyNotUnderstated
    BY DEF Init, RequestInv, FunctionHasSelector, AccuracyNotUnderstated
  <2> QED
    BY <2>1, <2>2, <2>3 DEF IndInv
<1>2. IndInv /\ [Next]_vars => IndInv'
  <2> SUFFICES ASSUME IndInv, [Next]_vars
               PROVE  IndInv'
    OBVIOUS
  <2>1. TypeOK'
    BY TypeStep DEF IndInv
  <2>2. CacheInv'
    <3>1. TypeOK /\ RequestInv /\ CacheInv
      BY DEF IndInv
    <3> QED
      BY <3>1, CacheValues, SelectorsKnown DEF CacheInv
  <2>3. TableInv'
    BY TableStep DEF IndInv
  <2>4. RequestInv' /\ FunctionHasSelector' /\ AccuracyNotUnderstated'
    BY RequestsStep
  <2> QED
    BY <2>1, <2>2, <2>3, <2>4 DEF IndInv
<1> QED
  BY <1>1, <1>2, PTL DEF Spec

(* SelectorFound: FunctionHasSelector for any number of requests, chains    *)
(* and ABIs: no eviction or load makes get_abi_function decode with an ABI  *)
(* without the selector, or get_decoding_accuracy answer NO_MATCH after it. *)
THEOREM SelectorFound == Spec => []FunctionHasSelector
<1>1. IndInv => FunctionHasSelector
  BY DEF IndInv
<1> QED
  BY <1>1, Invariance, PTL

(* AccuracyHolds: AccuracyNotUnderstated for any number of requests, chains *)
(* and ABIs: get_decoding_accuracy, which asks the cache again, never       *)
(* reports less than the ABI the function was taken from.                   *)
THEOREM AccuracyHolds == Spec => []AccuracyNotUnderstated
<1>1. IndInv => AccuracyNotUnderstated
  BY DEF IndInv
<1> QED
  BY <1>1, Invariance, PTL
================================================================================
