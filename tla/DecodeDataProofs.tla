--------------------------- MODULE DecodeDataProofs ---------------------------
(***************************************************************************)
(* The properties of DecodeData, proved for any functions, databases,      *)
(* downloaded ABIs, trees of calls, and numbers of crashes and of changes  *)
(* of the ABIs of contracts.                                               *)
(***************************************************************************)
EXTENDS DecodeData, TLAPS

(* A call is within calls that come before it, its parent first. *)
LEMMA DataShape ==
    ASSUME NEW d \in Data, NEW c \in 1..d.size
    PROVE  /\ c \in Call
           /\ d.parent[c] \in 0..(c - 1)
           /\ d.within[c] \subseteq 1..(c - 1)
           /\ d.parent[c] = 0 => d.within[c] = {}
           /\ d.parent[c] # 0 =>
                d.within[c] = d.within[d.parent[c]] \union {d.parent[c]}
<1>1. d.size \in 1..MaxCalls
  BY DataAssumption DEF DataType, Call
<1>2. c \in Call
  BY <1>1, BoundAssumption DEF Call
<1>3. /\ d.parent[c] \in 0..(c - 1)
      /\ d.within[c] \subseteq 1..(c - 1)
      /\ d.within[c] = IF d.parent[c] = 0 THEN {}
                         ELSE d.within[d.parent[c]] \union {d.parent[c]}
  BY DataAssumption
<1> QED
  BY <1>2, <1>3

(* The parts of the data have their types. *)
LEMMA DataFields ==
    ASSUME NEW d \in Data
    PROVE  /\ d.fn \in Function
           /\ d.size \in 1..MaxCalls
           /\ d.key \in [Call -> Key \union {NoKey}]
           /\ d.params \in [Call -> BOOLEAN]
           /\ d.kind \in [Call -> Kind]
BY DataAssumption DEF DataType, Call

(* The names a call in the table may be decoded with are names. *)
LEMMA FunctionNamed ==
    ASSUME TypeOK, NEW c \in Call, InTable(c, names)
    PROVE  AbiFunctions(c, names) \subseteq Names \ {NoNames}
<1>1. data.key[c] \in Key \union {NoKey} /\ data.kind[c] \in Kind
  BY DataFields DEF TypeOK
<1>2. Visible(c) \subseteq Names \union {NoNames}
  BY <1>1, KeyAssumption DEF Visible, TypeOK
<1>3. TableNames(c, names) \in Names
  BY NamesAssumption DEF TableNames, InTable, TypeOK
<1> QED
  BY <1>2, <1>3, NamesAssumption DEF AbiFunctions

(* What the steps of a request leave alone. *)
LEMMA ReturnKeeps ==
    ASSUME NEW decoded, Return(decoded)
    PROVE  UNCHANGED <<data, stored, names, serving, own, visible, changes, found, before,
                       restarted, changed, crashes>>
BY DEF Return, historyVars, contractVars

(* The steps that move the request to its next call. *)
LEMMA ReturnSteps ==
    ASSUME TypeOK, RequestInv, Pass \/ CannotDecode \/ DecodeParameters
    PROVE  /\ at \in 1..data.size
           /\ \E decoded \in Names \union {NoNames} :
                /\ Return(decoded)
                /\ decoded # NoNames =>
                    /\ Met(at) /\ Decodable(at, names)
                    /\ decoded \in AbiFunctions(at, names)
                /\ decoded = NoNames => ~Met(at) \/ ~Decodable(at, names)
<1>1. CASE Pass \/ CannotDecode
  BY <1>1 DEF Pass, CannotDecode, Decodable
<1>2. CASE DecodeParameters
  <2>1. at \in 1..data.size /\ Met(at) /\ InTable(at, names)
    BY <1>2 DEF DecodeParameters, RequestInv
  <2>2. at \in Call
    BY <2>1, DataShape DEF TypeOK
  <2>3. AbiFunctions(at, names) \subseteq Names \ {NoNames}
    BY <2>1, <2>2, FunctionNamed
  <2>4. CASE /\ data.params[at]
             /\ \E n \in AbiFunctions(at, names) : Return(n)
    BY <2>1, <2>3, <2>4 DEF Decodable
  <2>5. CASE ~data.params[at] /\ Return(NoNames)
    BY <2>1, <2>5 DEF Decodable
  <2> QED
    BY <1>2, <2>4, <2>5 DEF DecodeParameters
<1> QED
  BY <1>1, <1>2

(* The table actions of FunctionTable, when all that is shipped is stored. *)
LEMMA TableActions ==
    /\ BuildTable =>
        /\ ~serving /\ serving' = TRUE
        /\ \/ stored = {} /\ names' = NoNames
           \/ \E v \in stored : Table!IsTop(v) /\ names' = v.names
        /\ UNCHANGED <<data, stored, own, visible, changes, at, pc, result, found, before,
                       restarted, changed, crashes>>
    /\ \A n : Download(n) =>
        /\ stored' = stored \union {[names |-> n, relevance |-> 0]}
        /\ UNCHANGED <<data, names, serving, own, visible, changes, at, pc, result, found,
                       before, restarted, changed, crashes>>
    /\ \A v : AddAbi(v) =>
        /\ serving /\ names = NoNames /\ names' = v.names
        /\ UNCHANGED <<data, stored, serving, own, visible, changes, at, pc, result, found,
                       before, restarted, changed, crashes>>
    /\ Crash =>
        /\ serving /\ serving' = FALSE /\ names' = NoNames
        /\ at' = 0 /\ pc' = "check" /\ result' = Nothing /\ found' = NoNames
        /\ restarted' = TRUE /\ visible' = [k \in Key |-> {own[k]}]
        /\ crashes < MaxCrashes /\ crashes' = crashes + 1
        /\ UNCHANGED <<data, stored, own, before, changed, changes>>
BY DEF BuildTable, Download, AddAbi, Crash, Table!Build, Table!Store, Table!Extend, Table!Stop,
   requestVars, historyVars, contractVars

(* What the change of a contract's ABI does. *)
LEMMA ContractAction ==
    ASSUME NEW c, SetContractAbi(c)
    PROVE  /\ changes < MaxChanges /\ changes' = changes + 1
           /\ data.key[c] # NoKey
           /\ \E n \in ContractNames(c) :
                /\ own' = [own EXCEPT ![data.key[c]] = n]
                /\ visible' = [visible EXCEPT ![data.key[c]] =
                                 IF serving THEN @ \union {n} ELSE {n}]
           /\ changed' = changed \union {data.key[c]}
           /\ UNCHANGED <<data, stored, names, serving, at, pc, result, found, before,
                          restarted, crashes>>
BY DEF SetContractAbi, requestVars

-----------------------------------------------------------------------------
(* Every step keeps every variable in its type. *)
LEMMA TypeStep ==
    ASSUME TypeOK, RequestInv, [Next]_vars
    PROVE  TypeOK'
<1> USE DEF TypeOK
<1>0. data.size \in Nat /\ data.size >= 1
  BY DataFields, BoundAssumption
<1>1. CASE BuildTable
  BY <1>1, TableActions DEF Variant
<1>2. ASSUME NEW n \in Downloads, Download(n)
      PROVE  TypeOK'
  BY <1>2, DownloadsAssumption, TableActions DEF Variant
<1>3. ASSUME NEW v \in stored, AddAbi(v)
      PROVE  TypeOK'
  BY <1>3, TableActions DEF Variant
<1>4. CASE Crash
  <2>1. data' = data /\ at' = 0 /\ crashes' \in 0..MaxCrashes
    BY <1>4, BoundAssumption, TableActions
  <2>2. at' \in 0..(data'.size + 1)
    BY <1>0, <2>1
  <2>3. result' \in [Call -> Names \union {NoNames}]
    BY <1>4, TableActions DEF Nothing
  <2>4. visible' \in [Key -> SUBSET (Names \union {NoNames})]
    BY <1>4, TableActions
  <2> QED
    BY <1>4, <2>1, <2>2, <2>3, <2>4, TableActions
<1>5. CASE Arrive
  BY <1>0, <1>5 DEF Arrive, historyVars, contractVars
<1>6. CASE Pass \/ CannotDecode \/ DecodeParameters
  <2>1. PICK decoded \in Names \union {NoNames} : Return(decoded)
    BY <1>6, ReturnSteps
  <2>2. at \in 1..data.size
    BY <1>6, ReturnSteps
  <2> QED
    <3>1. data' = data /\ at' = at + 1
      BY <2>1 DEF Return
    <3>2. at' \in 0..(data'.size + 1)
      BY <1>0, <2>2, <3>1
    <3>3. result' \in [Call -> Names \union {NoNames}]
      BY <2>1 DEF Return
    <3> QED
      BY <2>1, <3>1, <3>2, <3>3, ReturnKeeps DEF Return
<1>7. CASE CheckSelector
  BY <1>7 DEF CheckSelector, historyVars, contractVars
<1>8. CASE Answer
  <2>1. data' = data /\ at' = 0
    BY <1>8 DEF Answer
  <2>2. at' \in 0..(data'.size + 1)
    BY <1>0, <2>1
  <2>3. result' \in [Call -> Names \union {NoNames}]
    BY <1>8 DEF Answer, Nothing
  <2> QED
    BY <1>8, <2>1, <2>2, <2>3 DEF Answer, contractVars
<1>9. ASSUME NEW c \in 1..data.size, SetContractAbi(c)
      PROVE  TypeOK'
  <2>1. c \in Call /\ data.key[c] \in Key
    BY <1>9, ContractAction, DataShape, DataFields
  <2>2. ContractNames(c) \subseteq Names \union {NoNames}
    BY DownloadsAssumption DEF ContractNames, Variant
  <2>3. changes' \in 0..MaxChanges
    BY <1>9, BoundAssumption, ContractAction
  <2>4. PICK n \in Names \union {NoNames} :
            /\ own' = [own EXCEPT ![data.key[c]] = n]
            /\ visible' = [visible EXCEPT ![data.key[c]] =
                             IF serving THEN @ \union {n} ELSE {n}]
    BY <1>9, <2>2, ContractAction
  <2>5. /\ own' \in [Key -> Names \union {NoNames}]
        /\ visible' \in [Key -> SUBSET (Names \union {NoNames})]
    BY <2>1, <2>4
  <2> QED
    BY <1>9, <2>1, <2>3, <2>5, ContractAction
<1>10. CASE UNCHANGED vars
  BY <1>10 DEF vars, contractVars, requestVars, historyVars
<1> QED
  BY <1>1, <1>2, <1>3, <1>4, <1>5, <1>6, <1>7, <1>8, <1>9, <1>10 DEF Next

(* Only downloads add to the database, with relevance 0. *)
LEMMA StoredStep ==
    ASSUME TypeOK, [Next]_vars
    PROVE  /\ data' = data /\ stored \subseteq stored'
           /\ \A v \in stored' : v \in stored \/ v.relevance = 0
<1>1. ASSUME NEW n \in Downloads, Download(n)
      PROVE  /\ data' = data /\ stored \subseteq stored'
             /\ \A v \in stored' : v \in stored \/ v.relevance = 0
  BY <1>1, TableActions
<1>2. ASSUME NEW v \in stored, AddAbi(v)
      PROVE  data' = data /\ stored' = stored
  BY <1>2, TableActions
<1>3. CASE BuildTable \/ Crash
  BY <1>3, TableActions
<1> QED
  BY <1>1, <1>2, <1>3 DEF Next, SetContractAbi, Arrive, Pass, CannotDecode, CheckSelector,
     DecodeParameters, Return, Answer, vars

(* What is most relevant stays so: what is added is not more relevant. *)
LEMMA TopKept ==
    ASSUME TypeOK, [Next]_vars, NEW n, IsTopName(n)
    PROVE  IsTopName(n)'
<1>1. PICK v \in stored : v.names = n /\ \A other \in stored : other.relevance <= v.relevance
  BY DEF IsTopName, Table!IsTop
<1>2. v.relevance \in Nat /\ v \in stored'
  BY <1>1, StoredStep DEF TypeOK, Variant
<1>3. \A other \in stored' : other.relevance <= v.relevance
  BY <1>1, <1>2, StoredStep
<1> QED
  BY <1>1, <1>2, <1>3 DEF IsTopName, Table!IsTop

(* Who gives a top name has names. *)
LEMMA TopNamed ==
    ASSUME TypeOK, NEW n, IsTopName(n)
    PROVE  n \in Names /\ n # NoNames /\ stored # {}
BY NamesAssumption DEF IsTopName, TypeOK, Variant

(* What a step does to the table: a start builds it, add_abi fills it, a    *)
(* crash empties it.                                                        *)
LEMMA TableSteps ==
    ASSUME [Next]_vars
    PROVE  \/ BuildTable
           \/ \E v \in stored : AddAbi(v)
           \/ Crash
           \/ UNCHANGED <<names, serving>>
BY TableActions DEF Next, SetContractAbi, Arrive, Pass, CannotDecode, CheckSelector,
   DecodeParameters, Return, Answer, vars

(* The table keeps to the most relevant names: a start picks one, and what  *)
(* add_abi adds is as relevant as anything stored.                          *)
LEMMA TableStep ==
    ASSUME TypeOK, TableInv, [Next]_vars
    PROVE  TableInv'
<1>1. CASE BuildTable
  <2>1. CASE stored = {} /\ names' = NoNames
    <3>1. stored' = {}
      BY <1>1, <2>1, TableActions
    <3> QED
      BY <2>1, <3>1 DEF TableInv
  <2>2. ASSUME NEW v \in stored, Table!IsTop(v), names' = v.names
        PROVE  TableInv'
    <3>1. IsTopName(v.names) /\ v.names # NoNames
      BY <2>2, TopNamed DEF IsTopName
    <3>2. IsTopName(names)'
      BY <2>2, <3>1, TopKept
    <3> QED
      BY <2>2, <3>1, <3>2 DEF TableInv
  <2> QED
    BY <1>1, <2>1, <2>2, TableActions
<1>2. ASSUME NEW v \in stored, AddAbi(v)
      PROVE  TableInv'
  <2>1. /\ \A other \in stored : other.relevance = 0
        /\ names' = v.names
    BY <1>2, TableActions DEF TableInv
  <2>2. IsTopName(v.names) /\ v.names # NoNames
    <3>1. IsTopName(v.names)
      BY <2>1 DEF IsTopName, Table!IsTop
    <3> QED
      BY <3>1, TopNamed
  <2>3. IsTopName(names)'
    BY <2>1, <2>2, TopKept
  <2> QED
    BY <2>1, <2>2, <2>3 DEF TableInv
<1>3. CASE Crash
  BY <1>3, TableActions DEF TableInv
<1>4. CASE UNCHANGED <<names, serving>>
  <2>1. names # NoNames => IsTopName(names)'
    BY <1>4, TopKept DEF TableInv
  <2>2. serving /\ names = NoNames => \A v \in stored' : v.relevance = 0
    BY StoredStep DEF TableInv
  <2> QED
    BY <1>4, <2>1, <2>2 DEF TableInv
<1> QED
  BY <1>1, <1>2, <1>3, <1>4, TableSteps

-----------------------------------------------------------------------------
(* The table of a request only grows under it. *)
LEMMA TableGrows ==
    ASSUME RequestInv, [Next]_vars, at > 0, ~Crash
    PROVE  names # NoNames => names' = names
BY TableSteps, TableActions DEF RequestInv

(* Met and InTable of a call survive what others do meanwhile. *)
LEMMA RequestStep ==
    ASSUME TypeOK, RequestInv, [Next]_vars
    PROVE  RequestInv'
<1> USE DEF RequestInv
<1>0. at \in Int
  BY DataFields, BoundAssumption DEF TypeOK
<1>1. CASE Crash
  BY <1>1, TableActions
<1>2. CASE BuildTable
  BY <1>0, <1>2, NamesAssumption, TableActions DEF TypeOK, Met, InTable, Opens
<1>3. ASSUME NEW n \in Downloads, Download(n)
      PROVE  RequestInv'
  BY <1>3, TableActions DEF Met, InTable, Opens
<1>4. ASSUME NEW v \in stored, AddAbi(v)
      PROVE  RequestInv'
  <2>1. v.names # NoNames
    BY <1>4, NamesAssumption DEF TypeOK, Variant
  <2> QED
    BY <1>4, <2>1, TableActions DEF Met, InTable, Opens
<1>5. CASE Arrive
  BY <1>5 DEF Arrive
<1>6. CASE Pass \/ CannotDecode \/ DecodeParameters
  <2>1. PICK decoded \in Names \union {NoNames} : Return(decoded)
    BY <1>6, ReturnSteps
  <2>2. at \in 1..data.size
    BY <1>6, ReturnSteps
  <2> QED
    BY <2>1, <2>2 DEF Return
<1>7. CASE CheckSelector
  BY <1>7 DEF CheckSelector, Met, InTable, Opens
<1>8. CASE Answer
  <2>1. pc = "check"
    BY <1>8, DataFields, BoundAssumption DEF Answer, TypeOK
  <2> QED
    BY <1>8, <2>1 DEF Answer
<1>9. ASSUME NEW c \in 1..data.size, SetContractAbi(c)
      PROVE  RequestInv'
  BY <1>9, ContractAction DEF Met, InTable, Opens
<1>10. CASE UNCHANGED vars
  BY <1>10 DEF vars, requestVars, Met, InTable, Opens
<1> QED
  BY <1>1, <1>2, <1>3, <1>4, <1>5, <1>6, <1>7, <1>8, <1>9, <1>10 DEF Next

-----------------------------------------------------------------------------
(* The caches: what they may show of a contract has its stored ABI in it,   *)
(* and nothing else as long as that has not changed.                        *)
LEMMA ContractStep ==
    ASSUME TypeOK, ContractInv, [Next]_vars
    PROVE  ContractInv'
<1> USE DEF ContractInv
<1>1. CASE Crash
  <2>1. own' = own /\ visible' = [k \in Key |-> {own[k]}] /\ changed' = changed
    BY <1>1, TableActions
  <2> QED
    BY <2>1
<1>2. CASE Answer
  BY <1>2 DEF Answer, contractVars
<1>3. ASSUME NEW c \in 1..data.size, SetContractAbi(c)
      PROVE  ContractInv'
  <2>1. PICK n : /\ own' = [own EXCEPT ![data.key[c]] = n]
                 /\ visible' = [visible EXCEPT ![data.key[c]] =
                                  IF serving THEN @ \union {n} ELSE {n}]
    BY <1>3, ContractAction
  <2>2. changed' = changed \union {data.key[c]}
    BY <1>3, ContractAction
  <2> SUFFICES ASSUME NEW k \in Key
               PROVE  /\ own'[k] \in visible'[k]
                      /\ k \notin changed' => visible'[k] = {own'[k]}
    OBVIOUS
  <2>3. CASE k = data.key[c]
    BY <2>1, <2>2, <2>3 DEF TypeOK
  <2>4. CASE k # data.key[c]
    BY <2>1, <2>2, <2>4 DEF TypeOK
  <2> QED
    BY <2>3, <2>4
<1>4. CASE UNCHANGED <<own, visible, changed>>
  BY <1>4
<1>5. CASE ~Crash /\ ~Answer /\ ~(\E c \in 1..data.size : SetContractAbi(c))
  <2>1. UNCHANGED <<own, visible, changed>>
    BY <1>5, TableActions DEF Next, Arrive, Pass, CannotDecode, CheckSelector,
       DecodeParameters, Return, historyVars, contractVars, vars
  <2> QED
    BY <1>4, <2>1
<1> QED
  BY <1>1, <1>2, <1>3, <1>5

(* While the process runs, what the caches may show only grows. *)
LEMMA VisibleGrows ==
    ASSUME TypeOK, serving, [Next]_vars, ~Crash
    PROVE  \A k \in Key : visible[k] \subseteq visible'[k]
<1>1. ASSUME NEW c \in 1..data.size, SetContractAbi(c)
      PROVE  \A k \in Key : visible[k] \subseteq visible'[k]
  <2>1. PICK n : visible' = [visible EXCEPT ![data.key[c]] = @ \union {n}]
    BY <1>1, ContractAction
  <2> QED
    BY <2>1 DEF TypeOK
<1>2. CASE ~(\E c \in 1..data.size : SetContractAbi(c))
  <2>1. visible' = visible
    BY <1>2, TableActions DEF Next, Arrive, Pass, CannotDecode, CheckSelector,
       DecodeParameters, Return, Answer, contractVars, vars
  <2> QED
    BY <2>1
<1> QED
  BY <1>1, <1>2

-----------------------------------------------------------------------------
(* What a step that is not of the request's own progress does to it. *)
LEMMA OtherSteps ==
    ASSUME [Next]_vars, ~Crash, ~Arrive, ~Answer, ~Pass, ~CannotDecode, ~DecodeParameters
    PROVE  UNCHANGED <<data, at, result, found, before, restarted>>
BY TableActions, ContractAction DEF Next, CheckSelector, historyVars, requestVars, vars

(* What a decoded call may be named after is not taken away under it. *)
LEMMA SoundKept ==
    ASSUME TypeOK, NEW c \in Call, Decodable(c, names),
           data' = data, names # NoNames => names' = names,
           \A k \in Key : visible[k] \subseteq visible'[k]
    PROVE  /\ Decodable(c, names)'
           /\ AbiFunctions(c, names) \subseteq AbiFunctions(c, names)'
<1>1. Decodable(c, names)' /\ TableNames(c, names)' = TableNames(c, names)
  BY DEF Decodable, InTable, TableNames
<1>2. data.key[c] \in Key \union {NoKey}
  BY DataFields DEF TypeOK
<1>3. Visible(c) \subseteq Visible(c)'
  BY <1>2 DEF Visible
<1> QED
  BY <1>1, <1>3 DEF AbiFunctions

(* A call is decoded from the table as it is, within calls that are. *)
LEMMA SoundStep ==
    ASSUME TypeOK, RequestInv, AnswerSound, [Next]_vars
    PROVE  AnswerSound'
<1>0. data \in Data /\ at \in 0..(data.size + 1) /\ data.size \in 1..MaxCalls
  BY DataFields DEF TypeOK
<1>1. CASE Crash \/ Arrive \/ Answer
  BY <1>1, TableActions DEF Arrive, Answer, AnswerSound
<1>2. CASE Pass \/ CannotDecode \/ DecodeParameters
  <2>1. at \in 1..data.size
    BY <1>2, ReturnSteps
  <2>2. PICK decoded \in Names \union {NoNames} :
            /\ Return(decoded)
            /\ decoded # NoNames => /\ Met(at) /\ Decodable(at, names)
                                   /\ decoded \in AbiFunctions(at, names)
    BY <1>2, ReturnSteps
  <2>3. /\ UNCHANGED <<data, names, visible>> /\ at' = at + 1
        /\ result' = [result EXCEPT ![at] = decoded]
    BY <2>2 DEF Return, contractVars
  <2> SUFFICES ASSUME NEW c \in 1..at, result'[c] # NoNames
               PROVE  /\ Decodable(c, names)
                      /\ result'[c] \in AbiFunctions(c, names)
                      /\ \A d \in data.within[c] : result'[d] # NoNames /\ Opens(d)
    BY <1>0, <2>1, <2>3 DEF AnswerSound, Decodable, InTable, AbiFunctions, TableNames, Visible, Opens
  <2>4. c \in 1..data.size /\ c \in Call
    BY <1>0, <2>1, BoundAssumption DEF Call
  <2>5. data.within[c] \subseteq 1..(c - 1)
    BY <1>0, <2>4, DataShape
  <2>6. \A d \in 1..(at - 1) : result'[d] = result[d]
    BY <1>0, <2>1, <2>3
  <2>7. CASE c # at
    <3>1. c \in 1..(at - 1)
      BY <1>0, <2>7
    <3>2. result'[c] = result[c]
      BY <2>6, <3>1
    <3>3. /\ Decodable(c, names) /\ result[c] \in AbiFunctions(c, names)
          /\ \A d \in data.within[c] : result[d] # NoNames /\ Opens(d)
      BY <1>0, <3>1, <3>2 DEF AnswerSound
    <3>4. \A d \in data.within[c] : d \in 1..(at - 1)
      BY <2>5, <3>1, <1>0
    <3> QED
      BY <2>6, <3>2, <3>3, <3>4
  <2>8. CASE c = at
    <3>1. result'[at] = decoded
      BY <2>3, <2>4, <2>8 DEF TypeOK
    <3>2. Met(at) /\ Decodable(at, names) /\ decoded \in AbiFunctions(at, names)
      BY <2>2, <2>8, <3>1
    <3>3. CASE data.parent[at] = 0
      <4>1. data.within[at] = {}
        BY <1>0, <2>1, <3>3, DataShape
      <4> QED
        BY <2>8, <3>1, <3>2, <4>1
    <3>4. CASE data.parent[at] # 0
      <4> DEFINE p == data.parent[at]
      <4>1. p \in 1..(at - 1) /\ data.within[at] = data.within[p] \union {p}
        BY <1>0, <2>1, <3>4, DataShape
      <4>2. result[p] # NoNames /\ Opens(p)
        BY <3>2, <3>4 DEF Met
      <4>3. \A d \in data.within[p] : result[d] # NoNames /\ Opens(d)
        BY <2>1, <4>1, <4>2 DEF AnswerSound
      <4>4. \A d \in data.within[at] : result[d] # NoNames /\ Opens(d)
        BY <4>1, <4>2, <4>3
      <4> HIDE DEF p
      <4> QED
        BY <2>5, <2>6, <2>8, <3>1, <3>2, <4>4
    <3> QED
      BY <3>3, <3>4
  <2> QED
    BY <1>0, <2>7, <2>8
<1>3. CASE /\ ~Crash /\ ~Arrive /\ ~Answer
           /\ ~Pass /\ ~CannotDecode /\ ~DecodeParameters
  <2>1. UNCHANGED <<data, at, result>>
    BY <1>3, OtherSteps
  <2> SUFFICES ASSUME at > 0, NEW c \in 1..(at - 1), result[c] # NoNames
               PROVE  /\ Decodable(c, names)'
                      /\ result[c] \in AbiFunctions(c, names)'
                      /\ \A d \in data.within[c] : result[d] # NoNames /\ Opens(d)
    BY <2>1 DEF AnswerSound, Decodable, InTable, AbiFunctions, TableNames, Visible, Opens
  <2>2. /\ names # NoNames => names' = names
        /\ \A k \in Key : visible[k] \subseteq visible'[k]
    BY <1>3, TableGrows, VisibleGrows DEF RequestInv
  <2>3. /\ Decodable(c, names) /\ result[c] \in AbiFunctions(c, names)
        /\ \A d \in data.within[c] : result[d] # NoNames /\ Opens(d)
    BY DEF AnswerSound
  <2>4. c \in Call
    BY <1>0, BoundAssumption DEF Call
  <2> QED
    BY <2>1, <2>2, <2>3, <2>4, SoundKept
<1> QED
  BY <1>1, <1>2, <1>3

(* A call that could be decoded from the start is met and decoded: its      *)
(* parent was, and the table has not lost its function.                     *)
LEMMA CompleteStep ==
    ASSUME TypeOK, RequestInv, AnswerComplete, [Next]_vars
    PROVE  AnswerComplete'
<1>0. data \in Data /\ at \in 0..(data.size + 1) /\ data.size \in 1..MaxCalls
  BY DataFields DEF TypeOK
<1>1. CASE Crash \/ Arrive \/ Answer
  BY <1>1, TableActions DEF Arrive, Answer, AnswerComplete
<1>2. CASE Pass \/ CannotDecode \/ DecodeParameters
  <2>1. at \in 1..data.size
    BY <1>2, ReturnSteps
  <2>2. PICK decoded \in Names \union {NoNames} :
            /\ Return(decoded)
            /\ decoded = NoNames => ~Met(at) \/ ~Decodable(at, names)
    BY <1>2, ReturnSteps
  <2>3. /\ UNCHANGED <<data, found>> /\ at' = at + 1
        /\ result' = [result EXCEPT ![at] = decoded]
    BY <2>2 DEF Return
  <2> SUFFICES ASSUME NEW c \in 1..at, Decodable(c, found),
                      \A d \in data.within[c] : Decodable(d, found) /\ Opens(d)
               PROVE  result'[c] # NoNames
    BY <1>0, <2>1, <2>3 DEF AnswerComplete, Decodable, InTable, Opens
  <2>4. c \in Call
    BY <1>0, <2>1, BoundAssumption DEF Call
  <2>5. CASE c # at
    <3>1. c \in 1..(at - 1)
      BY <1>0, <2>5
    <3>2. result'[c] = result[c]
      BY <2>3, <2>5
    <3> QED
      BY <2>1, <3>1, <3>2 DEF AnswerComplete
  <2>6. CASE c = at
    <3>1. Met(at)
      <4> SUFFICES ASSUME data.parent[at] # 0
                   PROVE  result[data.parent[at]] # NoNames /\ Opens(data.parent[at])
        BY DEF Met
      <4> DEFINE p == data.parent[at]
      <4>1. p \in 1..(at - 1) /\ data.within[at] = data.within[p] \union {p}
        BY <1>0, <2>1, DataShape
      <4>2. /\ Decodable(p, found) /\ Opens(p)
            /\ \A d \in data.within[p] : Decodable(d, found) /\ Opens(d)
        BY <2>6, <4>1
      <4>3. result[p] # NoNames
        BY <2>1, <4>1, <4>2 DEF AnswerComplete
      <4> QED
        BY <4>2, <4>3
    <3>2. found # NoNames => names = found
      BY <2>1 DEF RequestInv
    <3>3. Decodable(at, names)
      BY <2>6, <3>2 DEF Decodable, InTable
    <3>4. result'[at] = decoded
      BY <2>3, <2>4, <2>6 DEF TypeOK
    <3> QED
      BY <2>2, <2>6, <3>1, <3>3, <3>4
  <2> QED
    BY <2>5, <2>6
<1>3. CASE /\ ~Crash /\ ~Arrive /\ ~Answer
           /\ ~Pass /\ ~CannotDecode /\ ~DecodeParameters
  <2>1. UNCHANGED <<data, at, result, found>>
    BY <1>3, OtherSteps
  <2> QED
    BY <2>1 DEF AnswerComplete, Decodable, InTable, Opens
<1> QED
  BY <1>1, <1>2, <1>3

-----------------------------------------------------------------------------
(* BeforeInv of one call. *)
Kept(c) ==
    /\ data.params[c]
    /\ data.kind[c] \in {"function", "multiSend", "execTransaction"}
    /\ \A d \in data.within[c] : before[d] # NoNames /\ Opens(d)
    /\ data.kind[c] = "function" =>
        /\ stored # {}
        /\ serving => names # NoNames
        /\ at > 0 => found # NoNames
    /\ \/ data.key[c] \in changed
       \/ before[c] = Own(c)
       \/ /\ Own(c) = NoNames
          /\ data.kind[c] # "function" /\ before[c] = SafeNames
       \/ /\ Own(c) = NoNames
          /\ data.kind[c] = "function"
          /\ IsTopName(before[c])
          /\ ~restarted => serving /\ names = before[c]

(* As long as the caches show what is stored, one ABI names a call. *)
LEMMA OneFunction ==
    ASSUME TypeOK, NEW c \in Call, NEW n \in AbiFunctions(c, names),
           data.key[c] # NoKey => visible[data.key[c]] = {own[data.key[c]]}
    PROVE  n = IF Own(c) = NoNames THEN TableNames(c, names) ELSE Own(c)
BY DEF AbiFunctions, Visible, Own

(* Where the names of a new answer come from. *)
LEMMA AnswerNames ==
    ASSUME TypeOK, TableInv, Answer, NEW c \in 1..data.size, result[c] # NoNames,
           Decodable(c, names), result[c] \in AbiFunctions(c, names)
    PROVE  \/ data.key[c] \in changed'
           \/ result[c] = Own(c)
           \/ /\ Own(c) = NoNames
              /\ data.kind[c] # "function" /\ result[c] = SafeNames
           \/ /\ Own(c) = NoNames
              /\ data.kind[c] = "function" /\ result[c] = names
<1>1. c \in Call /\ data.key[c] \in Key \union {NoKey}
  BY DataShape, DataFields DEF TypeOK
<1>2. CASE data.key[c] # NoKey /\ visible[data.key[c]] # {own[data.key[c]]}
  BY <1>1, <1>2 DEF Answer
<1>3. CASE data.key[c] # NoKey => visible[data.key[c]] = {own[data.key[c]]}
  BY <1>1, <1>3, OneFunction DEF TableNames
<1> QED
  BY <1>2, <1>3

(* What was decoded stays decodable: a new answer comes from the table, a   *)
(* restart finds the function stored.                                       *)
LEMMA BeforeStep ==
    ASSUME TypeOK, TableInv, RequestInv, BeforeInv, AnswerSound, [Next]_vars
    PROVE  BeforeInv'
<1>0. data \in Data /\ at \in 0..(data.size + 1) /\ data.size \in 1..MaxCalls
  BY DataFields DEF TypeOK
<1>1. data' = data /\ stored \subseteq stored'
  BY StoredStep
<1>2. \A n : IsTopName(n) => \E v \in stored' : Table!IsTop(v)' /\ v.names = n
  BY TopKept DEF IsTopName
<1>3. \A c \in 1..data.size : before[c] # NoNames => Kept(c)
  BY DEF BeforeInv, Kept
<1> SUFFICES ASSUME NEW c \in 1..data.size, before'[c] # NoNames
             PROVE  Kept(c)'
  BY <1>1 DEF BeforeInv, Kept
<1>c. c \in Call
  BY <1>0, DataShape
<1>4. Opens(c)' = Opens(c) /\ \A d \in data.within[c] : Opens(d)' = Opens(d)
  BY <1>1 DEF Opens
<1>5. CASE Answer
  <2>1. before'[c] = result[c] /\ at = data.size + 1 /\ before' = result
    BY <1>5 DEF Answer
  <2>2. /\ at > 0 /\ c \in 1..(at - 1) /\ serving
    BY <1>0, <2>1 DEF RequestInv
  <2>3. /\ Decodable(c, names) /\ result[c] \in AbiFunctions(c, names)
        /\ \A d \in data.within[c] : result[d] # NoNames /\ Opens(d)
    BY <2>1, <2>2 DEF AnswerSound
  <2>4. /\ ~restarted' /\ at' = 0
        /\ UNCHANGED <<stored, names, serving>>
        /\ Own(c)' = Own(c)
    BY <1>5 DEF Answer, Own, contractVars
  <2>5. /\ data.params[c] /\ data.kind[c] \in {"function", "multiSend", "execTransaction"}
        /\ data.kind[c] = "function" => names # NoNames
    BY <2>3 DEF Decodable, InTable
  <2>6. data.kind[c] = "function" => stored # {} /\ IsTopName(names)
    BY <2>5, TopNamed DEF TableInv
  <2>7. \/ data.key[c] \in changed'
        \/ before'[c] = Own(c)
        \/ /\ Own(c) = NoNames
           /\ data.kind[c] # "function" /\ before'[c] = SafeNames
        \/ /\ Own(c) = NoNames
           /\ data.kind[c] = "function" /\ before'[c] = names
    BY <1>5, <2>1, <2>3, AnswerNames
  <2>8. data.kind[c] = "function" /\ before'[c] = names => IsTopName(before[c])'
    BY <1>2, <2>1, <2>6 DEF IsTopName
  <2> QED
    BY <1>1, <1>2, <1>4, <2>1, <2>2, <2>3, <2>4, <2>5, <2>6, <2>7, <2>8 DEF Kept
<1>6. CASE ~Answer
  <2>1. before' = before
    BY <1>6, TableActions, ContractAction DEF Next, Arrive, Pass, CannotDecode, CheckSelector,
       DecodeParameters, Return, historyVars, vars
  <2>2. Kept(c)
    BY <1>3, <2>1
  <2>3. /\ data.kind[c] = "function" => stored' # {}
        /\ IsTopName(before[c]) => IsTopName(before[c])'
    BY <1>1, <1>2, <2>1, <2>2 DEF Kept, IsTopName
  <2>o. UNCHANGED <<own, changed>> => Own(c)' = Own(c) /\ changed' = changed
    BY <1>1 DEF Own
  <2>4. CASE Crash
    BY <1>1, <1>4, <2>1, <2>2, <2>3, <2>4, <2>o, TableActions DEF Kept
  <2>5. CASE BuildTable
    <3>1. data.kind[c] = "function" => names' # NoNames
      BY <2>2, <2>5, NamesAssumption, TableActions DEF Kept, TypeOK, Variant
    <3>2. UNCHANGED <<at, found, restarted, own, changed>> /\ ~serving
      BY <2>5, TableActions
    <3> QED
      BY <1>1, <1>4, <2>1, <2>2, <2>3, <2>o, <3>1, <3>2 DEF Kept
  <2>6. ASSUME NEW v \in stored, AddAbi(v)
        PROVE  Kept(c)'
    <3>1. data.kind[c] # "function"
      BY <2>2, <2>6, TableActions DEF Kept
    <3>2. UNCHANGED <<at, found, restarted, own, changed>>
      BY <2>6, TableActions
    <3> QED
      BY <1>1, <1>4, <2>1, <2>2, <2>o, <3>1, <3>2 DEF Kept
  <2>7. CASE Arrive
    <3>1. /\ serving /\ found' = names
          /\ UNCHANGED <<names, serving, restarted, own, changed>>
      BY <2>7 DEF Arrive, historyVars, contractVars
    <3> QED
      BY <1>1, <1>4, <2>1, <2>2, <2>3, <2>o, <3>1 DEF Kept
  <2>8. CASE /\ UNCHANGED <<names, serving, restarted, found>>
             /\ Own(c)' = Own(c) /\ changed \subseteq changed'
             /\ at' > 0 => at > 0
    BY <1>1, <1>4, <2>1, <2>2, <2>3, <2>8 DEF Kept
  <2>9. CASE Pass \/ CannotDecode \/ DecodeParameters
    <3>1. UNCHANGED <<names, serving, restarted, found, own, changed>>
      BY <2>9, ReturnSteps, ReturnKeeps
    <3>2. at > 0
      BY <1>0, <2>9, ReturnSteps
    <3> QED
      BY <2>8, <2>o, <3>1, <3>2
  <2>10. CASE (\E n \in Downloads : Download(n)) \/ CheckSelector \/ UNCHANGED vars
    <3>1. UNCHANGED <<names, serving, restarted, found, at, own, changed>>
      BY <2>10, TableActions DEF CheckSelector, requestVars, historyVars, contractVars, vars
    <3> QED
      BY <2>8, <2>o, <3>1
  <2>11. ASSUME NEW b \in 1..data.size, SetContractAbi(b)
         PROVE  Kept(c)'
    <3>1. /\ UNCHANGED <<names, serving, restarted, found, at>>
          /\ changed' = changed \union {data.key[b]}
      BY <2>11, ContractAction
    <3>2. CASE data.key[c] = data.key[b]
      BY <1>1, <1>4, <2>1, <2>2, <2>3, <3>1, <3>2 DEF Kept
    <3>3. CASE data.key[c] # data.key[b]
      <4>1. data.key[c] # NoKey => own'[data.key[c]] = own[data.key[c]]
        <5>1. PICK n : own' = [own EXCEPT ![data.key[b]] = n]
          BY <2>11, ContractAction
        <5>2. data.key[c] \in Key \union {NoKey}
          BY <1>0, <1>c, DataFields
        <5> QED
          BY <3>3, <5>1, <5>2 DEF TypeOK
      <4>2. Own(c)' = Own(c)
        BY <1>1, <4>1 DEF Own
      <4> QED
        BY <2>8, <3>1, <4>2
    <3> QED
      BY <3>2, <3>3
  <2> QED
    BY <1>6, <2>4, <2>5, <2>6, <2>7, <2>9, <2>10, <2>11 DEF Next
<1> QED
  BY <1>5, <1>6

(* The next answer shows all that the previous one did, under the same      *)
(* names or under those of an equally relevant ABI.                         *)
LEMMA Repeats ==
    ASSUME IndInv
    PROVE  AnswersRepeat
<1> USE DEF IndInv
<1>0. data \in Data /\ data.size \in 1..MaxCalls /\ data.fn \in Function
  BY DataFields DEF TypeOK
<1> SUFFICES ASSUME at = data.size + 1, NEW c \in 1..data.size, before[c] # NoNames
             PROVE  /\ result[c] # NoNames
                    /\ \/ result[c] = before[c]
                       \/ data.key[c] \in changed
                       \/ /\ restarted
                          /\ data.kind[c] = "function" /\ Own(c) = NoNames
                          /\ IsTopName(before[c]) /\ IsTopName(result[c])
  BY DEF AnswersRepeat
<1>1. at > 0 /\ at - 1 = data.size /\ serving
  BY <1>0 DEF RequestInv
<1>2. \A d \in 1..data.size : before[d] # NoNames => Kept(d)
  BY DEF BeforeInv, Kept
<1>3. \A d \in 1..data.size : before[d] # NoNames => Decodable(d, found)
  BY <1>1, <1>2 DEF Kept, Decodable, InTable
<1>4. \A d \in data.within[c] : d \in 1..data.size /\ before[d] # NoNames /\ Opens(d)
  <2>1. data.within[c] \subseteq 1..(c - 1)
    BY <1>0, DataShape
  <2> QED
    BY <1>0, <1>2, <2>1 DEF Kept
<1>5. result[c] # NoNames
  BY <1>1, <1>3, <1>4 DEF AnswerComplete
<1>6. result[c] \in AbiFunctions(c, names)
  BY <1>1, <1>5 DEF AnswerSound
<1> SUFFICES ASSUME data.key[c] \notin changed
             PROVE  \/ result[c] = before[c]
                    \/ /\ restarted
                       /\ data.kind[c] = "function" /\ Own(c) = NoNames
                       /\ IsTopName(before[c]) /\ IsTopName(result[c])
  BY <1>5
<1>7. result[c] = IF Own(c) = NoNames THEN TableNames(c, names) ELSE Own(c)
  <2>1. c \in Call /\ data.key[c] \in Key \union {NoKey}
    BY <1>0, DataShape, DataFields
  <2> QED
    BY <1>6, <2>1, OneFunction DEF ContractInv
<1>8. CASE before[c] = Own(c)
  BY <1>7, <1>8
<1>9. CASE /\ Own(c) = NoNames
           /\ data.kind[c] # "function" /\ before[c] = SafeNames
  BY <1>7, <1>9 DEF TableNames
<1>10. CASE /\ Own(c) = NoNames
            /\ data.kind[c] = "function"
            /\ IsTopName(before[c])
            /\ ~restarted => names = before[c]
  <2>1. result[c] = names
    BY <1>7, <1>10 DEF TableNames
  <2>2. IsTopName(names)
    BY <1>5, <2>1 DEF TableInv
  <2> QED
    BY <1>10, <2>1, <2>2
<1> QED
  BY <1>2, <1>8, <1>9, <1>10 DEF Kept

-----------------------------------------------------------------------------
(* The invariant holds initially. *)
LEMMA InitInv ==
    ASSUME Init
    PROVE  IndInv
<1> USE DEF Init
<1>0. data \in Data /\ data.size \in 1..MaxCalls
  BY DataFields
<1>2. TypeOK
  <2>1. stored \subseteq Variant
    BY <1>0, DatabasesAssumption, DataFields
  <2>2. /\ at \in 0..(data.size + 1)
        /\ crashes \in 0..MaxCrashes /\ changes \in 0..MaxChanges
    BY <1>0, BoundAssumption
  <2> QED
    BY <2>1, <2>2 DEF TypeOK, Nothing
<1>3. TableInv /\ RequestInv /\ ContractInv /\ AnswerSound /\ AnswerComplete
  BY DEF TableInv, RequestInv, ContractInv, AnswerSound, AnswerComplete
<1>4. BeforeInv
  BY <1>0, DataShape DEF BeforeInv, Nothing
<1> QED
  BY <1>2, <1>3, <1>4 DEF IndInv

(* What is stored, what is in the table and the caches, where a request is  *)
(* and what its answer and the previous one show is invariant.              *)
THEOREM Invariance == Spec => []IndInv
<1>1. IndInv /\ [Next]_vars => IndInv'
  BY TypeStep, TableStep, RequestStep, ContractStep, SoundStep, CompleteStep, BeforeStep
     DEF IndInv
<1> QED
  BY <1>1, InitInv, PTL DEF Spec

(* Every variable keeps its type. *)
THEOREM TypeCorrect == Spec => []TypeOK
BY Invariance, PTL DEF IndInv

(* get_data_decoded: a failure in one call costs no other its decoding. *)
THEOREM Completeness == Spec => []AnswerComplete
BY Invariance, PTL DEF IndInv

(* get_abi_function: an answer names the calls of contracts without an ABI  *)
(* after the ABI that the table has for the function while the answer is    *)
(* made, and the others only after an ABI that their contract had since the *)
(* start of the process.                                                    *)
THEOREM Soundness == Spec => []AnswerSound
BY Invariance, PTL DEF IndInv

(* init, get_abis_sorted_by_relevance and the caches: the same data is      *)
(* decoded the same way, but for ties of relevance after a restart, and for *)
(* contracts whose ABI changed since the start of the process that gave the *)
(* last answer.                                                             *)
THEOREM Repeatability == Spec => []AnswersRepeat
BY Invariance, Repeats, PTL
==============================================================================
