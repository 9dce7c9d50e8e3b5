---------------------------- MODULE PaginationProofs ---------------------------
(***************************************************************************)
(* What a walk through the pages can miss and repeat, proved for every     *)
(* number of rows and every page size.                                     *)
(***************************************************************************)
EXTENDS Pagination, FiniteSetTheorems, TLAPS

(* A part of the rows is finite and not larger than the rows. *)
LEMMA SubsetCardinality ==
    ASSUME NEW T, IsFiniteSet(T), NEW S, S \subseteq T
    PROVE  /\ IsFiniteSet(S)
           /\ Cardinality(S) \in Nat
           /\ Cardinality(T) \in Nat
           /\ Cardinality(S) <= Cardinality(T)
           /\ S # T => Cardinality(S) < Cardinality(T)
BY FS_Subset, FS_CardinalityType

(* The rank of a row in any set of rows is a natural number, and below     *)
(* their number if the row is one of them.                                 *)
LEMMA RankBounds ==
    ASSUME NEW S \in SUBSET Row, NEW q \in Row
    PROVE  /\ Cardinality({x \in S : x < q}) \in Nat
           /\ Cardinality(S) \in Nat
           /\ q \in S => Cardinality({x \in S : x < q}) < Cardinality(S)
<1>1. IsFiniteSet(S)
  BY FS_Subset, RowAssumption
<1>2. q \in S => {x \in S : x < q} # S
  BY RowAssumption
<1> QED
  BY <1>1, <1>2, SubsetCardinality

(* An insertion moves up the rows after it and no other. *)
LEMMA RankInsert ==
    ASSUME NEW r \in Row, rows \subseteq Row, rows' = rows \union {r}
    PROVE  \A q \in Row : Rank(q)' >= Rank(q) /\ (~(r < q) => Rank(q)' = Rank(q))
<1> TAKE q \in Row
<1> DEFINE S == {x \in rows : x < q}
           T == {x \in rows \union {r} : x < q}
<1>1. Rank(q) = Cardinality(S) /\ Rank(q)' = Cardinality(T)
  BY DEF Rank
<1>2. IsFiniteSet(rows \union {r}) /\ T \subseteq rows \union {r} /\ S \subseteq T
  BY FS_Subset, RowAssumption
<1>3. IsFiniteSet(T)
  BY <1>2, FS_Subset
<1>4. ~(r < q) => S = T
  OBVIOUS
<1> HIDE DEF S, T
<1> QED
  BY <1>1, <1>2, <1>3, <1>4, SubsetCardinality

(* A row that leaves moves down the rows after it and no other. *)
LEMMA RankRemove ==
    ASSUME NEW r \in Row, rows \subseteq Row, rows' = rows \ {r}
    PROVE  \A q \in Row : Rank(q)' <= Rank(q) /\ (~(r < q) => Rank(q)' = Rank(q))
<1> TAKE q \in Row
<1> DEFINE S == {x \in rows \ {r} : x < q}
           T == {x \in rows : x < q}
<1>1. Rank(q) = Cardinality(T) /\ Rank(q)' = Cardinality(S)
  BY DEF Rank
<1>2. IsFiniteSet(rows) /\ T \subseteq rows /\ S \subseteq T
  BY FS_Subset, RowAssumption
<1>3. IsFiniteSet(T)
  BY <1>2, FS_Subset
<1>4. ~(r < q) => S = T
  OBVIOUS
<1> HIDE DEF S, T
<1> QED
  BY <1>1, <1>2, <1>3, <1>4, SubsetCardinality

(* The effective page size is positive and stays when a link carries it. *)
LEMMA PageSizeType ==
    /\ \A asked \in Nat : PageSize(asked) \in 1..max_page_size
    /\ \A size \in 1..max_page_size : PageSize(size) = size
BY PageSizeAssumption DEF PageSize, NoLimit

LEMMA InitInv == Init => IndInv
<1> SUFFICES ASSUME Init PROVE IndInv
  OBVIOUS
<1>1. TypeOK
  BY PageSizeType, PageSizeAssumption DEF Init, TypeOK, NoLink, NoLimit
<1> QED
  BY <1>1 DEF Init, IndInv, PastInv, LinksInv, ForwardWalkRepeats, LinksValid, Walking

LEMMA StartInv ==
    ASSUME IndInv, NEW asked \in Limits, NEW o \in Nat, NEW w \in {"next", "previous"},
           Start(asked, o, w)
    PROVE  IndInv'
<1>1. PageSize(asked) \in 1..max_page_size
  BY PageSizeType, LimitsAssumption
<1>2. TypeOK'
  BY <1>1 DEF IndInv, TypeOK, Start, NoLink
<1> QED
  BY <1>2 DEF Start, IndInv, PastInv, LinksInv, ForwardWalkRepeats, LinksValid, Walking

LEMMA FailInv ==
    ASSUME IndInv, FailRequest
    PROVE  IndInv'
BY DEF FailRequest, IndInv, TypeOK, PastInv, LinksInv, ForwardWalkRepeats, LinksValid,
       Walking, historyVars

LEMMA CountInv ==
    ASSUME IndInv, GetCount
    PROVE  IndInv'
<1> USE DEF IndInv, historyVars
<1>1. Cardinality(rows) \in Nat
  BY FS_Subset, FS_CardinalityType, RowAssumption DEF TypeOK
<1>2. limit \in Nat \ {0} /\ offset \in Nat
  BY PageSizeAssumption DEF TypeOK
<1>3. TypeOK'
  BY <1>1, <1>2 DEF GetCount, TypeOK, NextPage, PreviousPage, NoLink
<1>4. Reached' = Reached /\ \A r : Rank(r)' = Rank(r)
  BY DEF GetCount, Reached, Rank
<1>5. PastInv'
  BY <1>4 DEF GetCount, PastInv, Walking
<1>6. next' = NoLink /\ walk = "next" => \A r \in due \ served : \E x \in gone : x < r
  <2> SUFFICES ASSUME next' = NoLink, walk = "next", NEW r \in due \ served,
                      Rank(r) >= offset + limit
               PROVE  FALSE
    BY DEF GetCount, PastInv, Walking, Reached
  <2>1. r \in rows /\ r \in Row
    BY DEF GetCount, LinksInv, Walking, TypeOK
  <2>2. Rank(r) \in Nat /\ Rank(r) < Cardinality(rows)
    BY <2>1, RankBounds DEF Rank, TypeOK
  <2>3. ~(offset + limit < Cardinality(rows))
    BY <1>2 DEF GetCount, NextPage, NoLink
  <2> QED
    BY <1>1, <1>2, <2>2, <2>3
<1>7. LinksInv'
  BY <1>1, <1>2, <1>6 DEF GetCount, LinksInv, NextPage, NoLink, PreviousPage, Walking
<1> QED
  BY <1>3, <1>5, <1>7 DEF GetCount, ForwardWalkRepeats, LinksValid

LEMMA FollowInv ==
    ASSUME IndInv, Follow
    PROVE  IndInv'
<1> USE DEF IndInv, historyVars
<1>1. limit \in Nat \ {0} /\ offset \in Nat
  BY PageSizeAssumption DEF TypeOK
<1>2. Link \in Nat
  BY DEF Follow, Link, TypeOK
<1>3. TypeOK'
  BY <1>1, <1>2, PageSizeType DEF Follow, TypeOK
<1>4. \A r : Rank(r)' = Rank(r)
  BY DEF Follow, Rank
<1>5. limit' = limit
  BY PageSizeType DEF Follow, TypeOK
<1>6. CASE walk = "next"
  <2>1. offset' = offset + limit
    BY <1>6 DEF Follow, Link, LinksInv
  <2>2. Reached' = Reached
    BY <1>6, <2>1 DEF Follow, Reached
  <2>3. PastInv'
    BY <1>4, <1>6, <2>2 DEF Follow, PastInv, Walking
  <2>4. LinksValid'
    BY <1>3, <1>6 DEF Follow, LinksValid, Link, LinksInv, TypeOK
  <2> QED
    BY <1>3, <2>3, <2>4 DEF Follow, LinksInv, Walking, ForwardWalkRepeats
<1>7. CASE walk = "previous"
  <2>1. previous = PreviousPage /\ offset' = previous
    BY <1>7 DEF Follow, Link, LinksInv
  <2>2. Reached = offset /\ Reached' = offset' + limit /\ offset <= offset' + limit
    BY <1>1, <1>2, <1>7, <1>5, <2>1 DEF Follow, Link, Reached, PreviousPage, NoLink
  <2>3. \A r \in due : Rank(r) \in Nat
    BY RankBounds DEF Rank, TypeOK
  <2>4. PastInv'
    BY <1>1, <1>2, <1>4, <1>7, <2>1, <2>2, <2>3 DEF Follow, PastInv, Walking
  <2> QED
    BY <1>3, <1>7, <2>4 DEF Follow, LinksInv, Walking, ForwardWalkRepeats, LinksValid, TypeOK
<1> QED
  BY <1>6, <1>7 DEF TypeOK

LEMMA PageInv ==
    ASSUME IndInv, GetPage
    PROVE  IndInv'
<1> USE DEF IndInv
<1>1. limit \in Nat \ {0} /\ offset \in Nat
  BY PageSizeAssumption DEF TypeOK
<1>2. PageRows \subseteq rows /\ Ahead \subseteq rows
  BY DEF PageRows, Ahead
<1>3. TypeOK'
  BY <1>2 DEF GetPage, TypeOK
<1>4. \A r : Rank(r)' = Rank(r)
  BY DEF GetPage, Rank
<1>5. \A r \in Row : Rank(r) \in Nat
  BY RankBounds DEF Rank, TypeOK
<1>6. /\ walk = "next" => Reached' = offset + limit
      /\ walk = "previous" => Reached' = offset
      /\ walk' = walk /\ phase' = "count" /\ rows' = rows
  BY DEF GetPage, Reached
<1>7. due' \subseteq rows
  BY <1>2 DEF GetPage, LinksInv, Walking
<1>8. CASE phase = "first"
  <2>1. /\ due' = Ahead /\ served' = PageRows /\ repeated' = {} /\ came' = {} /\ gone' = {}
    BY <1>8 DEF GetPage, LinksInv
  <2>2. PastInv'
    <3>1. \A r \in Ahead \ PageRows :
            /\ walk = "next" => Rank(r) >= offset + limit
            /\ walk = "previous" => Rank(r) < offset
      BY <1>1, <1>2, <1>5 DEF Ahead, PageRows, TypeOK
    <3>2. \A r \in PageRows : Rank(r) < offset + limit
      BY DEF PageRows
    <3> QED
      BY <1>4, <1>6, <2>1, <3>1, <3>2 DEF PastInv
  <2> QED
    BY <1>3, <1>6, <1>7, <2>1, <2>2 DEF LinksInv, ForwardWalkRepeats, LinksValid
<1>9. CASE phase = "page"
  <2>1. /\ due' = due /\ served' = served \union PageRows /\ came' = came /\ gone' = gone
        /\ repeated' = repeated \union (PageRows \intersect served)
    BY <1>9 DEF GetPage
  <2>2. PastInv'
    <3>1. CASE walk = "next"
      <4>1. ASSUME NEW r \in due' \ served', ~ \E x \in gone' : x < r
            PROVE  Rank(r)' >= Reached'
        <5>1. r \in due \ served /\ r \notin PageRows /\ r \in rows /\ r \in Row
          BY <4>1, <1>9, <2>1 DEF LinksInv, Walking, TypeOK
        <5>2. Rank(r) >= offset
          BY <5>1, <4>1, <2>1, <1>9, <3>1 DEF PastInv, Walking, Reached
        <5> QED
          BY <1>1, <1>4, <1>5, <1>6, <3>1, <5>1, <5>2 DEF PageRows
      <4>2. ASSUME NEW r \in served', ~ \E x \in came' : x < r
            PROVE  Rank(r)' < Reached'
        <5>1. r \in Row
          BY <4>2, <1>3 DEF TypeOK
        <5>2. r \in PageRows \/ Rank(r) < offset
          BY <4>2, <2>1, <1>9, <3>1 DEF PastInv, Walking, Reached
        <5> QED
          BY <1>1, <1>4, <1>5, <1>6, <3>1, <5>1, <5>2 DEF PageRows
      <4> QED
        BY <3>1, <4>1, <4>2, <1>6 DEF PastInv
    <3>2. CASE walk = "previous"
      <4>1. ASSUME NEW r \in due' \ served', ~ \E x \in came' : x < r
            PROVE  Rank(r)' < Reached'
        <5>1. r \in due \ served /\ r \notin PageRows /\ r \in rows /\ r \in Row
          BY <4>1, <1>9, <2>1 DEF LinksInv, Walking, TypeOK
        <5>2. Rank(r) < offset + limit
          BY <5>1, <4>1, <2>1, <1>9, <3>2 DEF PastInv, Walking, Reached
        <5> QED
          BY <1>1, <1>4, <1>5, <1>6, <3>2, <5>1, <5>2 DEF PageRows
      <4> QED
        BY <3>2, <4>1, <1>6 DEF PastInv
    <3> QED
      BY <3>1, <3>2 DEF TypeOK
  <2>3. ForwardWalkRepeats'
    <3>1. ASSUME walk = "next", NEW r \in PageRows \intersect served
          PROVE  \E x \in came : x < r
      <4>1. r \in Row /\ ~(Rank(r) < offset)
        BY <1>1, <1>5, <3>1 DEF TypeOK, PageRows
      <4> QED
        BY <4>1, <1>9, <3>1 DEF PastInv, Walking, Reached
    <3> QED
      BY <1>6, <2>1, <3>1 DEF ForwardWalkRepeats
  <2> QED
    BY <1>3, <1>6, <1>7, <2>2, <2>3 DEF LinksInv, LinksValid
<1> QED
  BY <1>8, <1>9 DEF GetPage

LEMMA ComeInv ==
    ASSUME IndInv, NEW r \in Row, Come(r)
    PROVE  IndInv'
<1> USE DEF IndInv, requestVars
<1>1. TypeOK'
  BY DEF Come, TypeOK
<1>2. limit \in Nat \ {0} /\ offset \in Nat /\ Reached \in Nat /\ Reached' = Reached
  BY PageSizeAssumption DEF TypeOK, Come, Reached
<1>3. \A q \in Row : Rank(q) \in Nat /\ Rank(q)' \in Nat
  BY <1>1, RankBounds DEF Rank, TypeOK
<1>4. \A q \in Row : Rank(q)' >= Rank(q) /\ (~(r < q) => Rank(q)' = Rank(q))
  <2>1. rows \subseteq Row /\ rows' = rows \union {r}
    BY DEF Come, TypeOK
  <2> QED
    BY <2>1, RankInsert
<1>5. \A q \in Row : Rank(q) < Reached => Rank(q)' < Reached' \/ \E x \in came' : x < q
  BY <1>2, <1>3, <1>4 DEF Come
<1>6. \A q \in Row : Rank(q) >= Reached => Rank(q)' >= Reached'
  BY <1>2, <1>3, <1>4
<1>7. PastInv'
  BY <1>5, <1>6 DEF Come, PastInv, Walking, TypeOK
<1>8. Cardinality(rows) \in Nat /\ Cardinality(rows') \in Nat
      /\ Cardinality(rows) <= Cardinality(rows')
  BY <1>1, SubsetCardinality, FS_Subset, RowAssumption DEF Come, TypeOK
<1>9. /\ \A n \in Nat : n < Cardinality(rows) => n < Cardinality(rows')
      /\ next \in Nat \union {NoLink}
  BY <1>8 DEF TypeOK
<1>10. LinksInv'
  BY <1>9 DEF Come, LinksInv, Walking, PreviousPage
<1> QED
  BY <1>1, <1>2, <1>7, <1>9, <1>10 DEF Come, ForwardWalkRepeats, LinksValid

LEMMA LeaveInv ==
    ASSUME IndInv, NEW r \in Row, Leave(r)
    PROVE  IndInv'
<1> USE DEF IndInv, requestVars
<1>1. TypeOK'
  BY DEF Leave, TypeOK
<1>2. limit \in Nat \ {0} /\ offset \in Nat /\ Reached \in Nat /\ Reached' = Reached
  BY PageSizeAssumption DEF TypeOK, Leave, Reached
<1>3. \A q \in Row : Rank(q) \in Nat /\ Rank(q)' \in Nat
  BY <1>1, RankBounds DEF Rank, TypeOK
<1>4. \A q \in Row : Rank(q)' <= Rank(q) /\ (~(r < q) => Rank(q)' = Rank(q))
  <2>1. rows \subseteq Row /\ rows' = rows \ {r}
    BY DEF Leave, TypeOK
  <2> QED
    BY <2>1, RankRemove
<1>5. \A q \in Row : Rank(q) < Reached => Rank(q)' < Reached'
  BY <1>2, <1>3, <1>4
<1>6. \A q \in Row : Rank(q) >= Reached => Rank(q)' >= Reached' \/ \E x \in gone' : x < q
  BY <1>2, <1>3, <1>4 DEF Leave
<1>7. PastInv'
  BY <1>5, <1>6 DEF Leave, PastInv, Walking, TypeOK
<1>8. gone' # {}
  BY DEF Leave
<1>9. LinksInv'
  BY <1>8 DEF Leave, LinksInv, Walking, PreviousPage
<1> QED
  BY <1>1, <1>7, <1>8, <1>9 DEF Leave, ForwardWalkRepeats, LinksValid

LEMMA StutterInv ==
    ASSUME IndInv, UNCHANGED vars
    PROVE  IndInv'
<1>1. Reached' = Reached /\ PreviousPage' = PreviousPage /\ \A r : Rank(r)' = Rank(r)
  BY DEF vars, requestVars, Reached, PreviousPage, Rank
<1> QED
  BY <1>1 DEF vars, requestVars, historyVars, IndInv, TypeOK, PastInv, LinksInv,
              ForwardWalkRepeats, LinksValid, Walking

(* The invariant of a walk: what lies on the walked side was shown, unless *)
(* a row that came or left moved it there.                                 *)
THEOREM Invariance == Spec => []IndInv
<1>1. ASSUME IndInv, [Next]_vars PROVE IndInv'
  <2>1. Cardinality(Row) \in Nat
    BY FS_CardinalityType, RowAssumption
  <2> QED
    BY <1>1, <2>1, StartInv, FollowInv, PageInv, CountInv, FailInv, ComeInv, LeaveInv, StutterInv
       DEF Next
<1> QED
  BY <1>1, InitInv, PTL DEF Spec

(* Behind the first page. *)
LEMMA ShownStep ==
    ASSUME IndInv, ShownInv, [Next]_vars
    PROVE  ShownInv'
<1> USE DEF ShownInv
<1>0. Cardinality(Row) \in Nat
  BY FS_CardinalityType, RowAssumption
<1>1. limit \in Nat \ {0} /\ offset \in Nat /\ walk \in {"next", "previous"} /\ rows \subseteq Row
  BY PageSizeAssumption DEF IndInv, TypeOK
<1>2. \A q \in Row : Rank(q) \in Nat
  BY <1>1, RankBounds DEF Rank
<1> DEFINE Known == due \union came \union gone
<1>3. ASSUME NEW asked \in Limits, NEW o \in Nat, NEW w \in {"next", "previous"}, Start(asked, o, w)
      PROVE  ShownInv'
  BY <1>3 DEF Start, BehindInv, NothingElseShown, Walking
<1>4. CASE Follow
  <2>1. /\ phase = "answered" /\ limit' = limit /\ rows' = rows /\ walk' = walk
        /\ UNCHANGED historyVars
    BY <1>4, PageSizeType DEF Follow, IndInv, TypeOK
  <2>2. \A r : Rank(r)' = Rank(r)
    BY <2>1 DEF Rank
  <2>3. walk = "next" => offset' = offset + limit
    BY <1>4 DEF Follow, Link, IndInv, LinksInv
  <2>4. walk = "previous" => offset' \in Nat /\ offset' <= offset
    BY <1>1, <1>4 DEF Follow, Link, IndInv, LinksInv, PreviousPage, NoLink
  <2>5. BehindInv'
    <3>1. ASSUME NEW r \in rows \ Known, walk = "next"
          PROVE  Rank(r) < offset' \/ \E x \in came : x < r
      <4>1. Rank(r) < offset \/ \E x \in came : x < r
        BY <2>1, <3>1 DEF BehindInv, Walking
      <4> QED
        BY <1>1, <1>2, <2>3, <3>1, <4>1
    <3>2. ASSUME NEW r \in rows \ Known, walk = "previous"
          PROVE  Rank(r) >= offset' + limit \/ \E x \in gone : x < r
      <4>1. Rank(r) >= offset + limit \/ \E x \in gone : x < r
        BY <2>1, <3>2 DEF BehindInv, Walking
      <4> QED
        BY <1>1, <1>2, <2>4, <3>2, <4>1
    <3> QED
      BY <1>1, <2>1, <2>2, <3>1, <3>2 DEF BehindInv, historyVars
  <2> QED
    BY <2>1, <2>5 DEF NothingElseShown, historyVars
<1>5. CASE GetPage /\ phase = "first"
  <2>1. /\ due' = Ahead /\ came' = {} /\ gone' = {} /\ served' = PageRows
        /\ UNCHANGED <<rows, limit, offset, walk>>
    BY <1>5 DEF GetPage, IndInv, LinksInv
  <2>2. \A r : Rank(r)' = Rank(r)
    BY <2>1 DEF Rank
  <2>3. PageRows \subseteq Ahead
    BY <1>1 DEF PageRows, Ahead
  <2>4. \A r \in rows \ Ahead : /\ walk = "next" => Rank(r) < offset
                                /\ walk = "previous" => Rank(r) >= offset + limit
    BY <1>1, <1>2 DEF Ahead
  <2>5. NothingElseShown'
    BY <2>1, <2>3 DEF NothingElseShown
  <2>6. BehindInv'
    BY <1>1, <2>1, <2>2, <2>4 DEF BehindInv
  <2> QED
    BY <2>5, <2>6
<1>6. CASE GetPage /\ phase = "page"
  <2>1. /\ served' = served \union PageRows
        /\ UNCHANGED <<rows, limit, offset, walk, due, came, gone>>
    BY <1>6 DEF GetPage
  <2>2. \A r : Rank(r)' = Rank(r)
    BY <2>1 DEF Rank
  <2>3. ASSUME NEW r \in PageRows \ Known
        PROVE  \E x \in IF walk = "next" THEN came ELSE gone : x < r
    <3>1. r \in rows /\ r \in Row /\ offset <= Rank(r) /\ Rank(r) < offset + limit
      BY <1>1, <2>3 DEF PageRows
    <3>2. ~(Rank(r) < offset) /\ ~(Rank(r) >= offset + limit)
      BY <1>1, <1>2, <3>1
    <3> QED
      BY <1>6, <2>3, <3>1, <3>2 DEF BehindInv, Walking
  <2>4. BehindInv'
    BY <1>6, <2>1, <2>2 DEF BehindInv, Walking
  <2> QED
    BY <2>1, <2>3, <2>4 DEF NothingElseShown
<1>7. CASE GetCount \/ FailRequest \/ UNCHANGED vars
  <2>1. UNCHANGED <<rows, limit, offset, walk, historyVars>> /\ (Walking' => Walking)
    BY <1>7 DEF GetCount, FailRequest, vars, requestVars, Walking
  <2>2. \A r : Rank(r)' = Rank(r)
    BY <2>1 DEF Rank
  <2> QED
    BY <2>1, <2>2 DEF BehindInv, NothingElseShown, historyVars
<1>8. ASSUME NEW q \in Row, Come(q) \/ Leave(q)
      PROVE  ShownInv'
  <2>1. /\ phase' = phase /\ limit' = limit /\ offset' = offset /\ walk' = walk
        /\ served' = served
        /\ came \subseteq came' /\ gone \subseteq gone' /\ rows' \subseteq rows \union {q}
        /\ Known \subseteq Known' /\ q \in Known'
        /\ Come(q) => rows' = rows \union {q} /\ q \in came'
        /\ Leave(q) => rows' = rows \ {q} /\ q \in gone'
    BY <1>8 DEF Come, Leave, requestVars
  <2>2. NothingElseShown'
    BY <2>1 DEF NothingElseShown
  <2>3. ASSUME NEW r \in rows' \ Known'
        PROVE  /\ r \in rows \ Known /\ r \in Row
               /\ Rank(r)' \in Nat
               /\ Come(q) => /\ Rank(r)' >= Rank(r)
                             /\ Rank(r)' = Rank(r) \/ \E x \in came' : x < r
               /\ Leave(q) => /\ Rank(r)' <= Rank(r)
                              /\ Rank(r)' = Rank(r) \/ \E x \in gone' : x < r
    <3>1. r \in rows \ Known /\ r \in Row
      BY <1>1, <2>1, <2>3
    <3>2. rows' \in SUBSET Row
      BY <1>1, <2>1
    <3>3. Rank(r)' \in Nat
      BY <3>1, <3>2, RankBounds DEF Rank
    <3>4. CASE Come(q)
      <4>1. rows \subseteq Row /\ rows' = rows \union {q}
        BY <1>1, <2>1, <3>4
      <4>2. Rank(r)' >= Rank(r) /\ (~(q < r) => Rank(r)' = Rank(r))
        BY <3>1, <4>1, RankInsert
      <4>3. ~Leave(q)
        BY <3>4 DEF Come, Leave
      <4> QED
        BY <2>1, <3>1, <3>3, <3>4, <4>2, <4>3
    <3>5. CASE Leave(q)
      <4>1. rows \subseteq Row /\ rows' = rows \ {q}
        BY <1>1, <2>1, <3>5
      <4>2. Rank(r)' <= Rank(r) /\ (~(q < r) => Rank(r)' = Rank(r))
        BY <3>1, <4>1, RankRemove
      <4>3. ~Come(q)
        BY <3>5 DEF Come, Leave
      <4> QED
        BY <2>1, <3>1, <3>3, <3>5, <4>2, <4>3
    <3> QED
      BY <1>8, <3>1, <3>3, <3>4, <3>5 DEF Come, Leave
  <2>4. BehindInv'
    <3> SUFFICES ASSUME Walking, NEW r \in rows' \ Known'
                 PROVE  IF walk = "next" THEN Rank(r)' < offset \/ \E x \in came' : x < r
                        ELSE Rank(r)' >= offset + limit \/ \E x \in gone' : x < r
      BY <2>1 DEF BehindInv, Walking
    <3>1. IF walk = "next" THEN Rank(r) < offset \/ \E x \in came : x < r
          ELSE Rank(r) >= offset + limit \/ \E x \in gone : x < r
      BY <2>3 DEF BehindInv
    <3>2. Rank(r) \in Nat /\ Rank(r)' \in Nat
      BY <1>2, <2>3
    <3> QED
      BY <1>1, <1>8, <2>1, <2>3, <3>1, <3>2
  <2> QED
    BY <2>2, <2>4
<1> QED
  BY <1>0, <1>3, <1>4, <1>5, <1>6, <1>7, <1>8 DEF Next, GetPage

LEMMA ForwardFromInv == IndInv => ForwardWalkMisses
BY DEF IndInv, LinksInv, ForwardWalkMisses, WalkEnded, Link

LEMMA BackwardFromInv == IndInv => BackwardWalkMisses
<1> SUFFICES ASSUME IndInv, walk = "previous", WalkEnded, NEW r \in due \ served
             PROVE  \E x \in came : x < r
  BY DEF BackwardWalkMisses
<1>1. phase = "answered" /\ PreviousPage = NoLink
  BY DEF IndInv, LinksInv, WalkEnded, Link
<1>2. offset = 0
  BY <1>1, PageSizeAssumption DEF PreviousPage, NoLink, IndInv, TypeOK
<1>3. r \in Row /\ Rank(r) \in Nat
  BY RankBounds DEF IndInv, TypeOK, Rank
<1> QED
  BY <1>1, <1>2, <1>3 DEF IndInv, PastInv, Walking, Reached

(* The types of the request, the answer and the history of the walk.       *)
THEOREM TypeCorrect == Spec => []TypeOK
BY Invariance, PTL DEF IndInv

(* Along the next links only a row that left makes the client miss one.    *)
THEOREM ForwardWalk == Spec => []ForwardWalkMisses
BY Invariance, ForwardFromInv, PTL

(* Along the previous links only an inserted row makes it miss one.        *)
THEOREM BackwardWalk == Spec => []BackwardWalkMisses
BY Invariance, BackwardFromInv, PTL

(* Along the next links only an inserted row makes it meet one twice.      *)
THEOREM Repeats == Spec => []ForwardWalkRepeats
BY Invariance, PTL DEF IndInv

(* A walk shows no row from behind its first page that nothing moved.      *)
THEOREM OnlyRowsAhead == Spec => []NothingElseShown
<1>1. Init => ShownInv
  BY DEF Init, ShownInv, BehindInv, NothingElseShown, Walking
<1>2. IndInv /\ ShownInv /\ [Next]_vars => ShownInv'
  BY ShownStep
<1>3. ShownInv => NothingElseShown
  BY DEF ShownInv
<1> QED
  BY <1>1, <1>2, <1>3, Invariance, PTL DEF Spec

(* The links are valid requests, and the next one leads to rows unless     *)
(* rows leave.                                                             *)
THEOREM Links == Spec => []LinksValid
BY Invariance, PTL DEF IndInv
==============================================================================
