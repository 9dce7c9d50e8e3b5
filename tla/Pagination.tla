------------------------------- MODULE Pagination ------------------------------
(***************************************************************************)
(* GenericPagination, as a client meets it that walks through the contracts *)
(* by the links of the answers, while rows come and go.                    *)
(*                                                                         *)
(* A row is its place in the order of the query, address and chain id,     *)
(* which is unique.  Page and count are two queries of a request; every    *)
(* page is a request of its own.                                           *)
(***************************************************************************)
EXTENDS Integers, FiniteSets

CONSTANTS
    Row,               \* every row the table may have, by its place in the order
    Limits,            \* the limits clients ask for, NoLimit for none
    default_page_size,
    max_page_size,
    MaxChanges         \* bound: rows that come or go during a walk

ASSUME RowAssumption == Row \subseteq Nat /\ IsFiniteSet(Row)
(* 10 and 100.  Were the default larger than the maximum, the limit in a    *)
(* link would not be the limit its offset was computed with.               *)
ASSUME PageSizeAssumption ==
    max_page_size \in Nat /\ default_page_size \in 1..max_page_size
ASSUME LimitsAssumption == Limits \subseteq Nat
ASSUME ChangesAssumption == MaxChanges \in Nat

(* The parameter is not given: `if limit` is false. *)
NoLimit == 0

(* The answer has null in place of the link. *)
NoLink == -1

VARIABLES
    rows,        \* the rows that fit the query
    phase,       \* of the request: "idle", "first", "page", "count", "answered"
    limit,       \* of the request
    offset,      \* of the request
    next,        \* the offset in the link of the last answer
    previous,    \* the offset in the link of the last answer
    walk,        \* which of the links the client follows
    due,         \* history: rows ahead of the walk when it began that never left
    served,      \* history: rows the walk has shown
    repeated,    \* history: rows it has shown on two pages
    came,        \* history: rows inserted since the walk began
    gone         \* history: rows that left since the walk began

requestVars == <<phase, limit, offset, next, previous, walk>>
historyVars == <<due, served, repeated, came, gone>>
vars == <<rows, requestVars, historyVars>>

TypeOK ==
    /\ rows \subseteq Row
    /\ phase \in {"idle", "first", "page", "count", "answered"}
    /\ limit \in 1..max_page_size
    /\ offset \in Nat
    /\ next \in Nat \union {NoLink}
    /\ previous \in Nat \union {NoLink}
    /\ walk \in {"next", "previous"}
    /\ due \subseteq Row
    /\ served \subseteq Row
    /\ repeated \subseteq Row
    /\ came \subseteq Row
    /\ gone \subseteq Row

(* GenericPagination.__init__ *)
PageSize(asked) ==
    IF asked = NoLimit THEN default_page_size
    ELSE IF asked < max_page_size THEN asked ELSE max_page_size

Init ==
    /\ rows \in SUBSET Row
    /\ phase = "idle"
    /\ limit = PageSize(NoLimit)
    /\ offset = 0
    /\ next = NoLink
    /\ previous = NoLink
    /\ walk = "next"
    /\ due = {}
    /\ served = {}
    /\ repeated = {}
    /\ came = {}
    /\ gone = {}

(* How many rows of the answer are before r. *)
Rank(r) == Cardinality({x \in rows : x < r})

-----------------------------------------------------------------------------
(* The client. *)

(* A request that follows no link. *)
Start(asked, o, w) ==
    /\ phase \in {"idle", "answered"}
    /\ limit' = PageSize(asked)
    /\ offset' = o
    /\ walk' = w
    /\ phase' = "first"
    /\ next' = NoLink
    /\ previous' = NoLink
    /\ due' = {}
    /\ served' = {}
    /\ repeated' = {}
    /\ came' = {}
    /\ gone' = {}
    /\ UNCHANGED rows

(* The link the client follows, NoLink at the end of its walk. *)
Link == IF walk = "next" THEN next ELSE previous

(* The link has the limit and the offset of the next request. *)
Follow ==
    /\ phase = "answered"
    /\ Link # NoLink
    /\ limit' = PageSize(limit)
    /\ offset' = Link
    /\ phase' = "page"
    /\ UNCHANGED <<rows, next, previous, walk, historyVars>>

-----------------------------------------------------------------------------
(* The request: list_all_contracts and ContractService.get_contracts. *)

(* Mutant of PageRows: the limit counts from the first row. *)
PageRowsFromStart == {r \in rows : offset <= Rank(r) /\ Rank(r) < limit}

(* Mutant of PageRows: the page has a row more, to know if there is another. *)
PageRowsAndOne == {r \in rows : offset <= Rank(r) /\ Rank(r) <= offset + limit}

(* Mutant of PageRows: the offset does not reach the query. *)
PageRowsWithoutOffset == {r \in rows : Rank(r) < limit}

(* query.offset(offset).limit(limit), in the order of the query. *)
PageRows == {r \in rows : offset <= Rank(r) /\ Rank(r) < offset + limit}

Ahead ==
    {r \in rows : IF walk = "next" THEN offset <= Rank(r) ELSE Rank(r) < offset + limit}

(* get_page *)
GetPage ==
    /\ phase \in {"first", "page"}
    /\ served' = served \union PageRows
    /\ repeated' = repeated \union (PageRows \intersect served)
    /\ phase' = "count"
    /\ IF phase = "first" THEN /\ due' = Ahead
                               /\ came' = {}
                               /\ gone' = {}
                          ELSE UNCHANGED <<due, came, gone>>
    /\ UNCHANGED <<rows, limit, offset, next, previous, walk>>

(* Mutant of NextPage: a page that ends with the last row has a next page. *)
NextPageAtEnd(count) == IF offset + limit <= count THEN offset + limit ELSE NoLink

(* get_next_page *)
NextPage(count) == IF offset + limit < count THEN offset + limit ELSE NoLink

(* Mutant of PreviousPage: a shorter first page is left out. *)
PreviousFullPage == IF offset >= limit THEN offset - limit ELSE NoLink

(* get_previous_page, with "Prevent negative offset". *)
PreviousPage ==
    IF offset > 0 THEN IF offset > limit THEN offset - limit ELSE 0
                  ELSE NoLink

(* get_count, which is later than the page, and serialize. *)
GetCount ==
    /\ phase = "count"
    /\ next' = NextPage(Cardinality(rows))
    /\ previous' = PreviousPage
    /\ phase' = "answered"
    /\ UNCHANGED <<rows, limit, offset, walk, historyVars>>

(* A query fails, the client gets an error and no link. *)
FailRequest ==
    /\ phase \in {"first", "page", "count"}
    /\ phase' = "idle"
    /\ UNCHANGED <<rows, limit, offset, next, previous, walk, historyVars>>

-----------------------------------------------------------------------------
(* The table. *)

Changes == Cardinality(came) + Cardinality(gone)

(* A contract is inserted, or its trusted_for_delegate_call now fits. *)
Come(r) ==
    /\ r \notin rows
    /\ Changes < MaxChanges
    /\ rows' = rows \union {r}
    /\ came' = came \union {r}
    /\ UNCHANGED <<requestVars, due, served, repeated, gone>>

(* A contract is deleted, or its trusted_for_delegate_call fits no more. *)
Leave(r) ==
    /\ r \in rows
    /\ Changes < MaxChanges
    /\ rows' = rows \ {r}
    /\ gone' = gone \union {r}
    /\ due' = due \ {r}
    /\ UNCHANGED <<requestVars, served, repeated, came>>

Next ==
    \/ \E asked \in Limits, o \in 0..Cardinality(Row), w \in {"next", "previous"} :
        Start(asked, o, w)
    \/ Follow
    \/ GetPage
    \/ GetCount
    \/ FailRequest
    \/ \E r \in Row : Come(r) \/ Leave(r)

Spec == Init /\ [][Next]_vars

-----------------------------------------------------------------------------
(* Properties. *)

WalkEnded == phase = "answered" /\ Link = NoLink

(* ForwardWalkMisses: a client that follows the next links up to the end    *)
(* has seen every row that was there all the time, except rows with a row   *)
(* before them that left meanwhile.  Rows that are inserted between two     *)
(* pages, or between the page and its count, never make it miss one.        *)
ForwardWalkMisses ==
    walk = "next" /\ WalkEnded =>
        \A r \in due \ served : \E x \in gone : x < r

(* BackwardWalkMisses: a client that follows the previous links down to the *)
(* first page misses a row only if one before it was inserted meanwhile.    *)
BackwardWalkMisses ==
    walk = "previous" /\ WalkEnded =>
        \A r \in due \ served : \E x \in came : x < r

(* ForwardWalkRepeats: a row that a client meets on two pages of a forward  *)
(* walk was pushed there by an insertion before it.                         *)
ForwardWalkRepeats ==
    walk = "next" => \A r \in repeated : \E x \in came : x < r

(* NothingElseShown: a walk shows no row from behind its first page, except *)
(* one that came or went itself, or that others moved to the pages ahead:   *)
(* an insertion before it on the way forward, a row that left before it on  *)
(* the way back.                                                            *)
NothingElseShown ==
    \A r \in served \ (due \union came \union gone) :
        \E x \in IF walk = "next" THEN came ELSE gone : x < r

(* LinksValid: whatever came or left between the page and its count, a link *)
(* is a request the endpoint accepts: no negative offset, a limit of at     *)
(* least 1 and within the maximum.  The next link leads to a page with rows *)
(* unless rows leave.                                                       *)
LinksValid ==
    phase = "page" =>
        /\ offset >= 0
        /\ limit \in 1..max_page_size
        /\ walk = "next" /\ gone = {} => offset < Cardinality(rows)

(* Where the walk is: it has shown the rows on this side of it, unless      *)
(* another row moved them there.                                            *)
Reached ==
    IF walk = "next" THEN IF phase = "page" THEN offset ELSE offset + limit
                     ELSE IF phase = "page" THEN offset + limit ELSE offset

Walking == phase \in {"page", "count", "answered"}

PastInv ==
    /\ walk = "next" /\ Walking =>
        /\ \A r \in due \ served : Rank(r) >= Reached \/ \E x \in gone : x < r
        /\ \A r \in served : Rank(r) < Reached \/ \E x \in came : x < r
    /\ walk = "previous" /\ Walking =>
        \A r \in due \ served : Rank(r) < Reached \/ \E x \in came : x < r

(* The rows behind the first page stay behind the walk, unless moved. *)
BehindInv ==
    Walking => \A r \in rows \ (due \union came \union gone) :
        IF walk = "next" THEN Rank(r) < offset \/ \E x \in came : x < r
                         ELSE Rank(r) >= offset + limit \/ \E x \in gone : x < r

LinksInv ==
    /\ Walking => due \subseteq rows
    /\ phase = "first" => served = {} /\ repeated = {} /\ next = NoLink
    /\ phase = "answered" =>
        /\ next = NoLink \/ next = offset + limit
        /\ next = NoLink /\ walk = "next" => \A r \in due \ served : \E x \in gone : x < r
        /\ next # NoLink /\ gone = {} => next < Cardinality(rows)
        /\ previous = PreviousPage

IndInv ==
    /\ TypeOK
    /\ PastInv
    /\ LinksInv
    /\ ForwardWalkRepeats
    /\ LinksValid

(* What NothingElseShown rests on, on top of IndInv. *)
ShownInv == BehindInv /\ NothingElseShown
==============================================================================
