----------------------------- MODULE MCDecodeData -----------------------------
(* The instance of DecodeData for TLC: the shipped ABIs themselves. *)
EXTENDS DecodeData, ShippedAbis

CONSTANTS none, k1

Shipped == load_local_abis_in_database

(* The shipped functions, and one that only downloaded ABIs have. *)
Functions == {v.fn : v \in Shipped} \union {"downloaded(uint256)"}

ShippedWith(f) == {v \in Shipped : v.fn = f}

(* The shipped ABIs that win a selector at startup: those of the highest    *)
(* relevance.                                                               *)
MostRelevant(f) ==
    {v \in ShippedWith(f) : \A other \in ShippedWith(f) : other.relevance <= v.relevance}

(* Of the shipped ABIs, `early` were downloaded before the first startup:   *)
(* none, one or all of the most relevant, or all.                           *)
Database(f, early) ==
    {[names |-> v.names, relevance |-> IF v \in early THEN 0 ELSE v.relevance] :
        v \in ShippedWith(f)}

EarlyOf(f) == {{}, MostRelevant(f), ShippedWith(f)} \union {{v} : v \in MostRelevant(f)}

MCDatabases == [f \in Functions |-> {Database(f, early) : early \in EarlyOf(f)}]

MCDownloads == {<<"amount">>, <<"value">>}

MCSafeNames == <<"transactions">>

AllNames == {v.names : v \in Shipped} \union MCDownloads \union {MCSafeNames}

(* Of one call: what it calls, of which contract, whether its parameters    *)
(* fit, and whether its list can be taken apart.                            *)
Shape(kind, key, params, txs) ==
    [kind |-> kind, key |-> key, params |-> params, txs |-> txs]

Leaves ==
    {Shape("function", none, TRUE, TRUE), Shape("function", none, FALSE, TRUE),
     Shape("unknown", none, TRUE, TRUE), Shape("empty", none, TRUE, TRUE)}

(* Calls of the contract whose ABI changes.  *)
Keyed == Shape("function", k1, TRUE, TRUE)

MultiSends == {Shape("multiSend", none, p, t) : p, t \in BOOLEAN}

KeyedMultiSend == Shape("multiSend", k1, TRUE, TRUE)

(* The same function of a contract without an ABI, and who holds both.      *)
Unkeyed == Shape("function", none, TRUE, TRUE)

MultiSend == Shape("multiSend", none, TRUE, TRUE)

ExecTransactions == {Shape("execTransaction", none, p, TRUE) : p \in BOOLEAN}

Empty == Shape("empty", none, TRUE, TRUE)

Tree(f, size, parent, c1, c2, c3) ==
    LET calls == <<c1, c2, c3>>
    IN  [fn |-> f, size |-> size,
         parent |-> parent,
         within |-> [c \in 1..3 |-> IF c = 1 \/ c > size THEN {}
                                      ELSE IF parent[c] = 1 THEN {1} ELSE {1, 2}],
         kind |-> [c \in 1..3 |-> calls[c].kind],
         key |-> [c \in 1..3 |-> calls[c].key],
         params |-> [c \in 1..3 |-> calls[c].params],
         txs |-> [c \in 1..3 |-> calls[c].txs]]

(* Two transactions in a multiSend, and two levels of nesting. *)
TreesOf(f) ==
    {Tree(f, 3, <<0, 1, 1>>, c1, c2, c3) : c1 \in MultiSends, c2, c3 \in Leaves}
        \union
    {Tree(f, 3, <<0, 1, 2>>, c1, c2, c3) :
        c1, c2 \in MultiSends \union ExecTransactions, c3 \in Leaves}

(* A contract whose ABI changes, called alone, twice, beside a call of the  *)
(* same function of a contract without an ABI, and beside a failure.        *)
ContractTreesOf(f) ==
    {Tree(f, 1, <<0, 0, 0>>, Keyed, Empty, Empty)}
        \union
    {Tree(f, 3, <<0, 1, 1>>, MultiSend, c, Keyed) : c \in Leaves \union {Keyed}}
        \union
    {Tree(f, 3, <<0, 1, 1>>, MultiSend, Keyed, Unkeyed)}

(* Every function called on its own; all the trees with a contested, a      *)
(* settled and a downloaded function; a contract with an ABI of its own     *)
(* with a contested and a downloaded function, and with its own multiSend.  *)
Requests ==
    {Tree(f, 1, <<0, 0, 0>>, c, Empty, Empty) : f \in Functions, c \in Leaves}
        \union
    UNION {TreesOf(f) : f \in {"redeem(uint256)", "transfer(address,uint256)",
                               "downloaded(uint256)"}}
        \union
    UNION {ContractTreesOf(f) : f \in {"redeem(uint256)", "downloaded(uint256)"}}
        \union
    {Tree("downloaded(uint256)", 2, <<0, 1, 0>>, KeyedMultiSend, Unkeyed, Empty)}

MCFunction == Functions

MCNames == AllNames

MCData == Requests

(* The contested functions are exactly those of the list. *)
ASSUME ContestedExactly ==
    ContestedFunctions =
        {f \in Functions : \E v, w \in MostRelevant(f) : v.names # w.names}
==============================================================================
