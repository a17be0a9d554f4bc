------------------------------ MODULE OrderBook ------------------------------
(***************************************************************************)
(* The matcher's in-memory order book, as operators from a book to a book, *)
(* one per method of OrderBook.  The terms of an order are parameters: its *)
(* directed pair and the order of the rates (a lower rate is better).      *)
(*                                                                         *)
(* A pair's BTreeMap of FIFO deques is flattened into one sequence: rates  *)
(* ascending, arrival order within a rate.  A pair with an empty sequence  *)
(* is a pair without an entry in pair_index.                               *)
(***************************************************************************)
EXTENDS Naturals, Sequences, FiniteSets

CONSTANTS
    Notes,          \* order ids
    Pairs,          \* directed pairs (offered token, requested token)
    PairOf(_),      \* the pair of an order
    Requested(_),   \* its requested amount
    Cheaper(_, _)   \* is the first order's rate strictly below the second's?

NoOrders == [n \in {} |-> 0]

EmptyBook ==
    [orders |-> NoOrders,                       \* id -> requested_remaining
     index  |-> [p \in Pairs |-> <<>>],         \* pair_index
     count  |-> [p \in Pairs |-> 0],            \* active_pair_count
     adj    |-> {},                             \* user_adjacency and its inverse
     parked |-> NoOrders,                       \* id -> parked_at
     queue  |-> <<>>]                           \* park_queue: <<parked_at, id>>

Has(b, n) == n \in DOMAIN b.orders
IsParked(b, n) == n \in DOMAIN b.parked
IsActive(b, n) == b.orders[n] > 0
Without(f, n) == [m \in DOMAIN f \ {n} |-> f[m]]
With(f, n, v) == [m \in DOMAIN f \cup {n} |-> IF m = n THEN v ELSE f[m]]

SaturatingDec(k) == IF k = 0 THEN 0 ELSE k - 1

-----------------------------------------------------------------------------
(* The rate index.                                                         *)

\* Mutant of Ahead: a newcomer goes in front of the orders of its own rate.
AheadStrict(q, n) == {i \in DOMAIN q : Cheaper(q[i], n)}

\* The queue positions a newcomer stands behind: every rate not above its own.
Ahead(q, n) == {i \in DOMAIN q : ~Cheaper(n, q[i])}

\* A queue with an id at a position, and without the first occurrence of one.
InsertId(q, i, n) == SubSeq(q, 1, i - 1) \o <<n>> \o SubSeq(q, i, Len(q))
RemoveId(q, n) ==
    LET at == {i \in 1..Len(q) : q[i] = n}
        first == CHOOSE i \in at : \A j \in at : i <= j
    IN IF at = {} THEN q ELSE SubSeq(q, 1, first - 1) \o SubSeq(q, first + 1, Len(q))

index_insert(b, n) ==
    LET p == PairOf(n)
        q == b.index[p]
    IN [b EXCEPT !.index[p] = InsertId(q, Cardinality(Ahead(q, n)) + 1, n),
                 !.count[p] = @ + 1,
                 !.adj = @ \cup {p}]

remove_from_index(b, n) ==
    LET p == PairOf(n)
        q == RemoveId(b.index[p], n)
    IN IF b.index[p] = <<>> THEN b
       ELSE [b EXCEPT !.index[p] = q,
                      !.adj = IF q = <<>> THEN @ \ {p} ELSE @]

\* The counter and the index go down together, as in every caller.
unindex(b, n) == remove_from_index([b EXCEPT !.count[PairOf(n)] = SaturatingDec(@)], n)

-----------------------------------------------------------------------------
(* Orders come, are filled and go.                                         *)

add_user_order(b, n) ==
    IF Has(b, n) /\ ~IsParked(b, n) THEN b
    ELSE index_insert([b EXCEPT !.parked = Without(@, n),
                                !.orders = With(@, n, Requested(n))], n)

cleanup_if_filled(b, n) ==
    IF Has(b, n) /\ ~IsActive(b, n) THEN unindex(b, n) ELSE b

\* Order::fill on the stored order, then the clean-up every caller makes.
fill_and_cleanup(b, n, amount) ==
    cleanup_if_filled([b EXCEPT !.orders[n] = @ - amount], n)

\* Mutant of remove_order: the order's place is given up although parking
\* already gave it up.
RemoveOrderDoubleCount(b, n) ==
    IF ~Has(b, n) THEN b
    ELSE LET gone == [b EXCEPT !.orders = Without(@, n), !.parked = Without(@, n)]
         IN IF IsActive(b, n) THEN unindex(gone, n) ELSE remove_from_index(gone, n)

remove_order(b, n) ==
    IF ~Has(b, n) THEN b
    ELSE LET gone == [b EXCEPT !.orders = Without(@, n), !.parked = Without(@, n)]
         IN IF IsParked(b, n) THEN gone
            ELSE IF IsActive(b, n) THEN unindex(gone, n)
            ELSE remove_from_index(gone, n)

-----------------------------------------------------------------------------
(* Parking: the order was handed to an external DEX.                       *)

park(b, n, time) ==
    IF IsParked(b, n) \/ ~Has(b, n) THEN b
    ELSE IF ~IsActive(b, n) THEN b
    ELSE [unindex(b, n) EXCEPT !.parked = With(@, n, time),
                               !.queue = Append(@, <<time, n>>)]

reindex(b, n) == IF Has(b, n) /\ IsActive(b, n) THEN index_insert(b, n) ELSE b

unpark(b, n) ==
    IF IsParked(b, n) THEN reindex([b EXCEPT !.parked = Without(@, n)], n) ELSE b

\* One turn of the loop of reactivate_parked_older_than.
HeadExpired(b, ttl, time) == b.queue # <<>> /\ Head(b.queue)[1] + ttl <= time
pop_expired(b) == unpark([b EXCEPT !.queue = Tail(@)], Head(b.queue)[2])

-----------------------------------------------------------------------------
(* What the matching engine sees.                                          *)

has_orders(b, p) == b.count[p] > 0

\* best_order: the first id that is still active; what it prunes on the way
\* would be inactive.
BestOrder(b, p) ==
    LET q == b.index[p]
        active == {i \in DOMAIN q : Has(b, q[i]) /\ IsActive(b, q[i])}
    IN {q[i] : i \in {j \in active : \A k \in active : j <= k}}

=============================================================================
