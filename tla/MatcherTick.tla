----------------------------- MODULE MatcherTick -----------------------------
(***************************************************************************)
(* The matcher's tick over its order book: the consumed ids, the new       *)
(* orders, the parked orders whose DEX did not show up, internal matching, *)
(* and the external pass that parks what it hands to the router.           *)
(*                                                                         *)
(* The tick runs on one task.  What comes from elsewhere is chosen freely: *)
(* the clock, the contents of both channels, the fills of the engine (they *)
(* are computed in module Matching), the picks and the fate of the send.   *)
(***************************************************************************)
EXTENDS OrderBook, SequencesExt

CONSTANTS
    Ttl,            \* router_inflight_ttl_ms
    MaxTime,        \* bound: the latest reading of the clock
    MaxFeeds,       \* bound: deliveries of orders, re-feeds included
    MaxQueue        \* bound: entries of park_queue

\* An order has a pair and asks for something (an order with a zero amount is
\* rejected when it is parsed); rates are ordered, and orders may share one.
ASSUME OrderAssumption ==
    \A n \in Notes : PairOf(n) \in Pairs /\ Requested(n) \in Nat \ {0}
ASSUME RateAssumption ==
    /\ \A a, b \in Notes : Cheaper(a, b) => ~Cheaper(b, a)
    /\ \A a, b, c \in Notes : Cheaper(a, c) => Cheaper(a, b) \/ Cheaper(b, c)
ASSUME TtlAssumption == Ttl \in Nat
ASSUME TickBounds == MaxTime \in Nat /\ MaxFeeds \in Nat /\ MaxQueue \in Nat

VARIABLES
    book,       \* engine.book
    phase,      \* where the tick stands
    now,        \* last_now, the clamped clock of this tick
    filled,     \* filled_orders of this tick's SettlementBatch
    items,      \* handovers collected by the external pass
    routing,    \* router: is it still Some?
    consumed,   \* notes whose consumption was delivered
    feeds       \* counter for the bound

vars == <<book, phase, now, filled, items, routing, consumed, feeds>>

Phases == {"idle", "consumed", "orders", "reactivate", "match", "settle", "route", "rollback"}

Indexed == UNION {ToSet(book.index[p]) : p \in Pairs}

Init ==
    /\ book = EmptyBook
    /\ phase = "idle" /\ now = 0
    /\ filled = {} /\ items = <<>>
    /\ routing = TRUE
    /\ consumed = {} /\ feeds = 0

-----------------------------------------------------------------------------
\* Mutant of Tick: the clock is taken as it is.
TickUnclamped ==
    /\ phase = "idle"
    /\ \E wall \in 0..MaxTime : now' = wall
    /\ phase' = "consumed"
    /\ UNCHANGED <<book, filled, items, routing, consumed, feeds>>

\* interval.tick(); the wall clock may step backwards, last_now does not.
Tick ==
    /\ phase = "idle"
    /\ \E wall \in 0..MaxTime : now' = IF wall > now THEN wall ELSE now
    /\ phase' = "consumed"
    /\ UNCHANGED <<book, filled, items, routing, consumed, feeds>>

DrainConsumed(n) ==
    /\ phase = "consumed" /\ n \notin consumed
    /\ consumed' = consumed \cup {n}
    /\ book' = remove_order(book, n)
    /\ UNCHANGED <<phase, now, filled, items, routing, feeds>>

\* A first delivery, a re-feed by the executor, or a second copy of an order
\* that hydration already loaded.
DrainOrder(n) ==
    /\ phase = "orders" /\ feeds < MaxFeeds
    /\ feeds' = feeds + 1
    /\ book' = add_user_order(book, n)
    /\ UNCHANGED <<phase, now, filled, items, routing, consumed>>

\* try_recv finds the channel empty.
ConsumedDrained ==
    /\ phase = "consumed"
    /\ phase' = "orders"
    /\ UNCHANGED <<book, now, filled, items, routing, consumed, feeds>>

OrdersDrained ==
    /\ phase = "orders"
    /\ phase' = IF routing THEN "reactivate" ELSE "match"
    /\ UNCHANGED <<book, now, filled, items, routing, consumed, feeds>>

Reactivate ==
    /\ phase = "reactivate"
    /\ IF HeadExpired(book, Ttl, now)
         THEN book' = pop_expired(book) /\ UNCHANGED phase
         ELSE phase' = "match" /\ UNCHANGED book
    /\ UNCHANGED <<now, filled, items, routing, consumed, feeds>>

\* One trade of engine.run(), between two opposite orders or around a triangle:
\* it fills orders it finds through the index and cleans up the exhausted ones.
Closes(legs) ==
    /\ \A i, j \in DOMAIN legs : i # j => PairOf(legs[i]) # PairOf(legs[j])
    /\ \A i \in DOMAIN legs : PairOf(legs[(i % Len(legs)) + 1])[1] = PairOf(legs[i])[2]

FillLegs(b, legs, amounts) ==
    LET two == fill_and_cleanup(fill_and_cleanup(b, legs[1], amounts[1]), legs[2], amounts[2])
    IN IF Len(legs) = 2 THEN two ELSE fill_and_cleanup(two, legs[3], amounts[3])

Trade ==
    /\ phase = "match"
    /\ \E legs \in (Indexed \X Indexed) \cup (Indexed \X Indexed \X Indexed) :
         /\ Closes(legs)
         /\ \E x \in 1..book.orders[legs[1]], y \in 1..book.orders[legs[2]], z \in 1..book.orders[legs[Len(legs)]] :
              book' = FillLegs(book, legs, <<x, y, z>>)
         /\ filled' = filled \cup ToSet(legs)
    /\ UNCHANGED <<phase, now, items, routing, consumed, feeds>>

\* The batch is sent (the send may wait), then every filled order is removed.
MatchDone ==
    /\ phase = "match"
    /\ phase' = "settle"
    /\ UNCHANGED <<book, now, filled, items, routing, consumed, feeds>>

RemoveFilled ==
    /\ phase = "settle"
    /\ IF filled = {}
         THEN phase' = (IF routing THEN "route" ELSE "idle") /\ UNCHANGED <<book, filled>>
         ELSE \E n \in filled :
                /\ book' = remove_order(book, n)
                /\ filled' = filled \ {n}
                /\ UNCHANGED phase
    /\ UNCHANGED <<now, items, routing, consumed, feeds>>

-----------------------------------------------------------------------------
(* external_pass.                                                          *)

\* route_external: whole notes the index shows, each picked once.
Pick(n) ==
    /\ phase = "route" /\ n \in Indexed
    /\ book.orders[n] = Requested(n)
    /\ Len(book.queue) < MaxQueue
    /\ book' = park(book, n, now)
    /\ items' = Append(items, n)
    /\ UNCHANGED <<phase, now, filled, routing, consumed, feeds>>

RouteSent ==
    /\ phase = "route"
    /\ phase' = "idle" /\ items' = <<>>
    /\ UNCHANGED <<book, now, filled, routing, consumed, feeds>>

\* try_send: the channel is full, or closed, which ends routing for good.
RouteNotSent ==
    /\ phase = "route" /\ items # <<>>
    /\ phase' = "rollback"
    /\ routing' \in BOOLEAN
    /\ UNCHANGED <<book, now, filled, items, consumed, feeds>>

Rollback ==
    /\ phase = "rollback"
    /\ IF items = <<>>
         THEN phase' = "idle" /\ UNCHANGED <<book, items>>
         ELSE /\ book' = unpark(book, Head(items))
              /\ items' = Tail(items)
              /\ UNCHANGED phase
    /\ UNCHANGED <<now, filled, routing, consumed, feeds>>

-----------------------------------------------------------------------------
Next ==
    \/ Tick \/ ConsumedDrained \/ OrdersDrained \/ Reactivate
    \/ Trade \/ MatchDone \/ RemoveFilled \/ RouteSent \/ RouteNotSent \/ Rollback
    \/ \E n \in Notes : DrainConsumed(n) \/ DrainOrder(n) \/ Pick(n)

Spec == Init /\ [][Next]_vars

-----------------------------------------------------------------------------
(* Properties.                                                             *)

\* Every field of the book and every variable of the tick keeps its type; no
\* remaining amount leaves 0..requested.
TypeOK ==
    /\ DOMAIN book.orders \subseteq Notes /\ DOMAIN book.parked \subseteq DOMAIN book.orders
    /\ \A n \in DOMAIN book.orders : book.orders[n] \in 0..Requested(n)
    /\ \A n \in DOMAIN book.parked : book.parked[n] \in 0..MaxTime
    /\ \A p \in Pairs : book.index[p] \in Seq(Notes) /\ book.count[p] \in Nat
    /\ book.adj \subseteq Pairs
    /\ book.queue \in Seq((0..MaxTime) \X Notes)
    /\ phase \in Phases /\ now \in 0..MaxTime
    /\ filled \subseteq Notes /\ items \in Seq(Notes)
    /\ routing \in BOOLEAN /\ consumed \subseteq Notes /\ feeds \in 0..MaxFeeds

\* An order of the book is in exactly one of indexed, parked and filled: the
\* rate index holds each active order that is not parked, once and under its
\* pair, and nothing else (so best_order never prunes); the counter behind
\* has_orders and the adjacency behind the triangle search say the same.  Every
\* variable keeps its type.
IndexExact ==
    /\ TypeOK
    /\ \A p \in Pairs :
         LET q == book.index[p]
             active == {n \in DOMAIN book.orders : book.orders[n] > 0 /\ PairOf(n) = p}
         IN /\ ToSet(q) = active \ DOMAIN book.parked
            /\ book.count[p] = Len(q) /\ Len(q) = Cardinality(ToSet(q))
            /\ p \in book.adj <=> q # <<>>

Before(q, a, b) == \E i, j \in DOMAIN q : i < j /\ q[i] = a /\ q[j] = b

\* Price-time priority: within a pair a cheaper order stands in front; no step
\* reorders two orders that stay, and whoever joins (a new order, a re-fed or a
\* reactivated one) stands behind everyone of its own rate.
PriceTimePriority ==
    [][\A p \in Pairs :
         LET q == book.index[p]
             r == book'.index[p]
             stay == ToSet(q) \cap ToSet(r)
         IN /\ \A a, b \in ToSet(r) : Cheaper(a, b) => Before(r, a, b)
            /\ \A a, b \in stay : Before(q, a, b) => Before(r, a, b)
            /\ \A a \in stay, b \in ToSet(r) \ stay : ~Cheaper(b, a) => Before(r, a, b)]_vars

\* A no-show returns: while the router is there, when a tick comes to matching no
\* order is parked whose time in flight has run out, although only the expired
\* prefix of park_queue is looked at and the clock may step backwards.  (Once the
\* route channel is closed the tick no longer reactivates anything.)
NoShowReturns ==
    phase = "match" /\ routing => \A n \in DOMAIN book.parked : book.parked[n] + Ttl > now

=============================================================================
