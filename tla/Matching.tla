------------------------------- MODULE Matching -------------------------------
(***************************************************************************)
(* MatchingEngine::run on a book of resting orders: direct matching pair   *)
(* by pair, then the heap of triangles; and the rest of the tick, in which *)
(* the batch leaves the book, the external pass hands whole notes of the   *)
(* residual to quotes and the top of the book is published.  A second tick *)
(* runs on what the first one left, with the orders that came meanwhile.   *)
(* Orders are numbered by arrival and come with any amounts; the prices    *)
(* are those of the run's snapshot.                                        *)
(***************************************************************************)
EXTENDS Integers, Bags, SequencesExt, OrderMath, Selection

CONSTANTS
    Tokens,             \* a set of naturals: tokens are ordered
    Markets,            \* what may happen: by arrival, the pairs of the orders and
                        \* the amounts each may have; how many come before the
                        \* first tick; the prices, in cents, NoPrice for none; the
                        \* pair that is quoted, by how many and with which amounts
    TriangularEnabled,
    ProductMax          \* largest u128: above it checked_mul gives None

NoPrice == -1
DirectedPairs == {p \in Tokens \X Tokens : p[1] # p[2]}

ASSUME TokenAssumption == Tokens \subseteq Nat /\ IsFiniteSet(Tokens)
ASSUME MarketAssumption ==
    \A m \in Markets :
        /\ m.pairs \in Seq(DirectedPairs) /\ m.first \in 1..Len(m.pairs)
        /\ DOMAIN m.amounts = DOMAIN m.pairs
        /\ \A n \in DOMAIN m.pairs : m.amounts[n] \subseteq Nat \ {0}
        /\ \A t \in Tokens : m.prices[t] \subseteq Nat \cup {NoPrice}
        /\ m.quoted \in DirectedPairs /\ m.quotes \in Nat /\ m.quoteAmounts \subseteq Nat \ {0}
ASSUME EngineAssumption == TriangularEnabled \in BOOLEAN /\ ProductMax \in Nat

VARIABLES
    market,     \* the member of Markets this behaviour is about
    terms,      \* offered and requested amount of each order, by arrival
    price,      \* the price feed of this run
    book,       \* engine.book
    phase,
    todo,       \* pairs direct matching still has to visit, in order
    heap,       \* bag of cycle entries
    triangles,  \* triangles_by_pair: those with an entry at the start
    filled,     \* filled_orders
    balance,    \* protocol_balances
    route,      \* the external pass: the pair's notes and quotes, what each quote
                \* can still supply, and the quote each note went to (0: none)
    levels      \* the top-of-book snapshot published at the end of the tick

vars == <<market, terms, price, book, phase, todo, heap, triangles, filled, balance, route, levels>>
given == <<market, price, route, levels>>

NumOrders == Len(market.pairs)
Notes == 1..NumOrders
PairOf(n) == market.pairs[n]

RequestedOf(n) == terms[n].requested
LowerRateOf(a, b) == LowerRate(terms[a], terms[b])

Book == INSTANCE OrderBook WITH
    Pairs <- DirectedPairs, Requested <- RequestedOf, Cheaper <- LowerRateOf

Rem(n) == book.orders[n]
Offered(n, fill) == offered_for(terms[n], fill)

NoRoute == [notes |-> <<>>, quotes |-> <<>>, remaining |-> <<>>, picks |-> <<>>]

Init ==
    /\ market \in Markets
    /\ terms = <<>>
    /\ price \in {f \in [Tokens -> UNION {market.prices[t] : t \in Tokens}] :
                    \A t \in Tokens : f[t] \in market.prices[t]}
    /\ book = Book!EmptyBook
    /\ phase = "load"
    /\ todo = <<>> /\ heap = EmptyBag /\ triangles = {}
    /\ filled = {} /\ balance = [t \in Tokens |-> 0]
    /\ route = NoRoute
    /\ levels = [p \in DirectedPairs |-> {}]

\* The orders that hydration and the channel add before a run: the terms of the
\* next one, and its place in the book.
ReadTerms ==
    /\ phase = "load"
    /\ \E o, r \in market.amounts[Len(terms) + 1] :
         terms' = Append(terms, [offered |-> o, requested |-> r])
    /\ phase' = "place"
    /\ UNCHANGED <<given, book, todo, heap, triangles, filled, balance>>

LoadOrder ==
    /\ phase = "place"
    /\ book' = Book!add_user_order(book, Len(terms))
    /\ phase' = IF Len(terms) \in {market.first, NumOrders} THEN "start" ELSE "load"
    /\ UNCHANGED <<given, terms, todo, heap, triangles, filled, balance>>

-----------------------------------------------------------------------------
(* Direct matching.                                                        *)

Reverse2(p) == <<p[2], p[1]>>
Priced(p) == price[p[1]] # NoPrice /\ price[p[2]] # NoPrice

\* collect_matchable_pairs: a hash set, so in any order.
MatchablePairs ==
    {p \in DirectedPairs : p[1] < p[2] /\ Book!has_orders(book, p) /\ Book!has_orders(book, Reverse2(p))}

StartDirect ==
    /\ phase = "start"
    /\ todo' \in SetToSeqs(MatchablePairs)
    /\ phase' = "direct"
    /\ UNCHANGED <<given, terms, book, heap, triangles, filled, balance>>

\* The two best orders of the pair, when match_user_orders goes on with them.
Crossing(p) ==
    {m \in Book!BestOrder(book, p) \X Book!BestOrder(book, Reverse2(p)) :
        Priced(p) /\ CanTrade(terms[m[1]], Rem(m[1]), terms[m[2]], Rem(m[2]))}

\* apply_match
DirectMatch ==
    /\ phase = "direct" /\ todo # <<>>
    /\ \E m \in Crossing(Head(todo)) :
       \E t \in {Trade(terms[m[1]], Rem(m[1]), terms[m[2]], Rem(m[2]))} :
         LET credit(k) == IF k = Head(todo)[1] THEN SatSub(t.releases, t.sends)
                          ELSE IF k = Head(todo)[2] THEN SatSub(t.other_releases, t.receives)
                          ELSE 0
         IN /\ \E b \in {Book!fill_and_cleanup(book, m[1], t.receives)} :
                 book' = Book!fill_and_cleanup(b, m[2], t.sends)
            /\ balance' = [k \in Tokens |-> balance[k] + credit(k)]
            /\ filled' = filled \cup {m[1], m[2]}
    /\ UNCHANGED <<given, terms, phase, todo, heap, triangles>>

DirectBreak ==
    /\ phase = "direct" /\ todo # <<>> /\ Crossing(Head(todo)) = {}
    /\ todo' = Tail(todo)
    /\ UNCHANGED <<given, terms, book, phase, heap, triangles, filled, balance>>

-----------------------------------------------------------------------------
(* Triangles.  An entry is a canonical triangle <<A, B, C>> with an order   *)
(* for each of its pairs; a cycle is its legs in the order the tokens flow, *)
(* each leg paid with what the one before it releases: AB, CA, BC.          *)

SidesOf(tri) == {<<tri[1], tri[2]>>, <<tri[2], tri[3]>>, <<tri[3], tri[1]>>}

Triangles == {tri \in Tokens \X Tokens \X Tokens : tri[1] < tri[2] /\ tri[1] < tri[3] /\ tri[2] # tri[3]}

Usd(n) == Rem(n) * price[PairOf(n)[2]]

\* find_bottleneck: the smallest capacity in USD, and the legs from there on.
BottleneckFirst(ab, bc, ca) ==
    IF Usd(ab) <= Usd(bc) /\ Usd(ab) <= Usd(ca) THEN <<ab, ca, bc>>
    ELSE IF Usd(bc) <= Usd(ca) THEN <<bc, ab, ca>>
    ELSE <<ca, bc, ab>>

\* simulate_cycle_fills: leg 1 is filled whatever leg 3 releases.
CycleFills(legs) ==
    LET f1 == Rem(legs[1])
        f2 == Min2(Offered(legs[1], f1), Rem(legs[2]))
        f3 == Min2(Offered(legs[2], f2), Rem(legs[3]))
    IN <<f1, f2, f3>>

\* What leg i releases beyond what the next leg takes, never below zero.
CycleSurplus(legs, fills) ==
    [i \in 1..3 |-> SatSub(Offered(legs[i], fills[i]), fills[(i % 3) + 1])]

SurplusUsd(legs, surplus) ==
    LET usd(i) == surplus[i] * price[PairOf(legs[i])[1]] IN usd(1) + usd(2) + usd(3)

Simulated(legs, fills) ==
    LET surplus == CycleSurplus(legs, fills)
    IN [legs |-> legs, fills |-> fills, surplus |-> surplus, usd |-> SurplusUsd(legs, surplus)]

\* simulate_full_cycle: the simulation, or none.
Simulate(ab, bc, ca) ==
    IF \E n \in {ab, bc, ca} : Rem(n) = 0 \/ price[PairOf(n)[2]] = NoPrice THEN {}
    ELSE UNION {{Simulated(legs, fills) : fills \in {f \in {CycleFills(legs)} : \A i \in 1..3 : f[i] > 0}} :
                legs \in {l \in {BottleneckFirst(ab, bc, ca)} : Usd(l[1]) > 0}}

\* The profitability pre-filter, skipped when a product overflows.
Unprofitable(ab, bc, ca) ==
    LET lhs == terms[ab].offered * terms[bc].offered * terms[ca].offered
        rhs == terms[ab].requested * terms[bc].requested * terms[ca].requested
    IN lhs <= ProductMax /\ rhs <= ProductMax /\ lhs <= rhs

\* try_build_entry with the current best orders: at most one entry.
TryBuildEntry(tri) ==
    LET best(i, j) == Book!BestOrder(book, <<tri[i], tri[j]>>)
    IN UNION {LET ab == m[1]
                  bc == m[2]
                  ca == m[3]
              IN {[tri |-> tri, ab |-> ab, bc |-> bc, ca |-> ca, usd |-> sim.usd] :
                    sim \in {x \in Simulate(ab, bc, ca) : x.usd > 0 /\ ~Unprofitable(ab, bc, ca)}} :
              m \in best(1, 2) \X best(2, 3) \X best(3, 1)}

\* enumerate_triangles, after the last pair.
StartTriangles ==
    /\ phase = "direct" /\ todo = <<>>
    /\ phase' = IF TriangularEnabled THEN "triangle" ELSE "done"
    /\ LET found == {tri \in Triangles : \A p \in SidesOf(tri) : p \in book.adj /\ Book!has_orders(book, p)}
           entries == UNION {TryBuildEntry(tri) : tri \in found}
       IN IF TriangularEnabled
            THEN heap' = SetToBag(entries) /\ triangles' = {e.tri : e \in entries}
            ELSE UNCHANGED <<heap, triangles>>
    /\ UNCHANGED <<given, terms, book, todo, filled, balance>>

\* heap.pop(): an entry with the largest surplus.
Top(e) == BagIn(e, heap) /\ \A f \in BagToSet(heap) : f.usd <= e.usd
Popped(e) == heap (-) SetToBag({e})
Push(h, E) == h (+) SetToBag(E)

\* An order of the entry is used up: look again with the current best orders.
PopInactive ==
    /\ phase = "triangle"
    /\ \E e \in BagToSet(heap) :
         /\ Top(e) /\ Simulate(e.ab, e.bc, e.ca) = {}
         /\ heap' = Push(Popped(e), TryBuildEntry(e.tri))
    /\ UNCHANGED <<given, terms, book, phase, todo, triangles, filled, balance>>

\* Mutant of PopStale: the entry goes back with the surplus it had.
PopStaleKeepsUsd ==
    /\ phase = "triangle"
    /\ \E e \in BagToSet(heap) : \E sim \in Simulate(e.ab, e.bc, e.ca) :
         /\ Top(e) /\ sim.usd # e.usd
         /\ heap' = Push(Popped(e), {e})
    /\ UNCHANGED <<given, terms, book, phase, todo, triangles, filled, balance>>

\* The surplus has changed since the entry was pushed.
PopStale ==
    /\ phase = "triangle"
    /\ \E e \in BagToSet(heap) : \E sim \in Simulate(e.ab, e.bc, e.ca) :
         /\ Top(e) /\ sim.usd # e.usd
         /\ heap' = Push(Popped(e), IF sim.usd > 0 THEN {[e EXCEPT !.usd = sim.usd]} ELSE {})
    /\ UNCHANGED <<given, terms, book, phase, todo, triangles, filled, balance>>

\* Mutant of Affected: nothing is re-evaluated.
AffectedNone(tri) == {}

\* The triangles to re-evaluate after a cycle: those that share a pair.
Affected(tri) == {t \in triangles : SidesOf(t) \cap SidesOf(tri) # {}}

\* execute_cycle, and the entries of the affected triangles.
ExecuteCycle ==
    /\ phase = "triangle"
    /\ UNCHANGED <<given, terms, phase, todo, triangles>>
    /\ \E e \in BagToSet(heap) : \E sim \in Simulate(e.ab, e.bc, e.ca) :
         LET legs == sim.legs
             fills == sim.fills
             surplus(t) == SumFunctionOnSet(sim.surplus, {i \in 1..3 : PairOf(legs[i])[1] = t})
         IN /\ Top(e) /\ sim.usd = e.usd
            /\ \E b1 \in {Book!fill_and_cleanup(book, legs[1], fills[1])} :
               \E b2 \in {Book!fill_and_cleanup(b1, legs[2], fills[2])} :
                  book' = Book!fill_and_cleanup(b2, legs[3], fills[3])
            /\ filled' = filled \cup ToSet(legs)
            /\ balance' = [t \in Tokens |-> balance[t] + surplus(t)]
            /\ heap' = Push(Popped(e), (UNION {TryBuildEntry(tri) : tri \in Affected(e.tri)})')

HeapEmpty ==
    /\ phase = "triangle" /\ heap = EmptyBag
    /\ phase' = "done"
    /\ UNCHANGED <<given, terms, book, todo, heap, triangles, filled, balance>>

-----------------------------------------------------------------------------
(* The end of a tick.                                                      *)

\* best_level: the active orders at the best rate and what they still offer.
BestLevel(b, p) ==
    LET level(f) == {n \in ToSet(b.index[p]) : b.orders[n] > 0 /\ ~LowerRateOf(f, n)}
    IN  {[rate |-> terms[f], orders |-> level(f),
          volume |-> SumFunction([n \in level(f) |-> offered_remaining(terms[n], b.orders[n])])] :
            f \in Book!BestOrder(b, p)}

\* The notes of a pair that nobody has filled yet, in the order of the index.
WholeNotes(b, p) ==
    LET q == b.index[p]
        whole[k \in 0..Len(q)] ==
            IF k = 0 THEN <<>>
            ELSE IF b.orders[q[k]] = terms[q[k]].requested THEN Append(whole[k - 1], q[k])
            ELSE whole[k - 1]
    IN whole[Len(q)]

\* The batch has gone to the executor: every order it touched leaves the book,
\* filled or not, and the balances are cleared; then the external pass looks at the
\* quotes and at the whole notes of their pair, in the order of the index.  (The
\* last tick of a market without quotes is not looked at any further.)
BeginExternal ==
    /\ phase = "done" /\ (Len(terms) < NumOrders \/ market.quotes > 0)
    /\ \E b \in {FoldSet(LAMBDA n, acc : Book!remove_order(acc, n), book, filled)} :
         /\ book' = b
         /\ route' = [NoRoute EXCEPT !.notes = IF market.quotes = 0 THEN <<>> ELSE WholeNotes(b, market.quoted)]
    /\ filled' = {} /\ balance' = [t \in Tokens |-> 0]
    /\ heap' = EmptyBag /\ triangles' = {}
    /\ phase' = "route"
    /\ UNCHANGED <<market, price, terms, todo, levels>>

\* The snapshot it has borrowed lists the next quote, in the order of republish.
QuoteListed ==
    /\ phase = "route" /\ Len(route.quotes) < market.quotes
    /\ \E q \in Quote(market.quoteAmounts) :
         /\ Sorted(Append(route.quotes, q))
         /\ route' = [route EXCEPT !.quotes = Append(@, q), !.remaining = Append(@, q.supply)]
    /\ UNCHANGED <<market, price, levels, terms, book, phase, todo, heap, triangles, filled, balance>>

\* The next note goes to a quote, and is parked, or stays.
RouteNote ==
    /\ phase = "route" /\ Len(route.quotes) = market.quotes /\ Len(route.picks) < Len(route.notes)
    /\ LET n == route.notes[Len(route.picks) + 1]
           i == Chosen(terms[n], route.quotes, route.remaining)
       IN /\ route' = [route EXCEPT !.picks = Append(@, i), !.remaining = DrawDown(@, i, terms[n])]
          /\ book' = IF i = 0 THEN book ELSE Book!park(book, n, 0)
    /\ UNCHANGED <<market, price, levels, terms, phase, todo, heap, triangles, filled, balance>>

\* The top of the residual is published and the tick is over.
EndTick ==
    /\ phase = "route" /\ Len(route.quotes) = market.quotes /\ Len(route.picks) = Len(route.notes)
    /\ levels' = [p \in DirectedPairs |-> BestLevel(book, p)]
    /\ route' = NoRoute
    /\ phase' = IF Len(terms) < NumOrders THEN "load" ELSE "end"
    /\ UNCHANGED <<market, price, terms, book, todo, heap, triangles, filled, balance>>

-----------------------------------------------------------------------------
Next ==
    \/ ReadTerms \/ LoadOrder \/ StartDirect \/ DirectMatch \/ DirectBreak \/ StartTriangles
    \/ PopInactive \/ PopStale \/ ExecuteCycle \/ HeapEmpty
    \/ BeginExternal \/ QuoteListed \/ RouteNote \/ EndTick

Spec == Init /\ [][Next]_vars

\* run() is a plain loop: it takes its next step.
FairSpec == Spec /\ WF_vars(Next)

-----------------------------------------------------------------------------
(* Properties.                                                             *)

\* Remaining amounts stay within 0..requested and every variable keeps its type.
TypeOK ==
    /\ DOMAIN book.orders \subseteq Notes
    /\ \A n \in DOMAIN book.orders : Rem(n) \in 0..terms[n].requested
    /\ phase \in {"load", "place", "start", "direct", "triangle", "done", "route", "end"}
    /\ todo \in Seq(DirectedPairs)
    /\ \A e \in BagToSet(heap) : e.tri \in triangles /\ {e.ab, e.bc, e.ca} \subseteq Notes /\ e.usd \in Nat \ {0}
    /\ triangles \subseteq Triangles
    /\ filled \subseteq Notes
    /\ balance \in [Tokens -> Nat]

\* What the settlement of the filled orders releases and takes, as the executor
\* nets it: each order once, for its whole fill.
FilledOf(n) == IF n \in filled THEN terms[n].requested - Rem(n) ELSE 0
Released(t) ==
    SumFunctionOnSet([n \in DOMAIN terms |-> Offered(n, FilledOf(n))], {n \in DOMAIN terms : PairOf(n)[1] = t})
Consumed(t) ==
    SumFunctionOnSet([n \in DOMAIN terms |-> FilledOf(n)], {n \in DOMAIN terms : PairOf(n)[2] = t})

\* Direct matching is solvent: however many partial fills an order goes through,
\* the batch releases of every token what it takes of it plus the protocol's
\* share, with the rounding of every step against nobody but the makers, and no
\* remaining amount leaves its range.
BalancesBacked ==
    /\ TypeOK
    /\ phase = "direct" => \A t \in Tokens : Released(t) >= Consumed(t) + balance[t]

\* When the heap is empty none of the triangles it was built from can be run
\* again with the orders now on top: neither the refresh of stale entries nor
\* the re-evaluation of the triangles that share a pair misses one.
NoProfitLeft == phase = "done" => \A tri \in triangles : TryBuildEntry(tri) = {}

\* The engine's loops end.
Terminates == <>(phase \in {"done", "end"} /\ Len(terms) = NumOrders)

\* The notes handed to one quote never ask for more than it supplies, as many
\* of them as there are in the batch.
SupplyRespected ==
    \A i \in DOMAIN route.quotes :
        SumFunctionOnSet([k \in DOMAIN route.picks |-> terms[route.notes[k]].requested],
                         {k \in DOMAIN route.picks : route.picks[k] = i}) <= route.quotes[i].supply

\* The quotes that could take a note, defined without the order of the list.
Willing(n) ==
    {i \in DOMAIN route.quotes :
        /\ route.quotes[i].fresh /\ crosses(terms[n], route.quotes[i])
        /\ route.remaining[i] >= terms[n].requested}

\* A note is routed exactly when some fresh quote accepts its rate and has room
\* for the whole of it, and then to one no other such quote is tighter than:
\* the early break of the scan misses none, stale quotes in between included.
TightestQuote ==
    [][Len(route'.picks) > Len(route.picks) =>
         LET n == route.notes[Len(route'.picks)]
             i == Last(route'.picks)
         IN IF Willing(n) = {} THEN i = 0
            ELSE i \in Willing(n) /\ \A j \in Willing(n) : ~MoreGenerous(route.quotes[i], route.quotes[j])]_vars

\* No order of its own pair stands in front of the newcomer.
FirstInLine(n) ==
    \A m \in DOMAIN book.orders \ {n} :
        PairOf(m) = PairOf(n) /\ ~Book!IsParked(book, m) => LowerRateOf(n, m)

\* What /v1/swap-eta promises with canFill, for an order that is the only one to
\* come before the next tick, while its tokens are priced: it trades in that
\* tick's batch, and is filled completely when one order makes up the level.
\* It has to be the first in line: when rounding makes match_with give up on a
\* partly filled order, those behind it are left over although they cross, and
\* trade with the level before the newcomer does.
CanFillTrades ==
    \A n \in {NumOrders} :
        (phase = "done" /\ Len(terms) = n /\ market.first = n - 1 /\ Priced(PairOf(n)) /\ FirstInLine(n))
            => \A l \in levels[Reverse2(PairOf(n))] :
                 eval_can_fill(terms[n], {l})
                     => n \in filled /\ (Cardinality(l.orders) = 1 => Rem(n) = 0)

-----------------------------------------------------------------------------
(* What the repository says of the triangles and the code does not keep.   *)

\* test_three_edge_cycle.rs: "for every token, released >= consumed across the
\* cycle".
CycleConserves == \A t \in Tokens : Released(t) >= Consumed(t)

=============================================================================
