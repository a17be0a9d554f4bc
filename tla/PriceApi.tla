------------------------------- MODULE PriceApi -------------------------------
(***************************************************************************)
(* The price-query API and what it reads: the price feed publishes a poll  *)
(* and then stamps its time, the matcher publishes the top of the book,    *)
(* the executor the settlement window, an admin changes the token rows.    *)
(* The handlers run on threads of their own and take no lock across two    *)
(* reads, so every read is a step of its own.  A handler never awaits:     *)
(* once admitted it runs to its answer, and the timeout layer cannot cut   *)
(* it short.  Prices are in tenths of a cent, options are sets.            *)
(***************************************************************************)
EXTENDS Integers, FiniteSets, OrderMath, SwapEta

CONSTANTS
    Scenarios,      \* what may happen: requests, and bounds on everything else
    Decimals,       \* [token -> decimals], once ingest has fetched them
    Staleness,      \* staleness_secs
    MaxInflight,    \* permits of the concurrency guard
    MaxBatch,
    TolBps,         \* swap_offmarket_tol_bps
    Window, Cap     \* WINDOW_SECS and MAX_SAMPLES_PER_PAIR

Tokens == DOMAIN Decimals     \* two of them, so the token offered says the pair
ASSUME ApiAssumption ==
    /\ Staleness \in Nat /\ MaxInflight \in Nat \ {0} /\ MaxBatch \in Nat
    /\ TolBps \in Nat /\ Window \in Nat /\ Cap \in Nat \ {0}
    /\ Decimals \in [Tokens -> Nat]
\* Requests about registered or unknown tokens; swap-eta takes two faucets and
\* rejects a zero amount.
ASSUME ScenarioAssumption ==
    \A s \in Scenarios :
        /\ s.requests \in Seq([kind : {"price", "prices", "swap"}, ids : Seq(Tokens)])
        /\ \A r \in DOMAIN s.requests : s.requests[r].kind = "swap" => Len(s.requests[r].ids) = 2
        /\ s.usd \subseteq Nat /\ s.amounts \subseteq Nat \ {0}

VARIABLES
    scenario,
    clock,          \* unix seconds
    feed,           \* run_price_feed: where it is, the poll it is about, its prices
    snapshot,       \* the precise snapshot: poll and prices
    lastUpdate,     \* last_price_update
    row,            \* the tokens table: none, nodec (decimals not fetched) or dec
    best,           \* the swap snapshot: the top level of the pair offering each token
    stats,          \* the settlement window published for the pair offering each token
    permits,
    req,            \* the requests
    stamps,         \* history: when each poll was stamped
    settled         \* history: the settlements recorded

vars == <<scenario, clock, feed, snapshot, lastUpdate, row, best, stats, permits, req, stamps, settled>>

Requests == DOMAIN scenario.requests
ProductMax == 2000000000
Boot == Staleness + 1

\* Requests, by kind: price and prices have ids and may allow stale prices; swap
\* is about an order offering one token for the other.
NewRequest(r) ==
    [pc |-> "new", kind |-> r.kind, ids |-> r.ids, allow |-> FALSE, order |-> [offered |-> 1, requested |-> 1],
     asOf |-> -1, stale |-> FALSE, judgedAt |-> -1, got |-> {}, dec |-> <<>>,
     canFill |-> FALSE, off |-> {}, median |-> {}, answer |-> "none"]

Init ==
    /\ scenario \in Scenarios
    /\ clock = Boot
    /\ feed = [pc |-> "idle", poll |-> 0, list |-> {}, usd |-> <<>>]
    /\ snapshot = [poll |-> 0, usd |-> <<>>]
    /\ lastUpdate = 0
    /\ row = scenario.rows
    /\ best = [t \in Tokens |-> {}] /\ stats = [t \in Tokens |-> <<>>]
    /\ permits = MaxInflight
    /\ req = [r \in Requests |-> NewRequest(scenario.requests[r])]
    /\ stamps = [k \in 0..0 |-> 0]
    /\ settled = <<>>

Tick ==
    /\ clock < Boot + scenario.seconds
    /\ clock' = clock + 1
    /\ UNCHANGED <<scenario, feed, snapshot, lastUpdate, row, best, stats, permits, req, stamps, settled>>

-----------------------------------------------------------------------------
(* The writers.                                                            *)

feedOnly == <<scenario, clock, row, best, stats, permits, req, settled>>

\* A poll asks for the tokens registered when it begins.
FeedPolls ==
    /\ feed.pc = "idle" /\ feed.poll < scenario.polls
    /\ feed' = [feed EXCEPT !.pc = "fetching", !.list = {t \in Tokens : row[t] # "none"}]
    /\ UNCHANGED <<feedOnly, snapshot, lastUpdate, stamps>>

\* Mutant of FetchOk: the time is stored as soon as the prices are here.
FetchOkStamps ==
    /\ feed.pc = "fetching"
    /\ \E priced \in SUBSET feed.list : \E usd \in [priced -> scenario.usd] :
         feed' = [feed EXCEPT !.pc = "publish", !.poll = @ + 1, !.usd = usd]
    /\ lastUpdate' = clock /\ stamps' = [k \in 0..(feed.poll + 1) |-> IF k <= feed.poll THEN stamps[k] ELSE clock]
    /\ UNCHANGED <<feedOnly, snapshot>>

\* The provider answers, with a price for some of the tokens.
FetchOk ==
    /\ feed.pc = "fetching"
    /\ \E priced \in SUBSET feed.list : \E usd \in [priced -> scenario.usd] :
         feed' = [feed EXCEPT !.pc = "publish", !.poll = @ + 1, !.usd = usd]
    /\ UNCHANGED <<feedOnly, snapshot, lastUpdate, stamps>>

\* A failed poll keeps the last prices and their time.
FetchFails ==
    /\ feed.pc = "fetching"
    /\ feed' = [feed EXCEPT !.pc = "idle"]
    /\ UNCHANGED <<feedOnly, snapshot, lastUpdate, stamps>>

FeedPublishes ==
    /\ feed.pc = "publish"
    /\ feed' = [feed EXCEPT !.pc = "stamp"]
    /\ snapshot' = [poll |-> feed.poll, usd |-> feed.usd]
    /\ UNCHANGED <<feedOnly, lastUpdate, stamps>>

FeedStamps ==
    /\ feed.pc = "stamp"
    /\ feed' = [feed EXCEPT !.pc = "idle"]
    /\ lastUpdate' = clock
    /\ stamps' = [k \in 0..feed.poll |-> IF k < feed.poll THEN stamps[k] ELSE clock]
    /\ UNCHANGED <<feedOnly, snapshot>>

\* Register, fetched decimals, deregister.
RowChanges(t) ==
    /\ t \in scenario.changing
    /\ \E to \in {"nodec", "dec", "none"} :
         /\ \/ row[t] = "none" /\ to = "nodec"
            \/ row[t] = "nodec" /\ to \in {"dec", "none"}
            \/ row[t] = "dec" /\ to = "none"
         /\ row' = [row EXCEPT ![t] = to]
    /\ UNCHANGED <<scenario, clock, feed, snapshot, lastUpdate, best, stats, permits, req, stamps, settled>>

MatcherPublishes ==
    /\ \E t \in Tokens : \E l \in scenario.levels : best' = [best EXCEPT ![t] = l]
    /\ UNCHANGED <<scenario, clock, feed, snapshot, lastUpdate, row, stats, permits, req, stamps, settled>>

\* record_settlement: the notes of one batch are recorded, then published at once.
Settle ==
    /\ \E batch \in scenario.batches :
         /\ Len(settled) + Len(batch) <= scenario.settlements
         /\ stats' = FoldLeft(LAMBDA st, s : [st EXCEPT ![s.pair] = record(@, clock, s.secs, Window, Cap)], stats, batch)
         /\ settled' = settled \o [i \in DOMAIN batch |-> [pair |-> batch[i].pair, at |-> clock, secs |-> batch[i].secs]]
    /\ UNCHANGED <<scenario, clock, feed, snapshot, lastUpdate, row, best, permits, req, stamps>>

-----------------------------------------------------------------------------
(* The requests.                                                           *)

apiOnly == <<scenario, clock, feed, snapshot, lastUpdate, row, best, stats, stamps, settled>>

Answer(q, a) == [q EXCEPT !.pc = "done", !.answer = a]

\* Mutant of Step: an error answer keeps its permit.
StepKeepsPermit(r, q) ==
    /\ req' = [req EXCEPT ![r] = q]
    /\ permits' = IF q.pc = "done" /\ q.answer = "ok" THEN permits + 1 ELSE permits
    /\ UNCHANGED apiOnly

\* A step of a handler; its permit is dropped with the answer.
Step(r, q) ==
    /\ req' = [req EXCEPT ![r] = q]
    /\ permits' = IF q.pc = "done" THEN permits + 1 ELSE permits
    /\ UNCHANGED apiOnly

\* concurrency_guard, with whatever the request asks for.
Admit(r) ==
    /\ req[r].pc = "new" /\ permits > 0
    /\ \E allow \in scenario.allow : \E o, n \in scenario.amounts :
         req' = [req EXCEPT ![r].pc = "parse", ![r].allow = allow, ![r].order = [offered |-> o, requested |-> n]]
    /\ permits' = permits - 1
    /\ UNCHANGED apiOnly

Shed(r) ==
    /\ req[r].pc = "new" /\ permits = 0
    /\ req' = [req EXCEPT ![r] = Answer(@, "overloaded")]
    /\ UNCHANGED <<apiOnly, permits>>

\* A precision, amount or faucet that does not parse, or the same faucet twice; a
\* batch that is too large.
Malformed(r) == req[r].pc = "parse" /\ Step(r, Answer(req[r], "bad_request"))

Parse(r) ==
    /\ req[r].pc = "parse"
    /\ Step(r, IF req[r].kind = "prices" /\ Len(req[r].ids) > MaxBatch THEN Answer(req[r], "batch_too_large")
               ELSE [req[r] EXCEPT !.pc = IF req[r].kind = "swap" THEN "rows" ELSE "asof"])

\* staleness: the time of the last update, then the clock.
LoadAsOf(r) ==
    /\ req[r].pc = "asof"
    /\ Step(r, [req[r] EXCEPT !.pc = "judge", !.asOf = lastUpdate])

\* Stale prices are refused unless allowed; swap-eta goes on without them.
Judge(r) ==
    LET q == req[r]
        stale == clock - q.asOf > Staleness
    IN  /\ q.pc = "judge"
        /\ Step(r, IF q.kind = "swap" THEN [q EXCEPT !.pc = IF stale THEN "median" ELSE "prices", !.judgedAt = clock]
                   ELSE IF stale /\ ~q.allow THEN Answer(q, "stale")
                   ELSE IF q.ids = <<>> THEN Answer(q, "ok")
                   ELSE [q EXCEPT !.pc = "row", !.judgedAt = clock, !.stale = stale])

\* quote_one is done with an id: get_prices goes on and leaves out what failed,
\* get_price answers.
Quoted(q, result) ==
    IF q.kind = "price" THEN Answer(q, result)
    ELSE IF Len(q.ids) = 1 THEN Answer(q, "ok")
    ELSE [q EXCEPT !.pc = "row", !.ids = Tail(@)]

\* quote_one: the token's row, then its price in the current snapshot.
QuoteRow(r) ==
    LET q == req[r]
    IN  /\ q.pc = "row"
        /\ \/ Step(r, Quoted(q, "internal"))
           \/ row[Head(q.ids)] = "none" /\ Step(r, Quoted(q, "unknown_faucet"))
           \/ row[Head(q.ids)] # "none" /\ Step(r, [q EXCEPT !.pc = "price"])

QuotePrice(r) ==
    LET q == req[r]
        id == Head(q.ids)
    IN  /\ q.pc = "price"
        /\ \/ id \notin DOMAIN snapshot.usd /\ Step(r, Quoted(q, "no_price"))
           \/ id \in DOMAIN snapshot.usd /\ Step(r, Quoted([q EXCEPT !.got = @ \cup {<<id, snapshot.poll>>}], "ok"))

\* get_swap_eta: the two rows,
SwapRow(r) ==
    LET q == req[r]
        id == q.ids[Len(q.dec) + 1]
    IN  /\ q.pc = "rows"
        /\ \/ Step(r, Answer(q, "internal"))
           \/ row[id] = "none" /\ Step(r, Answer(q, "unknown_faucet"))
           \/ /\ row[id] # "none"
              /\ Step(r, [q EXCEPT !.dec = Append(@, IF row[id] = "dec" THEN {Decimals[id]} ELSE {}),
                                   !.pc = IF Len(q.dec) = 1 THEN "book" ELSE "rows"])

\* the opposite side of the book,
SwapBook(r) ==
    /\ req[r].pc = "book"
    /\ Step(r, [req[r] EXCEPT !.pc = "asof", !.canFill = eval_can_fill(req[r].order, best[req[r].ids[2]])])

\* both prices under one borrow, with the oracle's verdict,
SwapPrices(r) ==
    LET q == req[r]
        usd(i) == {snapshot.usd[t] : t \in {q.ids[i]} \cap DOMAIN snapshot.usd}
    IN  /\ q.pc = "prices"
        /\ Step(r, [q EXCEPT !.pc = "median",
                             !.got = {<<t, snapshot.poll>> : t \in ToSet(q.ids) \cap DOMAIN snapshot.usd},
                             !.off = eval_off_market(q.order, q.dec[1], usd(1), q.dec[2], usd(2), TolBps, ProductMax)])

\* and the median of the pair.
SwapMedian(r) ==
    /\ req[r].pc = "median"
    /\ Step(r, [Answer(req[r], "ok") EXCEPT !.median = median_secs(stats[req[r].ids[1]], clock, Window)])

Handler(r) ==
    \/ Admit(r) \/ Shed(r) \/ Malformed(r) \/ Parse(r) \/ LoadAsOf(r) \/ Judge(r)
    \/ QuoteRow(r) \/ QuotePrice(r) \/ SwapRow(r) \/ SwapBook(r) \/ SwapPrices(r) \/ SwapMedian(r)

-----------------------------------------------------------------------------
Next ==
    \/ Tick \/ FeedPolls \/ FetchOk \/ FetchFails \/ FeedPublishes \/ FeedStamps
    \/ MatcherPublishes \/ Settle
    \/ \E t \in Tokens : RowChanges(t)
    \/ \E r \in Requests : Handler(r)

Spec == Init /\ [][Next]_vars

-----------------------------------------------------------------------------
(* Properties.                                                             *)

Pcs == {"new", "parse", "asof", "judge", "row", "price", "rows", "book", "prices", "median", "done"}

\* Every variable keeps its type, and the permits and the window their bounds.
TypeOK ==
    /\ clock \in Boot..(Boot + scenario.seconds) /\ lastUpdate \in 0..clock
    /\ feed.pc \in {"idle", "fetching", "publish", "stamp"} /\ feed.poll \in 0..scenario.polls
    /\ snapshot.poll \in 0..feed.poll
    /\ row \in [Tokens -> {"none", "nodec", "dec"}]
    /\ \A t \in Tokens : Len(stats[t]) <= Cap
    /\ permits \in 0..MaxInflight
    /\ \A r \in Requests : req[r].pc \in Pcs /\ req[r].asOf \in -1..clock

\* as_of is honest: every price in an answer comes from the poll whose time the
\* answer carries as as_of or from a later one, although quote_one borrows the
\* snapshot long after staleness loaded the time, and once per id.  A price given
\* as fresh, or used for an oracle verdict of swap-eta, is no older than a poll
\* stamped within the staleness bound: failed polls, a feed that stopped and the
\* empty snapshot at the start are all noticed.
AsOfHonest ==
    \A r \in Requests : \A g \in req[r].got :
        /\ \E k \in DOMAIN stamps : k <= g[2] /\ stamps[k] = req[r].asOf
        /\ req[r].stale \/ \E k \in DOMAIN stamps \ {0} :
                               k <= g[2] /\ stamps[k] + Staleness >= req[r].judgedAt

\* Two wallets whose orders would cross are never both told by swap-eta that they
\* are off-market when the same poll priced them: rounding to cents, the scaling
\* by decimals and the tolerance cannot put both on the wrong side.
CrossedNotBothOff ==
    \A r, s \in Requests :
        (/\ req[r].kind = "swap" /\ req[s].kind = "swap" /\ req[r].ids = Reverse(req[s].ids)
         /\ req[r].got = req[s].got /\ is_profitable_with(req[r].order, req[s].order))
            => ~(req[r].off = {TRUE} /\ req[s].off = {TRUE})

\* The k-th smallest of the samples I of the history, by counting.
Nth(I, k) ==
    CHOOSE v \in {settled[i].secs : i \in I} :
        /\ Cardinality({i \in I : settled[i].secs < v}) < k
        /\ Cardinality({i \in I : settled[i].secs <= v}) >= k

\* The pair's last Cap settlements of the last Window seconds.
Recent(t) ==
    LET fresh == {i \in DOMAIN settled : settled[i].pair = t /\ settled[i].at + Window >= clock}
    IN  {i \in fresh : Cardinality({j \in fresh : j >= i}) <= Cap}

\* Whenever swap-eta asks, the median it gets is that of the pair's settlements of
\* the window, or of the most recent ones at the cap: pruning when a settlement is
\* recorded, the cap and the filter when the median is read agree, as long as the
\* wall clock does not step back (record looks at the front only).  The samples,
\* like every variable, keep their bounds.
MedianExact ==
    /\ TypeOK
    /\ \A t \in Tokens :
         LET I == Recent(t)
             n == Cardinality(I)
         IN  median_secs(stats[t], clock, Window)
               = IF n = 0 THEN {} ELSE {(Nth(I, (n + 1) \div 2) + Nth(I, n \div 2 + 1)) \div 2}

\* concurrency_guard sheds a request only while MaxInflight others are being
\* answered: no answer, error or not, keeps its permit.
ShedOnlyAtCapacity ==
    [][\A r \in Requests :
        (req[r].pc = "new" /\ req'[r].answer = "overloaded")
            => Cardinality({s \in Requests : req[s].pc \notin {"new", "done"}}) = MaxInflight]_vars

=============================================================================
