---------------------------- MODULE PriceApiProofs ----------------------------
(***************************************************************************)
(* Proofs about the price-query API, for any requests, polls, prices,      *)
(* clock and number of permits.                                            *)
(***************************************************************************)
EXTENDS PriceApi, OrderMathProofs, FiniteSetTheorems, SequenceTheorems

Fields ==
    {"pc", "kind", "ids", "allow", "order", "asOf", "stale", "judgedAt", "got", "dec",
     "canFill", "off", "median", "answer"}
IsReq(q) == DOMAIN q = Fields /\ q = [f \in Fields |-> q[f]]

-----------------------------------------------------------------------------
(* The feed: a poll is published before it is stamped, so the stamps never  *)
(* run ahead of the snapshot.                                               *)

Stamped == IF feed.pc \in {"publish", "stamp"} THEN feed.poll - 1 ELSE feed.poll
Published == IF feed.pc = "publish" THEN feed.poll - 1 ELSE feed.poll
PricesIn(usd) == \A t \in DOMAIN usd : usd[t] \in Nat

FeedInv ==
    /\ scenario \in Scenarios /\ clock \in Nat /\ Boot <= clock
    /\ feed = [pc |-> feed.pc, poll |-> feed.poll, list |-> feed.list, usd |-> feed.usd]
    /\ feed.pc \in {"idle", "fetching", "publish", "stamp"} /\ feed.poll \in Nat
    /\ feed.pc \in {"publish", "stamp"} => feed.poll > 0
    /\ snapshot.poll = Published
    /\ DOMAIN stamps = 0..Stamped /\ stamps[0] = 0 /\ \A k \in 0..Stamped : stamps[k] \in Nat
    /\ lastUpdate = stamps[Stamped]
    /\ PricesIn(feed.usd) /\ PricesIn(snapshot.usd)

\* The history of the stamps only grows, and its last poll is published.
Grows == \A k \in DOMAIN stamps : k \in DOMAIN stamps' /\ stamps'[k] = stamps[k]

\* The stamped polls are published ones.
LEMMA StampsArePublished ==
    ASSUME FeedInv
    PROVE  /\ Stamped \in Nat /\ Published \in Nat /\ Stamped <= Published
           /\ \A k \in DOMAIN stamps : k \in Nat /\ k <= snapshot.poll /\ stamps[k] \in Nat
           /\ lastUpdate \in Nat /\ \E k \in DOMAIN stamps : stamps[k] = lastUpdate
<1>1. Stamped \in Nat /\ Published \in Nat /\ Stamped <= Published
  BY DEF FeedInv, Stamped, Published
<1>2. DOMAIN stamps = 0..Stamped /\ snapshot.poll = Published /\ Stamped \in DOMAIN stamps
  BY <1>1 DEF FeedInv
<1> QED
  BY <1>1, <1>2 DEF FeedInv

\* The steps of everyone but the feed leave it as it is.
LEMMA FeedSame ==
    ASSUME FeedInv, UNCHANGED <<scenario, feed, snapshot, lastUpdate, stamps>>, clock' \in Nat, Boot <= clock'
    PROVE  FeedInv' /\ Grows
<1>1. Stamped' = Stamped /\ Published' = Published
  BY DEF Stamped, Published
<1> QED
  BY <1>1 DEF FeedInv, Grows, PricesIn

\* What a step makes of the feed.
LEMMA FeedStep ==
    ASSUME FeedInv, Next
    PROVE  FeedInv' /\ Grows /\ scenario' = scenario
<1> USE DEF FeedInv
<1>0. Boot \in Nat
  BY ApiAssumption DEF Boot
<1>1. CASE Tick
  BY <1>0, <1>1, FeedSame DEF Tick
<1>2. CASE MatcherPublishes
  BY <1>2, FeedSame DEF MatcherPublishes
<1>3. CASE Settle
  BY <1>3, FeedSame, Zenon DEF Settle
<1>4. ASSUME NEW t \in Tokens, RowChanges(t) PROVE FeedInv' /\ Grows /\ scenario' = scenario
  BY <1>4, FeedSame DEF RowChanges
<1>5. ASSUME NEW r \in Requests, Handler(r) PROVE FeedInv' /\ Grows /\ scenario' = scenario
  <2>1. UNCHANGED apiOnly
    BY <1>5, Zenon DEF Handler, Admit, Shed, Malformed, Parse, LoadAsOf, Judge, QuoteRow, QuotePrice, SwapRow, SwapBook,
                SwapPrices, SwapMedian, Step
  <2> QED
    BY <2>1, FeedSame DEF apiOnly
<1>6. CASE FeedPolls
  <2>1. feed'.pc = "fetching" /\ feed'.poll = feed.poll /\ feed'.usd = feed.usd
        /\ feed' = [pc |-> feed'.pc, poll |-> feed'.poll, list |-> feed'.list, usd |-> feed'.usd]
    BY <1>6, Zenon DEF FeedPolls
  <2>2. Stamped' = Stamped /\ Published' = Published
    BY <1>6, <2>1 DEF FeedPolls, Stamped, Published
  <2> QED
    BY <1>6, <2>1, <2>2 DEF FeedPolls, feedOnly, Grows, PricesIn
<1>7. CASE FetchOk
  <2>0. PICK priced \in SUBSET feed.list : \E usd \in [priced -> scenario.usd] :
          feed' = [feed EXCEPT !.pc = "publish", !.poll = @ + 1, !.usd = usd]
    BY <1>7, Zenon DEF FetchOk
  <2>1. PICK usd \in [priced -> scenario.usd] :
          feed' = [feed EXCEPT !.pc = "publish", !.poll = @ + 1, !.usd = usd]
    BY <2>0, Zenon
  <2>2. feed'.pc = "publish" /\ feed'.poll = feed.poll + 1 /\ feed'.usd = usd
        /\ feed' = [pc |-> feed'.pc, poll |-> feed'.poll, list |-> feed'.list, usd |-> feed'.usd]
    BY <2>1, Zenon
  <2>3. feed.pc = "fetching" /\ UNCHANGED <<scenario, clock, snapshot, lastUpdate, stamps>>
    BY <1>7 DEF FetchOk, feedOnly
  <2>4. Stamped' = Stamped /\ Published' = Published
    BY <2>2, <2>3 DEF Stamped, Published
  <2>5. PricesIn(usd)
    BY ScenarioAssumption DEF PricesIn
  <2> QED
    BY <2>2, <2>3, <2>4, <2>5 DEF Grows, PricesIn
<1>8. CASE FetchFails
  <2>1. feed'.pc = "idle" /\ feed'.poll = feed.poll /\ feed'.usd = feed.usd
        /\ feed' = [pc |-> feed'.pc, poll |-> feed'.poll, list |-> feed'.list, usd |-> feed'.usd]
    BY <1>8 DEF FetchFails
  <2>2. Stamped' = Stamped /\ Published' = Published
    BY <1>8, <2>1 DEF FetchFails, Stamped, Published
  <2> QED
    BY <1>8, <2>1, <2>2 DEF FetchFails, feedOnly, Grows, PricesIn
<1>9. CASE FeedPublishes
  <2>1. feed'.pc = "stamp" /\ feed'.poll = feed.poll /\ feed'.usd = feed.usd
        /\ feed' = [pc |-> feed'.pc, poll |-> feed'.poll, list |-> feed'.list, usd |-> feed'.usd]
    BY <1>9 DEF FeedPublishes
  <2>2. Stamped' = Stamped /\ Published' = feed.poll
    BY <1>9, <2>1 DEF FeedPublishes, Stamped, Published
  <2>3. snapshot'.poll = feed.poll /\ snapshot'.usd = feed.usd
    BY <1>9 DEF FeedPublishes
  <2> QED
    BY <1>9, <2>1, <2>2, <2>3 DEF FeedPublishes, feedOnly, Grows, PricesIn
<1>10. CASE FeedStamps
  <2>1. feed'.pc = "idle" /\ feed'.poll = feed.poll /\ feed'.usd = feed.usd /\ feed.pc = "stamp" /\ feed.poll > 0
        /\ feed' = [pc |-> feed'.pc, poll |-> feed'.poll, list |-> feed'.list, usd |-> feed'.usd]
    BY <1>10 DEF FeedStamps
  <2>2. Stamped' = feed.poll /\ Stamped = feed.poll - 1 /\ Published' = feed.poll /\ Published = feed.poll
    BY <2>1 DEF Stamped, Published
  <2>3. DOMAIN stamps' = 0..feed.poll /\ stamps'[feed.poll] = clock /\ lastUpdate' = clock
        /\ \A k \in 0..(feed.poll - 1) : stamps'[k] = stamps[k]
    BY <1>10, <2>1 DEF FeedStamps
  <2>4. \A k \in 0..Stamped' : stamps'[k] \in Nat
    BY <2>1, <2>2, <2>3
  <2>5. Grows /\ stamps'[0] = 0
    BY <2>1, <2>2, <2>3 DEF Grows
  <2> QED
    BY <1>10, <2>1, <2>2, <2>3, <2>4, <2>5, Zenon DEF FeedStamps, feedOnly, PricesIn
<1> QED
  BY <1>1, <1>2, <1>3, <1>4, <1>5, <1>6, <1>7, <1>8, <1>9, <1>10, Zenon DEF Next

-----------------------------------------------------------------------------
(* A request.                                                               *)

\* What a price in the answer rests on: the stamped poll of as_of, and unless it
\* is given as stale one within the bound when the staleness was judged.
Backed(q, g, st) ==
    /\ \E k \in DOMAIN st : k <= g[2] /\ st[k] = q.asOf
    /\ q.stale = TRUE \/ \E k \in DOMAIN st \ {0} : k <= g[2] /\ st[k] + Staleness >= q.judgedAt

Honest(q, st) ==
    /\ q.asOf \in Int /\ q.judgedAt \in Int /\ q.stale \in BOOLEAN
    /\ q.pc \in {"new", "parse", "rows", "book", "asof", "judge"} => q.got = {}
    /\ q.pc \in {"judge", "row", "price", "prices"} => \E k \in DOMAIN st : st[k] = q.asOf
    /\ q.pc \in {"row", "price", "prices"} =>
           q.stale = TRUE \/ \E k \in DOMAIN st \ {0} : st[k] + Staleness >= q.judgedAt
    /\ \A g \in q.got : Backed(q, g, st)

\* The value of a unit of a, on a scale it shares with b, at the prices u.
Worth(u, a, b) == to_cents(u[a]) * 10^(Decimals[b] - Min2(Decimals[a], Decimals[b]))

\* The request was found off-market at the prices u of poll k.
JudgedBy(q, u, k) ==
    LET a == q.ids[1]
        b == q.ids[2]
    IN  /\ q.got = {<<a, k>>, <<b, k>>}
        /\ Worth(u, a, b) \in Positive /\ Worth(u, b, a) \in Positive
        /\ OffMarketUsd(q.order, Worth(u, a, b), Worth(u, b, a), TolBps)

\* U says what each published poll was.
SwapReq(q, asked, U) ==
    /\ q.kind = asked.kind /\ q.order \in Terms
    /\ q.pc \in {"rows", "book", "prices", "median"} => q.kind = "swap"
    /\ q.kind = "swap" =>
         /\ q.ids = asked.ids /\ q.pc \notin {"row", "price"}
         /\ q.dec \in Seq(SUBSET Nat) /\ \A i \in DOMAIN q.dec : q.dec[i] \subseteq {Decimals[q.ids[i]]}
         /\ q.pc \in {"new", "parse"} => Len(q.dec) = 0
         /\ q.pc = "rows" => Len(q.dec) \in 0..1
         /\ q.pc \in {"book", "asof", "judge", "prices"} => Len(q.dec) = 2
         /\ q.pc \notin {"median", "done"} => q.off = {}
         /\ q.off = {TRUE} => \E k \in DOMAIN U : JudgedBy(q, U[k], k)

Good(q, r, U) == IsReq(q) /\ Honest(q, stamps) /\ SwapReq(q, scenario.requests[r], U)

\* An answer changes nothing of what it rests on.
LEMMA Answered ==
    ASSUME NEW q, NEW r, NEW U, Good(q, r, U), NEW a, NEW e, e = Answer(q, a)
    PROVE  Good(e, r, U) /\ e.pc = "done" /\ e.answer = a
<1>1. IsReq(e) /\ e.pc = "done" /\ e.answer = a
  BY Zenon DEF Good, IsReq, Fields, Answer
<1>2. /\ e.kind = q.kind /\ e.ids = q.ids /\ e.order = q.order /\ e.asOf = q.asOf /\ e.stale = q.stale
      /\ e.judgedAt = q.judgedAt /\ e.got = q.got /\ e.dec = q.dec /\ e.off = q.off
  BY DEF Good, IsReq, Fields, Answer
<1>3. Honest(e, stamps)
  BY <1>1, <1>2 DEF Good, Honest, Backed
<1>4. SwapReq(e, scenario.requests[r], U)
  BY <1>1, <1>2, Zenon DEF Good, SwapReq, JudgedBy
<1> QED
  BY <1>1, <1>3, <1>4 DEF Good

\* quote_one is done with an id.
LEMMA QuotedIs ==
    ASSUME NEW q, NEW r, NEW U, Good(q, r, U), q.pc \in {"row", "price"}, NEW x, NEW e, e = Quoted(q, x)
    PROVE  Good(e, r, U) /\ e.pc \in {"row", "done"}
<1>1. CASE e = Answer(q, x) \/ e = Answer(q, "ok")
  BY <1>1, Answered
<1>2. CASE e = [q EXCEPT !.pc = "row", !.ids = Tail(@)]
  <2>1. IsReq(e) /\ e.pc = "row"
    BY <1>2, Zenon DEF Good, IsReq, Fields
  <2>2. /\ e.kind = q.kind /\ e.order = q.order /\ e.asOf = q.asOf /\ e.stale = q.stale
        /\ e.judgedAt = q.judgedAt /\ e.got = q.got
    BY <1>2, Zenon DEF Good, IsReq, Fields
  <2>3. Honest(e, stamps)
    BY <2>1, <2>2 DEF Good, Honest, Backed
  <2>4. SwapReq(e, scenario.requests[r], U)
    BY <2>1, <2>2, Zenon DEF Good, SwapReq
  <2> QED
    BY <2>1, <2>3, <2>4 DEF Good
<1> QED
  BY <1>1, <1>2 DEF Quoted

\* quote_one borrows the snapshot: no stamped poll is newer than it.
LEMMA PriceTaken ==
    ASSUME FeedInv, NEW q, NEW r, NEW U, Good(q, r, U), q.pc = "price", NEW id,
           NEW e, e = [q EXCEPT !.got = @ \cup {<<id, snapshot.poll>>}]
    PROVE  Good(e, r, U) /\ e.pc = "price"
<1>1. IsReq(e) /\ e.pc = "price" /\ e.got = q.got \cup {<<id, snapshot.poll>>}
  BY DEF Good, IsReq, Fields
<1>2. /\ e.kind = q.kind /\ e.order = q.order /\ e.asOf = q.asOf /\ e.stale = q.stale /\ e.judgedAt = q.judgedAt
  BY DEF Good, IsReq, Fields
<1>3. \A k \in DOMAIN stamps : k <= snapshot.poll
  BY StampsArePublished
<1>4. \A g \in q.got : Backed(e, g, stamps)
  BY <1>2 DEF Good, Honest, Backed
<1>5. Backed(e, <<id, snapshot.poll>>, stamps)
  BY <1>2, <1>3 DEF Good, Honest, Backed
<1>6. Honest(e, stamps)
  BY <1>1, <1>2, <1>4, <1>5 DEF Good, Honest
<1>7. SwapReq(e, scenario.requests[r], U)
  BY <1>1, <1>2, Zenon DEF Good, SwapReq
<1> QED
  BY <1>1, <1>6, <1>7 DEF Good

\* A verdict is about two known decimals and two prices.
LEMMA VerdictIs ==
    ASSUME NEW a \in Tokens, NEW b \in Tokens, NEW o \in Terms, NEW u, PricesIn(u),
           NEW da, da \subseteq {Decimals[a]}, NEW db, db \subseteq {Decimals[b]},
           TRUE \in eval_off_market(o, da, {u[t] : t \in {a} \cap DOMAIN u},
                                    db, {u[t] : t \in {b} \cap DOMAIN u}, TolBps, ProductMax)
    PROVE  /\ a \in DOMAIN u /\ b \in DOMAIN u
           /\ Worth(u, a, b) \in Positive /\ Worth(u, b, a) \in Positive
           /\ OffMarketUsd(o, Worth(u, a, b), Worth(u, b, a), TolBps)
<1> DEFINE ua == {u[t] : t \in {a} \cap DOMAIN u}
           ub == {u[t] : t \in {b} \cap DOMAIN u}
<1>1. PICK x \in da \X db \X ua \X ub :
        LET w == UnitValues(x) IN w[1] > 0 /\ w[2] > 0 /\ OffMarketUsd(o, w[1], w[2], TolBps)
  <2>1. TRUE \in {OffMarketUsd(o, w[1], w[2], TolBps) :
                    w \in {v \in {UnitValues(y) : y \in da \X db \X ua \X ub} : Comparable(o, v, TolBps, ProductMax)}}
    BY Zenon DEF eval_off_market
  <2> HIDE DEF ua, ub
  <2>2. PICK w \in {v \in {UnitValues(y) : y \in da \X db \X ua \X ub} : Comparable(o, v, TolBps, ProductMax)} :
          TRUE = OffMarketUsd(o, w[1], w[2], TolBps)
    BY <2>1, Zenon
  <2>3. PICK y \in da \X db \X ua \X ub : w = UnitValues(y)
    BY <2>2
  <2>4. Comparable(o, w, TolBps, ProductMax) /\ OffMarketUsd(o, w[1], w[2], TolBps)
    BY <2>2, Zenon
  <2> QED
    BY <2>3, <2>4 DEF Comparable
<1>2. x[1] = Decimals[a] /\ x[2] = Decimals[b] /\ x[3] = u[a] /\ x[4] = u[b] /\ a \in DOMAIN u /\ b \in DOMAIN u
  BY <1>1
<1>3. Decimals[a] \in Nat /\ Decimals[b] \in Nat /\ u[a] \in Nat /\ u[b] \in Nat
  BY <1>2, ApiAssumption DEF PricesIn
<1>4. Min2(Decimals[a], Decimals[b]) = Min2(Decimals[b], Decimals[a])
  BY <1>3 DEF Min2
<1>5. UnitValues(x) = <<Worth(u, a, b), Worth(u, b, a)>>
  BY <1>2, <1>4 DEF Worth, UnitValues
<1>6. Worth(u, a, b) \in Int /\ Worth(u, b, a) \in Int
  <2>1. to_cents(u[a]) \in Int /\ to_cents(u[b]) \in Int
    BY <1>3 DEF to_cents
  <2>2. Decimals[b] - Min2(Decimals[a], Decimals[b]) \in Nat /\ Decimals[a] - Min2(Decimals[b], Decimals[a]) \in Nat
    BY <1>3 DEF Min2
  <2>3. 10^(Decimals[b] - Min2(Decimals[a], Decimals[b])) \in Int /\ 10^(Decimals[a] - Min2(Decimals[b], Decimals[a])) \in Int
    BY <2>2
  <2> QED
    BY <2>1, <2>3 DEF Worth
<1> QED
  BY <1>1, <1>2, <1>5, <1>6 DEF Positive

\* What the polls published so far were.
PublishedAs(U) ==
    /\ DOMAIN U = 0..snapshot.poll /\ U[snapshot.poll] = snapshot.usd
    /\ \A k \in DOMAIN U : PricesIn(U[k])

\* What a handler's step makes of its request and of the permits.
Handled(r, e) ==
    /\ req' = [req EXCEPT ![r] = e] /\ UNCHANGED apiOnly
    /\ e.pc # "new"
    /\ \/ req[r].pc = "new" /\ e.pc = "parse" /\ permits > 0 /\ permits' = permits - 1 /\ e.answer = req[r].answer
       \/ req[r].pc = "new" /\ e.pc = "done" /\ permits = 0 /\ permits' = 0
       \/ req[r].pc \notin {"new", "done"} /\ e.pc # "done" /\ permits' = permits
       \/ req[r].pc \notin {"new", "done"} /\ e.pc = "done" /\ permits' = permits + 1

\* A step of a running handler.
LEMMA StepIs ==
    ASSUME NEW r, NEW e, Step(r, e), req[r].pc \notin {"new", "done"}, e.pc # "new"
    PROVE  Handled(r, e)
BY DEF Step, Handled

\* The guard lets a request in.
LEMMA AdmitIs ==
    ASSUME NEW U, NEW r, scenario \in Scenarios, req = [s \in Requests |-> req[s]], r \in Requests,
           Good(req[r], r, U), Admit(r)
    PROVE  \E e : Handled(r, e) /\ Good(e, r, U)
<1> DEFINE q == req[r]
<1>1. PICK allow \in scenario.allow, o \in scenario.amounts, n \in scenario.amounts :
        req' = [req EXCEPT ![r].pc = "parse", ![r].allow = allow, ![r].order = [offered |-> o, requested |-> n]]
  BY Zenon DEF Admit
<1>2. PICK e : e = [q EXCEPT !.pc = "parse", !.allow = allow, !.order = [offered |-> o, requested |-> n]]
  OBVIOUS
<1>3. req' = [req EXCEPT ![r] = e]
  BY <1>1, <1>2, Zenon
<1>4. IsReq(e) /\ e.pc = "parse" /\ e.order = [offered |-> o, requested |-> n]
  BY <1>2, Zenon DEF Good, IsReq, Fields
<1>5. /\ e.kind = q.kind /\ e.ids = q.ids /\ e.asOf = q.asOf /\ e.stale = q.stale /\ e.answer = q.answer
      /\ e.judgedAt = q.judgedAt /\ e.got = q.got /\ e.dec = q.dec /\ e.off = q.off
  BY <1>2 DEF Good, IsReq, Fields
<1>6. q.pc = "new" /\ permits > 0 /\ permits' = permits - 1 /\ UNCHANGED apiOnly
  BY DEF Admit
<1>7. e.order \in Terms
  BY <1>1, <1>4, ScenarioAssumption DEF Terms, Positive
<1>8. Honest(e, stamps)
  BY <1>4, <1>5, <1>6 DEF Good, Honest
<1>9. SwapReq(e, scenario.requests[r], U)
  BY <1>4, <1>5, <1>6, <1>7, Zenon DEF Good, SwapReq
<1>10. Handled(r, e)
  BY <1>3, <1>4, <1>5, <1>6 DEF Handled
<1> QED
  BY <1>4, <1>8, <1>9, <1>10 DEF Good

\* The guard sheds a request.
LEMMA ShedIs ==
    ASSUME NEW U, NEW r, Good(req[r], r, U), Shed(r)
    PROVE  \E e : Handled(r, e) /\ Good(e, r, U)
<1>1. PICK e : e = Answer(req[r], "overloaded")
  OBVIOUS
<1>2. Good(e, r, U) /\ e.pc = "done"
  BY <1>1, Answered
<1>3. req' = [req EXCEPT ![r] = e]
  BY <1>1 DEF Shed
<1> QED
  BY <1>2, <1>3, Zenon DEF Shed, Handled

\* A request that does not parse, and one that does.
LEMMA ParseIs ==
    ASSUME NEW U, NEW r, Good(req[r], r, U), Malformed(r) \/ Parse(r)
    PROVE  \E e : Handled(r, e) /\ Good(e, r, U)
<1> DEFINE q == req[r]
<1>0. q.pc = "parse"
  BY DEF Malformed, Parse
<1>1. PICK e : /\ Step(r, e)
               /\ \/ \E a \in {"bad_request", "batch_too_large"} : e = Answer(q, a)
                  \/ e = [q EXCEPT !.pc = IF q.kind = "swap" THEN "rows" ELSE "asof"]
  BY DEF Malformed, Parse
<1>2. CASE \E a \in {"bad_request", "batch_too_large"} : e = Answer(q, a)
  BY <1>0, <1>1, <1>2, Answered, StepIs
<1>3. CASE e = [q EXCEPT !.pc = IF q.kind = "swap" THEN "rows" ELSE "asof"]
  <2>1. IsReq(e) /\ e.pc = IF q.kind = "swap" THEN "rows" ELSE "asof"
    BY <1>3 DEF Good, IsReq, Fields
  <2>2. /\ e.kind = q.kind /\ e.ids = q.ids /\ e.order = q.order /\ e.asOf = q.asOf /\ e.stale = q.stale
        /\ e.judgedAt = q.judgedAt /\ e.got = q.got /\ e.dec = q.dec /\ e.off = q.off
    BY <1>3 DEF Good, IsReq, Fields
  <2>3. Honest(e, stamps)
    BY <1>0, <2>1, <2>2 DEF Good, Honest
  <2>4. SwapReq(e, scenario.requests[r], U)
    <3>1. CASE q.kind = "swap"
      <4>1. e.pc = "rows" /\ q.off = {} /\ Len(q.dec) = 0
        BY <1>0, <2>1, <3>1 DEF Good, SwapReq
      <4>2. e.off # {TRUE} /\ Len(e.dec) \in 0..1 /\ e.off = {}
        BY <2>2, <4>1
      <4>3. e.ids = scenario.requests[r].ids /\ e.dec \in Seq(SUBSET Nat)
            /\ \A i \in DOMAIN e.dec : e.dec[i] \subseteq {Decimals[e.ids[i]]}
        BY <2>2, <3>1 DEF Good, SwapReq
      <4>4. e.kind = scenario.requests[r].kind /\ e.order \in Terms
        BY <2>2 DEF Good, SwapReq
      <4>5. e.kind = "swap"
        BY <2>2, <3>1
      <4> QED
        BY <4>1, <4>2, <4>3, <4>4, <4>5, Zenon DEF SwapReq
    <3>2. CASE q.kind # "swap"
      BY <2>1, <2>2, <3>2, Zenon DEF Good, SwapReq
    <3> QED
      BY <3>1, <3>2
  <2>5. Handled(r, e)
    BY <1>0, <1>1, <2>1, StepIs, Zenon
  <2> QED
    BY <2>1, <2>3, <2>4, <2>5, Zenon DEF Good
<1> QED
  BY <1>1, <1>2, <1>3

\* staleness loads the time of the last update.
LEMMA LoadIs ==
    ASSUME FeedInv, NEW U, NEW r, Good(req[r], r, U), LoadAsOf(r)
    PROVE  \E e : Handled(r, e) /\ Good(e, r, U)
<1> DEFINE q == req[r]
<1>1. PICK e : Step(r, e) /\ e = [q EXCEPT !.pc = "judge", !.asOf = lastUpdate]
  BY DEF LoadAsOf
<1>2. IsReq(e) /\ e.pc = "judge" /\ e.asOf = lastUpdate
  BY <1>1, Zenon DEF Good, IsReq, Fields
<1>3. /\ e.kind = q.kind /\ e.ids = q.ids /\ e.order = q.order /\ e.stale = q.stale
      /\ e.judgedAt = q.judgedAt /\ e.got = q.got /\ e.dec = q.dec /\ e.off = q.off
  BY <1>1 DEF Good, IsReq, Fields
<1>4. q.pc = "asof"
  BY DEF LoadAsOf
<1>5. Honest(e, stamps)
  BY <1>2, <1>3, <1>4, StampsArePublished DEF Good, Honest
<1>6. SwapReq(e, scenario.requests[r], U)
  BY <1>2, <1>3, <1>4, Zenon DEF Good, SwapReq
<1>7. Handled(r, e)
  BY <1>1, <1>2, <1>4, StepIs, Zenon
<1> QED
  BY <1>2, <1>5, <1>6, <1>7 DEF Good

\* The staleness is judged; nothing stamped before the first poll is fresh, since
\* the clock is past the bound at the start.
LEMMA JudgeIs ==
    ASSUME FeedInv, NEW U, NEW r, Good(req[r], r, U), Judge(r)
    PROVE  \E e : Handled(r, e) /\ Good(e, r, U)
<1> DEFINE q == req[r]
           stale == clock - q.asOf > Staleness
<1>0. q.pc = "judge" /\ q.got = {} /\ q.asOf \in Int /\ clock \in Nat /\ Staleness \in Nat
  BY ApiAssumption DEF Judge, Good, Honest, FeedInv
<1>1. PICK e : /\ Step(r, e)
               /\ \/ \E a \in {"stale", "ok"} : e = Answer(q, a)
                  \/ q.kind = "swap" /\ e = [q EXCEPT !.pc = IF stale THEN "median" ELSE "prices", !.judgedAt = clock]
                  \/ q.kind # "swap" /\ e = [q EXCEPT !.pc = "row", !.judgedAt = clock, !.stale = stale]
  BY Zenon DEF Judge
<1>2. ~stale => \E k \in DOMAIN stamps \ {0} : stamps[k] + Staleness >= clock
  <2> SUFFICES ASSUME ~stale PROVE \E k \in DOMAIN stamps \ {0} : stamps[k] + Staleness >= clock
    OBVIOUS
  <2>1. PICK k \in DOMAIN stamps : stamps[k] = q.asOf
    BY <1>0 DEF Good, Honest
  <2>2. q.asOf + Staleness >= clock
    BY <1>0
  <2>3. k # 0
    BY <1>0, <2>1 DEF FeedInv, Boot
  <2> QED
    BY <2>1, <2>2, <2>3
<1>3. CASE \E a \in {"stale", "ok"} : e = Answer(q, a)
  BY <1>0, <1>1, <1>3, Answered, StepIs
<1>4. CASE q.kind = "swap" /\ e = [q EXCEPT !.pc = IF stale THEN "median" ELSE "prices", !.judgedAt = clock]
  <2>1. IsReq(e) /\ e.pc = (IF stale THEN "median" ELSE "prices") /\ e.judgedAt = clock
    BY <1>4, Zenon DEF Good, IsReq, Fields
  <2>2. /\ e.kind = q.kind /\ e.ids = q.ids /\ e.order = q.order /\ e.asOf = q.asOf /\ e.stale = q.stale
        /\ e.got = q.got /\ e.dec = q.dec /\ e.off = q.off
    BY <1>4 DEF Good, IsReq, Fields
  <2>3. Honest(e, stamps)
    <3>1. /\ e.asOf \in Int /\ e.judgedAt \in Int /\ e.stale \in BOOLEAN /\ e.got = {}
          /\ \E k \in DOMAIN stamps : stamps[k] = e.asOf
      BY <1>0, <2>1, <2>2 DEF Good, Honest
    <3>2. e.pc \in {"row", "price", "prices"} => \E k \in DOMAIN stamps \ {0} : stamps[k] + Staleness >= e.judgedAt
      BY <1>2, <2>1
    <3> QED
      BY <3>1, <3>2 DEF Honest
  <2>4. SwapReq(e, scenario.requests[r], U)
    <3>1. e.pc \in {"median", "prices"} /\ q.off = {} /\ Len(q.dec) = 2
      BY <1>0, <1>4, <2>1 DEF Good, SwapReq
    <3> QED
      BY <1>4, <2>2, <3>1, Zenon DEF Good, SwapReq
  <2>5. Handled(r, e)
    BY <1>0, <1>1, <2>1, StepIs, Zenon
  <2> QED
    BY <2>1, <2>3, <2>4, <2>5 DEF Good
<1>5. CASE q.kind # "swap" /\ e = [q EXCEPT !.pc = "row", !.judgedAt = clock, !.stale = stale]
  <2>1. IsReq(e) /\ e.pc = "row" /\ e.judgedAt = clock /\ e.stale = stale
    BY <1>5, Zenon DEF Good, IsReq, Fields
  <2>2. e.kind = q.kind /\ e.order = q.order /\ e.asOf = q.asOf /\ e.got = q.got
    BY <1>5 DEF Good, IsReq, Fields
  <2>3. e.stale \in BOOLEAN /\ (e.stale = TRUE \/ ~stale)
    <3>1. CASE stale
      <4>1. stale = TRUE
        BY <3>1, Zenon
      <4>2. e.stale = TRUE
        BY <2>1, <4>1, Zenon
      <4> QED
        BY <4>2, Zenon
    <3>2. CASE ~stale
      <4>1. stale = FALSE
        BY <3>2, SMT
      <4>2. e.stale = FALSE
        BY <2>1, <4>1, Zenon
      <4> QED
        BY <3>2, <4>2, Zenon
    <3> QED
      BY <3>1, <3>2, Zenon
  <2>4. Honest(e, stamps)
    BY <1>0, <1>2, <2>1, <2>2, <2>3 DEF Good, Honest
  <2>5. SwapReq(e, scenario.requests[r], U)
    BY <1>5, <2>2 DEF Good, SwapReq
  <2>6. Handled(r, e)
    BY <1>0, <1>1, <2>1, StepIs
  <2> QED
    BY <2>1, <2>4, <2>5, <2>6 DEF Good
<1> QED
  BY <1>1, <1>3, <1>4, <1>5, Zenon

\* quote_one reads the row and then the snapshot.
LEMMA QuoteIs ==
    ASSUME FeedInv, NEW U, NEW r, Good(req[r], r, U), QuoteRow(r) \/ QuotePrice(r)
    PROVE  \E e : Handled(r, e) /\ Good(e, r, U)
<1> DEFINE q == req[r]
<1>0. q.pc \in {"row", "price"}
  BY DEF QuoteRow, QuotePrice
<1>1. PICK e : /\ Step(r, e)
               /\ \/ \E x \in {"internal", "unknown_faucet", "no_price"} : e = Quoted(q, x)
                  \/ q.pc = "row" /\ e = [q EXCEPT !.pc = "price"]
                  \/ q.pc = "price" /\ \E id : e = Quoted([q EXCEPT !.got = @ \cup {<<id, snapshot.poll>>}], "ok")
  BY Zenon DEF QuoteRow, QuotePrice
<1>2. CASE \E x \in {"internal", "unknown_faucet", "no_price"} : e = Quoted(q, x)
  <2>1. Good(e, r, U) /\ e.pc \in {"row", "done"}
    BY <1>0, <1>2, QuotedIs
  <2> QED
    BY <1>0, <1>1, <2>1, StepIs
<1>3. CASE q.pc = "row" /\ e = [q EXCEPT !.pc = "price"]
  <2>1. IsReq(e) /\ e.pc = "price"
    BY <1>3 DEF Good, IsReq, Fields
  <2>2. /\ e.kind = q.kind /\ e.order = q.order /\ e.asOf = q.asOf /\ e.stale = q.stale
        /\ e.judgedAt = q.judgedAt /\ e.got = q.got
    BY <1>3 DEF Good, IsReq, Fields
  <2>3. Honest(e, stamps)
    BY <1>3, <2>1, <2>2 DEF Good, Honest, Backed
  <2>4. SwapReq(e, scenario.requests[r], U)
    BY <1>3, <2>1, <2>2 DEF Good, SwapReq
  <2>5. Handled(r, e)
    BY <1>0, <1>1, <2>1, StepIs, Zenon
  <2> QED
    BY <2>1, <2>3, <2>4, <2>5, Zenon DEF Good
<1>4. CASE q.pc = "price" /\ \E id : e = Quoted([q EXCEPT !.got = @ \cup {<<id, snapshot.poll>>}], "ok")
  <2>1. PICK id : e = Quoted([q EXCEPT !.got = @ \cup {<<id, snapshot.poll>>}], "ok")
    BY <1>4, Zenon
  <2>2. PICK p : p = [q EXCEPT !.got = @ \cup {<<id, snapshot.poll>>}]
    BY Zenon
  <2>3. Good(p, r, U) /\ p.pc = "price" /\ e = Quoted(p, "ok")
    BY <1>4, <2>1, <2>2, PriceTaken
  <2>4. Good(e, r, U) /\ e.pc \in {"row", "done"}
    BY <2>3, QuotedIs
  <2> QED
    BY <1>0, <1>1, <2>4, StepIs
<1> QED
  BY <1>1, <1>2, <1>3, <1>4

\* An order is about two tokens.
LEMMA SwapIds ==
    ASSUME FeedInv, NEW U, NEW r, r \in Requests, Good(req[r], r, U), req[r].kind = "swap"
    PROVE  req[r].ids \in Seq(Tokens) /\ Len(req[r].ids) = 2
<1>1. /\ scenario \in Scenarios /\ r \in DOMAIN scenario.requests /\ scenario.requests[r].kind = "swap"
      /\ req[r].ids = scenario.requests[r].ids
  BY DEF FeedInv, Requests, Good, SwapReq
<1>2. scenario.requests \in Seq([kind : {"price", "prices", "swap"}, ids : Seq(Tokens)])
  BY <1>1, ScenarioAssumption, Zenon
<1>3. Len(scenario.requests[r].ids) = 2
  BY <1>1, ScenarioAssumption
<1>4. scenario.requests[r] \in [kind : {"price", "prices", "swap"}, ids : Seq(Tokens)]
  <2>1. r \in 1..Len(scenario.requests)
    BY <1>1, <1>2
  <2> QED
    BY <1>2, <2>1, ElementOfSeq, Zenon
<1>5. scenario.requests[r].ids \in Seq(Tokens)
  BY <1>4
<1> QED
  BY <1>1, <1>3, <1>5

\* get_swap_eta reads a row,
LEMMA SwapRowIs ==
    ASSUME FeedInv, NEW U, NEW r, r \in Requests, Good(req[r], r, U), req[r].kind = "swap", SwapRow(r)
    PROVE  \E e : Handled(r, e) /\ Good(e, r, U)
<1> DEFINE q == req[r]
           id == q.ids[Len(q.dec) + 1]
           d == IF row[id] = "dec" THEN {Decimals[id]} ELSE {}
<1>0. q.pc = "rows" /\ q.dec \in Seq(SUBSET Nat) /\ Len(q.dec) \in 0..1 /\ q.off = {} /\ q.got = {}
      /\ \A i \in DOMAIN q.dec : q.dec[i] \subseteq {Decimals[q.ids[i]]}
  BY Zenon DEF SwapRow, Good, SwapReq, Honest
<1>1. PICK e : /\ Step(r, e)
               /\ \/ \E a \in {"internal", "unknown_faucet"} : e = Answer(q, a)
                  \/ e = [q EXCEPT !.dec = Append(@, d), !.pc = IF Len(q.dec) = 1 THEN "book" ELSE "rows"]
  BY DEF SwapRow
<1>2. CASE \E a \in {"internal", "unknown_faucet"} : e = Answer(q, a)
  BY <1>0, <1>1, <1>2, Answered, StepIs
<1>3. CASE e = [q EXCEPT !.dec = Append(@, d), !.pc = IF Len(q.dec) = 1 THEN "book" ELSE "rows"]
  <2>0. id \in Tokens /\ d \in SUBSET Nat /\ d \subseteq {Decimals[id]}
    <3>2. q.ids \in Seq(Tokens) /\ Len(q.ids) = 2
      BY SwapIds
    <3>3. id \in Tokens
      BY <1>0, <3>2
    <3> QED
      BY <3>3, ApiAssumption
  <2> HIDE DEF d
  <2>1. IsReq(e) /\ e.pc = (IF Len(q.dec) = 1 THEN "book" ELSE "rows") /\ e.dec = Append(q.dec, d)
    BY <1>3, Zenon DEF Good, IsReq, Fields
  <2>2. /\ e.kind = q.kind /\ e.ids = q.ids /\ e.order = q.order /\ e.asOf = q.asOf /\ e.stale = q.stale
        /\ e.judgedAt = q.judgedAt /\ e.got = q.got /\ e.off = q.off
    BY <1>3 DEF Good, IsReq, Fields
  <2>3. Honest(e, stamps)
    BY <1>0, <2>1, <2>2, Zenon DEF Good, Honest
  <2>4. e.dec \in Seq(SUBSET Nat) /\ Len(e.dec) = Len(q.dec) + 1
        /\ \A i \in DOMAIN e.dec : e.dec[i] \subseteq {Decimals[e.ids[i]]}
    <3> DEFINE k == Len(q.dec)
    <3>1. /\ Append(q.dec, d) \in Seq(SUBSET Nat) /\ Len(Append(q.dec, d)) = k + 1
          /\ \A i \in 1..k : Append(q.dec, d)[i] = q.dec[i]
          /\ Append(q.dec, d)[k + 1] = d
      BY <1>0, <2>0, AppendProperties
    <3>2. k \in Nat /\ DOMAIN q.dec = 1..k /\ DOMAIN e.dec = 1..(k + 1)
      BY <1>0, <2>1, <3>1
    <3>3. q.ids[k + 1] = id
      OBVIOUS
    <3> HIDE DEF k, id, q
    <3>4. ASSUME NEW i \in 1..(k + 1) PROVE e.dec[i] \subseteq {Decimals[e.ids[i]]}
      <4>1. CASE i = k + 1
        BY <2>0, <2>1, <2>2, <3>1, <3>3, <4>1
      <4>2. CASE i # k + 1
        <5>1. i \in 1..k
          BY <3>2, <4>2
        <5> QED
          BY <1>0, <2>1, <2>2, <3>1, <3>2, <5>1
      <4> QED
        BY <4>1, <4>2
    <3> QED
      BY <2>1, <3>1, <3>2, <3>4 DEF k
  <2>5. e.off = {} /\ e.off # {TRUE} /\ e.pc \in {"book", "rows"} /\ (e.pc = "rows" => Len(e.dec) \in 0..1)
        /\ (e.pc = "book" => Len(e.dec) = 2)
    BY <1>0, <2>1, <2>2, <2>4
  <2>6. e.kind = "swap" /\ e.kind = scenario.requests[r].kind /\ e.order \in Terms /\ e.ids = scenario.requests[r].ids
    BY <2>2 DEF Good, SwapReq
  <2>7. SwapReq(e, scenario.requests[r], U)
    BY <2>4, <2>5, <2>6, Zenon DEF SwapReq
  <2>8. Handled(r, e)
    BY <1>0, <1>1, <2>5, StepIs, Zenon
  <2> QED
    BY <2>1, <2>3, <2>7, <2>8, Zenon DEF Good
<1> QED
  BY <1>1, <1>2, <1>3, Zenon

\* the book,
LEMMA SwapBookIs ==
    ASSUME NEW U, NEW r, Good(req[r], r, U), SwapBook(r)
    PROVE  \E e : Handled(r, e) /\ Good(e, r, U)
<1> DEFINE q == req[r]
<1>1. PICK e : Step(r, e) /\ \E c : e = [q EXCEPT !.pc = "asof", !.canFill = c]
  BY Zenon DEF SwapBook
<1>2. IsReq(e) /\ e.pc = "asof"
  BY <1>1, Zenon DEF Good, IsReq, Fields
<1>3. /\ e.kind = q.kind /\ e.ids = q.ids /\ e.order = q.order /\ e.asOf = q.asOf /\ e.stale = q.stale
      /\ e.judgedAt = q.judgedAt /\ e.got = q.got /\ e.dec = q.dec /\ e.off = q.off
  BY <1>1 DEF Good, IsReq, Fields
<1>4. q.pc = "book"
  BY DEF SwapBook
<1>5. Honest(e, stamps)
  BY <1>2, <1>3, <1>4 DEF Good, Honest
<1>6. SwapReq(e, scenario.requests[r], U)
  BY <1>2, <1>3, <1>4, Zenon DEF Good, SwapReq
<1>7. Handled(r, e)
  BY <1>1, <1>2, <1>4, StepIs, Zenon
<1> QED
  BY <1>2, <1>5, <1>6, <1>7 DEF Good

\* and the median.
LEMMA SwapMedianIs ==
    ASSUME NEW U, NEW r, Good(req[r], r, U), SwapMedian(r)
    PROVE  \E e : Handled(r, e) /\ Good(e, r, U)
<1> DEFINE q == req[r]
<1>1. PICK e : Step(r, e) /\ \E m : e = [Answer(q, "ok") EXCEPT !.median = m]
  BY DEF SwapMedian
<1>2. PICK p : p = Answer(q, "ok")
  OBVIOUS
<1>3. Good(p, r, U) /\ p.pc = "done"
  BY <1>2, Answered
<1>4. \E m : e = [p EXCEPT !.median = m]
  BY <1>1, <1>2, Zenon
<1>5. IsReq(e) /\ e.pc = "done"
  BY <1>3, <1>4 DEF Good, IsReq, Fields
<1>6. /\ e.kind = p.kind /\ e.ids = p.ids /\ e.order = p.order /\ e.asOf = p.asOf /\ e.stale = p.stale
      /\ e.judgedAt = p.judgedAt /\ e.got = p.got /\ e.dec = p.dec /\ e.off = p.off
  BY <1>3, <1>4, Zenon DEF Good, IsReq, Fields
<1>7. Honest(e, stamps)
  BY <1>3, <1>5, <1>6 DEF Good, Honest, Backed
<1>8. SwapReq(e, scenario.requests[r], U)
  BY <1>3, <1>5, <1>6, Zenon DEF Good, SwapReq, JudgedBy
<1>9. q.pc = "median"
  BY DEF SwapMedian
<1>10. Handled(r, e)
  BY <1>1, <1>5, <1>9, StepIs, Zenon
<1> QED
  BY <1>5, <1>7, <1>8, <1>10 DEF Good

\* swap-eta takes both prices of one poll.
LEMMA SwapPricesIs ==
    ASSUME FeedInv, NEW U, PublishedAs(U), NEW r, r \in Requests, Good(req[r], r, U), req[r].kind = "swap", SwapPrices(r)
    PROVE  \E e : Handled(r, e) /\ Good(e, r, U)
<1> DEFINE q == req[r]
           u == snapshot.usd
           k == snapshot.poll
           a == q.ids[1]
           b == q.ids[2]
           G == {<<t, k>> : t \in ToSet(q.ids) \cap DOMAIN u}
           V == eval_off_market(q.order, q.dec[1], {u[t] : t \in {a} \cap DOMAIN u},
                                q.dec[2], {u[t] : t \in {b} \cap DOMAIN u}, TolBps, ProductMax)
<1>0. q.pc = "prices" /\ q.dec \in Seq(SUBSET Nat) /\ Len(q.dec) = 2 /\ q.order \in Terms
      /\ \A i \in DOMAIN q.dec : q.dec[i] \subseteq {Decimals[q.ids[i]]}
  BY DEF SwapPrices, Good, SwapReq
<1>1. PICK e : Step(r, e) /\ e = [q EXCEPT !.pc = "median", !.got = G, !.off = V]
  BY Zenon DEF SwapPrices
<1>2. q.ids \in Seq(Tokens) /\ Len(q.ids) = 2
  BY SwapIds
<1>3. a \in Tokens /\ b \in Tokens /\ ToSet(q.ids) = {a, b}
  BY <1>2 DEF ToSet
<1>4. q.dec[1] \subseteq {Decimals[a]} /\ q.dec[2] \subseteq {Decimals[b]}
  BY <1>0
<1>5. TRUE \in V => /\ a \in DOMAIN u /\ b \in DOMAIN u
                    /\ Worth(u, a, b) \in Positive /\ Worth(u, b, a) \in Positive
                    /\ OffMarketUsd(q.order, Worth(u, a, b), Worth(u, b, a), TolBps)
  <2> SUFFICES ASSUME TRUE \in V
               PROVE  /\ a \in DOMAIN u /\ b \in DOMAIN u
                      /\ Worth(u, a, b) \in Positive /\ Worth(u, b, a) \in Positive
                      /\ OffMarketUsd(q.order, Worth(u, a, b), Worth(u, b, a), TolBps)
    OBVIOUS
  <2>1. PricesIn(u)
    BY DEF FeedInv
  <2> QED
    BY <1>0, <1>3, <1>4, <2>1, VerdictIs, Zenon
<1> HIDE DEF V
<1>6. IsReq(e) /\ e.pc = "median" /\ e.got = G /\ e.off = V
  BY <1>1, Zenon DEF Good, IsReq, Fields
<1>7. /\ e.kind = q.kind /\ e.ids = q.ids /\ e.order = q.order /\ e.asOf = q.asOf /\ e.stale = q.stale
      /\ e.judgedAt = q.judgedAt /\ e.dec = q.dec
  BY <1>1 DEF Good, IsReq, Fields
<1>8. Honest(e, stamps)
  <2>1. \A i \in DOMAIN stamps : i <= k
    BY StampsArePublished
  <2>2. /\ \E i \in DOMAIN stamps : stamps[i] = e.asOf
        /\ e.stale = TRUE \/ \E i \in DOMAIN stamps \ {0} : stamps[i] + Staleness >= e.judgedAt
    BY <1>0, <1>7 DEF Good, Honest
  <2>3. ASSUME NEW g \in e.got PROVE Backed(e, g, stamps)
    <3>1. g[2] = k
      BY <1>6, <2>3
    <3> QED
      BY <2>1, <2>2, <3>1 DEF Backed
  <2>4. e.asOf \in Int /\ e.judgedAt \in Int /\ e.stale \in BOOLEAN
    BY <1>7 DEF Good, Honest
  <2> QED
    BY <1>6, <2>3, <2>4 DEF Honest
<1>9. ASSUME e.off = {TRUE} PROVE \E i \in DOMAIN U : JudgedBy(e, U[i], i)
  <2>1. TRUE \in V
    BY <1>6, <1>9, Zenon
  <2>2. e.got = {<<a, k>>, <<b, k>>}
    BY <1>3, <1>5, <1>6, <2>1, Zenon
  <2>3. JudgedBy(e, u, k)
    BY <1>5, <1>7, <2>1, <2>2, Zenon DEF JudgedBy
  <2>4. k \in DOMAIN U /\ U[k] = u
    BY StampsArePublished DEF PublishedAs, FeedInv
  <2> QED
    BY <2>3, <2>4
<1>10. SwapReq(e, scenario.requests[r], U)
  BY <1>6, <1>7, <1>9, Zenon DEF Good, SwapReq
<1>11. Handled(r, e)
  BY <1>0, <1>1, <1>6, StepIs, Zenon
<1> QED
  BY <1>6, <1>8, <1>10, <1>11, Zenon DEF Good

\* Every step of a handler.
LEMMA HandlerIs ==
    ASSUME FeedInv, req = [s \in Requests |-> req[s]], NEW U, PublishedAs(U),
           NEW r, r \in Requests, Good(req[r], r, U), Handler(r)
    PROVE  \E e : Handled(r, e) /\ Good(e, r, U)
<1>1. CASE Admit(r)
  BY <1>1, AdmitIs DEF FeedInv
<1>2. CASE Shed(r)
  BY <1>2, ShedIs
<1>3. CASE Malformed(r) \/ Parse(r)
  BY <1>3, ParseIs
<1>4. CASE LoadAsOf(r)
  BY <1>4, LoadIs
<1>5. CASE Judge(r)
  BY <1>5, JudgeIs
<1>6. CASE QuoteRow(r) \/ QuotePrice(r)
  BY <1>6, QuoteIs
<1>7. CASE SwapRow(r)
  <2>1. req[r].kind = "swap"
    BY <1>7 DEF SwapRow, Good, SwapReq
  <2> QED
    BY <1>7, <2>1, SwapRowIs, Zenon
<1>8. CASE SwapBook(r)
  BY <1>8, SwapBookIs
<1>9. CASE SwapPrices(r)
  <2>1. req[r].kind = "swap"
    BY <1>9 DEF SwapPrices, Good, SwapReq
  <2> QED
    BY <1>9, <2>1, SwapPricesIs
<1>10. CASE SwapMedian(r)
  BY <1>10, SwapMedianIs
<1> QED
  BY <1>1, <1>2, <1>3, <1>4, <1>5, <1>6, <1>7, <1>8, <1>9, <1>10, Zenon DEF Handler

-----------------------------------------------------------------------------
(* All requests, and the permits.                                           *)

InFlight == {s \in Requests : req[s].pc \notin {"new", "done"}}

PermitInv ==
    /\ permits \in Nat /\ permits + Cardinality(InFlight) = MaxInflight
    /\ \A r \in Requests : req[r].pc = "new" => req[r].answer = "none"

AllGood(U) == PublishedAs(U) /\ \A r \in Requests : Good(req[r], r, U)

ApiInv == FeedInv /\ req = [r \in Requests |-> req[r]] /\ PermitInv /\ \E U : AllGood(U)

\* There are finitely many requests.
LEMMA FiniteRequests ==
    ASSUME scenario \in Scenarios
    PROVE  IsFiniteSet(Requests)
<1>1. scenario.requests \in Seq([kind : {"price", "prices", "swap"}, ids : Seq(Tokens)])
  BY ScenarioAssumption, Zenon
<1>2. Len(scenario.requests) \in Nat /\ Requests = 1..Len(scenario.requests)
  BY <1>1 DEF Requests
<1> QED
  BY <1>2, FS_Interval

\* What was honest stays honest when the feed has gone on,
LEMMA HonestLater ==
    ASSUME NEW q, NEW st, NEW tt, \A k \in DOMAIN st : k \in DOMAIN tt /\ tt[k] = st[k], Honest(q, st)
    PROVE  Honest(q, tt)
<1>1. ASSUME NEW g \in q.got PROVE Backed(q, g, tt)
  BY DEF Honest, Backed
<1> QED
  BY <1>1 DEF Honest

\* and so does a verdict.
LEMMA VerdictLater ==
    ASSUME NEW q, NEW asked, NEW U, NEW W, \A k \in DOMAIN U : k \in DOMAIN W /\ W[k] = U[k], SwapReq(q, asked, U)
    PROVE  SwapReq(q, asked, W)
BY Zenon DEF SwapReq

\* The permits and the requests in flight.
LEMMA PermitStep ==
    ASSUME FeedInv, req = [s \in Requests |-> req[s]], PermitInv, NEW r \in Requests, NEW e, Handled(r, e)
    PROVE  PermitInv' /\ req' = [s \in Requests' |-> req'[s]]
<1>0. Requests' = Requests /\ r \in Requests /\ IsFiniteSet(Requests)
  BY FiniteRequests DEF Handled, apiOnly, Requests, FeedInv
<1>1. req' = [s \in Requests |-> req'[s]] /\ req'[r] = e /\ \A s \in Requests \ {r} : req'[s] = req[s]
  BY <1>0 DEF Handled
<1>2. IsFiniteSet(InFlight) /\ Cardinality(InFlight) \in Nat
  <2>1. InFlight \subseteq Requests
    BY DEF InFlight
  <2>2. IsFiniteSet(InFlight)
    BY <1>0, <2>1, FS_Subset
  <2> QED
    BY <2>2, FS_CardinalityType
<1>3. \A s \in Requests : req'[s].pc = "new" => req'[s].answer = "none"
  BY <1>0, <1>1 DEF PermitInv, Handled
<1>4. permits' \in Nat /\ permits' + Cardinality(InFlight') = MaxInflight
  <2>1. CASE req[r].pc = "new" /\ e.pc = "parse" /\ permits > 0 /\ permits' = permits - 1
    <3>1. InFlight' = InFlight \cup {r} /\ r \notin InFlight
      BY <1>0, <1>1, <2>1 DEF InFlight
    <3>2. Cardinality(InFlight') = Cardinality(InFlight) + 1
      BY <1>2, <3>1, FS_AddElement
    <3> QED
      BY <1>2, <2>1, <3>2 DEF PermitInv
  <2>2. CASE req[r].pc = "new" /\ e.pc = "done" /\ permits = 0 /\ permits' = 0
    <3>1. InFlight' = InFlight
      BY <1>0, <1>1, <2>2 DEF InFlight
    <3> QED
      BY <2>2, <3>1 DEF PermitInv
  <2>3. CASE req[r].pc \notin {"new", "done"} /\ e.pc # "done" /\ permits' = permits
    <3>1. InFlight' = InFlight
      BY <1>0, <1>1, <2>3 DEF InFlight, Handled
    <3> QED
      BY <2>3, <3>1 DEF PermitInv
  <2>4. CASE req[r].pc \notin {"new", "done"} /\ e.pc = "done" /\ permits' = permits + 1
    <3>1. InFlight' = InFlight \ {r} /\ r \in InFlight
      BY <1>0, <1>1, <2>4 DEF InFlight
    <3>2. Cardinality(InFlight') = Cardinality(InFlight) - 1
      BY <1>2, <3>1, FS_RemoveElement
    <3> QED
      BY <1>2, <2>4, <3>2 DEF PermitInv
  <2> QED
    BY <2>1, <2>2, <2>3, <2>4, Zenon DEF Handled
<1> QED
  BY <1>0, <1>1, <1>3, <1>4, Zenon DEF PermitInv

\* The invariant holds at the start.
LEMMA ApiInit == Init => ApiInv
<1> SUFFICES ASSUME Init PROVE ApiInv
  OBVIOUS
<1>0. scenario \in Scenarios /\ Staleness \in Nat /\ DOMAIN <<>> = {}
  BY ApiAssumption DEF Init
<1>1. FeedInv
  <2>1. feed.pc = "idle" /\ feed.poll = 0 /\ feed.usd = <<>> /\ snapshot.poll = 0 /\ snapshot.usd = <<>>
        /\ feed = [pc |-> feed.pc, poll |-> feed.poll, list |-> feed.list, usd |-> feed.usd]
    BY DEF Init
  <2>2. Stamped = 0 /\ Published = 0
    BY <2>1 DEF Stamped, Published
  <2>3. DOMAIN stamps = 0..0 /\ stamps[0] = 0 /\ lastUpdate = 0 /\ clock \in Nat /\ Boot <= clock
    BY <1>0 DEF Init, Boot
  <2> QED
    BY <1>0, <2>1, <2>2, <2>3 DEF FeedInv, PricesIn
<1>2. req = [r \in Requests |-> req[r]] /\ \A r \in Requests : req[r] = NewRequest(scenario.requests[r])
  BY DEF Init
<1>3. PermitInv
  <2>1. \A r \in Requests : req[r].pc = "new" /\ req[r].answer = "none"
    BY <1>2 DEF NewRequest
  <2>2. InFlight = {}
    BY <2>1 DEF InFlight
  <2>3. Cardinality(InFlight) = 0
    BY <2>2, FS_EmptySet
  <2> QED
    BY <2>1, <2>3, ApiAssumption DEF PermitInv, Init
<1>4. PICK U : U = [k \in 0..0 |-> <<>>]
  BY Zenon
<1>5. PublishedAs(U)
  BY <1>0, <1>4 DEF PublishedAs, PricesIn, Init
<1>6. ASSUME NEW r \in Requests PROVE Good(req[r], r, U)
  <2>1. PICK q : q = req[r]
    OBVIOUS
  <2>2. q = [pc |-> "new", kind |-> scenario.requests[r].kind, ids |-> scenario.requests[r].ids, allow |-> FALSE,
             order |-> [offered |-> 1, requested |-> 1], asOf |-> -1, stale |-> FALSE, judgedAt |-> -1,
             got |-> {}, dec |-> <<>>, canFill |-> FALSE, off |-> {}, median |-> {}, answer |-> "none"]
    BY <1>2, <2>1 DEF NewRequest
  <2>3. IsReq(q)
    BY <2>2, Zenon DEF IsReq, Fields
  <2>4. Honest(q, stamps)
    BY <2>2 DEF Honest
  <2>5. q.dec \in Seq(SUBSET Nat) /\ Len(q.dec) = 0 /\ DOMAIN q.dec = {} /\ q.off = {} /\ q.off # {TRUE} /\ q.pc = "new"
    <3>1. q.dec = <<>> /\ q.off = {} /\ q.pc = "new"
      BY <2>2
    <3>2. <<>> \in Seq(SUBSET Nat) /\ Len(<<>>) = 0
      OBVIOUS
    <3>3. {} # {TRUE}
      BY Zenon
    <3> QED
      BY <1>0, <3>1, <3>2, <3>3, Zenon
  <2>6. q.kind = scenario.requests[r].kind /\ q.ids = scenario.requests[r].ids /\ q.order \in Terms
    BY <2>2 DEF Terms, Positive
  <2>7. SwapReq(q, scenario.requests[r], U)
    BY <2>5, <2>6, Zenon DEF SwapReq
  <2> QED
    BY <2>1, <2>3, <2>4, <2>7, Zenon DEF Good
<1> QED
  BY <1>1, <1>2, <1>3, <1>5, <1>6, Zenon DEF ApiInv, AllGood

\* Every step keeps it.
LEMMA ApiStep ==
    ASSUME ApiInv, Next
    PROVE  ApiInv'
<1>0. FeedInv /\ req = [s \in Requests |-> req[s]] /\ PermitInv /\ FeedInv' /\ Grows /\ scenario' = scenario
      /\ Requests' = Requests
  BY FeedStep DEF ApiInv, Requests
<1>1. PICK U : AllGood(U)
  BY DEF ApiInv
<1>2. ASSUME NEW r \in Requests, Handler(r) PROVE ApiInv'
  <2>1. PICK e : Handled(r, e) /\ Good(e, r, U)
    BY <1>0, <1>1, <1>2, HandlerIs, Zenon DEF AllGood
  <2>2. PermitInv' /\ req' = [s \in Requests' |-> req'[s]]
    BY <1>0, <2>1, PermitStep
  <2>3. UNCHANGED <<snapshot, stamps>> /\ req'[r] = e /\ \A s \in Requests \ {r} : req'[s] = req[s]
    BY <1>0, <2>1 DEF Handled, apiOnly
  <2>4. PublishedAs(U)'
    BY <1>1, <2>3 DEF AllGood, PublishedAs
  <2>5. ASSUME NEW s \in Requests PROVE Good(req'[s], s, U)
    BY <1>1, <2>1, <2>3 DEF AllGood
  <2>6. ASSUME NEW s \in Requests PROVE Good(req[s], s, U)'
    BY <1>0, <2>3, <2>5 DEF Good
  <2> QED
    BY <1>0, <2>2, <2>4, <2>6, Zenon DEF ApiInv, AllGood
<1>3. ASSUME UNCHANGED <<req, permits>> PROVE PermitInv' /\ req' = [s \in Requests' |-> req'[s]]
  BY <1>0, <1>3 DEF PermitInv, InFlight
<1>4. ASSUME UNCHANGED <<req, permits, snapshot>> PROVE ApiInv'
  <2>1. PublishedAs(U)'
    BY <1>1, <1>4 DEF AllGood, PublishedAs
  <2>2. ASSUME NEW r \in Requests PROVE Good(req[r], r, U)'
    <3>1. IsReq(req[r]) /\ Honest(req[r], stamps) /\ SwapReq(req[r], scenario.requests[r], U)
      BY <1>1 DEF AllGood, Good
    <3>2. Honest(req[r], stamps')
      BY <1>0, <3>1, HonestLater DEF Grows
    <3> QED
      BY <1>0, <1>4, <3>1, <3>2, Zenon DEF Good
  <2> QED
    BY <1>0, <1>3, <1>4, <2>1, <2>2, Zenon DEF ApiInv, AllGood
<1>5. CASE FeedPublishes
  <2>1. feed.pc = "publish" /\ feed.poll > 0 /\ feed.poll \in Nat /\ snapshot.poll = feed.poll - 1 /\ PricesIn(feed.usd)
    BY <1>0, <1>5 DEF FeedPublishes, FeedInv, Published
  <2>2. snapshot'.poll = feed.poll /\ snapshot'.usd = feed.usd /\ UNCHANGED <<req, permits, stamps, scenario>>
    BY <1>5 DEF FeedPublishes, feedOnly
  <2>3. PICK W : W = [k \in 0..feed.poll |-> IF k = feed.poll THEN feed.usd ELSE U[k]]
    BY Zenon
  <2>4. DOMAIN W = 0..feed.poll /\ W[feed.poll] = feed.usd /\ \A k \in DOMAIN U : k \in DOMAIN W /\ W[k] = U[k]
    BY <1>1, <2>1, <2>3 DEF AllGood, PublishedAs
  <2>5. \A k \in DOMAIN W : PricesIn(W[k])
    BY <1>1, <2>1, <2>3 DEF AllGood, PublishedAs
  <2>6. PublishedAs(W)'
    BY <2>2, <2>4, <2>5, Zenon DEF PublishedAs
  <2>7. ASSUME NEW r \in Requests PROVE Good(req[r], r, W)'
    <3>1. IsReq(req[r]) /\ Honest(req[r], stamps) /\ SwapReq(req[r], scenario.requests[r], U)
      BY <1>1 DEF AllGood, Good
    <3>2. SwapReq(req[r], scenario.requests[r], W)
      BY <2>4, <3>1, VerdictLater, Zenon
    <3> QED
      BY <2>2, <3>1, <3>2, Zenon DEF Good
  <2> QED
    BY <1>0, <1>3, <2>2, <2>6, <2>7, Zenon DEF ApiInv, AllGood
<1>6. CASE Tick
  BY <1>4, <1>6 DEF Tick
<1>7. CASE FeedPolls
  BY <1>4, <1>7 DEF FeedPolls, feedOnly
<1>8. CASE FetchOk
  BY <1>4, <1>8 DEF FetchOk, feedOnly
<1>9. CASE FetchFails
  BY <1>4, <1>9 DEF FetchFails, feedOnly
<1>10. CASE FeedStamps
  BY <1>4, <1>10 DEF FeedStamps, feedOnly
<1>11. CASE MatcherPublishes
  BY <1>4, <1>11 DEF MatcherPublishes
<1>12. CASE Settle
  BY <1>4, <1>12, Zenon DEF Settle
<1>13. ASSUME NEW t \in Tokens, RowChanges(t) PROVE ApiInv'
  BY <1>4, <1>13 DEF RowChanges
<1> QED
  BY <1>2, <1>5, <1>6, <1>7, <1>8, <1>9, <1>10, <1>11, <1>12, <1>13, Zenon DEF Next

\* The invariant of the API.
LEMMA ApiTyped == Spec => []ApiInv
<1>1. ApiInv /\ [Next]_vars => ApiInv'
  <2> SUFFICES ASSUME ApiInv, [Next]_vars PROVE ApiInv'
    OBVIOUS
  <2>1. CASE Next
    BY <2>1, ApiStep
  <2>2. CASE UNCHANGED vars
    BY <2>2, Zenon DEF vars, ApiInv, FeedInv, Stamped, Published, PricesIn, Requests, PermitInv, InFlight, AllGood, PublishedAs, Good
  <2> QED
    BY <2>1, <2>2
<1> QED
  BY <1>1, ApiInit, PTL DEF Spec

\* For any polls, failures of the feed and requests, every price in an answer is
\* from the poll of its as_of or a later one, and one given as fresh is no older
\* than a poll stamped within the staleness bound.
THEOREM AnswersAreHonest == Spec => []AsOfHonest
<1>1. ApiInv => AsOfHonest
  <2> SUFFICES ASSUME ApiInv, NEW r \in Requests, NEW g \in req[r].got
               PROVE  /\ \E k \in DOMAIN stamps : k <= g[2] /\ stamps[k] = req[r].asOf
                      /\ req[r].stale \/ \E k \in DOMAIN stamps \ {0} :
                                              k <= g[2] /\ stamps[k] + Staleness >= req[r].judgedAt
    BY DEF AsOfHonest
  <2>1. Honest(req[r], stamps)
    BY DEF ApiInv, AllGood, Good
  <2>2. Backed(req[r], g, stamps)
    BY <2>1, Zenon DEF Honest
  <2> QED
    BY <2>2, Zenon DEF Backed
<1> QED
  BY <1>1, ApiTyped, PTL

\* For any amounts, decimals, prices and tolerance, two orders that would cross are
\* not both told that they are off-market by the prices of one poll.
THEOREM CrossedOneOff == Spec => []CrossedNotBothOff
<1>1. ApiInv => CrossedNotBothOff
  <2> SUFFICES ASSUME ApiInv, NEW r \in Requests, NEW s \in Requests,
                      req[r].kind = "swap", req[s].kind = "swap", req[r].ids = Reverse(req[s].ids),
                      req[r].got = req[s].got, is_profitable_with(req[r].order, req[s].order),
                      req[r].off = {TRUE}, req[s].off = {TRUE}
               PROVE  FALSE
    BY Zenon DEF CrossedNotBothOff
  <2>1. PICK U : AllGood(U)
    BY DEF ApiInv
  <2>2. Good(req[r], r, U) /\ Good(req[s], s, U) /\ FeedInv
    BY <2>1 DEF AllGood, ApiInv
  <2>3. req[s].ids \in Seq(Tokens) /\ Len(req[s].ids) = 2
    BY <2>2, SwapIds, Zenon
  <2> DEFINE a == req[r].ids[1]
             b == req[r].ids[2]
  <2>4. req[s].ids[1] = b /\ req[s].ids[2] = a
    BY <2>3 DEF Reverse
  <2>5. PICK k \in DOMAIN U : JudgedBy(req[r], U[k], k)
    BY <2>2, Zenon DEF Good, SwapReq
  <2>6. PICK l \in DOMAIN U : JudgedBy(req[s], U[l], l)
    BY <2>2 DEF Good, SwapReq
  <2>7. k = l
    <3>1. req[r].got = {<<a, k>>, <<b, k>>} /\ req[s].got = {<<b, l>>, <<a, l>>}
      BY <2>4, <2>5, <2>6, Zenon DEF JudgedBy
    <3>2. <<a, k>> \in {<<b, l>>, <<a, l>>}
      BY <3>1, Zenon
    <3> QED
      BY <3>2
  <2> DEFINE p == Worth(U[k], a, b)
             q == Worth(U[k], b, a)
  <2>8. p \in Positive /\ q \in Positive /\ OffMarketUsd(req[r].order, p, q, TolBps)
    BY <2>5, Zenon DEF JudgedBy
  <2>9. OffMarketUsd(req[s].order, q, p, TolBps)
    BY <2>4, <2>6, <2>7, Zenon DEF JudgedBy
  <2>10. req[r].order \in Terms /\ req[s].order \in Terms /\ TolBps \in Nat
    BY <2>2, ApiAssumption DEF Good, SwapReq
  <2> HIDE DEF p, q
  <2> QED
    BY <2>8, <2>9, <2>10, OneSideOffMarket, Zenon
<1> QED
  BY <1>1, ApiTyped, PTL

\* For any number of permits and requests, one is shed only while all permits are
\* with requests in flight.
THEOREM ShedAtCapacity == Spec => ShedOnlyAtCapacity
<1> DEFINE Fair == \A r \in Requests :
                       (req[r].pc = "new" /\ req'[r].answer = "overloaded")
                           => Cardinality({s \in Requests : req[s].pc \notin {"new", "done"}}) = MaxInflight
<1>1. ApiInv /\ [Next]_vars => [Fair]_vars
  <2> SUFFICES ASSUME ApiInv, Next, NEW r \in Requests, req[r].pc = "new", req'[r].answer = "overloaded"
               PROVE  Cardinality({s \in Requests : req[s].pc \notin {"new", "done"}}) = MaxInflight
    BY Zenon
  <2>0. req[r].answer = "none" /\ permits \in Nat /\ permits + Cardinality(InFlight) = MaxInflight
    BY DEF ApiInv, PermitInv
  <2>1. PICK U : AllGood(U)
    BY DEF ApiInv
  <2>2. PICK h \in Requests : Handler(h)
    <3>1. req' # req
      BY <2>0
    <3> QED
      BY <3>1, Zenon DEF Next, Tick, FeedPolls, FetchOk, FetchFails, FeedPublishes, FeedStamps, MatcherPublishes, Settle,
                  RowChanges, feedOnly
  <2>3. PICK e : Handled(h, e)
    BY <2>1, <2>2, HandlerIs DEF AllGood, ApiInv
  <2>4. h = r
    BY <2>0, <2>3 DEF Handled, ApiInv
  <2>5. permits = 0
    BY <2>0, <2>3, <2>4 DEF Handled, ApiInv
  <2>6. IsFiniteSet(InFlight)
    <3>1. InFlight \subseteq Requests /\ IsFiniteSet(Requests)
      BY FiniteRequests DEF InFlight, ApiInv, FeedInv
    <3> QED
      BY <3>1, FS_Subset
  <2>7. Cardinality(InFlight) \in Nat
    BY <2>6, FS_CardinalityType
  <2>8. Cardinality(InFlight) = MaxInflight
    BY <2>0, <2>5, <2>7
  <2> QED
    BY <2>8 DEF InFlight
<1> QED
  BY <1>1, ApiTyped, PTL DEF Spec, ShedOnlyAtCapacity

=============================================================================
