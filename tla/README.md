# PSWAP solver: TLA+ models and proofs

The solver reads PSWAP notes (swap orders) from the Miden chain, matches them
against each other and settles the matches in one transaction per batch. What
it cannot match it offers to external fillers (DEXes) over websockets. This
directory models that system, checks the models with TLC on small instances
and proves the central facts with TLAPS.

## The system

| Part | Code | Thread | Model |
|---|---|---|---|
| Ingest loop | `ingest/ingest.rs` | ingest | `Settlement` |
| Order table | `db/db.rs` | shared SQLite | `Settlement` (status column), `OrderLife` (its transitions) |
| Matcher loop | `matcher/matcher.rs` | main LocalSet | `Settlement`, `MatcherTick`, `Matching` |
| Order book | `matching/order_book.rs` | main | `OrderBook` |
| Order arithmetic | `matching/types.rs` | main | `OrderMath` |
| Direct and triangular matching | `matching/direct_matching.rs`, `three_edge_cycle.rs` | main | `Matching` |
| Executor | `executor/executor.rs` | executor | `Settlement` |
| Start, readiness gate, shutdown | `start.rs`, `pipeline.rs`, `spawn_*_thread` | main and all others | `Lifecycle`; their effect on orders in `Settlement` |
| Router server | `router/server.rs` | router (multi-threaded) | `Router` |
| Note selection | `router/select.rs` | main | `Selection`, run by `Matching` |
| LP SDK client | `crates/lp-sdk/src/client.rs` | filler's process | `LpClient` |
| Admin API, pair subscription, token metadata | `admin/admin.rs`, `pipeline.rs`, `db/db.rs` | main, ingest | `TokenRegistry` |
| Price feed | `price/*.rs` | main | `TokenRegistry` (which symbols), `PriceApi` (publishing and stamping) |
| Price API, swap-eta | `price_api.rs`, `swap_eta.rs` | own thread | `PriceApi`, `SwapEta`, `OrderMath` |
| Observability | `obs.rs` | main | not modelled: read-only endpoints |
| Wire protocol | `crates/lp-sdk/src/protocol.rs` | | not modelled: an encoding with round-trip tests |
| Configuration, client factory | `config.rs`, `client_factory.rs` | | not modelled: parsing and wiring |
| Consume script | `crates/consume-script` | Miden VM | not modelled: MASM |
| e2e, mock-mirror, mock-price | `crates/*` | | not modelled: development tools |

Paths are below `src/crates/solver/src/` unless they start with `crates/`.

An order's way: ingest syncs with the chain, marks consumed notes in the
table, tells the matcher of them, inserts new orders and forwards them. Each
tick the matcher drains both channels, runs the engine, sends the filled orders
as a batch and removes them from the book. The executor marks the batch
Settling, submits it with retries, and then marks it Executed, reverts and
re-feeds it, or asks the chain which notes are spent. Before matching, the tick
brings back orders whose DEX did not show up; after it, it parks the whole
notes it hands to the router, and publishes the best level of each pair for
the price API's swap-eta endpoint.

## Modules

**Settlement** is the pipeline. A note stands for its order; amounts are
abstracted and the matcher pairs what it likes. There is one action per await,
channel operation or database statement, and one for each of their failures:

- `chain`, `seen`, `reported`: the ledger and what the ingest client's own
  store has reported. The store commits before `ingest_once` goes on, so what
  is lost afterwards is not reported again.
- `db`: the status column, or `none` when there is no row. `UpdateStatus`,
  `MarkNullified`, `InsertNew` and `ResetSettling` are the statements, with the
  guards they have (or do not have).
- `orderQ`, `consumedQ`, `execQ`: the bounded channels; a full one blocks.
- `inPc`/`fresh`/`gone`, `mPc`/`book`/`mBatch`, `xPc`/`xBatch`/`xSpent`/
  `attempt`: where each task stands and what it has in hand.
- `Crash`, `Shutdown` (which aborts ingest wherever it is), `Boot`.
- `gaveUp` and `raced` are bookkeeping: the orders an error return dropped, and
  those that were hydrated while their channel copy was still on its way.

External: the ledger. A submit may land although an RPC error is reported, and
a submit that is accepted spends its notes; the code marks Executed on
acceptance and relies on the same.

**OrderLife** is what somebody sees of an order who can read the ledger and the
table and nothing else: notes are created, consumed or settled, rows move from
status to status. It says which moves are allowed and on what evidence.
`Settlement` implements it with the identity as refinement mapping
(`Life == INSTANCE OrderLife`, property `ImplementsLife`). That a row may leave
`nullified` again is part of it (`Claimed`, `Released`, `Executed`), although
`types.rs` calls the status terminal: the executor's updates have no guard, and
ingest may mark a row between two of them. With any of the three taken out,
TLC finds a step of `Settlement` that `OrderLife` lacks.

**OrderBook** has one operator per method of the book. The B-tree of FIFO
deques of a pair is one sequence. **MatcherTick** is the tick over it, with the
clock, the channel contents, the fills, the picks and the fate of the route
send chosen freely. `now` is clamped as in the code.

**OrderMath** is the integer arithmetic of an order and of `match_with`.
**Matching** is a tick of the engine over an `OrderBook` instance, and a second
one for an order that arrives in between: orders arrive with any terms, then
direct matching pair by pair, then the heap of triangles, then the external
pass over what is left of the quoted pair (the quotes chosen one by one, sorted
as `republish` sorts them, and `match_pair` of module **Selection** one note per
step), then the snapshot of the best levels. Amounts are mathematical integers.
The u128 intermediates are wide enough for products of two u64; the product of
three is not, and `ProductMax` stands for its limit.

**Router** is the router thread with one action per critical section: a
connection's life, its quotes, `republish` (built under the lock, sent after
it), the three sections of `deregister` (`Unlink`, `Purge`, `Uncount`), the
relay's `deliver`. The matcher's external pass runs on another thread and is two
steps: it reads the watch channel (`ReadQuotes`), and some time later it sends a
batch (`RouteTick`) or nothing (`RouteNothing`); `view` is what it has read.
A quote carries its connection and a number so that properties can tell quotes
apart. `window` is bookkeeping: the used quotes in `view` whose withdrawal was
not through when they were read.

**LpClient** is the other end of that link, in the filler's process: the
supervisor task (`pc`: dial, run a connection, back off, connect, drain), the
reader task it spawns per connection and aborts without awaiting it, the sender
loop with the one message it is writing (`inflight`), the quoting loop, and an
application that quotes, takes events or drops the client whenever it likes.
`delay` is represented by the number of doublings (`level`); `attempt` saturates
at `MaxAttempt` as the u32 does. `tries` is bookkeeping: the attempts made since
the last stable connection, counted on their own. Connections are numbered
(`era`), and a quote carries the era it was posted in and the last one
the application knew of, which only the properties use. External: the network
and the router's side of the socket.

**PriceApi** reads the shared state as its handlers do, one read per step: the
time of the last poll, then per id the row and the price, or for swap-eta the
rows, the level, the prices and the median. In between the feed publishes a
snapshot and stores its time (two steps, in that order), polls fail, rows
change, the matcher publishes levels and batches settle. The handlers never
await, so the timeout layer cannot cut one short, and the answer of a batch may
mix two polls. The relaxed atomic is read as in program order: the `watch`
channel's lock orders it with the snapshot. `stamps`, `settled` and what a
request has `got` are bookkeeping. **SwapEta** is `SettlementStats`: the
sliding window, popped from the front, with its cap, and the median.

**Lifecycle** is `start` and every thread it spawns: boot, the spawns in their
order, the readiness gate, the wait, the joins; in each client thread
(ingest, executor) the build, the `select!` over the token and both task
handles, and the drain with its `is_finished` guards; in each server thread
(price API, router) bind, serve and stop. Any spawn, build or bind may fail, any
task may end, Ctrl-C may come at any point. `polls` counts how often a
`JoinHandle` was driven to completion.

**TokenRegistry** is the table of tokens and all that follows it. The admin
handlers run on the main thread, whose runtime is single-threaded, so a handler
is one step up to its first await; only `register_token` has one, on the
subscribe channel, and it holds the only write connection meanwhile (`sends` is
what it still has to send). A handler that asks for the connection then blocks
the thread until the pool's timeout (`stalled`). The ingest thread works off
`todo`: at boot the metadata of all tokens and all pairs, later what the relay
receives. The price feed copies the symbol map, waits for the oracle and
publishes; a price is represented by the symbol it was asked by. `missed` is
bookkeeping: the pairs given up in this life of the process. External: the
pool's timeout, the oracle, the client's tag store (kept over a restart), and
that the HTTP server drops a handler whose client has gone.

`MCSettlement`, `MCMatcherTick`, `MCMatching` and `MCPriceApi` give the constants
their values; `SettlementProofs`, `MatcherTickProofs`, `OrderMathProofs`,
`PriceApiProofs`, `RouterProofs`, `TokenRegistryProofs`, `LpClientProofs` and
`LifecycleProofs` hold the theorems. Each module's `TypeOK`
is checked as a conjunct of one of its invariants, and on its own in `pipeline`.

The modules are connected through what they leave free: `Settlement` and
`MatcherTick` allow any fills (computed in `Matching`), `Router` and
`MatcherTick` any picks (computed by `Selection` in `Matching`), `LpClient` and
`Router` each allow whatever the other end of the socket may do, `Lifecycle`
says when the tasks of the other modules are aborted, and `Matching` and
`PriceApi` use the very operators of `OrderBook`, `OrderMath` and `SwapEta`.

## Runs

| Run | Instance | Result |
|---|---|---|
| `pipeline` | 2 notes, channels of 1, 1 retry, a fault, a crash, a shutdown | holds |
| `pipeline_live` | 2 notes, channels of 1, 1 retry, fair | holds |
| `shutdown_completes` | 2 notes, a shutdown | violated |
| `book` | 4 orders, 4 deliveries, 2 queue entries, clock 0..3, TTL 2 | holds |
| `matching` | five markets of 2 to 6 orders, with quotes in one, fair | holds |
| `cycle_conserves` | 3 orders on one triangle, amounts 1..3 | violated |
| `router` | 2 connections, 2 quotes, 3 batches, channel of 2, fair | holds |
| `single_batch` | 1 connection, 1 quote, 2 batches, channel of 2 | violated |
| `lp_client` | 3 connections, attempts saturate at 2, 1 doubling, queues of 1 or 2, fair | holds |
| `tokens` | 2 tokens, 2 symbols, 3 requests, channel of 1, a crash, fair | holds |
| `price_api` | five scenarios of polls, row changes, levels and settlements | holds |
| `lifecycle` | all four threads, two core tasks, router on or off, fair | holds |

What the passing runs show:

- `pipeline`: a row is retired only when its note is spent
  (`RetiredOnlyIfSpent`), an order has at most one copy in the pipeline
  (`SingleCustody`), a live unsettled order has at least one unless an error
  return or a failed hydration dropped it (`LiveOrdersInCustody`), Executed is
  final although the updates are unguarded (`ExecutedFinal`), and all of it is a life an order may
  have (`ImplementsLife`).
- `pipeline_live`: a batch is resolved, through retries and through re-feeds that
  wait for room in the order channel (`BatchResolves`), and inserted orders reach
  the book (`OrderReachesBook`). `BatchResolves` has one exception, which the
  code does not rule out: the executor waits for room to re-feed while the
  matcher waits for room to send it a batch (`MutualWait`).
- `book`: index, counters and adjacency agree (`IndexExact`), nobody is
  overtaken at its own rate (`PriceTimePriority`), and with a router no order is
  still parked after its time (`NoShowReturns`), although the wall clock may
  step back and only the expired prefix of `park_queue` is read.
- `matching`: direct matching releases of each token what it takes of it plus
  the protocol's share, through any sequence of partial fills
  (`BalancesBacked`). The heap loop ends (`Terminates`) and leaves no profitable
  cycle of the enumerated triangles (`NoProfitLeft`). An order that swap-eta
  would have called fillable against the published level does trade in the next
  tick, when it is the first of its pair (`CanFillTrades`; in the market
  `LeftBehind` rounding leaves crossing orders behind in the first tick, which
  in the second one trade before a newcomer that is not). The scan with its early break finds a tightest willing
  quote (`TightestQuote`) and the notes of a batch never exceed a quote's supply
  (`SupplyRespected`).
- `router`: a handover reaches the connection that quoted (`HandedToQuoter`), no
  change of the quote map goes unpublished (`SnapshotCurrent`), a closed
  connection leaves no quote (`ClosedLeavesNoQuote`), the connection count is
  exact (`ConnCountExact`), every quote used is withdrawn
  (`UsedQuoteWithdrawn`), and it is used a second time only by a pass that read
  the quotes before that was through (`SecondUseInFlight`). This is the weaker
  fact that is true; what the docs say is `SingleBatch`, below.
- `lp_client`: a quote reaches the router only over the connection it was posted
  on, and none that answers a Reconnected is discarded (`NoStaleQuoteOnLink`).
  Events keep their documented order (`EventOrder`). A router that accepts and
  drops is backed off from: attempt and delay count all tries since the last
  stable connection, whatever came up in between (`BackoffFollowsAttempts`). A
  dropped client ends (`DroppedClientEnds`), a link that died silently is given
  up for a new dial although its reader may never notice (`DeadLinkRedialled`),
  and quoting resumes (`QuotingResumes`).
- `tokens`: the symbol cache says what the table says (`CacheMatchesRows`). For
  two registered tokens the subscription is stored, on its way, or known to be
  given up, also for a token registered while the boot subscribes
  (`PairsCovered`). A registration that waits on a full channel releases the
  write connection although the relay may be waiting for it; the pool's timeout
  is what breaks the circle, and the mutant without it deadlocks
  (`ConnReleased`). If the oracle keeps answering, removed tokens and replaced
  symbols leave the published prices (`PricesFollow`).
- `price_api`: an answer is never newer in its `as_of` than in its prices, and
  prices called fresh are (`AsOfHonest`). Two crossing orders are never both
  called off market (`CrossedNotBothOff`). The median is that of the settlements
  in the window, up to the cap, while the wall clock does not step back
  (`MedianExact`). A request is shed only when the
  permits are really in use (`ShedOnlyAtCapacity`).
- `lifecycle`: when `start` returns, none of the OS threads it spawned is left
  running, with the exception below (`NothingLeftRunning`); the tasks on the main
  thread end with its runtime and are not part of it. No task handle is polled after it has
  completed, and no task that holds a client outlives its runtime (`DrainSafe`).
  After Ctrl-C or the death of a client task or core task, `start` returns
  (`StopReturns`). The exception: if the OS refuses the executor's or the price
  API's thread, `start` returns at once and the threads before it go on.

What the violated ones show, each against a sentence of the repository:

- `shutdown_completes`: "a started iteration always runs to completion"
  (`ingest.rs`). The task is aborted at shutdown; a note the client has already
  reported then has no row.
- `cycle_conserves`: "for every token, released >= consumed across the cycle"
  (`test_three_edge_cycle.rs`). The bottleneck leg is filled whatever the last
  leg releases, and `saturating_sub` hides the deficit. The executor's solvency
  check then rejects the whole batch.
- `single_batch`: "A quote governs a **single batch**"
  (`external-liquidity-routing.md`). A quote leaves the snapshot only when the
  relay has taken the batch and republished; a tick before that uses it again.

The models show more windows that no run of its own is spent on. `PROJECT.json`
lists them with the hazards: an `OnchainNullified` row overwritten by the
executor, a snapshot that is overtaken by a newer one, the
connection cap exceeded by concurrent upgrades, a `park_queue` entry that
reactivates a later parking of the same order early, orders that stay parked
once the route channel is closed, a consumed id that is drained before the copy
of its order arrives, and a registration cut short after its insert, which only
a restart completes.

### Bounds

- `pipeline`: two notes suffice for a batch, for one order to overtake another
  in every channel, and, with channels of one slot, for every send to block.
  One fault, crash and shutdown each, at any step.
- `pipeline_live`: with one slot the second note of a batch waits for the first
  to be drained when both are re-fed. The run has no faults, which are not
  promised to end, and does not reach `MutualWait`: with one slot that takes six
  orders (the batch the executor re-feeds, one of whose orders fills the order
  channel, a batch in the executor's channel and a third one in the matcher's
  hands), with the code's 5000 slots correspondingly more.
- `book`: two orders of equal rate and one cheaper compete on a pair, the fourth
  is their counterparty; one of them can be filled in part. Four deliveries
  allow re-feeds, two queue entries a tombstone and a live one, clock 0..3 with
  TTL 2 an expired and a fresh entry.
- `matching`: all combinations of the amounts given, which are coprime enough to
  round in both directions. Four orders on one market, {1, 3, 5} for three of
  them and {1, 2, 3, 5} for the last, which comes after the first tick; two
  against two with {2, 3, 5}; six orders on two triangles that share a side, with
  {1, 2, 9} for the first two and {1, 9} for the others, where the token of the
  second triangle may be unpriced; two notes, {1, 2, 3} and {1, 2}, and three
  quotes with {1, 2, 3}; five orders of which rounding leaves one behind. `ProductMax` is 100, so
  products of three overflow.
- `router`: the cap is 1, so the second connection is refused, gets in after the
  first has closed, or passes the check together with it. With two
  quotes a connection replaces its own while a batch for it is under way, or
  both are in one batch. With three batches and two slots one batch is with the
  relay, one waits, and a pass meets them in either order, or a full channel.
- `lp_client`: three connections give an outage between two others. Two attempts
  are a failed one after a drop, or one for each of two drops; one doubling
  reaches the longest delay before the counter saturates, and attempts beyond it
  go on failing. The
  last connection does not break, or nothing could be said of one that lasts.
- `tokens`: two tokens give a registration two sends, so with one slot it waits
  while the ingest thread is still busy with the boot or with the first pair;
  the code's channel has 100 slots and the same wait needs 50 tokens or a slow
  relay. Three requests allow a token to be registered, changed and removed, or
  removed and registered again, around a crash.
- `price_api`: each scenario fixes what may change and how often, so that every
  read of a handler can fall before, between and after the changes. One permit
  makes the second request the one that is shed; a cap and a window of three let
  samples leave for either reason.
- `lifecycle` has no counters. Two core tasks suffice for one that dies while the
  other runs.

### Fairness

`pipeline_live` assumes that each task is polled when it can go on (weak
fairness of ingest, matcher and executor), and that a blocked `send` is not
overtaken for ever, since tokio's bounded channel queues its senders in FIFO
order (strong fairness of `IngestForward` and `Refeed`). Nothing is assumed of
the chain. `matching` assumes that a plain loop takes its next step, `router`
that the relay task is polled. Connections are not assumed to do anything.
`tokens` assumes that the ingest thread runs, that the pool's timeout expires,
and that a sender for whom the channel has room again and again gets its turn
(strong fairness of `Send`; other requests may block the thread in between).
That the oracle answers is a hypothesis of `PricesFollow`, not an assumption.

`lp_client` assumes that the tasks are polled, that the application takes its
events, and that the price function has a quote again and again. `select!`
picks among its ready arms at random, so an arm that is ready again and again is
taken (strong fairness of `ReaderReturned` and `SenderSeesClosed`). A dead socket
does not swallow writes for ever (strong fairness of `SenderFails`). A dial comes
back one way or the other, as the transport's own timeout sees to; the code sets
none. Nothing is assumed of the reader of a dead socket: its stream may never
end. One assumption is about time: an aborted reader has gone by the end of the
sleep before the next dial (half a second at least).

`lifecycle` assumes that the main thread and the client threads are polled, that
a build ends one way or the other, that an aborted task yields at its next await
and that a graceful shutdown finishes. `price_api` assumes nothing.

Deadlock checking is off where the system may stop: a tick of the engine ends,
the router and the price API idle when the quotes, batches or changes of the
bound are used up, and `start` returns.

## Proofs

`SettlementProofs`, for any set of notes, any capacity and any bounds:

- `TypeCorrect`: `Spec => []TypeOK`. From `RetryAssumption`, the attempt number
  never exceeds the retry budget.
- `NeverRetiredAlive`: `Spec => []RetiredOnlyIfSpent`. The invariant is not
  inductive: a row is retired on evidence gathered some steps before. `RetireInv`
  adds `EvidenceSound`: what the client has reported consumed, what ingest has in
  hand, and the answer the executor got are spent notes, and so is a batch that
  is about to be committed. Notes are never unspent, so evidence does not go
  stale. One lemma per task shows that its steps keep `RetireInv`.
- `PipelineImplementsLife`: `Spec => ImplementsLife`. `CustodyInv` says that only
  notes with a row are in the pipeline and that the rows of a batch under way are
  claimed; with `RetireInv` every step of a task is a step of `OrderLife` or
  leaves ledger and table alone.

Custody, in the same module, from the inductive `HeldInv`. None of the three
properties is inductive: what keeps an order from being held twice is
where each task stands when it lets go of one. `HandInv` says what a task has in
hand at each of its steps, `RowInv` that a row's note is known to the ledger and
that no row is being settled before the hydration, `OnceInv` that an order has
at most one holder and an executed one none, `KeptInv` that an order the solver
still owes has a holder. `SingleCustody` and `ExecutedFinal` except the orders in
`raced`, which the matcher hydrated while ingest still had their channel copy to
deliver, and `LiveOrdersInCustody` those in `gaveUp`; so do the theorems.

- `NeverTwoCopies`: `Spec => []SingleCustody`.
- `NoLiveOrderLost`: `Spec => []LiveOrdersInCustody`.
- `ExecutedStays`: `Spec => ExecutedFinal`, an action property: nobody holds such
  an executed order, so no task can write its row again.

`OrderMathProofs`, for amounts of any size:

- `FillsInParts`: `offered_for` is superadditive, so partial fills release no
  more than the one settlement of the whole fill.
- `ReleaseBounded`: a fill within the request releases at most the offer, and
  a complete one exactly the offer.
- `TradeStaysBacked`: a trade of `match_with` adds at least as much to each
  side's settlement release as it sends and credits, whatever was filled
  before. This is the arithmetic step behind `BalancesBacked`.
- `CrossingOrdersTrade`: two untouched orders whose rates cross do trade, and one
  of them is filled.
- `CanFillSound`: what `eval_can_fill` promises against a level of one untouched
  order, `match_with` keeps.
- `OneSideOffMarket`: of two crossing orders at most one is off market, for any
  prices and any tolerance. This is what `CrossedNotBothOff` rests on.

`MatcherTickProofs`, for any orders, pairs, clock and traffic. `OrderAssumption`
says that an order has a pair and asks for something (parsing rejects a zero
amount), `RateAssumption` that the rates are a strict weak order, which is what
the B-tree over `RateKey` gives. The proofs are in two layers. The first is about
one book: `Exact` says that the index of each pair holds the live orders of the
pair once each and sorted by rate, and that the counter and the adjacency agree
with it; `Touched` that an operation changes one pair's queue and keeps its
priority. One lemma per method (`AddKeeps`, `FillKeeps`, `RemoveKeeps`, `ParkIs`,
`UnparkKeeps`, `PopIs`) shows both. The positions ahead of a newcomer form a
prefix of the queue (`AheadIsFront`, from the sortedness), so inserting behind
them keeps it sorted. The second layer is the tick: `TimeInv` says that
`park_queue` is in the order of time, that its entries are not in the future,
that each parked order has its own entry, and that no entry has run out when a
tick with a router comes to matching.

- `BookIsExact`: `Spec => []IndexExact`.
- `NoShowsReturn`: `Spec => []NoShowReturns`. The pops stop at the first entry
  whose time has not run out, and in the order of time neither has that of any
  entry behind it; the clamp of the clock is what keeps the order.
- `PriceTime`: `Spec => PriceTimePriority`, an action property. A trade fills
  orders of distinct pairs, so each queue is touched once.

`PriceApiProofs`, for any requests (finitely many), polls, prices, decimals,
levels, clock and number of permits, from the inductive `ApiInv`:

- `AnswersAreHonest`: `Spec => []AsOfHonest`. `FeedInv` says that the stamps never
  run ahead of the snapshot, because a poll is published before it is stamped;
  `Honest` follows a request: the `as_of` it loaded is a stamp, and unless it was
  judged stale some poll was stamped within the bound before the judgement.
- `CrossedOneOff`: `Spec => []CrossedNotBothOff`. Two requests with the same poll
  saw the same prices: `AllGood` holds of some history of the published polls,
  which the model does not keep as a variable. The rest is `OneSideOffMarket`.
- `ShedAtCapacity`: `Spec => ShedOnlyAtCapacity`, an action property. Free permits
  and requests in flight add up to the size of the semaphore (`PermitInv`).

`RouterProofs`, for any number of connections, quotes and batches, from
`DexInv` (an id is handed out once and used by its own connection only) and
`MapInv` (where a connection stands fixes whether it is in the maps):

- `ClosedGone`: `Spec => []ClosedLeavesNoQuote`.
- `CountIsExact`: `Spec => []ConnCountExact`; the count is the cardinality of the
  set of connections between the upgrade and the close (`Counted`).
- `HandoversReachQuoter`: `Spec => []HandedToQuoter`; `ItemInv` carries the owner
  of a quote through the snapshot, the route channel and the batch.
- `NothingUnpublished`: `Spec => []SnapshotCurrent`. `PublishInv` says that the
  newest snapshot built shows the standing quotes unless some task is about to
  build a newer one, and that once it is sent all that still wait are overtaken.
  `NumberInv` (ids count the connections made) and `LimitInv` add the types.
- `SecondUseBounded`: `Spec => SecondUseInFlight`, an action property. `UseInv`
  says that a used quote which still stands is with the relay: in its hand or in
  the route channel. With `PublishInv`, a quote that is read after that is not a
  used one; what the pass has read may then be as old as it likes.

`TokenRegistryProofs`, for any finite set of tokens, any symbols, any capacity of
the channel and any number of requests and crashes (`RegistryAssumption`; the
finiteness is what makes `SetToSeq` list a set):

- `CacheFollowsRows`: `Spec => []CacheMatchesRows`. One lemma per statement shows
  that the cache after the handler is what a load of the table would read.
- `NoPairForgotten`: `Spec => []PairsCovered`. Inductive with the types: an
  action puts a pair it takes from one place in another, and `add_token` starts
  with no sends of its own pending.

`LpClientProofs`, for any number of connections and attempts and queues of any
length, from the inductive `ClientInv`:

- `EventsInOrder`: `Spec => []EventOrder`. `EventInv` adds that the handovers on
  the wire are those of the current connection, that the aborted reader is gone
  before the next dial, and that nobody announces anything after Disconnected.
- `QuotesStayOnLink`: `Spec => []NoStaleQuoteOnLink`. `QuoteInv` adds that while
  a connection runs all that is queued or being written was posted during it,
  and that the application has not heard of a connection before the drain.
- `DelayFollowsAttempts`: `Spec => []BackoffFollowsAttempts`. `DelayInv` adds
  that a connection that has been stable has no tries behind it and is still
  running, or the client is gone: the reset at its drop then starts from zero.

`LifecycleProofs`, for any set of core tasks:

- `StartLeavesNothing`: `Spec => []NothingLeftRunning`. `SpawnInv` says how far
  the spawns and the joins have come.
- `DrainIsSafe`: `Spec => []DrainSafe`. `HandleInv` relates the place a client
  thread has reached to what its two handles may have seen.

Induction over data is done where it is needed without an operator parameter:
`Least` (in `MatcherTickProofs`) gives the least member of a nonempty set of
naturals, from the well-foundedness of `<`; the proofs about queues start from it.

Only model-checked: the loops of the engine and the selection (`BalancesBacked`,
`NoProfitLeft`, `CanFillTrades`, `SupplyRespected`, `TightestQuote`), whose
statements are sums over folds and searches over all triangles; `MedianExact`,
which rests on `SortSeq` and a fold over a batch; and all liveness (`ENABLED` and
fairness are out of reach of the prover).

## Not modelled

- Observability: read-only endpoints and metrics. That its server may die is a
  step of `Lifecycle`.
- The wire protocol: an encoding without state, with round-trip tests.
- Configuration and client construction: parsing and wiring. That a build may
  fail or be slow is part of `Lifecycle`.
- The consume script (MASM, run by the Miden VM) and the development harnesses.
- The `notes` and `sync_state` tables: a note's bytes are inserted in the same
  transaction as its order and only joined to it at hydration, and no task reads
  the block cursor back.
- The arithmetic that only tests call (`requested_for`, `min_fill_for_release`,
  `full_fill`), and the executor's periodic sync beyond its life as a task.
- Real time: the growth of `park_queue` under a full route channel is bounded by
  the in-flight time only, which the models count in clock steps.
- One composed model of `Router` with `MatcherTick`, or of `LpClient` with
  `Router`. Each leaves the other side free, so what is shown of one holds for
  whatever the other does; properties that need both sides, such as an order
  coming back because its filler's link died, are not stated.
