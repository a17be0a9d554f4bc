------------------------------- MODULE Router -------------------------------
(***************************************************************************)
(* The router thread: websocket connections post quotes, every change of   *)
(* the quote map is republished to the matcher over a watch channel, and a *)
(* relay task hands the matcher's route batches to the connections.        *)
(*                                                                         *)
(* The runtime is multi-threaded: one action per critical section.  There  *)
(* is one token pair (pairs do not interact here) and which quotes a tick  *)
(* picks is free (the choice is in module Selection).  A quote is          *)
(* <<socket, number>>; the code's quotes have no identity beyond the dex.  *)
(***************************************************************************)
EXTENDS Naturals, Sequences, SequencesExt, FiniteSets

CONSTANTS
    Sockets,        \* the connections that may ever be made
    Relay,          \* the relay task
    MaxConnections, \* cfg.max_connections
    RouteBuf,       \* capacity of the route channel
    MaxQuotes,      \* bound: quotes ever posted
    MaxBatches      \* bound: route batches sent by the matcher

ASSUME RelayAssumption == IsFiniteSet(Sockets) /\ Relay \notin Sockets
ASSUME CapacityAssumption == MaxConnections \in Nat \ {0} /\ RouteBuf \in Nat \ {0}
ASSUME RouterBounds == MaxQuotes \in Nat /\ MaxBatches \in Nat

VARIABLES
    pc,         \* where each connection task and the relay stand
    dexOf,      \* the dex id of a connection, 0: none yet
    posted,     \* number of quotes posted so far, over all connections
    next_dex,
    conn_count,
    conns,      \* dex -> socket, for the outbound frames
    quotes,     \* dex -> its standing quote
    pending,    \* snapshots built and not yet sent, oldest first
    snapshot,   \* the watch channel: set of [dex, quote]
    routeQ,     \* the route channel: batches, sets of [dex, quote]
    batch,      \* the batch the relay has in hand
    view,       \* the quotes the matcher's external pass has read, {}: no pass under way
    \* ---- bookkeeping of the model
    overtaken,  \* is the snapshot older than one that was sent before it?
    handed,     \* the frames deliver has queued for this batch: <<socket, quote>>
    used,       \* every item a batch has been sent for
    window,     \* the used quotes of view whose withdrawal was not through when it was read
    batches     \* counter for the bound

connVars == <<dexOf, posted, next_dex, conn_count, conns>>
watchVars == <<pending, snapshot, overtaken>>
routeVars == <<routeQ, view, window, used, batches>>
vars == <<pc, connVars, quotes, watchVars, routeVars, batch, handed>>

Actors == Sockets \cup {Relay}
Quotes == Sockets \X (1..MaxQuotes)
DexIds == 1..Cardinality(Sockets)
Items == [dex : DexIds, quote : Quotes]
Goto(a, label) == pc' = [pc EXCEPT ![a] = label]
Drop(f, D) == [d \in DOMAIN f \ D |-> f[d]]
Put(f, d, v) == [e \in DOMAIN f \cup {d} |-> IF e = d THEN v ELSE f[e]]

Connected(s) == \E d \in DOMAIN conns : conns[d] = s

\* The quote map as a snapshot shows it.
Standing == {[dex |-> d, quote |-> quotes[d]] : d \in DOMAIN quotes}

\* No task has changed the quote map without having built its snapshot.
Quiet == \A a \in Actors : pc[a] \notin {"uncount", "publish"}

Init ==
    /\ pc = [a \in Actors |-> IF a = Relay THEN "recv" ELSE "new"]
    /\ dexOf = [s \in Sockets |-> 0] /\ posted = 0
    /\ next_dex = 1 /\ conn_count = 0
    /\ conns = <<>> /\ quotes = <<>>
    /\ pending = <<>> /\ snapshot = {} /\ overtaken = FALSE
    /\ routeQ = <<>> /\ batch = {} /\ view = {} /\ window = {}
    /\ handed = {} /\ used = {} /\ batches = 0

-----------------------------------------------------------------------------
(* A connection.                                                           *)

\* ws_handler: an authorised request below the cap; the upgrade comes later.
Accept(s) ==
    /\ pc[s] = "new" /\ conn_count < MaxConnections
    /\ Goto(s, "upgrade")
    /\ UNCHANGED <<connVars, quotes, watchVars, routeVars, batch, handed>>

\* Mutant of UpgradeFails: the failure takes the clean-up path of a connection.
UpgradeFailsUncounts(s) ==
    /\ pc[s] = "upgrade"
    /\ conn_count' = IF conn_count = 0 THEN 0 ELSE conn_count - 1
    /\ Goto(s, "closed")
    /\ UNCHANGED <<dexOf, posted, next_dex, conns, quotes, watchVars, routeVars, batch, handed>>

\* The client goes away before on_upgrade calls handle_conn.
UpgradeFails(s) ==
    /\ pc[s] = "upgrade"
    /\ Goto(s, "closed")
    /\ UNCHANGED <<connVars, quotes, watchVars, routeVars, batch, handed>>

\* Mutant of Open: the id is the number of connections.
OpenReusesId(s) ==
    /\ pc[s] = "upgrade"
    /\ LET dex == conn_count + 1
       IN /\ dexOf' = [dexOf EXCEPT ![s] = dex]
          /\ conns' = Put(conns, dex, s)
    /\ conn_count' = conn_count + 1
    /\ Goto(s, "read")
    /\ UNCHANGED <<posted, next_dex, quotes, watchVars, routeVars, batch, handed>>

\* The head of handle_conn.
Open(s) ==
    /\ pc[s] = "upgrade"
    /\ dexOf' = [dexOf EXCEPT ![s] = next_dex]
    /\ next_dex' = next_dex + 1
    /\ conn_count' = conn_count + 1
    /\ conns' = Put(conns, next_dex, s)
    /\ Goto(s, "read")
    /\ UNCHANGED <<posted, quotes, watchVars, routeVars, batch, handed>>

\* register_quote: it replaces the quote the connection had.  A message that is
\* not a valid quote is answered with an error and changes nothing.
StoreQuote(s) ==
    /\ pc[s] = "read" /\ posted < MaxQuotes
    /\ posted' = posted + 1
    /\ quotes' = Put(quotes, dexOf[s], <<s, posted'>>)
    /\ Goto(s, "publish")
    /\ UNCHANGED <<dexOf, next_dex, conn_count, conns, watchVars, routeVars, batch, handed>>

\* The reader loop ends; deregister takes the connection out first ...
Unlink(s) ==
    /\ pc[s] = "read"
    /\ conns' = Drop(conns, {dexOf[s]})
    /\ Goto(s, "purge")
    /\ UNCHANGED <<dexOf, posted, next_dex, conn_count, quotes, watchVars, routeVars, batch, handed>>

\* Mutant of Purge: the connection's quote stays.
PurgeKeepsQuotes(s) ==
    /\ pc[s] = "purge"
    /\ Goto(s, "uncount")
    /\ UNCHANGED <<connVars, quotes, watchVars, routeVars, batch, handed>>

\* ... then its quotes ...
Purge(s) ==
    /\ pc[s] = "purge"
    /\ quotes' = Drop(quotes, {dexOf[s]})
    /\ Goto(s, "uncount")
    /\ UNCHANGED <<connVars, watchVars, routeVars, batch, handed>>

\* ... and its place in the count.
Uncount(s) ==
    /\ pc[s] = "uncount"
    /\ conn_count' = IF conn_count = 0 THEN 0 ELSE conn_count - 1
    /\ Goto(s, "publish")
    /\ UNCHANGED <<dexOf, posted, next_dex, conns, quotes, watchVars, routeVars, batch, handed>>

-----------------------------------------------------------------------------
(* republish: the snapshot is built under the lock and sent after it.      *)

BuildSnapshot(a) ==
    /\ pc[a] = "publish"
    /\ pending' = Append(pending, [by |-> a, snap |-> Standing, late |-> FALSE])
    /\ Goto(a, "send")
    /\ UNCHANGED <<connVars, quotes, snapshot, overtaken, routeVars, batch, handed>>

\* Those that were built before and are sent later are late from now on.
SendSnapshot(a) ==
    /\ pc[a] = "send"
    /\ \E i \in DOMAIN pending :
         /\ pending[i].by = a
         /\ snapshot' = pending[i].snap
         /\ overtaken' = pending[i].late
         /\ pending' = RemoveAt([j \in DOMAIN pending |-> [pending[j] EXCEPT !.late = @ \/ j < i]], i)
    /\ Goto(a, IF a = Relay THEN "recv" ELSE IF Connected(a) THEN "read" ELSE "closed")
    /\ UNCHANGED <<connVars, quotes, routeVars, batch, handed>>

-----------------------------------------------------------------------------
(* The matcher's external pass, on a thread of its own: it reads the watch *)
(* channel, selects, and sends.                                            *)

\* The withdrawal of the item is not through: a batch with it is with the relay,
\* or the snapshot without it has not reached the watch channel for good.
Withdrawing(i) ==
    i \in batch \cup UNION ToSet(routeQ) \/ overtaken \/ pending # <<>> \/ ~Quiet

\* Mutant of ReadQuotes: the quotes used before are kept at hand.
ReadQuotesCached ==
    /\ view = {} /\ snapshot # {} /\ batches < MaxBatches
    /\ view' = snapshot \cup used
    /\ window' = {i \in view' \cap used : Withdrawing(i)}
    /\ UNCHANGED <<pc, connVars, quotes, watchVars, routeQ, used, batches, batch, handed>>

\* quotes_rx.borrow().clone(); without quotes there is nothing to route.
ReadQuotes ==
    /\ view = {} /\ snapshot # {} /\ batches < MaxBatches
    /\ view' = snapshot
    /\ window' = {i \in view' \cap used : Withdrawing(i)}
    /\ UNCHANGED <<pc, connVars, quotes, watchVars, routeQ, used, batches, batch, handed>>

\* route_tx.try_send: whole notes against some of the quotes that were read.
RouteTick ==
    /\ Len(routeQ) < RouteBuf
    /\ \E picks \in (SUBSET view) \ {{}} : routeQ' = Append(routeQ, picks) /\ used' = used \cup picks
    /\ batches' = batches + 1
    /\ view' = {} /\ window' = {}
    /\ UNCHANGED <<pc, connVars, quotes, watchVars, batch, handed>>

\* No note is selected, or the channel is full: the batch is dropped and its
\* notes are unparked.
RouteNothing ==
    /\ view # {}
    /\ view' = {} /\ window' = {}
    /\ UNCHANGED <<pc, connVars, quotes, watchVars, routeQ, used, batches, batch, handed>>

\* The relay: deliver puts the frames into the outbound queues; a connection
\* that is gone gets none.
Deliver ==
    /\ pc[Relay] = "recv" /\ routeQ # <<>>
    /\ batch' = Head(routeQ)
    /\ routeQ' = Tail(routeQ)
    /\ handed' = {<<conns[i.dex], i.quote>> : i \in {j \in Head(routeQ) : j.dex \in DOMAIN conns}}
    /\ Goto(Relay, "consume")
    /\ UNCHANGED <<connVars, quotes, watchVars, view, window, used, batches>>

\* Mutants of Consume: `||` instead of `|=` stops at the first quote it removes;
\* a batch is republished only when all its quotes were still there.
ConsumeShortCircuit ==
    /\ pc[Relay] = "consume"
    /\ LET standing == {i.dex : i \in batch} \cap DOMAIN quotes
       IN IF standing = {} THEN UNCHANGED quotes /\ Goto(Relay, "recv")
          ELSE /\ \E d \in standing : quotes' = Drop(quotes, {d})
               /\ Goto(Relay, "publish")
    /\ batch' = {} /\ handed' = {}
    /\ UNCHANGED <<connVars, watchVars, routeVars>>

ConsumeAllOrNothing ==
    /\ pc[Relay] = "consume"
    /\ quotes' = Drop(quotes, {i.dex : i \in batch})
    /\ Goto(Relay, IF {i.dex : i \in batch} \subseteq DOMAIN quotes THEN "publish" ELSE "recv")
    /\ batch' = {} /\ handed' = {}
    /\ UNCHANGED <<connVars, watchVars, routeVars>>

\* The used quotes are withdrawn, whatever now stands under the dex.
Consume ==
    /\ pc[Relay] = "consume"
    /\ quotes' = Drop(quotes, {i.dex : i \in batch})
    /\ Goto(Relay, IF quotes' = quotes THEN "recv" ELSE "publish")
    /\ batch' = {} /\ handed' = {}
    /\ UNCHANGED <<connVars, watchVars, routeVars>>

-----------------------------------------------------------------------------
RelayNext == Deliver \/ Consume \/ BuildSnapshot(Relay) \/ SendSnapshot(Relay)

SocketNext(s) ==
    \/ Accept(s) \/ UpgradeFails(s) \/ Open(s) \/ StoreQuote(s)
    \/ Unlink(s) \/ Purge(s) \/ Uncount(s) \/ BuildSnapshot(s) \/ SendSnapshot(s)

ExternalPass == ReadQuotes \/ RouteTick \/ RouteNothing

Next == RelayNext \/ ExternalPass \/ \E s \in Sockets : SocketNext(s)

Spec == Init /\ [][Next]_vars

\* The relay task is polled whenever the channel has a batch for it.
FairSpec == Spec /\ WF_vars(RelayNext)

-----------------------------------------------------------------------------
(* Properties.                                                             *)

\* Every variable keeps its type; the ids never leave the range of the
\* connections made, and each dex has its own connection.
TypeOK ==
    /\ pc \in [Actors -> {"new", "upgrade", "read", "publish", "send", "purge", "uncount", "closed",
                        "recv", "consume"}]
    /\ dexOf \in [Sockets -> {0} \cup DexIds] /\ posted \in 0..MaxQuotes
    /\ next_dex \in 1..(Cardinality(Sockets) + 1)
    /\ DOMAIN conns \subseteq DexIds /\ \A d \in DOMAIN conns : conns[d] \in Sockets /\ dexOf[conns[d]] = d
    /\ DOMAIN quotes \subseteq DexIds /\ \A d \in DOMAIN quotes : quotes[d] \in Quotes
    /\ \A i \in DOMAIN pending : pending[i].by \in Actors /\ pending[i].snap \subseteq Items
    /\ snapshot \subseteq Items /\ overtaken \in BOOLEAN
    /\ \A i \in DOMAIN routeQ : routeQ[i] \subseteq Items
    /\ Len(routeQ) <= RouteBuf /\ batch \subseteq Items /\ view \subseteq Items /\ window \subseteq view
    /\ handed \subseteq (Sockets \X Quotes) /\ used \subseteq Items /\ batches \in 0..MaxBatches

\* The count the cap is checked against is the number of connections between
\* their handle_conn and their deregister: failed upgrades and the saturating
\* decrement leave no residue that would block or admit connections for ever.
ConnCountExact ==
    conn_count = Cardinality({s \in Sockets : pc[s] \in {"purge", "uncount"} \/ Connected(s)})

\* A handover only ever goes to the connection that posted the quote, however
\* long its batch waited and whoever connected meanwhile (next_dex is not reused).
HandedToQuoter == \A h \in handed : h[1] = h[2][1]

\* Once every task is done publishing, the matcher sees exactly the standing
\* quotes, unless the last snapshot sent had been overtaken by a newer one: no
\* change of the quote map, by a quote, a handover or a disconnect, goes
\* unpublished.  Every variable keeps its type.
SnapshotCurrent ==
    /\ TypeOK
    /\ (pending = <<>> /\ ~overtaken /\ Quiet) => snapshot = Standing

\* A closed connection leaves no quote in the map, whatever the relay and its
\* own last messages did meanwhile.
ClosedLeavesNoQuote ==
    \A d \in DOMAIN quotes : pc[quotes[d][1]] # "closed"

\* Every quote a batch was sent for is eventually withdrawn.
UsedQuoteWithdrawn ==
    \A n \in 1..MaxQuotes : (\E i \in DOMAIN routeQ : \E x \in routeQ[i] : x.quote[2] = n)
                            ~> ~\E d \in DOMAIN quotes : quotes[d][2] = n

\* A used quote is used again only by a pass that read the quotes while the
\* withdrawal was under way, however long it then takes to select and send: once
\* the withdrawal is through, no later pass uses the quote (external_pass reads
\* the watch channel anew each time, and what deliver withdraws stays withdrawn).
SecondUseInFlight ==
    [][Len(routeQ') > Len(routeQ) => Last(routeQ') \cap used \subseteq window]_vars

-----------------------------------------------------------------------------
(* What the repository says of the router and the code does not keep.      *)

\* docs/external-liquidity-routing.md: "A quote governs a single batch": no batch
\* is sent for an item that one was sent for before.
SingleBatch ==
    [][Len(routeQ') > Len(routeQ) => Last(routeQ') \cap used = {}]_vars

=============================================================================
