---------------------------- MODULE TokenRegistry ----------------------------
(***************************************************************************)
(* The tokens the solver trades: the registered_tokens table behind its    *)
(* single write connection, the admin handlers that change it, the symbol  *)
(* cache they write through, the channel to the subscribe relay, the       *)
(* relay's work on the ingest thread, and the price feed.                  *)
(*                                                                         *)
(* The admin handlers and the price feed share the main thread, which has  *)
(* a single-threaded runtime: a task runs until it awaits.  write_conn()   *)
(* blocks its whole thread, for at most the pool's timeout.                *)
(***************************************************************************)
EXTENDS Naturals, SequencesExt

CONSTANTS
    Tokens,         \* faucet ids
    Symbols,        \* external symbols of the price oracle
    None,           \* no symbol
    ConfigTokens,   \* tokens of the [[pairs]] entries
    SeedSymbol,     \* the symbol the configuration gives them
    SubscribeBuf,   \* SUBSCRIBE_CHANNEL_BUF
    MaxRequests,    \* bound: admin requests
    MaxCrashes      \* bound: crashes and failed starts

ASSUME RegistryAssumption ==
    /\ IsFiniteSet(Tokens) /\ ConfigTokens \subseteq Tokens /\ None \notin Symbols
    /\ SeedSymbol \in Symbols \cup {None}
    /\ SubscribeBuf \in Nat \ {0} /\ MaxRequests \in Nat /\ MaxCrashes \in Nat

VARIABLES
    rows,       \* registered_tokens: token -> symbol and whether decimals are known
    tags,       \* pairs whose note tag the client's store holds
    up,         \* is the process running?
    map,        \* token_map: token -> symbol
    sends,      \* what a suspended register_token still has to send; while there
                \* is any, that handler holds the write connection
    stalled,    \* another handler blocks the main thread in write_conn()
    subQ,       \* the subscribe channel
    ingest,     \* the ingest thread: "down", "start", "boot" or "relay"
    todo,       \* its jobs: <<offered, requested>> subscribes, <<token>> annotates
    step,       \* where it is in ensure_token_metadata
    poll,       \* symbols the price request in flight asks for, or None
    prices,     \* the published snapshot: token -> symbol its price was asked by
    missed,     \* history: pairs whose subscription was given up in this life
    requests, crashes   \* counters for the bounds

disk == <<rows, tags>>
main == <<map, sends, stalled>>
relay == <<ingest, todo, step>>
feed == <<poll, prices>>
vars == <<disk, up, main, subQ, relay, feed, missed, requests, crashes>>

Pairs == {p \in Tokens \X Tokens : p[1] # p[2]}
Jobs == Pairs \cup {<<t>> : t \in Tokens}
Row == [symbol : Symbols \cup {None}, decimals : BOOLEAN]
Registered == DOMAIN rows
Empty == [t \in {} |-> None]

\* load_token_symbols: the rows that have a symbol.
load_token_symbols(r) ==
    [t \in {u \in DOMAIN r : r[u].symbol # None} |-> r[t].symbol]

\* insert_or_ignore_into(registered_tokens): the metadata starts unknown.
Inserted(r, new, symbol) ==
    [t \in DOMAIN r \cup new |->
        IF t \in DOMAIN r THEN r[t] ELSE [symbol |-> symbol, decimals |-> FALSE]]

\* Mutant of set_cache: the entry of a token without a symbol stays.
set_cache_keeps(t, symbol) ==
    map' = IF symbol = None THEN map
           ELSE [u \in DOMAIN map \cup {t} |-> IF u = t THEN symbol ELSE map[u]]

set_cache(t, symbol) ==
    map' = IF symbol = None THEN Restrict(map, DOMAIN map \ {t})
           ELSE [u \in DOMAIN map \cup {t} |-> IF u = t THEN symbol ELSE map[u]]

Init ==
    /\ rows = Empty /\ tags = {} /\ up = FALSE
    /\ map = Empty /\ sends = <<>> /\ stalled = FALSE
    /\ subQ = <<>> /\ ingest = "down" /\ todo = <<>> /\ step = "check"
    /\ poll = None /\ prices = Empty
    /\ missed = {} /\ requests = 0 /\ crashes = 0

-----------------------------------------------------------------------------
(* The life of the process.                                                *)

\* prepare_db, then the services of the main thread and the ingest thread.
Boot ==
    /\ ~up
    /\ up' = TRUE /\ ingest' = "start"
    /\ rows' = Inserted(rows, ConfigTokens, SeedSymbol)
    /\ map' = load_token_symbols(rows')
    /\ UNCHANGED <<tags, sends, stalled, subQ, todo, step, feed, missed, requests, crashes>>

\* Everything but the database and the client's store is lost.
Down ==
    /\ crashes < MaxCrashes
    /\ crashes' = crashes + 1 /\ up' = FALSE
    /\ map' = Empty /\ sends' = <<>> /\ stalled' = FALSE
    /\ subQ' = <<>> /\ ingest' = "down" /\ todo' = <<>> /\ step' = "check"
    /\ poll' = None /\ prices' = Empty /\ missed' = {}
    /\ UNCHANGED <<disk, requests>>

Crash == up /\ Down

-----------------------------------------------------------------------------
(* Admin handlers.                                                         *)

MainRuns == up /\ ~stalled

\* A handler that gets the write connection at once.
Request ==
    /\ MainRuns /\ sends = <<>>
    /\ requests < MaxRequests /\ requests' = requests + 1

\* Mutant of PairsWith: only the pairs that offer the new token.
PairsWithOneWay(t, existing) == SetToSeq({<<t, u>> : u \in existing \ {t}})

\* The pairs register_token sends, both directions for every other token.
PairsWith(t, existing) ==
    SetToSeq({<<t, u>> : u \in existing \ {t}} \cup {<<u, t>> : u \in existing \ {t}})

\* add_token up to the first send: the row, the cache, the registered tokens.
\* Reading those back may fail; then the row stays and nothing is sent.
add_token(t, symbol) ==
    /\ Request
    /\ rows' = Inserted(rows, {t}, symbol)
    /\ IF t \in Registered
         THEN UNCHANGED <<map, sends, missed>>
         ELSE /\ IF symbol # None THEN set_cache(t, symbol) ELSE UNCHANGED map
              /\ LET new == PairsWith(t, DOMAIN rows')
                 IN \/ sends' = new /\ UNCHANGED missed
                    \/ missed' = missed \cup ToSet(new) /\ UNCHANGED sends
    /\ UNCHANGED <<tags, up, stalled, subQ, relay, feed, crashes>>

\* send().await: waits while the channel is full.  The connection is dropped
\* with the handler, after its last send.
Send ==
    /\ MainRuns /\ sends # <<>> /\ Len(subQ) < SubscribeBuf
    /\ subQ' = Append(subQ, Head(sends))
    /\ sends' = Tail(sends)
    /\ UNCHANGED <<disk, up, map, stalled, relay, feed, missed, requests, crashes>>

\* The client goes away at such an await, and the server drops the handler.
Disconnect ==
    /\ MainRuns /\ sends # <<>>
    /\ missed' = missed \cup ToSet(sends)
    /\ sends' = <<>>
    /\ UNCHANGED <<disk, up, map, stalled, subQ, relay, feed, requests, crashes>>

update_token_symbol_handler(t, symbol) ==
    /\ Request
    /\ IF t \in Registered
         THEN /\ rows' = [rows EXCEPT ![t].symbol = symbol]
              /\ set_cache(t, symbol)
         ELSE UNCHANGED <<rows, map>>
    /\ UNCHANGED <<tags, up, sends, stalled, subQ, relay, feed, missed, crashes>>

\* The tags of the token's pairs stay.
remove_token(t) ==
    /\ Request
    /\ IF t \in Registered
         THEN /\ rows' = Restrict(rows, Registered \ {t})
              /\ set_cache(t, None)
         ELSE UNCHANGED <<rows, map>>
    /\ UNCHANGED <<tags, up, sends, stalled, subQ, relay, feed, missed, crashes>>

\* A handler asks for the write connection while a suspended register_token has
\* it.  Both are on this thread, so the holder cannot go on: only the timeout
\* of the pool ends the wait, and the request fails.
RequestStalls ==
    /\ MainRuns /\ sends # <<>>
    /\ requests < MaxRequests /\ requests' = requests + 1
    /\ stalled' = TRUE
    /\ UNCHANGED <<disk, up, map, sends, subQ, relay, feed, missed, crashes>>

RequestFails ==
    /\ stalled
    /\ stalled' = FALSE
    /\ UNCHANGED <<disk, up, map, sends, subQ, relay, feed, missed, requests, crashes>>

-----------------------------------------------------------------------------
(* The ingest thread: subscribe_all_pairs, then the relay.                 *)

\* load_registered_tokens: annotate every token, then subscribe every pair.
subscribe_all_pairs ==
    /\ ingest = "start"
    /\ ingest' = "boot"
    /\ todo' = SetToSeq({<<t>> : t \in Registered})
               \o SetToSeq({p \in Pairs : {p[1], p[2]} \subseteq Registered})
    /\ UNCHANGED <<disk, up, main, subQ, step, feed, missed, requests, crashes>>

RelayStarts ==
    /\ ingest = "boot" /\ todo = <<>>
    /\ ingest' = "relay"
    /\ UNCHANGED <<disk, up, main, subQ, todo, step, feed, missed, requests, crashes>>

Receive ==
    /\ ingest = "relay" /\ todo = <<>> /\ subQ # <<>>
    /\ todo' = LET p == Head(subQ) IN <<p, <<p[1]>>, <<p[2]>>>>
    /\ subQ' = Tail(subQ)
    /\ UNCHANGED <<disk, up, main, ingest, step, feed, missed, requests, crashes>>

Subscribing == todo # <<>> /\ Len(Head(todo)) = 2

subscribe_pair ==
    /\ Subscribing
    /\ tags' = tags \cup {Head(todo)}
    /\ todo' = Tail(todo)
    /\ UNCHANGED <<rows, up, main, subQ, ingest, step, feed, missed, requests, crashes>>

\* The relay logs a failed subscription and goes on.
SubscribeFails ==
    /\ Subscribing /\ ingest = "relay"
    /\ missed' = missed \cup {Head(todo)}
    /\ todo' = Tail(todo)
    /\ UNCHANGED <<disk, up, main, subQ, ingest, step, feed, requests, crashes>>

\* At boot a failed read or subscription fails the start.
StartFails ==
    /\ ingest = "start" \/ (ingest = "boot" /\ Subscribing)
    /\ Down

(* ensure_token_metadata.                                                  *)
Annotating(s) == todo # <<>> /\ Len(Head(todo)) = 1 /\ step = s
JobDone == todo' = Tail(todo) /\ step' = "check"

\* The write connection is free: is the row there and its metadata missing?
MetadataCheck ==
    /\ Annotating("check") /\ sends = <<>>
    /\ LET t == Head(todo)[1]
       IN IF t \in Registered /\ ~rows[t].decimals
            THEN step' = "fetch" /\ UNCHANGED todo
            ELSE JobDone
    /\ UNCHANGED <<disk, up, main, subQ, ingest, feed, missed, requests, crashes>>

\* The node answers, or there is nothing to persist.
MetadataFetch ==
    /\ Annotating("fetch")
    /\ \/ step' = "set" /\ UNCHANGED todo
       \/ JobDone
    /\ UNCHANGED <<disk, up, main, subQ, ingest, feed, missed, requests, crashes>>

\* set_token_metadata; the row may have gone, or been made anew, meanwhile.
MetadataSet ==
    /\ Annotating("set") /\ sends = <<>>
    /\ LET t == Head(todo)[1]
       IN rows' = IF t \in Registered THEN [rows EXCEPT ![t].decimals = TRUE] ELSE rows
    /\ JobDone
    /\ UNCHANGED <<tags, up, main, subQ, ingest, feed, missed, requests, crashes>>

\* Mutant of MetadataGivesUp: the thread waits for the connection for ever.
MetadataWaits ==
    /\ (Annotating("check") \/ Annotating("set")) /\ sends = <<>>
    /\ JobDone
    /\ UNCHANGED <<disk, up, main, subQ, ingest, feed, missed, requests, crashes>>

\* write_conn() times out on a connection that is held, or the statement fails.
MetadataGivesUp ==
    /\ Annotating("check") \/ Annotating("set")
    /\ JobDone
    /\ UNCHANGED <<disk, up, main, subQ, ingest, feed, missed, requests, crashes>>

-----------------------------------------------------------------------------
(* run_price_feed.                                                         *)

\* Mutant of Poll: what was published before is asked for again.
PollOld ==
    /\ MainRuns /\ poll = None
    /\ LET asked == IF prices = Empty THEN map ELSE prices
       IN IF asked = Empty
            THEN prices' = Empty /\ UNCHANGED poll
            ELSE poll' = asked /\ UNCHANGED prices
    /\ UNCHANGED <<disk, up, main, subQ, relay, missed, requests, crashes>>

\* The map is copied before the request; an empty one is answered at once.
Poll ==
    /\ MainRuns /\ poll = None
    /\ IF map = Empty
         THEN prices' = Empty /\ UNCHANGED poll
         ELSE poll' = map /\ UNCHANGED prices
    /\ UNCHANGED <<disk, up, main, subQ, relay, missed, requests, crashes>>

\* A price for each token whose symbol the oracle knows and answers sensibly.
PollAnswered ==
    /\ MainRuns /\ poll # None
    /\ \E known \in SUBSET Symbols :
         prices' = Restrict(poll, {t \in DOMAIN poll : poll[t] \in known})
    /\ poll' = None
    /\ UNCHANGED <<disk, up, main, subQ, relay, missed, requests, crashes>>

\* An error keeps the last good prices.
PollFails ==
    /\ MainRuns /\ poll # None
    /\ poll' = None
    /\ UNCHANGED <<disk, up, main, subQ, relay, prices, missed, requests, crashes>>

-----------------------------------------------------------------------------
IngestStep ==
    \/ subscribe_all_pairs \/ RelayStarts \/ Receive \/ subscribe_pair \/ SubscribeFails
    \/ MetadataCheck \/ MetadataFetch \/ MetadataSet \/ MetadataGivesUp

Next ==
    \/ Boot \/ Crash \/ StartFails
    \/ Send \/ Disconnect \/ RequestStalls \/ RequestFails
    \/ \E t \in Tokens, s \in Symbols \cup {None} :
         add_token(t, s) \/ update_token_symbol_handler(t, s)
    \/ \E t \in Tokens : remove_token(t)
    \/ IngestStep
    \/ Poll \/ PollAnswered \/ PollFails

Spec == Init /\ [][Next]_vars

\* The threads run, the pool's timeout expires, and the runtime polls a task
\* that is woken again and again.  Nothing is asked of clients, oracle or crashes.
Fairness ==
    /\ WF_vars(IngestStep) /\ WF_vars(RequestFails) /\ SF_vars(Send)

FairSpec == Spec /\ Fairness

-----------------------------------------------------------------------------
(* Properties.                                                             *)

\* Every variable keeps its type.
TypeOK ==
    /\ Registered \subseteq Tokens /\ rows \in [Registered -> Row]
    /\ DOMAIN map \subseteq Tokens /\ map \in [DOMAIN map -> Symbols]
    /\ tags \subseteq Pairs /\ missed \subseteq Pairs
    /\ sends \in Seq(Pairs) /\ subQ \in Seq(Pairs) /\ Len(subQ) <= SubscribeBuf
    /\ up \in BOOLEAN /\ stalled \in BOOLEAN
    /\ ingest \in {"down", "start", "boot", "relay"} /\ todo \in Seq(Jobs)
    /\ step \in {"check", "fetch", "set"}
    /\ DOMAIN prices \subseteq Tokens /\ (poll # None => DOMAIN poll \subseteq Tokens)
    /\ requests \in 0..MaxRequests /\ crashes \in 0..MaxCrashes

\* The symbol cache is written through: it says what the table says, whichever
\* handlers ran, whatever they failed at and whatever a restart seeded.
\* Every variable keeps its type.
CacheMatchesRows == TypeOK /\ (up => map = load_token_symbols(rows))

\* No pair is forgotten: for every two registered tokens the subscription is in
\* the client's store, or on its way there (still to be sent, in the channel, in
\* the ingest thread's hands, or ahead of the load at boot), or was given up in
\* this life of the process, by a dropped handler, a failed read or a failed
\* subscription; a token registered while the boot subscribes is no exception.
PairsCovered ==
    ingest \in {"boot", "relay"} =>
        \A p \in Pairs :
            {p[1], p[2]} \subseteq Registered =>
                p \in tags \cup missed \cup ToSet(sends) \cup ToSet(subQ) \cup ToSet(todo)

\* The registration that waits on a full subscribe channel with the only write
\* connection in its hands lets go of it, although the relay that has to empty
\* the channel may itself be waiting for that connection.
ConnReleased == (sends # <<>>) ~> (sends = <<>>)

\* If the oracle answers again and again, then from some time on a price is only
\* published for a token that is registered and by the symbol it has now: a
\* removed token or a replaced symbol does not stay in the snapshot.
PricesFollow ==
    []<><<PollAnswered>>_vars =>
        <>[](\A t \in DOMAIN prices : t \in DOMAIN map /\ prices[t] = map[t])

=============================================================================
