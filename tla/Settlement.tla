----------------------------- MODULE Settlement -----------------------------
(***************************************************************************)
(* The order pipeline of the PSWAP solver: the chain, the keyless ingest   *)
(* thread, the SQLite order table, the matcher on the main thread and the  *)
(* keystore executor thread, joined by three bounded channels.             *)
(*                                                                         *)
(* An order is identified with the note that carries it.  Its terms are    *)
(* abstracted away: which orders the matcher pairs is a free choice (the   *)
(* matching itself is in module Matching, the book in module OrderBook).   *)
(* Everything that moves an order between the chain, the database, the     *)
(* channels and the in-memory book is kept, with every failure path.       *)
(***************************************************************************)
EXTENDS Naturals, Sequences, FiniteSets

CONSTANTS
    Notes,          \* the PSWAP notes that may ever be created
    ChannelBuf,     \* capacity of each channel (PIPELINE_CHANNEL_BUF)
    MaxRpcRetries,  \* MAX_RPC_RETRIES of the executor
    SameSyncReport, \* may the client report a note new and consumed in one sync?
    MaxFaults,      \* bound: database, store and nullifier-query failures
    MaxCrashes,     \* bound: crashes of the process
    MaxShutdowns    \* bound: graceful shutdowns

ASSUME ChannelAssumption == ChannelBuf \in Nat \ {0}
ASSUME RetryAssumption == MaxRpcRetries \in Nat
ASSUME SyncAssumption == SameSyncReport \in BOOLEAN
ASSUME BoundAssumption == MaxFaults \in Nat /\ MaxCrashes \in Nat /\ MaxShutdowns \in Nat

VARIABLES
    \* ---- outside the process
    chain,      \* what the ledger says of each note
    seen,       \* notes the ingest client's store has reported as new
    reported,   \* notes whose nullifier the client has reported
    db,         \* status column of the orders table, "none": no row
    \* ---- the process
    up,         \* is it running?
    orderQ,     \* channel ingest/executor -> matcher
    consumedQ,  \* channel ingest -> matcher
    execQ,      \* channel matcher -> executor
    inPc,       \* where ingest_once stands
    fresh,      \* new notes of this iteration; from "forward" on, those still to be sent
    gone,       \* consumed notes of this iteration; at "notify", those still to be sent
    mPc,        \* where the matcher tick stands
    book,       \* the orders of the in-memory book
    mBatch,     \* filled orders of this tick
    xPc,        \* where execute_batch stands
    xBatch,     \* orders of the batch in hand; at "refeed", those still to be sent
    xSpent,     \* answer of the nullifier query
    attempt,    \* submit attempt number
    \* ---- bookkeeping of the model
    faults, crashes, shutdowns,   \* counters for the bounds
    gaveUp,     \* orders this run of the process dropped on an error path
    raced       \* orders hydrated while their first channel copy was still on its way

outside  == <<chain, seen, reported, db>>
channels == <<orderQ, consumedQ, execQ>>
ingest   == <<inPc, fresh, gone>>
matcher  == <<mPc, book, mBatch>>
executor == <<xPc, xBatch, xSpent, attempt>>
stops    == <<crashes, shutdowns>>
bounds   == <<faults, stops>>
history  == <<gaveUp, raced>>
vars     == <<outside, up, channels, ingest, matcher, executor, bounds, history>>

Ledger == {"absent", "live", "spent"}
Status == {"none", "active", "settling", "executed", "nullified"}

Elems(q) == {q[i] : i \in DOMAIN q}
HasRoom(q) == Len(q) < ChannelBuf
Active == {n \in Notes : db[n] = "active"}
Spent == {n \in Notes : chain[n] = "spent"}

-----------------------------------------------------------------------------
\* The statements of db.rs on the status column.

\* update_orders_status: unconditional
UpdateStatus(S, status) == [n \in Notes |-> IF n \in S /\ db[n] # "none" THEN status ELSE db[n]]

\* Mutant of MarkNullified: the status guard is dropped.
MarkNullifiedUnguarded(S) == [n \in Notes |-> IF n \in S /\ db[n] # "none" THEN "nullified" ELSE db[n]]

\* mark_orders_onchain_nullified: only rows that are active or settling
MarkNullified(S) ==
    [n \in Notes |-> IF n \in S /\ db[n] \in {"active", "settling"} THEN "nullified" ELSE db[n]]

\* insert_notes_batch: INSERT OR IGNORE, one transaction
InsertNew(S) == [n \in Notes |-> IF n \in S /\ db[n] = "none" THEN "active" ELSE db[n]]

\* reset_all_settling_to_active, at boot
ResetSettling == [n \in Notes |-> IF db[n] = "settling" THEN "active" ELSE db[n]]

-----------------------------------------------------------------------------
Init ==
    /\ chain = [n \in Notes |-> "absent"]
    /\ seen = {} /\ reported = {}
    /\ db = [n \in Notes |-> "none"]
    /\ up = TRUE
    /\ orderQ = <<>> /\ consumedQ = <<>> /\ execQ = <<>>
    /\ inPc = "idle" /\ fresh = {} /\ gone = {}
    /\ mPc = "hydrate" /\ book = {} /\ mBatch = {}
    /\ xPc = "idle" /\ xBatch = {} /\ xSpent = {} /\ attempt = 0
    /\ faults = 0 /\ crashes = 0 /\ shutdowns = 0
    /\ gaveUp = {} /\ raced = {}

-----------------------------------------------------------------------------
(* The chain.  A user creates a PSWAP note; its creator, a competing       *)
(* filler or a DEX the note was handed to consumes it.                     *)

CreateNote(n) ==
    /\ chain[n] = "absent"
    /\ chain' = [chain EXCEPT ![n] = "live"]
    /\ UNCHANGED <<seen, reported, db, up, channels, ingest, matcher, executor, bounds, history>>

ConsumeExternally(n) ==
    /\ chain[n] = "live"
    /\ chain' = [chain EXCEPT ![n] = "spent"]
    /\ UNCHANGED <<seen, reported, db, up, channels, ingest, matcher, executor, bounds, history>>

-----------------------------------------------------------------------------
(* Ingest: one action per await or database statement of ingest_once.      *)

\* client.sync_state() commits to the client's own store: from here on the
\* client never reports these notes again.  A note created and consumed in the
\* same range may be reported consumed now or by a later sync.
IngestSync ==
    /\ up /\ inPc = "idle"
    /\ LET new == {n \in Notes : chain[n] # "absent"} \ seen
       IN \E early \in SUBSET (new \cap Spent) :
            /\ early = {} \/ SameSyncReport
            /\ fresh' = new
            /\ gone' = ((Spent \cap seen) \ reported) \cup early
            /\ seen' = seen \cup new
    /\ reported' = reported \cup gone'
    /\ inPc' = "fetch"
    /\ UNCHANGED <<chain, db, up, channels, matcher, executor, bounds, history>>

\* The get_input_note loop of the adapter; a note whose record cannot be read
\* or converted is logged and dropped.
IngestFetch ==
    /\ up /\ inPc = "fetch"
    /\ \/ UNCHANGED <<fresh, faults>>
       \/ /\ faults < MaxFaults
          /\ faults' = faults + 1
          /\ \E n \in fresh : fresh' = fresh \ {n}
    /\ inPc' = "mark"
    /\ UNCHANGED <<outside, up, channels, gone, matcher, executor, stops, history>>

IngestMarkConsumed ==
    /\ up /\ inPc = "mark"
    /\ db' = MarkNullified(gone)
    /\ inPc' = "notify"
    /\ UNCHANGED <<chain, seen, reported, up, channels, fresh, gone, matcher, executor, bounds, history>>

\* write_conn()? or the UPDATE fails: the iteration ends, its new notes included.
IngestMarkFails ==
    /\ up /\ inPc = "mark" /\ gone # {}
    /\ faults < MaxFaults /\ faults' = faults + 1
    /\ inPc' = "idle" /\ fresh' = {} /\ gone' = {}
    /\ UNCHANGED <<outside, up, channels, matcher, executor, stops, history>>

IngestNotifyConsumed(n) ==
    /\ up /\ inPc = "notify" /\ n \in gone /\ HasRoom(consumedQ)
    /\ consumedQ' = Append(consumedQ, n)
    /\ gone' = gone \ {n}
    /\ UNCHANGED <<outside, up, orderQ, execQ, inPc, fresh, matcher, executor, bounds, history>>

\* insert_notes_batch; only the rows it really inserted are forwarded.
IngestInsert ==
    /\ up /\ inPc = "notify" /\ gone = {}
    /\ db' = InsertNew(fresh)
    /\ fresh' = {n \in fresh : db[n] = "none"}
    /\ inPc' = IF fresh' = {} THEN "idle" ELSE "forward"
    /\ UNCHANGED <<chain, seen, reported, up, channels, gone, matcher, executor, bounds, history>>

IngestInsertFails ==
    /\ up /\ inPc = "notify" /\ gone = {} /\ fresh # {}
    /\ faults < MaxFaults /\ faults' = faults + 1
    /\ inPc' = "idle" /\ fresh' = {}
    /\ UNCHANGED <<outside, up, channels, gone, matcher, executor, stops, history>>

IngestForward(n) ==
    /\ up /\ inPc = "forward" /\ n \in fresh /\ HasRoom(orderQ)
    /\ orderQ' = Append(orderQ, n)
    /\ fresh' = fresh \ {n}
    /\ inPc' = IF fresh' = {} THEN "idle" ELSE "forward"
    /\ UNCHANGED <<outside, up, consumedQ, execQ, gone, matcher, executor, bounds, history>>

-----------------------------------------------------------------------------
(* The matcher: run_matcher is polled on the main thread, so its first     *)
(* step, the hydration, may come after ingest has started.                 *)

Hydrate ==
    /\ up /\ mPc = "hydrate"
    /\ book' = Active
    /\ mPc' = "idle"
    /\ raced' = Active \cap (Elems(orderQ) \cup IF inPc = "forward" THEN fresh ELSE {})
    /\ UNCHANGED <<outside, up, channels, ingest, mBatch, executor, bounds, gaveUp>>

\* The query fails: logged, and the matcher starts with an empty book.
HydrateFails ==
    /\ up /\ mPc = "hydrate"
    /\ faults < MaxFaults /\ faults' = faults + 1
    /\ mPc' = "idle"
    /\ gaveUp' = gaveUp \cup Active
    /\ UNCHANGED <<outside, up, channels, ingest, book, mBatch, executor, stops, raced>>

Tick ==
    /\ up /\ mPc = "idle"
    /\ mPc' = "drainConsumed"
    /\ UNCHANGED <<outside, up, channels, ingest, book, mBatch, executor, bounds, history>>

\* while let Ok(note_id) = consumed_rx.try_recv()
DrainConsumed ==
    /\ up /\ mPc = "drainConsumed"
    /\ \/ /\ consumedQ # <<>>
          /\ book' = book \ {Head(consumedQ)}
          /\ consumedQ' = Tail(consumedQ)
          /\ UNCHANGED mPc
       \/ /\ consumedQ = <<>>
          /\ mPc' = "drainOrders"
          /\ UNCHANGED <<book, consumedQ>>
    /\ UNCHANGED <<outside, up, orderQ, execQ, ingest, mBatch, executor, bounds, history>>

\* Mutant of DrainOrders: the tick goes on without draining the order channel.
DrainOrdersSkipped ==
    /\ up /\ mPc = "drainOrders"
    /\ mPc' = "match"
    /\ UNCHANGED <<outside, up, channels, ingest, book, mBatch, executor, bounds, history>>

\* while let Ok(order) = order_rx.try_recv(); add_user_order is idempotent
DrainOrders ==
    /\ up /\ mPc = "drainOrders"
    /\ \/ /\ orderQ # <<>>
          /\ book' = book \cup {Head(orderQ)}
          /\ orderQ' = Tail(orderQ)
          /\ UNCHANGED mPc
       \/ /\ orderQ = <<>>
          /\ mPc' = "match"
          /\ UNCHANGED <<book, orderQ>>
    /\ UNCHANGED <<outside, up, consumedQ, execQ, ingest, mBatch, executor, bounds, history>>

\* engine.run(): any group of at least two orders may cross.
Match ==
    /\ up /\ mPc = "match"
    /\ \E filled \in SUBSET book :
         /\ Cardinality(filled) >= 2
         /\ mBatch' = filled
    /\ mPc' = "emit"
    /\ UNCHANGED <<outside, up, channels, ingest, book, executor, bounds, history>>

NoMatch ==
    /\ up /\ mPc = "match"
    /\ mPc' = "idle"
    /\ UNCHANGED <<outside, up, channels, ingest, book, mBatch, executor, bounds, history>>

\* Mutant of EmitBatch: the filled orders stay in the book.
EmitBatchKeepsBook ==
    /\ up /\ mPc = "emit" /\ HasRoom(execQ)
    /\ execQ' = Append(execQ, mBatch)
    /\ mBatch' = {}
    /\ mPc' = "idle"
    /\ UNCHANGED <<outside, up, orderQ, consumedQ, ingest, book, executor, bounds, history>>

\* exec_tx.send().await, and only then the removal of every filled order.
EmitBatch ==
    /\ up /\ mPc = "emit" /\ HasRoom(execQ)
    /\ execQ' = Append(execQ, mBatch)
    /\ book' = book \ mBatch
    /\ mBatch' = {}
    /\ mPc' = "idle"
    /\ UNCHANGED <<outside, up, orderQ, consumedQ, ingest, executor, bounds, history>>

-----------------------------------------------------------------------------
(* The executor: execute_batch.                                            *)

TakeBatch ==
    /\ up /\ xPc = "idle" /\ execQ # <<>>
    /\ xBatch' = Head(execQ)
    /\ execQ' = Tail(execQ)
    /\ xPc' = "mark"
    /\ UNCHANGED <<outside, up, orderQ, consumedQ, ingest, matcher, xSpent, attempt, bounds, history>>

\* execute_batch returns an error without re-feeding: the orders leave memory.
GiveUp ==
    /\ gaveUp' = gaveUp \cup xBatch
    /\ xBatch' = {} /\ xPc' = "idle" /\ xSpent' = {} /\ attempt' = 0

\* prepare_batch_components bails (an insolvent batch) before any database write.
PrepareFails ==
    /\ up /\ xPc = "mark"
    /\ GiveUp
    /\ UNCHANGED <<outside, up, channels, ingest, matcher, bounds, raced>>

\* Mutant of MarkSettling: the rows are not marked before the submission.
MarkSettlingSkipped ==
    /\ up /\ xPc = "mark"
    /\ xPc' = "submit" /\ attempt' = 0
    /\ UNCHANGED <<outside, up, channels, ingest, matcher, xBatch, xSpent, bounds, history>>

MarkSettling ==
    /\ up /\ xPc = "mark"
    /\ db' = UpdateStatus(xBatch, "settling")
    /\ xPc' = "submit" /\ attempt' = 0
    /\ UNCHANGED <<chain, seen, reported, up, channels, ingest, matcher, xBatch, xSpent, bounds, history>>

MarkSettlingFails ==
    /\ up /\ xPc = "mark"
    /\ faults < MaxFaults /\ faults' = faults + 1
    /\ GiveUp
    /\ UNCHANGED <<outside, up, channels, ingest, matcher, stops, raced>>

\* The transaction consumes every note of the batch or none.
Land == chain' = [n \in Notes |-> IF n \in xBatch THEN "spent" ELSE chain[n]]
CanLand == \A n \in xBatch : chain[n] = "live"

SubmitOk ==
    /\ up /\ xPc = "submit" /\ CanLand
    /\ Land
    /\ xPc' = "commit"
    /\ UNCHANGED <<seen, reported, db, up, channels, ingest, matcher, xBatch, xSpent, attempt, bounds, history>>

\* Mutants of SubmitRpcError: one retry too many; the retry budget
\* starts over instead of running out.
SubmitRpcErrorOffByOne ==
    /\ up /\ xPc = "submit"
    /\ \/ UNCHANGED chain
       \/ CanLand /\ Land
    /\ IF attempt > MaxRpcRetries
         THEN xPc' = "revert" /\ UNCHANGED attempt
         ELSE attempt' = attempt + 1 /\ UNCHANGED xPc
    /\ UNCHANGED <<seen, reported, db, up, channels, ingest, matcher, xBatch, xSpent, bounds, history>>

SubmitRpcErrorForever ==
    /\ up /\ xPc = "submit"
    /\ \/ UNCHANGED chain
       \/ CanLand /\ Land
    /\ attempt' = (attempt + 1) % (MaxRpcRetries + 1)
    /\ UNCHANGED <<seen, reported, db, up, channels, ingest, matcher, xPc, xBatch, xSpent, bounds, history>>

\* An RPC error: the transaction may or may not have reached the ledger.
SubmitRpcError ==
    /\ up /\ xPc = "submit"
    /\ \/ UNCHANGED chain
       \/ CanLand /\ Land
    /\ IF attempt = MaxRpcRetries
         THEN xPc' = "revert" /\ UNCHANGED attempt
         ELSE attempt' = attempt + 1 /\ UNCHANGED xPc
    /\ UNCHANGED <<seen, reported, db, up, channels, ingest, matcher, xBatch, xSpent, bounds, history>>

BuildFails ==
    /\ up /\ xPc = "submit"
    /\ xPc' = "revert"
    /\ UNCHANGED <<outside, up, channels, ingest, matcher, xBatch, xSpent, attempt, bounds, history>>

\* A rejection by the chain, a proof failure: any error but an RPC error.
SubmitTxError ==
    /\ up /\ xPc = "submit"
    /\ xPc' = "classify"
    /\ UNCHANGED <<outside, up, channels, ingest, matcher, xBatch, xSpent, attempt, bounds, history>>

\* update_orders_status(Executed); record_settlement is in memory only.
CommitExecuted ==
    /\ up /\ xPc = "commit"
    /\ db' = UpdateStatus(xBatch, "executed")
    /\ xPc' = "idle" /\ xBatch' = {} /\ attempt' = 0
    /\ UNCHANGED <<chain, seen, reported, up, channels, ingest, matcher, xSpent, bounds, history>>

CommitFails ==
    /\ up /\ xPc = "commit"
    /\ faults < MaxFaults /\ faults' = faults + 1
    /\ GiveUp
    /\ UNCHANGED <<outside, up, channels, ingest, matcher, stops, raced>>

\* Mutant of RevertToActive: the revert touches the database only.
RevertWithoutRefeed ==
    /\ up /\ xPc = "revert"
    /\ db' = UpdateStatus(xBatch, "active")
    /\ xPc' = "idle" /\ xBatch' = {} /\ attempt' = 0
    /\ UNCHANGED <<chain, seen, reported, up, channels, ingest, matcher, xSpent, bounds, history>>

\* revert_to_active is best effort: the orders are re-fed even when it fails.
\* rebuild_all_orders parses again what ingest has parsed before, and succeeds.
RevertToActive ==
    /\ up /\ xPc = "revert"
    /\ \/ db' = UpdateStatus(xBatch, "active") /\ UNCHANGED faults
       \/ faults < MaxFaults /\ faults' = faults + 1 /\ UNCHANGED db
    /\ xPc' = "refeed" /\ attempt' = 0
    /\ UNCHANGED <<chain, seen, reported, up, channels, ingest, matcher, xBatch, xSpent, stops, history>>

\* Mutant of ClassifyQuery: a nullifier in the answer counts as consumed
\* whether or not it has a commit height.
ClassifyQueryIgnoresHeight ==
    /\ up /\ xPc = "classify"
    /\ xSpent' = xBatch
    /\ xPc' = "apply"
    /\ UNCHANGED <<outside, up, channels, ingest, matcher, xBatch, attempt, bounds, history>>

\* check_consumed_notes asks the node; the answer is applied in a later step.
ClassifyQuery ==
    /\ up /\ xPc = "classify"
    /\ xSpent' = xBatch \cap Spent
    /\ xPc' = "apply"
    /\ UNCHANGED <<outside, up, channels, ingest, matcher, xBatch, attempt, bounds, history>>

ClassifyQueryFails ==
    /\ up /\ xPc = "classify"
    /\ faults < MaxFaults /\ faults' = faults + 1
    /\ GiveUp
    /\ UNCHANGED <<outside, up, channels, ingest, matcher, stops, raced>>

\* Two statements on one connection: the guarded mark, then the unguarded update.
ClassifyApply ==
    /\ up /\ xPc = "apply"
    /\ LET alive == xBatch \ xSpent IN
         /\ db' = [n \in Notes |-> IF n \in xSpent THEN MarkNullified(xSpent)[n]
                                                   ELSE UpdateStatus(alive, "active")[n]]
         /\ xBatch' = alive
         /\ xPc' = IF alive = {} THEN "idle" ELSE "refeed"
    /\ xSpent' = {} /\ attempt' = 0
    /\ UNCHANGED <<chain, seen, reported, up, channels, ingest, matcher, bounds, history>>

\* Either statement may fail; they are not one transaction.
ClassifyApplyFails ==
    /\ up /\ xPc = "apply"
    /\ faults < MaxFaults /\ faults' = faults + 1
    /\ db' \in {db, MarkNullified(xSpent)}
    /\ GiveUp
    /\ UNCHANGED <<chain, seen, reported, up, channels, ingest, matcher, stops, raced>>

\* refeed_orders: order_tx.send().await for each order in turn.
Refeed(n) ==
    /\ up /\ xPc = "refeed" /\ n \in xBatch /\ HasRoom(orderQ)
    /\ orderQ' = Append(orderQ, n)
    /\ xBatch' = xBatch \ {n}
    /\ xPc' = IF xBatch' = {} THEN "idle" ELSE "refeed"
    /\ UNCHANGED <<outside, up, consumedQ, execQ, ingest, matcher, xSpent, attempt, bounds, history>>

-----------------------------------------------------------------------------
(* The process.  Memory is lost on a stop; the chain, the client's store   *)
(* and the database are not.                                               *)

Stop ==
    /\ up
    /\ up' = FALSE
    /\ orderQ' = <<>> /\ consumedQ' = <<>> /\ execQ' = <<>>
    /\ inPc' = "idle" /\ fresh' = {} /\ gone' = {}
    /\ mPc' = "hydrate" /\ book' = {} /\ mBatch' = {}
    /\ xPc' = "idle" /\ xBatch' = {} /\ xSpent' = {} /\ attempt' = 0
    /\ gaveUp' = {} /\ raced' = {}
    /\ UNCHANGED <<outside, faults>>

Crash ==
    /\ crashes < MaxCrashes /\ crashes' = crashes + 1
    /\ Stop
    /\ UNCHANGED shutdowns

\* The cancel token: the client threads abort their tasks, which takes effect
\* at the await each of them stands at.
Shutdown ==
    /\ inPc \in {"idle", "fetch", "notify", "forward"}
    /\ mPc \in {"hydrate", "idle", "emit"}
    /\ xPc \in {"idle", "submit", "classify", "refeed"}
    /\ shutdowns < MaxShutdowns /\ shutdowns' = shutdowns + 1
    /\ Stop
    /\ UNCHANGED crashes

\* start(): prepare_db resets Settling, then the threads are spawned.
Boot ==
    /\ ~up
    /\ up' = TRUE
    /\ db' = ResetSettling
    /\ UNCHANGED <<chain, seen, reported, channels, ingest, matcher, executor, bounds, history>>

-----------------------------------------------------------------------------
IngestNext ==
    \/ IngestSync \/ IngestFetch \/ IngestMarkConsumed \/ IngestMarkFails
    \/ IngestInsert \/ IngestInsertFails
    \/ \E n \in Notes : IngestNotifyConsumed(n) \/ IngestForward(n)

MatcherNext ==
    \/ Hydrate \/ HydrateFails \/ Tick \/ DrainConsumed \/ DrainOrders
    \/ Match \/ NoMatch \/ EmitBatch

ExecutorNext ==
    \/ TakeBatch \/ PrepareFails \/ MarkSettling \/ MarkSettlingFails
    \/ SubmitOk \/ SubmitRpcError \/ BuildFails \/ SubmitTxError
    \/ CommitExecuted \/ CommitFails \/ RevertToActive
    \/ ClassifyQuery \/ ClassifyQueryFails \/ ClassifyApply \/ ClassifyApplyFails
    \/ \E n \in Notes : Refeed(n)

ChainNext == \E n \in Notes : CreateNote(n) \/ ConsumeExternally(n)

Next ==
    \/ ChainNext \/ IngestNext \/ MatcherNext \/ ExecutorNext
    \/ Crash \/ Shutdown \/ Boot

Spec == Init /\ [][Next]_vars

-----------------------------------------------------------------------------
(* Properties.                                                             *)

\* Every variable keeps its type; the set-valued ones range over the notes.
TypeOK ==
    /\ chain \in [Notes -> Ledger] /\ db \in [Notes -> Status]
    /\ seen \subseteq Notes /\ reported \subseteq Notes
    /\ up \in BOOLEAN
    /\ orderQ \in Seq(Notes) /\ consumedQ \in Seq(Notes) /\ execQ \in Seq(SUBSET Notes)
    /\ inPc \in {"idle", "fetch", "mark", "notify", "forward"}
    /\ fresh \subseteq Notes /\ gone \subseteq Notes
    /\ mPc \in {"hydrate", "idle", "drainConsumed", "drainOrders", "match", "emit"}
    /\ book \subseteq Notes /\ mBatch \subseteq Notes
    /\ xPc \in {"idle", "mark", "submit", "commit", "revert", "classify", "apply", "refeed"}
    /\ xBatch \subseteq Notes /\ xSpent \subseteq Notes /\ attempt \in 0..MaxRpcRetries
    /\ faults \in Nat /\ crashes \in Nat /\ shutdowns \in Nat
    /\ gaveUp \subseteq Notes /\ raced \subseteq Notes

\* A row reaches Executed or OnchainNullified only when the note is spent on
\* the ledger: whatever the interleaving of ingest, executor and restarts, no
\* order that could still be settled is retired (update_orders_status(Executed)
\* and mark_orders_onchain_nullified).
RetiredOnlyIfSpent ==
    \A n \in Notes : db[n] \in {"executed", "nullified"} => chain[n] = "spent"

\* Where in the pipeline a copy of the order is.
Places(n) ==
    {p \in {<<"forward", 0>>} : inPc = "forward" /\ n \in fresh}
    \cup {<<"orderQ", i>> : i \in {j \in DOMAIN orderQ : orderQ[j] = n}}
    \cup {p \in {<<"book", 0>>} : n \in book}
    \cup {<<"execQ", i>> : i \in {j \in DOMAIN execQ : n \in execQ[j]}}
    \cup {p \in {<<"executor", 0>>} : n \in xBatch}

\* An order is in at most one place of the pipeline at a time (being forwarded,
\* queued for the matcher, in the book, in a queued batch, in the executor's
\* hands), so two batches never compete for it.  The exception is an order the
\* matcher hydrated while ingest still had its channel copy to deliver.
SingleCustody == \A n \in Notes \ raced : \A p, q \in Places(n) : p = q

\* While the process runs, an order that is live on the ledger and has an
\* unsettled row is in the pipeline's hands, unless one of the executor's error
\* returns dropped it or hydration failed: the re-feed paths of execute_batch
\* lose nothing ("a DB-only revert strands them until a restart").
LiveOrdersInCustody ==
    up /\ mPc # "hydrate" =>
        \A n \in Notes \ gaveUp :
            chain[n] = "live" /\ db[n] \in {"active", "settling"} => Places(n) # {}

\* An Executed row never changes again, neither by ingest's mark (guarded) nor
\* by the executor's updates (not guarded): no second batch holds the order.
ExecutedFinal ==
    [][\A n \in Notes \ raced : db[n] = "executed" => db'[n] = "executed"]_vars

Life == INSTANCE OrderLife

\* The pipeline implements the life of an order: whatever the threads, faults and
\* restarts do, the ledger and the orders table only take the steps of OrderLife
\* (claimed before settled, settled before executed, retired only when spent).
ImplementsLife == Life!Spec

\* Each task is polled again once it is ready, and a blocked send() holds its
\* place in the FIFO queue of tokio's bounded channel, so it is not overtaken
\* for ever by the channel's other sender.
Fairness ==
    /\ WF_vars(IngestNext) /\ WF_vars(MatcherNext) /\ WF_vars(ExecutorNext)
    /\ \A n \in Notes : SF_vars(IngestForward(n)) /\ SF_vars(Refeed(n))

FairSpec == Spec /\ Fairness

\* The executor waits for room to re-feed while the matcher, who alone makes it,
\* waits for room to emit: neither wait ends.
MutualWait ==
    /\ xPc = "refeed" /\ ~HasRoom(orderQ)
    /\ mPc = "emit" /\ ~HasRoom(execQ)

\* Every batch the executor takes is resolved: the retries end, and a re-feed that
\* meets a full channel, filled by ingest or by the re-feed itself, goes on once
\* the matcher has drained it.  The exception is the matcher that in turn waits
\* for the executor: nothing in execute_batch or run_matcher rules that out.
BatchResolves == xPc # "idle" ~> (xPc = "idle" \/ MutualWait)

\* An order whose row was just inserted reaches the book: the forward of
\* ingest_once is not lost between the channel and the drain of a tick.
OrderReachesBook ==
    \A n \in Notes : (inPc = "forward" /\ n \in fresh) ~> n \in book

-----------------------------------------------------------------------------
(* What the repository says of the pipeline and the code does not keep.    *)

\* ingest.rs: "a started iteration always runs to completion": after a graceful
\* shutdown every note the client reported has its row.
IterationCompletes == ~up => \A n \in seen : db[n] # "none"

=============================================================================
