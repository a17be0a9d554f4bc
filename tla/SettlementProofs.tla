--------------------------- MODULE SettlementProofs ---------------------------
(***************************************************************************)
(* Proofs about the order pipeline, for any set of notes, any channel      *)
(* capacity, any retry budget and any number of faults, crashes and        *)
(* shutdowns.                                                              *)
(***************************************************************************)
EXTENDS Settlement, TLAPS

\* The ingest actions keep the types.
LEMMA IngestTypes == TypeOK /\ IngestNext => TypeOK'
<1> SUFFICES ASSUME TypeOK, IngestNext PROVE TypeOK'
  OBVIOUS
<1> USE DEF TypeOK, Ledger, Status, outside, channels, ingest, matcher, executor, stops, bounds, history
<1>1. CASE IngestSync
  BY <1>1 DEF IngestSync, Spent
<1>2. CASE IngestFetch
  BY <1>2 DEF IngestFetch
<1>3. CASE IngestMarkConsumed
  BY <1>3 DEF IngestMarkConsumed, MarkNullified
<1>4. CASE IngestMarkFails
  BY <1>4 DEF IngestMarkFails
<1>5. CASE IngestInsert
  BY <1>5 DEF IngestInsert, InsertNew
<1>6. CASE IngestInsertFails
  BY <1>6 DEF IngestInsertFails
<1>7. ASSUME NEW n \in Notes, IngestNotifyConsumed(n) PROVE TypeOK'
  BY <1>7 DEF IngestNotifyConsumed
<1>8. ASSUME NEW n \in Notes, IngestForward(n) PROVE TypeOK'
  BY <1>8 DEF IngestForward
<1> QED
  BY <1>1, <1>2, <1>3, <1>4, <1>5, <1>6, <1>7, <1>8, Zenon DEF IngestNext

\* The matcher's actions keep the types.
LEMMA MatcherTypes == TypeOK /\ MatcherNext => TypeOK'
<1> SUFFICES ASSUME TypeOK, MatcherNext PROVE TypeOK'
  OBVIOUS
<1> USE DEF TypeOK, Ledger, Status, outside, channels, ingest, matcher, executor, stops, bounds, history
<1>1. CASE Hydrate
  BY <1>1 DEF Hydrate, Active
<1>2. CASE HydrateFails
  BY <1>2 DEF HydrateFails, Active
<1>3. CASE Tick
  BY <1>3 DEF Tick
<1>4. CASE DrainConsumed
  <2>1. CASE consumedQ = <<>>
    BY <1>4, <2>1 DEF DrainConsumed
  <2>2. CASE consumedQ # <<>>
    <3>1. Tail(consumedQ) \in Seq(Notes)
      BY <2>2
    <3> QED
      BY <1>4, <2>2, <3>1, Zenon DEF DrainConsumed
  <2> QED
    BY <2>1, <2>2
<1>5. CASE DrainOrders
  <2>1. CASE orderQ = <<>>
    BY <1>5, <2>1 DEF DrainOrders
  <2>2. CASE orderQ # <<>>
    <3>1. Tail(orderQ) \in Seq(Notes) /\ Head(orderQ) \in Notes
      BY <2>2
    <3> QED
      BY <1>5, <2>2, <3>1, Zenon DEF DrainOrders
  <2> QED
    BY <2>1, <2>2
<1>6. CASE Match
  BY <1>6 DEF Match
<1>7. CASE NoMatch
  BY <1>7 DEF NoMatch
<1>8. CASE EmitBatch
  BY <1>8 DEF EmitBatch
<1> QED
  BY <1>1, <1>2, <1>3, <1>4, <1>5, <1>6, <1>7, <1>8 DEF MatcherNext

\* The executor's actions keep the types; the attempt number stays within the
\* retry budget.
LEMMA ExecutorTypes == TypeOK /\ ExecutorNext => TypeOK'
<1> SUFFICES ASSUME TypeOK, ExecutorNext PROVE TypeOK'
  OBVIOUS
<1> USE RetryAssumption
<1> USE DEF TypeOK, Ledger, Status, outside, channels, ingest, matcher, executor, stops, bounds, history
<1>1. CASE TakeBatch
  BY <1>1 DEF TakeBatch
<1>2. CASE PrepareFails
  BY <1>2 DEF PrepareFails, GiveUp
<1>3. CASE MarkSettling
  BY <1>3 DEF MarkSettling, UpdateStatus
<1>4. CASE MarkSettlingFails
  BY <1>4 DEF MarkSettlingFails, GiveUp
<1>5. CASE SubmitOk
  BY <1>5 DEF SubmitOk, Land
<1>6. CASE SubmitRpcError
  BY <1>6 DEF SubmitRpcError, Land
<1>7. CASE BuildFails
  BY <1>7 DEF BuildFails
<1>8. CASE SubmitTxError
  BY <1>8 DEF SubmitTxError
<1>9. CASE CommitExecuted
  BY <1>9 DEF CommitExecuted, UpdateStatus
<1>10. CASE CommitFails
  BY <1>10 DEF CommitFails, GiveUp
<1>11. CASE RevertToActive
  BY <1>11 DEF RevertToActive, UpdateStatus
<1>12. CASE ClassifyQuery
  BY <1>12 DEF ClassifyQuery
<1>13. CASE ClassifyQueryFails
  BY <1>13 DEF ClassifyQueryFails, GiveUp
<1>14. CASE ClassifyApply
  BY <1>14 DEF ClassifyApply, MarkNullified, UpdateStatus
<1>15. CASE ClassifyApplyFails
  BY <1>15 DEF ClassifyApplyFails, GiveUp, MarkNullified
<1>16. ASSUME NEW n \in Notes, Refeed(n) PROVE TypeOK'
  BY <1>16 DEF Refeed
<1> QED
  BY <1>1, <1>2, <1>3, <1>4, <1>5, <1>6, <1>7, <1>8, <1>9, <1>10, <1>11,
     <1>12, <1>13, <1>14, <1>15, <1>16, Zenon DEF ExecutorNext

\* What a stop leaves behind has the right types.
LEMMA StopTypes == TypeOK /\ Stop /\ crashes' \in Nat /\ shutdowns' \in Nat => TypeOK'
<1> SUFFICES ASSUME TypeOK, Stop, crashes' \in Nat, shutdowns' \in Nat PROVE TypeOK'
  OBVIOUS
<1> USE DEF TypeOK, Ledger, Status, outside, Stop
<1>1. (chain \in [Notes -> Ledger] /\ db \in [Notes -> Status] /\ seen \subseteq Notes /\ reported \subseteq Notes)'
  OBVIOUS
<1>2. (orderQ \in Seq(Notes) /\ consumedQ \in Seq(Notes) /\ execQ \in Seq(SUBSET Notes))'
  <2>1. <<>> \in Seq(Notes) /\ <<>> \in Seq(SUBSET Notes)
    OBVIOUS
  <2> QED
    BY <2>1, Zenon
<1>3. (up \in BOOLEAN)'
  BY Zenon
<1>4. (attempt \in 0..MaxRpcRetries)'
  BY RetryAssumption
<1> QED
  BY <1>1, <1>2, <1>3, <1>4

\* The chain, a crash, a shutdown and a boot keep the types.
LEMMA OutsideTypes == TypeOK /\ (ChainNext \/ Crash \/ Shutdown \/ Boot) => TypeOK'
<1> SUFFICES ASSUME TypeOK, ChainNext \/ Crash \/ Shutdown \/ Boot PROVE TypeOK'
  OBVIOUS
<1> USE RetryAssumption
<1> USE DEF TypeOK, Ledger, Status, outside, channels, ingest, matcher, executor, stops, bounds, history
<1>1. ASSUME NEW n \in Notes, CreateNote(n) PROVE TypeOK'
  <2>1. chain' \in [Notes -> Ledger]
    BY <1>1 DEF CreateNote
  <2> QED
    BY <1>1, <2>1 DEF CreateNote
<1>2. ASSUME NEW n \in Notes, ConsumeExternally(n) PROVE TypeOK'
  <2>1. chain' \in [Notes -> Ledger]
    BY <1>2 DEF ConsumeExternally
  <2> QED
    BY <1>2, <2>1 DEF ConsumeExternally
<1>3. CASE Crash
  <2>1. Stop /\ crashes' \in Nat /\ shutdowns' \in Nat
    BY <1>3 DEF Crash
  <2> QED
    BY <2>1, StopTypes
<1>4. CASE Shutdown
  <2>1. Stop /\ crashes' \in Nat /\ shutdowns' \in Nat
    BY <1>4 DEF Shutdown
  <2> QED
    BY <2>1, StopTypes
<1>5. CASE Boot
  BY <1>5 DEF Boot, ResetSettling
<1> QED
  BY <1>1, <1>2, <1>3, <1>4, <1>5, Zenon DEF ChainNext

\* Every step of the pipeline, stuttering included, keeps the types.
LEMMA TypeStep == TypeOK /\ [Next]_vars => TypeOK'
<1> SUFFICES ASSUME TypeOK, [Next]_vars PROVE TypeOK'
  OBVIOUS
<1>1. CASE Next
  BY <1>1, IngestTypes, MatcherTypes, ExecutorTypes, OutsideTypes DEF Next
<1>2. CASE UNCHANGED vars
  BY <1>2 DEF vars, TypeOK, Ledger, Status, outside, channels, ingest, matcher, executor, stops, bounds, history
<1> QED
  BY <1>1, <1>2

\* Type correctness of the pipeline, whatever the number of notes and the bounds:
\* in particular the attempt number of submit_with_rpc_backoff never passes
\* MAX_RPC_RETRIES.
THEOREM TypeCorrect == Spec => []TypeOK
<1>1. Init => TypeOK
  BY RetryAssumption DEF Init, TypeOK, Ledger, Status
<1> QED
  BY <1>1, TypeStep, PTL DEF Spec

-----------------------------------------------------------------------------
(* No order is retired that could still be settled.                        *)

\* What ingest and the executor act on was read off the ledger earlier, and the
\* ledger never takes a consumption back: the consumed ids of the iteration, the
\* answer of the nullifier query and the batch of an accepted transaction are
\* all spent by the time they are used.
EvidenceSound ==
    /\ gone \subseteq Spent /\ xSpent \subseteq Spent
    /\ xPc = "commit" => xBatch \subseteq Spent

RetireInv == TypeOK /\ RetiredOnlyIfSpent /\ EvidenceSound

\* Ingest marks only what the client reported consumed.
LEMMA IngestRetires == RetireInv /\ IngestNext => (RetiredOnlyIfSpent /\ EvidenceSound)'
<1> SUFFICES ASSUME RetireInv, IngestNext PROVE (RetiredOnlyIfSpent /\ EvidenceSound)'
  OBVIOUS
<1> USE DEF RetireInv, TypeOK, RetiredOnlyIfSpent, EvidenceSound, Spent,
            outside, channels, ingest, matcher, executor, stops, bounds, history
<1>1. CASE IngestSync
  BY <1>1 DEF IngestSync
<1>2. CASE IngestFetch
  BY <1>2 DEF IngestFetch
<1>3. CASE IngestMarkConsumed
  BY <1>3 DEF IngestMarkConsumed, MarkNullified
<1>4. CASE IngestMarkFails
  BY <1>4 DEF IngestMarkFails
<1>5. CASE IngestInsert
  BY <1>5 DEF IngestInsert, InsertNew
<1>6. CASE IngestInsertFails
  BY <1>6 DEF IngestInsertFails
<1>7. ASSUME NEW n \in Notes, IngestNotifyConsumed(n) PROVE (RetiredOnlyIfSpent /\ EvidenceSound)'
  BY <1>7 DEF IngestNotifyConsumed
<1>8. ASSUME NEW n \in Notes, IngestForward(n) PROVE (RetiredOnlyIfSpent /\ EvidenceSound)'
  BY <1>8 DEF IngestForward
<1> QED
  BY <1>1, <1>2, <1>3, <1>4, <1>5, <1>6, <1>7, <1>8 DEF IngestNext

\* The matcher touches neither the ledger nor the database.
LEMMA MatcherRetires == RetireInv /\ MatcherNext => (RetiredOnlyIfSpent /\ EvidenceSound)'
<1> SUFFICES ASSUME RetireInv, MatcherNext PROVE (RetiredOnlyIfSpent /\ EvidenceSound)'
  OBVIOUS
<1>1. UNCHANGED <<chain, db, gone, xSpent, xPc, xBatch>>
  BY DEF MatcherNext, Hydrate, HydrateFails, Tick, DrainConsumed, DrainOrders, Match, NoMatch,
         EmitBatch, outside, ingest, executor
<1> QED
  BY <1>1 DEF RetireInv, RetiredOnlyIfSpent, EvidenceSound, Spent

\* The executor retires a batch once its transaction was accepted, or the notes
\* the node reported consumed.
LEMMA ExecutorRetires == RetireInv /\ ExecutorNext => (RetiredOnlyIfSpent /\ EvidenceSound)'
<1> SUFFICES ASSUME RetireInv, ExecutorNext PROVE (RetiredOnlyIfSpent /\ EvidenceSound)'
  OBVIOUS
<1> USE DEF RetireInv, TypeOK, Status, RetiredOnlyIfSpent, EvidenceSound, Spent,
            outside, channels, ingest, matcher, executor, stops, bounds, history
<1>1. CASE TakeBatch
  BY <1>1 DEF TakeBatch
<1>2. CASE PrepareFails
  BY <1>2 DEF PrepareFails, GiveUp
<1>3. CASE MarkSettling
  BY <1>3 DEF MarkSettling, UpdateStatus
<1>4. CASE MarkSettlingFails
  BY <1>4 DEF MarkSettlingFails, GiveUp
<1>5. CASE SubmitOk
  BY <1>5 DEF SubmitOk, Land
<1>6. CASE SubmitRpcError
  BY <1>6 DEF SubmitRpcError, Land
<1>7. CASE BuildFails
  BY <1>7 DEF BuildFails
<1>8. CASE SubmitTxError
  BY <1>8 DEF SubmitTxError
<1>9. CASE CommitExecuted
  BY <1>9 DEF CommitExecuted, UpdateStatus
<1>10. CASE CommitFails
  BY <1>10 DEF CommitFails, GiveUp
<1>11. CASE RevertToActive
  BY <1>11 DEF RevertToActive, UpdateStatus
<1>12. CASE ClassifyQuery
  BY <1>12 DEF ClassifyQuery
<1>13. CASE ClassifyQueryFails
  BY <1>13 DEF ClassifyQueryFails, GiveUp
<1>14. CASE ClassifyApply
  BY <1>14 DEF ClassifyApply, MarkNullified, UpdateStatus
<1>15. CASE ClassifyApplyFails
  BY <1>15 DEF ClassifyApplyFails, GiveUp, MarkNullified
<1>16. ASSUME NEW n \in Notes, Refeed(n) PROVE (RetiredOnlyIfSpent /\ EvidenceSound)'
  BY <1>16 DEF Refeed
<1> QED
  BY <1>1, <1>2, <1>3, <1>4, <1>5, <1>6, <1>7, <1>8, <1>9, <1>10, <1>11,
     <1>12, <1>13, <1>14, <1>15, <1>16 DEF ExecutorNext

\* The ledger only moves forward; a stop forgets the evidence and keeps the rows.
LEMMA OutsideRetires ==
    RetireInv /\ (ChainNext \/ Crash \/ Shutdown \/ Boot) => (RetiredOnlyIfSpent /\ EvidenceSound)'
<1> SUFFICES ASSUME RetireInv, ChainNext \/ Crash \/ Shutdown \/ Boot
             PROVE  (RetiredOnlyIfSpent /\ EvidenceSound)'
  OBVIOUS
<1> USE DEF RetireInv, TypeOK, Ledger, Status, RetiredOnlyIfSpent, EvidenceSound, Spent,
            outside, channels, ingest, matcher, executor
<1>1. ASSUME NEW n \in Notes, CreateNote(n) PROVE (RetiredOnlyIfSpent /\ EvidenceSound)'
  BY <1>1 DEF CreateNote
<1>2. ASSUME NEW n \in Notes, ConsumeExternally(n) PROVE (RetiredOnlyIfSpent /\ EvidenceSound)'
  BY <1>2 DEF ConsumeExternally
<1>3. CASE Stop
  BY <1>3 DEF Stop
<1>4. CASE Boot
  BY <1>4 DEF Boot, ResetSettling
<1> QED
  BY <1>1, <1>2, <1>3, <1>4 DEF ChainNext, Crash, Shutdown

\* Every step keeps what is retired spent, and the evidence sound.
LEMMA RetireStep == RetireInv /\ [Next]_vars => RetireInv'
<1> SUFFICES ASSUME RetireInv, [Next]_vars PROVE RetireInv'
  OBVIOUS
<1>1. TypeOK'
  BY TypeStep DEF RetireInv
<1>2. CASE Next
  BY <1>1, <1>2, IngestRetires, MatcherRetires, ExecutorRetires, OutsideRetires DEF Next, RetireInv
<1>3. CASE UNCHANGED vars
  BY <1>1, <1>3 DEF vars, outside, ingest, executor, RetireInv, RetiredOnlyIfSpent, EvidenceSound, Spent
<1> QED
  BY <1>2, <1>3

\* A row is Executed or OnchainNullified only when its note is spent on the
\* ledger, in every run of the pipeline: ingest's mark and the executor's
\* updates, in whatever order, never retire an order that is still live.
THEOREM NeverRetiredAlive == Spec => []RetiredOnlyIfSpent
<1>1. Init => RetireInv
  <2>1. Init => TypeOK
    BY RetryAssumption DEF Init, TypeOK, Ledger, Status
  <2>2. Init => RetiredOnlyIfSpent /\ EvidenceSound
    BY DEF Init, RetiredOnlyIfSpent, EvidenceSound
  <2> QED
    BY <2>1, <2>2 DEF RetireInv
<1>2. RetireInv /\ [Next]_vars => RetireInv'
  BY RetireStep
<1>3. RetireInv => RetiredOnlyIfSpent
  BY DEF RetireInv
<1> QED
  BY <1>1, <1>2, <1>3, PTL DEF Spec

-----------------------------------------------------------------------------
(* The pipeline implements OrderLife.                                      *)

Rows == {n \in Notes : db[n] # "none"}
Claims == {"submit", "commit", "revert", "classify", "apply"}

\* What the threads hold refers to notes the ledger knows and to rows the table
\* has, and the batch in hand has been claimed before it is submitted.
CustodyInv ==
    /\ seen \subseteq {n \in Notes : chain[n] # "absent"} /\ fresh \subseteq seen
    /\ inPc = "forward" => fresh \subseteq Rows
    /\ orderQ \in Seq(Rows) /\ execQ \in Seq(SUBSET Rows)
    /\ book \subseteq Rows /\ mBatch \subseteq Rows /\ xBatch \subseteq Rows
    /\ xPc \in Claims => \A n \in xBatch : db[n] \in {"settling", "nullified"}
    /\ ~up => xPc = "idle"

\* A sequence over a set is one over any larger set.
LEMMA SeqMono ==
    ASSUME NEW S, NEW T, S \subseteq T, NEW s \in Seq(S)
    PROVE  s \in Seq(T)
OBVIOUS

\* Ingest forwards only what it has inserted.
LEMMA IngestCustody == TypeOK /\ CustodyInv /\ IngestNext => CustodyInv'
<1> SUFFICES ASSUME TypeOK, CustodyInv, IngestNext PROVE CustodyInv'
  OBVIOUS
<1> USE DEF outside, channels, ingest, matcher, executor, stops, bounds, history
<1>1. CASE IngestSync
  BY <1>1 DEF IngestSync, CustodyInv, TypeOK, Rows
<1>2. CASE IngestFetch
  BY <1>2 DEF IngestFetch, CustodyInv, TypeOK, Rows
<1>3. CASE IngestMarkConsumed
  <2>1. orderQ' \in Seq(Rows') /\ execQ' \in Seq(SUBSET Rows') /\ Rows' = Rows
    <3>1. Rows' = Rows
      BY <1>3 DEF IngestMarkConsumed, MarkNullified, Rows, TypeOK
    <3> QED
      BY <1>3, <3>1 DEF IngestMarkConsumed, CustodyInv
  <2> QED
    BY <1>3, <2>1 DEF IngestMarkConsumed, MarkNullified, CustodyInv, TypeOK
<1>4. CASE IngestMarkFails
  BY <1>4 DEF IngestMarkFails, CustodyInv, TypeOK, Rows
<1>5. CASE IngestInsert
  <2>1. Rows \subseteq Rows' /\ fresh' \subseteq Rows'
    BY <1>5 DEF IngestInsert, InsertNew, Rows, TypeOK
  <2>2. orderQ' \in Seq(Rows')
    BY <1>5, <2>1, SeqMono DEF IngestInsert, CustodyInv
  <2>3. execQ' \in Seq(SUBSET Rows')
    <3>1. SUBSET Rows \subseteq SUBSET (Rows')
      BY <2>1
    <3> QED
      BY <1>5, <3>1, SeqMono DEF IngestInsert, CustodyInv
  <2> QED
    BY <1>5, <2>1, <2>2, <2>3 DEF IngestInsert, InsertNew, CustodyInv, TypeOK
<1>6. CASE IngestInsertFails
  BY <1>6 DEF IngestInsertFails, CustodyInv, TypeOK, Rows
<1>7. ASSUME NEW n \in Notes, IngestNotifyConsumed(n) PROVE CustodyInv'
  BY <1>7 DEF IngestNotifyConsumed, CustodyInv, TypeOK, Rows
<1>8. ASSUME NEW n \in Notes, IngestForward(n) PROVE CustodyInv'
  BY <1>8 DEF IngestForward, CustodyInv, TypeOK, Rows
<1> QED
  BY <1>1, <1>2, <1>3, <1>4, <1>5, <1>6, <1>7, <1>8 DEF IngestNext

\* The matcher moves orders from the channel to the book and into batches.
LEMMA MatcherCustody == TypeOK /\ CustodyInv /\ MatcherNext => CustodyInv'
<1> SUFFICES ASSUME TypeOK, CustodyInv, MatcherNext PROVE CustodyInv'
  OBVIOUS
<1> USE DEF CustodyInv, outside, channels, ingest, matcher, executor, stops, bounds, history
<1>0. Rows' = Rows
  BY DEF Rows, MatcherNext, Hydrate, HydrateFails, Tick, DrainConsumed, DrainOrders, Match, NoMatch, EmitBatch
<1>1. CASE Hydrate
  <2>1. Active \subseteq Rows
    BY DEF Active, Rows
  <2> QED
    BY <1>0, <1>1, <2>1 DEF Hydrate
<1>2. CASE HydrateFails
  BY <1>0, <1>2 DEF HydrateFails
<1>3. CASE Tick
  BY <1>0, <1>3 DEF Tick
<1>4. CASE DrainConsumed
  BY <1>0, <1>4 DEF DrainConsumed
<1>5. CASE DrainOrders
  <2>1. CASE orderQ = <<>>
    BY <1>0, <1>5, <2>1 DEF DrainOrders
  <2>2. CASE orderQ # <<>>
    <3>1. Tail(orderQ) \in Seq(Rows) /\ Head(orderQ) \in Rows
      BY <2>2
    <3> QED
      BY <1>0, <1>5, <2>2, <3>1 DEF DrainOrders
  <2> QED
    BY <2>1, <2>2
<1>6. CASE Match
  BY <1>0, <1>6 DEF Match
<1>7. CASE NoMatch
  BY <1>0, <1>7 DEF NoMatch
<1>8. CASE EmitBatch
  BY <1>0, <1>8 DEF EmitBatch
<1> QED
  BY <1>1, <1>2, <1>3, <1>4, <1>5, <1>6, <1>7, <1>8 DEF MatcherNext

\* The executor claims a batch before it submits it, and hands back rows it had.
LEMMA ExecutorCustody == TypeOK /\ CustodyInv /\ ExecutorNext => CustodyInv'
<1> SUFFICES ASSUME TypeOK, CustodyInv, ExecutorNext PROVE CustodyInv'
  OBVIOUS
<1> USE DEF CustodyInv, Claims, outside, channels, ingest, matcher, executor, stops, bounds, history
<1>0. Rows' = Rows
  BY DEF Rows, TypeOK, ExecutorNext, TakeBatch, PrepareFails, MarkSettling, MarkSettlingFails, SubmitOk,
         SubmitRpcError, BuildFails, SubmitTxError, CommitExecuted, CommitFails, RevertToActive, ClassifyQuery,
         ClassifyQueryFails, ClassifyApply, ClassifyApplyFails, Refeed, UpdateStatus, MarkNullified
<1>1. CASE TakeBatch
  <2>1. Head(execQ) \in SUBSET Rows /\ Tail(execQ) \in Seq(SUBSET Rows)
    BY <1>1 DEF TakeBatch
  <2> QED
    BY <1>0, <1>1, <2>1 DEF TakeBatch
<1>2. CASE PrepareFails \/ MarkSettlingFails \/ CommitFails \/ ClassifyQueryFails
  BY <1>0, <1>2, Zenon DEF PrepareFails, MarkSettlingFails, CommitFails, ClassifyQueryFails, GiveUp
<1>3. CASE MarkSettling
  <2>1. \A n \in xBatch : db'[n] = "settling"
    BY <1>3 DEF MarkSettling, UpdateStatus, Rows
  <2> QED
    BY <1>0, <1>3, <2>1 DEF MarkSettling
<1>4. CASE SubmitOk \/ SubmitRpcError
  <2>1. \A n \in Notes : chain[n] # "absent" => chain'[n] # "absent"
    BY <1>4 DEF SubmitOk, SubmitRpcError, Land
  <2> QED
    BY <1>0, <1>4, <2>1 DEF SubmitOk, SubmitRpcError
<1>5. CASE BuildFails \/ SubmitTxError \/ ClassifyQuery
  BY <1>0, <1>5, Zenon DEF BuildFails, SubmitTxError, ClassifyQuery
<1>6. CASE CommitExecuted
  BY <1>0, <1>6 DEF CommitExecuted
<1>7. CASE RevertToActive
  BY <1>0, <1>7 DEF RevertToActive
<1>8. CASE ClassifyApply
  BY <1>0, <1>8 DEF ClassifyApply
<1>9. CASE ClassifyApplyFails
  BY <1>0, <1>9 DEF ClassifyApplyFails, GiveUp
<1>10. ASSUME NEW n \in Notes, Refeed(n) PROVE CustodyInv'
  BY <1>0, <1>10 DEF Refeed
<1> QED
  BY <1>1, <1>2, <1>3, <1>4, <1>5, <1>6, <1>7, <1>8, <1>9, <1>10, Zenon DEF ExecutorNext

\* A stop empties every hand; the boot finds no batch in hand.
LEMMA OutsideCustody == TypeOK /\ CustodyInv /\ (ChainNext \/ Crash \/ Shutdown \/ Boot) => CustodyInv'
<1> SUFFICES ASSUME TypeOK, CustodyInv, ChainNext \/ Crash \/ Shutdown \/ Boot PROVE CustodyInv'
  BY Zenon
<1> USE DEF CustodyInv, Claims, outside, channels, ingest, matcher, executor
<1>1. ASSUME NEW n \in Notes, CreateNote(n) \/ ConsumeExternally(n) PROVE CustodyInv'
  <2>1. Rows' = Rows /\ \A k \in Notes : chain[k] # "absent" => chain'[k] # "absent"
    BY <1>1 DEF CreateNote, ConsumeExternally, Rows, TypeOK
  <2> QED
    BY <1>1, <2>1 DEF CreateNote, ConsumeExternally
<1>2. CASE Stop
  <2>1. <<>> \in Seq(Rows') /\ <<>> \in Seq(SUBSET Rows')
    OBVIOUS
  <2>2. orderQ' \in Seq(Rows') /\ execQ' \in Seq(SUBSET Rows')
    BY <1>2, <2>1, Zenon DEF Stop
  <2> QED
    BY <1>2, <2>2 DEF Stop
<1>3. CASE Boot
  <2>1. Rows' = Rows
    BY <1>3 DEF Boot, ResetSettling, Rows, TypeOK
  <2> QED
    BY <1>3, <2>1 DEF Boot
<1> QED
  BY <1>1, <1>2, <1>3 DEF ChainNext, Crash, Shutdown

\* What is proved of the state is enough to read every step as a step of
\* OrderLife.
LifeInv == RetireInv /\ CustodyInv

\* That invariant holds in every state of the pipeline, with its faults, crashes
\* and restarts.
LEMMA LifeInvariant == Spec => []LifeInv
<1>1. Init => LifeInv
  <2>1. Init => TypeOK
    BY RetryAssumption DEF Init, TypeOK, Ledger, Status
  <2>2. Init => RetiredOnlyIfSpent /\ EvidenceSound
    BY DEF Init, RetiredOnlyIfSpent, EvidenceSound
  <2>3. Init => CustodyInv
    BY DEF Init, CustodyInv, Claims
  <2> QED
    BY <2>1, <2>2, <2>3 DEF LifeInv, RetireInv
<1>2. LifeInv /\ [Next]_vars => LifeInv'
  <2> SUFFICES ASSUME LifeInv, [Next]_vars PROVE LifeInv'
    OBVIOUS
  <2>1. RetireInv' /\ TypeOK
    BY RetireStep DEF LifeInv, RetireInv
  <2>2. CASE Next
    BY <2>1, <2>2, IngestCustody, MatcherCustody, ExecutorCustody, OutsideCustody DEF Next, LifeInv
  <2>3. CASE UNCHANGED vars
    BY <2>1, <2>3, Zenon DEF vars, outside, channels, ingest, matcher, executor, LifeInv, CustodyInv, Rows
  <2> QED
    BY <2>2, <2>3
<1> QED
  BY <1>1, <1>2, PTL DEF Spec

\* A step of the pipeline moves the ledger or the table the way OrderLife allows,
\* or neither of them.
LEMMA LifeStep == LifeInv /\ LifeInv' /\ [Next]_vars => [Life!Next]_Life!life
<1> SUFFICES ASSUME LifeInv, LifeInv', [Next]_vars PROVE Life!Next \/ UNCHANGED <<chain, db>>
  BY DEF Life!life
<1> USE DEF LifeInv, RetireInv, TypeOK, Ledger, Status, outside
<1> DEFINE Moves(n) == \/ db'[n] = db[n]
                       \/ Life!Discovered(n) \/ Life!Claimed(n) \/ Life!Released(n)
                       \/ Life!Executed(n) \/ Life!Nullified(n)
<1>w. ASSUME UNCHANGED chain, \A n \in Notes : Moves(n) PROVE Life!Next
  BY <1>w DEF Life!Next, Life!Write
<1>1. CASE UNCHANGED vars
  BY <1>1 DEF vars
<1>2. CASE ChainNext
  BY <1>2 DEF ChainNext, CreateNote, ConsumeExternally, Life!Next, Life!Create, Life!Consume
<1>3. CASE IngestNext
  <2>1. CASE IngestMarkConsumed
    <3>1. \A n \in Notes : Moves(n)
      BY <2>1 DEF IngestMarkConsumed, MarkNullified, EvidenceSound, Spent, Life!Nullified
    <3> QED
      BY <2>1, <3>1, <1>w DEF IngestMarkConsumed
  <2>2. CASE IngestInsert
    <3>1. \A n \in Notes : Moves(n)
      BY <2>2 DEF IngestInsert, InsertNew, CustodyInv, Life!Discovered
    <3> QED
      BY <2>2, <3>1, <1>w DEF IngestInsert
  <2> QED
    BY <1>3, <2>1, <2>2 DEF IngestNext, IngestSync, IngestFetch, IngestMarkFails, IngestInsertFails,
                            IngestNotifyConsumed, IngestForward
<1>4. CASE MatcherNext
  BY <1>4, Zenon DEF MatcherNext, Hydrate, HydrateFails, Tick, DrainConsumed, DrainOrders, Match, NoMatch, EmitBatch
<1>5. CASE ExecutorNext
  <2>1. CASE MarkSettling
    <3>1. \A n \in Notes : Moves(n)
      BY <2>1 DEF MarkSettling, UpdateStatus, Life!Claimed
    <3> QED
      BY <2>1, <3>1, <1>w DEF MarkSettling
  <2>2. ASSUME UNCHANGED db, CanLand, Land, xPc = "submit" PROVE Life!Next
    <3>1. \A n \in xBatch : chain[n] = "live" /\ db[n] = "settling"
      BY <2>2 DEF CanLand, CustodyInv, Claims, RetiredOnlyIfSpent
    <3>2. Life!Settle(xBatch)
      BY <2>2, <3>1 DEF Land, Life!Settle
    <3> QED
      BY <3>2 DEF Life!Next
  <2>3. CASE SubmitOk
    BY <2>2, <2>3 DEF SubmitOk
  <2>4. CASE SubmitRpcError
    BY <2>2, <2>4 DEF SubmitRpcError
  <2>5. CASE CommitExecuted
    <3>1. \A n \in Notes : Moves(n)
      BY <2>5 DEF CommitExecuted, UpdateStatus, EvidenceSound, Spent, CustodyInv, Claims, Life!Executed
    <3> QED
      BY <2>5, <3>1, <1>w DEF CommitExecuted
  <2>6. CASE RevertToActive
    <3>1. CASE UNCHANGED db
      BY <2>6, <3>1 DEF RevertToActive
    <3>2. CASE db' = UpdateStatus(xBatch, "active")
      <4>1. \A n \in Notes : Moves(n)
        BY <2>6, <3>2 DEF RevertToActive, UpdateStatus, CustodyInv, Claims, Life!Released
      <4> QED
        BY <2>6, <4>1, <1>w DEF RevertToActive
    <3> QED
      BY <2>6, <3>1, <3>2 DEF RevertToActive
  <2>7. CASE ClassifyApply
    <3>1. \A n \in Notes : Moves(n)
      BY <2>7 DEF ClassifyApply, MarkNullified, UpdateStatus, EvidenceSound, Spent, CustodyInv, Claims,
                  Life!Released, Life!Nullified
    <3> QED
      BY <2>7, <3>1, <1>w, Zenon DEF ClassifyApply
  <2>8. CASE ClassifyApplyFails
    <3>1. \A n \in Notes : Moves(n)
      BY <2>8 DEF ClassifyApplyFails, MarkNullified, EvidenceSound, Spent, Life!Nullified
    <3> QED
      BY <2>8, <3>1, <1>w DEF ClassifyApplyFails
  <2> QED
    BY <1>5, <2>1, <2>3, <2>4, <2>5, <2>6, <2>7, <2>8
       DEF ExecutorNext, TakeBatch, PrepareFails, MarkSettlingFails, BuildFails, SubmitTxError, CommitFails,
           ClassifyQuery, ClassifyQueryFails, Refeed
<1>6. CASE Crash \/ Shutdown
  BY <1>6 DEF Crash, Shutdown, Stop
<1>7. CASE Boot
  <2>1. \A n \in Notes : Moves(n)
    BY <1>7 DEF Boot, ResetSettling, Life!Released
  <2> QED
    BY <1>7, <2>1, <1>w DEF Boot
<1> QED
  BY <1>1, <1>2, <1>3, <1>4, <1>5, <1>6, <1>7 DEF Next

\* Every behaviour of the pipeline, with its faults, crashes and restarts, is a
\* behaviour of OrderLife: a note is settled only while its row is claimed, a row
\* is retired only once the ledger has the note spent, and no row is executed
\* that was not claimed.
THEOREM PipelineImplementsLife == Spec => ImplementsLife
<1>1. Init => Life!Init
  BY DEF Init, Life!Init
<1> QED
  BY <1>1, LifeInvariant, LifeStep, PTL DEF Spec, ImplementsLife, Life!Spec

-----------------------------------------------------------------------------
(* Custody of the orders: no order is in two hands, none that could still   *)
(* be settled is in nobody's, and Executed is final.                        *)

\* An order in a queue of orders, and in a queue of batches.
In(s, n) == \E i \in 1..Len(s) : s[i] = n
InSome(s, n) == \E i \in 1..Len(s) : n \in s[i]
OnceIn(s, n) == \A i, j \in 1..Len(s) : s[i] = n /\ s[j] = n => i = j
OnceInSome(s, n) == \A i, j \in 1..Len(s) : n \in s[i] /\ n \in s[j] => i = j
Forwarding(n) == inPc = "forward" /\ n \in fresh

\* Somebody has the order, and nobody but one has it.
Held(n) == Forwarding(n) \/ In(orderQ, n) \/ n \in book \/ InSome(execQ, n) \/ n \in xBatch
Apart(n) ==
    /\ OnceIn(orderQ, n) /\ OnceInSome(execQ, n)
    /\ Forwarding(n) => ~In(orderQ, n) /\ n \notin book /\ ~InSome(execQ, n) /\ n \notin xBatch
    /\ In(orderQ, n) => n \notin book /\ ~InSome(execQ, n) /\ n \notin xBatch
    /\ n \in book => ~InSome(execQ, n) /\ n \notin xBatch
    /\ InSome(execQ, n) => n \notin xBatch

\* What each task has in its hands where it stands: before the hydration nothing
\* has been matched, a stopped process holds nothing, a batch that waits to be
\* sent is still in the book, an idle executor has no batch.
HandInv ==
    /\ mPc = "hydrate" => book = {} /\ execQ = <<>> /\ xBatch = {} /\ xPc = "idle" /\ raced = {}
    /\ ~up => mPc = "hydrate" /\ orderQ = <<>> /\ inPc = "idle"
    /\ mPc = "emit" => mBatch \subseteq book
    /\ xPc = "idle" => xBatch = {}

\* What the table and the queue of consumed notes say of the ledger.
RowInv ==
    /\ up /\ mPc = "hydrate" => \A n \in Notes : db[n] # "settling"
    /\ \A n \in Notes : db[n] # "none" => chain[n] # "absent"
    /\ \A i \in 1..Len(consumedQ) : chain[consumedQ[i]] = "spent"

\* Custody as such.
One(n) == Apart(n) /\ (db[n] = "executed" => ~Held(n))
OnceInv == \A n \in Notes \ raced : One(n)
Owed(n) == n \notin gaveUp /\ chain[n] = "live" /\ db[n] \in {"active", "settling"}
KeptInv == up /\ mPc # "hydrate" => \A n \in Notes : Owed(n) => Held(n)

-----------------------------------------------------------------------------
(* Queues.                                                                  *)

\* What a send does to the orders in a queue.
LEMMA SentOrder ==
    ASSUME NEW S, NEW s \in Seq(S), NEW x \in S, NEW n
    PROVE  /\ In(Append(s, x), n) <=> In(s, n) \/ x = n
           /\ OnceIn(s, n) /\ (x = n => ~In(s, n)) => OnceIn(Append(s, x), n)
<1> DEFINE t == Append(s, x)
<1>1. Len(s) \in Nat /\ Len(t) = Len(s) + 1 /\ t[Len(s) + 1] = x /\ \A i \in 1..Len(s) : t[i] = s[i]
  OBVIOUS
<1>2. 1..Len(t) = 1..Len(s) \cup {Len(s) + 1}
  BY <1>1
<1> HIDE DEF t
<1>3. In(t, n) <=> In(s, n) \/ x = n
  BY <1>1, <1>2 DEF In
<1>4. OnceIn(s, n) /\ (x = n => ~In(s, n)) => OnceIn(t, n)
  BY <1>1, <1>2 DEF In, OnceIn
<1> QED
  BY <1>3, <1>4 DEF t

\* What a receive does to them.
LEMMA ReceivedOrder ==
    ASSUME NEW S, NEW s \in Seq(S), s # <<>>, NEW n
    PROVE  /\ In(s, n) <=> In(Tail(s), n) \/ Head(s) = n
           /\ OnceIn(s, n) => OnceIn(Tail(s), n) /\ (Head(s) = n => ~In(Tail(s), n))
<1> DEFINE t == Tail(s)
<1>1. Len(s) \in Nat \ {0} /\ Len(t) = Len(s) - 1 /\ Head(s) = s[1] /\ \A i \in 1..Len(t) : t[i] = s[i + 1]
  OBVIOUS
<1> HIDE DEF t
<1>2. \A i \in 1..Len(s) : i = 1 \/ (i - 1 \in 1..Len(t) /\ s[i] = t[i - 1])
  BY <1>1
<1>3. \A i \in 1..Len(t) : i + 1 \in 1..Len(s) /\ i + 1 # 1
  BY <1>1
<1>4. 1 \in 1..Len(s)
  BY <1>1
<1>5. In(s, n) <=> In(t, n) \/ Head(s) = n
  BY <1>1, <1>2, <1>3, <1>4 DEF In
<1>6. OnceIn(s, n) => OnceIn(t, n) /\ (Head(s) = n => ~In(t, n))
  BY <1>1, <1>3, <1>4 DEF In, OnceIn
<1> QED
  BY <1>5, <1>6 DEF t

\* The same of batches.
LEMMA SentBatch ==
    ASSUME NEW S, NEW s \in Seq(S), NEW x \in S, NEW n
    PROVE  /\ InSome(Append(s, x), n) <=> InSome(s, n) \/ n \in x
           /\ OnceInSome(s, n) /\ (n \in x => ~InSome(s, n)) => OnceInSome(Append(s, x), n)
<1> DEFINE t == Append(s, x)
<1>1. Len(s) \in Nat /\ Len(t) = Len(s) + 1 /\ t[Len(s) + 1] = x /\ \A i \in 1..Len(s) : t[i] = s[i]
  OBVIOUS
<1>2. 1..Len(t) = 1..Len(s) \cup {Len(s) + 1}
  BY <1>1
<1> HIDE DEF t
<1>3. InSome(t, n) <=> InSome(s, n) \/ n \in x
  BY <1>1, <1>2 DEF InSome
<1>4. OnceInSome(s, n) /\ (n \in x => ~InSome(s, n)) => OnceInSome(t, n)
  BY <1>1, <1>2 DEF InSome, OnceInSome
<1> QED
  BY <1>3, <1>4 DEF t

\* A batch received is no longer queued.
LEMMA ReceivedBatch ==
    ASSUME NEW S, NEW s \in Seq(S), s # <<>>, NEW n
    PROVE  /\ InSome(s, n) <=> InSome(Tail(s), n) \/ n \in Head(s)
           /\ OnceInSome(s, n) => OnceInSome(Tail(s), n) /\ (n \in Head(s) => ~InSome(Tail(s), n))
<1> DEFINE t == Tail(s)
<1>1. Len(s) \in Nat \ {0} /\ Len(t) = Len(s) - 1 /\ Head(s) = s[1] /\ \A i \in 1..Len(t) : t[i] = s[i + 1]
  OBVIOUS
<1> HIDE DEF t
<1>2. \A i \in 1..Len(s) : i = 1 \/ (i - 1 \in 1..Len(t) /\ s[i] = t[i - 1])
  BY <1>1
<1>3. \A i \in 1..Len(t) : i + 1 \in 1..Len(s) /\ i + 1 # 1
  BY <1>1
<1>4. 1 \in 1..Len(s)
  BY <1>1
<1>5. InSome(s, n) <=> InSome(t, n) \/ n \in Head(s)
  BY <1>1, <1>2, <1>3, <1>4 DEF InSome
<1>6. OnceInSome(s, n) => OnceInSome(t, n) /\ (n \in Head(s) => ~InSome(t, n))
  BY <1>1, <1>3, <1>4 DEF InSome, OnceInSome
<1> QED
  BY <1>5, <1>6 DEF t

\* Nothing is in an empty queue.
LEMMA EmptyQueue ==
    \A n : ~In(<<>>, n) /\ ~InSome(<<>>, n) /\ OnceIn(<<>>, n) /\ OnceInSome(<<>>, n)
BY DEF In, InSome, OnceIn, OnceInSome

-----------------------------------------------------------------------------
(* What each task has in its hands.                                         *)

\* Every step keeps it.
LEMMA HandStep == TypeOK /\ CustodyInv /\ HandInv /\ [Next]_vars => HandInv'
<1> SUFFICES ASSUME TypeOK, CustodyInv, HandInv, [Next]_vars PROVE HandInv'
  OBVIOUS
<1> USE DEF HandInv, outside, channels, ingest, matcher, executor, bounds, stops, history
<1>1. CASE UNCHANGED <<up, orderQ, execQ, inPc, mPc, book, mBatch, xPc, xBatch, raced>>
  BY <1>1
<1>2. CASE IngestNext
  <2>1. up /\ UNCHANGED <<up, execQ, mPc, book, mBatch, xPc, xBatch, raced>>
    BY <1>2, Zenon DEF IngestNext, IngestSync, IngestFetch, IngestMarkConsumed, IngestMarkFails, IngestInsert,
                IngestInsertFails, IngestNotifyConsumed, IngestForward
  <2> QED
    BY <2>1
<1>3. CASE MatcherNext
  <2>1. up /\ UNCHANGED <<up, xPc, xBatch>>
    BY <1>3, Zenon DEF MatcherNext, Hydrate, HydrateFails, Tick, DrainConsumed, DrainOrders, Match, NoMatch, EmitBatch
  <2>2. mPc' # "hydrate"
    BY <1>3, Zenon DEF MatcherNext, Hydrate, HydrateFails, Tick, DrainConsumed, DrainOrders, Match, NoMatch, EmitBatch
  <2>3. mPc' = "emit" => mBatch' \subseteq book'
    BY <1>3 DEF MatcherNext, Hydrate, HydrateFails, Tick, DrainConsumed, DrainOrders, Match, NoMatch, EmitBatch
  <2> QED
    BY <2>1, <2>2, <2>3, Zenon
<1>4. CASE ExecutorNext
  <2>1. up /\ UNCHANGED <<up, inPc, mPc, book, mBatch, raced>>
    BY <1>4, Zenon DEF ExecutorNext, TakeBatch, PrepareFails, MarkSettling, MarkSettlingFails, SubmitOk, SubmitRpcError,
                BuildFails, SubmitTxError, CommitExecuted, CommitFails, RevertToActive, ClassifyQuery,
                ClassifyQueryFails, ClassifyApply, ClassifyApplyFails, Refeed, GiveUp
  <2>2. mPc # "hydrate"
    BY <1>4, Zenon DEF ExecutorNext, TakeBatch, PrepareFails, MarkSettling, MarkSettlingFails, SubmitOk, SubmitRpcError,
                BuildFails, SubmitTxError, CommitExecuted, CommitFails, RevertToActive, ClassifyQuery,
                ClassifyQueryFails, ClassifyApply, ClassifyApplyFails, Refeed
  <2>3. xPc' = "idle" => xBatch' = {}
    BY <1>4 DEF ExecutorNext, TakeBatch, PrepareFails, MarkSettling, MarkSettlingFails, SubmitOk, SubmitRpcError,
                BuildFails, SubmitTxError, CommitExecuted, CommitFails, RevertToActive, ClassifyQuery,
                ClassifyQueryFails, ClassifyApply, ClassifyApplyFails, Refeed, GiveUp
  <2> QED
    BY <2>1, <2>2, <2>3, Zenon
<1>5. CASE Stop
  BY <1>5 DEF Stop
<1>6. CASE Boot
  BY <1>6, Zenon DEF Boot
<1> QED
  BY <1>1, <1>2, <1>3, <1>4, <1>5, <1>6 DEF Next, ChainNext, CreateNote, ConsumeExternally, Crash, Shutdown, vars

\* Every step keeps what the table and the consumed queue say of the ledger.
LEMMA RowStep == LifeInv /\ HandInv /\ RowInv /\ [Next]_vars => RowInv'
<1> SUFFICES ASSUME LifeInv, HandInv, RowInv, [Next]_vars PROVE RowInv'
  OBVIOUS
<1> USE DEF LifeInv, RetireInv, TypeOK, RowInv, HandInv, Spent, outside, channels, ingest, matcher, executor,
            bounds, stops, history
<1>1. CASE UNCHANGED <<chain, db, up, consumedQ, mPc>>
  BY <1>1
<1>2. CASE IngestInsert
  BY <1>2 DEF IngestInsert, InsertNew, CustodyInv
<1>3. CASE IngestMarkConsumed
  BY <1>3 DEF IngestMarkConsumed, MarkNullified
<1>4. ASSUME NEW n \in Notes, IngestNotifyConsumed(n) PROVE RowInv'
  <2>1. UNCHANGED <<chain, db, up, mPc>> /\ consumedQ' = Append(consumedQ, n) /\ chain[n] = "spent"
    BY <1>4, Zenon DEF IngestNotifyConsumed, EvidenceSound
  <2>2. Len(consumedQ') = Len(consumedQ) + 1 /\ Len(consumedQ) \in Nat /\ consumedQ'[Len(consumedQ) + 1] = n
        /\ \A i \in 1..Len(consumedQ) : consumedQ'[i] = consumedQ[i]
    BY <2>1
  <2>3. \A i \in 1..Len(consumedQ') : i \in 1..Len(consumedQ) \/ i = Len(consumedQ) + 1
    BY <2>2
  <2> QED
    BY <2>1, <2>2, <2>3
<1>5. CASE MatcherNext
  <2>1. UNCHANGED <<chain, db, up>> /\ mPc' # "hydrate"
    BY <1>5, Zenon DEF MatcherNext, Hydrate, HydrateFails, Tick, DrainConsumed, DrainOrders, Match, NoMatch, EmitBatch
  <2>2. consumedQ' = consumedQ \/ (consumedQ # <<>> /\ consumedQ' = Tail(consumedQ))
    BY <1>5 DEF MatcherNext, Hydrate, HydrateFails, Tick, DrainConsumed, DrainOrders, Match, NoMatch, EmitBatch
  <2>3. \A i \in 1..Len(consumedQ') : \E j \in 1..Len(consumedQ) : consumedQ'[i] = consumedQ[j]
    <3>1. CASE consumedQ' = consumedQ
      BY <3>1, Zenon
    <3>2. CASE consumedQ # <<>> /\ consumedQ' = Tail(consumedQ)
      <4>1. \A i \in 1..Len(consumedQ') : i + 1 \in 1..Len(consumedQ) /\ consumedQ'[i] = consumedQ[i + 1]
        BY <3>2
      <4> QED
        BY <4>1, Zenon
    <3> QED
      BY <2>2, <3>1, <3>2
  <2> QED
    BY <2>1, <2>3, Zenon
<1>6. CASE ExecutorNext
  <2>1. UNCHANGED <<up, mPc, consumedQ>> /\ mPc # "hydrate"
    BY <1>6, Zenon DEF ExecutorNext, TakeBatch, PrepareFails, MarkSettling, MarkSettlingFails, SubmitOk, SubmitRpcError,
                BuildFails, SubmitTxError, CommitExecuted, CommitFails, RevertToActive, ClassifyQuery,
                ClassifyQueryFails, ClassifyApply, ClassifyApplyFails, Refeed, GiveUp
  <2>2. \A n \in Notes : db'[n] # "none" => db[n] # "none"
    BY <1>6, Zenon DEF ExecutorNext, TakeBatch, PrepareFails, MarkSettling, MarkSettlingFails, SubmitOk, SubmitRpcError,
                BuildFails, SubmitTxError, CommitExecuted, CommitFails, RevertToActive, ClassifyQuery,
                ClassifyQueryFails, ClassifyApply, ClassifyApplyFails, Refeed, UpdateStatus, MarkNullified
  <2>3. \A n \in Notes : chain'[n] = chain[n] \/ chain'[n] = "spent"
    BY <1>6, Zenon DEF ExecutorNext, TakeBatch, PrepareFails, MarkSettling, MarkSettlingFails, SubmitOk, SubmitRpcError,
                BuildFails, SubmitTxError, CommitExecuted, CommitFails, RevertToActive, ClassifyQuery,
                ClassifyQueryFails, ClassifyApply, ClassifyApplyFails, Refeed, Land
  <2>4. \A i \in 1..Len(consumedQ) : consumedQ[i] \in Notes
    OBVIOUS
  <2> QED
    BY <2>1, <2>2, <2>3, <2>4, Zenon
<1>7. ASSUME NEW n \in Notes, CreateNote(n) \/ ConsumeExternally(n) PROVE RowInv'
  <2>1. UNCHANGED <<db, up, mPc, consumedQ>> /\ chain[n] # "spent" /\ chain' \in [Notes -> {"absent", "live", "spent"}]
        /\ chain'[n] # "absent" /\ \A k \in Notes \ {n} : chain'[k] = chain[k]
    BY <1>7, Zenon DEF CreateNote, ConsumeExternally, Ledger
  <2>2. \A i \in 1..Len(consumedQ) : consumedQ[i] \in Notes
    OBVIOUS
  <2> QED
    BY <2>1, <2>2
<1>8. CASE Stop
  BY <1>8 DEF Stop
<1>9. CASE Boot
  BY <1>9, Zenon DEF Boot, ResetSettling
<1> QED
  BY <1>1, <1>2, <1>3, <1>4, <1>5, <1>6, <1>7, <1>8, <1>9, Zenon
     DEF Next, IngestNext, IngestSync, IngestFetch, IngestMarkFails, IngestInsertFails, IngestForward, ChainNext,
         Crash, Shutdown, vars

-----------------------------------------------------------------------------
(* Nobody but one has the order.                                            *)

\* The types of the queues.
LEMMA QueueTypes ==
    ASSUME TypeOK
    PROVE  orderQ \in Seq(Notes) /\ execQ \in Seq(SUBSET Notes) /\ mBatch \in SUBSET Notes
BY DEF TypeOK

\* Nobody has an order that has no row.
LEMMA NoRowNotHeld ==
    ASSUME TypeOK, CustodyInv, NEW n \in Notes, db[n] = "none"
    PROVE  ~Held(n)
<1>1. n \notin Rows
  BY Zenon DEF Rows
<1>0. orderQ \in Seq(Rows) /\ execQ \in Seq(SUBSET Rows)
  BY Zenon DEF CustodyInv
<1>2. ~In(orderQ, n)
  <2>1. \A i \in 1..Len(orderQ) : orderQ[i] \in Rows
    BY <1>0
  <2> QED
    BY <1>1, <2>1, Zenon DEF In
<1>3. ~InSome(execQ, n)
  <2>1. \A i \in 1..Len(execQ) : execQ[i] \in SUBSET Rows
    BY <1>0
  <2> QED
    BY <1>1, <2>1 DEF InSome
<1> QED
  BY <1>1, <1>2, <1>3, Zenon DEF Held, Forwarding, CustodyInv

\* Ingest adds an order only when it had no row, and then hands it over.
LEMMA IngestOnce ==
    ASSUME TypeOK, CustodyInv, NEW n \in Notes, One(n), IngestNext
    PROVE  One(n)'
<1> USE DEF One, Apart, Held, outside, channels, ingest, matcher, executor, bounds, stops, history
<1>1. CASE IngestSync \/ IngestFetch \/ IngestMarkFails \/ IngestInsertFails
           \/ \E k \in Notes : IngestNotifyConsumed(k)
  <2>1. UNCHANGED <<db, orderQ, execQ, book, xBatch>> /\ inPc' # "forward"
    BY <1>1, Zenon DEF IngestSync, IngestFetch, IngestMarkFails, IngestInsertFails, IngestNotifyConsumed
  <2> QED
    BY <2>1 DEF Forwarding
<1>2. CASE IngestMarkConsumed
  <2>1. UNCHANGED <<orderQ, execQ, book, xBatch>> /\ inPc' # "forward" /\ (db'[n] = "executed" => db[n] = "executed")
    BY <1>2, Zenon DEF IngestMarkConsumed, MarkNullified
  <2> QED
    BY <2>1, Zenon DEF Forwarding
<1>3. CASE IngestInsert
  <2>1. UNCHANGED <<orderQ, execQ, book, xBatch>> /\ (db'[n] = "executed" => db[n] = "executed" /\ n \notin fresh')
    BY <1>3 DEF IngestInsert, InsertNew
  <2>2. n \in fresh' => db[n] = "none"
    BY <1>3 DEF IngestInsert
  <2> QED
    BY <2>1, <2>2, NoRowNotHeld DEF Forwarding
<1>4. ASSUME NEW k \in Notes, IngestForward(k) PROVE One(n)'
  <2>1. UNCHANGED <<db, execQ, book, xBatch>> /\ orderQ' = Append(orderQ, k) /\ Forwarding(k)
        /\ (Forwarding(n)' => Forwarding(n) /\ n # k)
    BY <1>4 DEF IngestForward, Forwarding
  <2>2. /\ In(orderQ', n) <=> In(orderQ, n) \/ k = n
        /\ OnceIn(orderQ, n) /\ (k = n => ~In(orderQ, n)) => OnceIn(orderQ', n)
    BY <2>1, SentOrder, QueueTypes
  <2> QED
    BY <2>1, <2>2
<1> QED
  BY <1>1, <1>2, <1>3, <1>4, Zenon DEF IngestNext

\* What is in a queue is one of its elements.
LEMMA InElems ==
    ASSUME NEW q \in Seq(Notes), NEW n, In(q, n)
    PROVE  n \in Elems(q)
<1>1. PICK i \in 1..Len(q) : q[i] = n
  BY DEF In
<1>2. i \in DOMAIN q
  OBVIOUS
<1> QED
  BY <1>1, <1>2 DEF Elems

\* The matcher moves orders from the channel to the book and on to a batch; what
\* it hydrates twice is in raced.
LEMMA MatcherOnce ==
    ASSUME TypeOK, CustodyInv, HandInv, NEW n \in Notes, n \notin raced', One(n), MatcherNext
    PROVE  One(n)'
<1> USE DEF One, Apart, Held, outside, channels, ingest, matcher, executor, bounds, stops, history
<1>1. CASE HydrateFails \/ Tick \/ Match \/ NoMatch
  BY <1>1 DEF HydrateFails, Tick, Match, NoMatch, Forwarding
<1>2. CASE Hydrate
  <2>1. UNCHANGED <<db, orderQ, execQ, inPc, fresh, xBatch>> /\ execQ = <<>> /\ xBatch = {} /\ book' = Active
    BY <1>2 DEF Hydrate, HandInv
  <2>2. n \in Active => ~In(orderQ, n) /\ ~Forwarding(n) /\ db[n] # "executed"
    <3>1. n \in Active => n \notin Elems(orderQ) /\ ~(inPc = "forward" /\ n \in fresh)
      BY <1>2 DEF Hydrate
    <3>2. In(orderQ, n) => n \in Elems(orderQ)
      BY QueueTypes, InElems
    <3>3. n \in Active => db[n] # "executed"
      BY DEF Active
    <3> QED
      BY <3>1, <3>2, <3>3 DEF Forwarding
  <2>3. ~InSome(execQ, n) /\ n \notin xBatch
    BY <2>1, EmptyQueue
  <2>4. book = {}
    BY <1>2 DEF Hydrate, HandInv
  <2> QED
    BY <2>1, <2>2, <2>3, <2>4 DEF Forwarding, Active
<1>3. CASE DrainConsumed
  <2>1. UNCHANGED <<db, orderQ, execQ, inPc, fresh, xBatch>> /\ book' \subseteq book
    BY <1>3 DEF DrainConsumed
  <2> QED
    BY <2>1 DEF Forwarding
<1>4. CASE DrainOrders
  <2>1. UNCHANGED <<db, execQ, inPc, fresh, xBatch>>
    BY <1>4 DEF DrainOrders
  <2>2. CASE orderQ = <<>>
    BY <1>4, <2>1, <2>2 DEF DrainOrders, Forwarding
  <2>3. CASE orderQ # <<>>
    <3>1. book' = book \cup {Head(orderQ)} /\ orderQ' = Tail(orderQ)
      BY <1>4, <2>3 DEF DrainOrders
    <3>2. /\ In(orderQ, n) <=> In(orderQ', n) \/ Head(orderQ) = n
          /\ OnceIn(orderQ, n) => OnceIn(orderQ', n) /\ (Head(orderQ) = n => ~In(orderQ', n))
      BY <2>3, <3>1, ReceivedOrder, QueueTypes
    <3> QED
      BY <2>1, <3>1, <3>2 DEF Forwarding
  <2> QED
    BY <2>2, <2>3, Zenon
<1>5. CASE EmitBatch
  <2>1. UNCHANGED <<db, orderQ, inPc, fresh, xBatch>> /\ execQ' = Append(execQ, mBatch) /\ book' = book \ mBatch
        /\ mBatch \subseteq book
    BY <1>5 DEF EmitBatch, HandInv
  <2>2. /\ InSome(execQ', n) <=> InSome(execQ, n) \/ n \in mBatch
        /\ OnceInSome(execQ, n) /\ (n \in mBatch => ~InSome(execQ, n)) => OnceInSome(execQ', n)
    BY <2>1, SentBatch, QueueTypes
  <2> QED
    BY <2>1, <2>2 DEF Forwarding
<1> QED
  BY <1>1, <1>2, <1>3, <1>4, <1>5, Zenon DEF MatcherNext

\* The executor takes a batch out of its channel and gives it up or back; only
\* an order it holds becomes Executed, and then nobody has it.
LEMMA ExecutorOnce ==
    ASSUME TypeOK, CustodyInv, HandInv, NEW n \in Notes, One(n), ExecutorNext
    PROVE  One(n)'
<1> USE DEF One, Apart, Held, outside, channels, ingest, matcher, executor, bounds, stops, history
<1>1. CASE TakeBatch
  <2>1. UNCHANGED <<db, orderQ, inPc, fresh, book>> /\ execQ # <<>> /\ execQ' = Tail(execQ) /\ xBatch' = Head(execQ)
    BY <1>1 DEF TakeBatch
  <2>2. /\ InSome(execQ, n) <=> InSome(execQ', n) \/ n \in Head(execQ)
        /\ OnceInSome(execQ, n) => OnceInSome(execQ', n) /\ (n \in Head(execQ) => ~InSome(execQ', n))
    BY <2>1, ReceivedBatch, QueueTypes, SMTT(15)
  <2> QED
    BY <2>1, <2>2, Zenon DEF Forwarding
<1>2. CASE CommitExecuted
  <2>1. UNCHANGED <<orderQ, execQ, inPc, fresh, book>> /\ xBatch' = {}
        /\ (db'[n] = "executed" => db[n] = "executed" \/ n \in xBatch)
    BY <1>2 DEF CommitExecuted, UpdateStatus
  <2> QED
    BY <2>1 DEF Forwarding
<1>3. ASSUME NEW k \in Notes, Refeed(k) PROVE One(n)'
  <2>1. UNCHANGED <<db, execQ, inPc, fresh, book>> /\ orderQ' = Append(orderQ, k) /\ k \in xBatch
        /\ xBatch' = xBatch \ {k}
    BY <1>3 DEF Refeed
  <2>2. /\ In(orderQ', n) <=> In(orderQ, n) \/ k = n
        /\ OnceIn(orderQ, n) /\ (k = n => ~In(orderQ, n)) => OnceIn(orderQ', n)
    BY <2>1, SentOrder, QueueTypes
  <2> QED
    BY <2>1, <2>2 DEF Forwarding
<1>4. CASE \/ PrepareFails \/ MarkSettling \/ MarkSettlingFails \/ SubmitOk \/ SubmitRpcError \/ BuildFails
           \/ SubmitTxError \/ CommitFails \/ RevertToActive \/ ClassifyQuery \/ ClassifyQueryFails
           \/ ClassifyApply \/ ClassifyApplyFails
  <2>1. UNCHANGED <<orderQ, execQ, inPc, fresh, book>> /\ xBatch' \subseteq xBatch
    BY <1>4, Zenon DEF PrepareFails, MarkSettling, MarkSettlingFails, SubmitOk, SubmitRpcError, BuildFails, SubmitTxError,
                CommitFails, RevertToActive, ClassifyQuery, ClassifyQueryFails, ClassifyApply, ClassifyApplyFails,
                GiveUp
  <2>2. db'[n] = "executed" => db[n] = "executed"
    BY <1>4, Zenon DEF PrepareFails, MarkSettling, MarkSettlingFails, SubmitOk, SubmitRpcError, BuildFails, SubmitTxError,
                CommitFails, RevertToActive, ClassifyQuery, ClassifyQueryFails, ClassifyApply, ClassifyApplyFails,
                UpdateStatus, MarkNullified
  <2> QED
    BY <2>1, <2>2, Zenon DEF Forwarding
<1> QED
  BY <1>1, <1>2, <1>3, <1>4, Zenon DEF ExecutorNext

\* Every step of the pipeline keeps orders apart.
LEMMA OnceStep == LifeInv /\ HandInv /\ OnceInv /\ [Next]_vars => OnceInv'
<1> SUFFICES ASSUME LifeInv, HandInv, OnceInv, [Next]_vars, NEW n \in Notes, n \notin raced' PROVE One(n)'
  BY DEF OnceInv
<1> USE DEF LifeInv, RetireInv, outside, channels, ingest, matcher, executor, bounds, stops, history
<1>1. CASE Stop
  <2>1. orderQ' = <<>> /\ execQ' = <<>> /\ inPc' = "idle" /\ book' = {} /\ xBatch' = {}
    BY <1>1 DEF Stop
  <2>2. ~In(orderQ', n) /\ ~InSome(execQ', n) /\ OnceIn(orderQ', n) /\ OnceInSome(execQ', n)
    BY <2>1, EmptyQueue
  <2> QED
    BY <2>1, <2>2 DEF One, Apart, Held, Forwarding
<1>2. CASE Hydrate
  <2>1. One(n)
    BY <1>2 DEF Hydrate, HandInv, OnceInv
  <2> QED
    BY <1>2, <2>1, MatcherOnce DEF MatcherNext
<1>3. CASE MatcherNext /\ ~Hydrate
  <2>1. raced' = raced
    BY <1>3 DEF MatcherNext, HydrateFails, Tick, DrainConsumed, DrainOrders, Match, NoMatch, EmitBatch
  <2> QED
    BY <1>3, <2>1, MatcherOnce, Zenon DEF OnceInv
<1>4. CASE IngestNext
  <2>1. raced' = raced
    BY <1>4, Zenon DEF IngestNext, IngestSync, IngestFetch, IngestMarkConsumed, IngestMarkFails, IngestInsert,
                IngestInsertFails, IngestNotifyConsumed, IngestForward
  <2> QED
    BY <1>4, <2>1, IngestOnce DEF OnceInv
<1>5. CASE ExecutorNext
  <2>1. raced' = raced
    BY <1>5, Zenon DEF ExecutorNext, TakeBatch, PrepareFails, MarkSettling, MarkSettlingFails, SubmitOk, SubmitRpcError,
                BuildFails, SubmitTxError, CommitExecuted, CommitFails, RevertToActive, ClassifyQuery,
                ClassifyQueryFails, ClassifyApply, ClassifyApplyFails, Refeed
  <2> QED
    BY <1>5, <2>1, ExecutorOnce DEF OnceInv
<1>6. CASE ChainNext \/ Boot \/ UNCHANGED vars
  <2>1. UNCHANGED <<raced, orderQ, execQ, inPc, fresh, book, xBatch>> /\ (db'[n] = "executed" => db[n] = "executed")
    BY <1>6 DEF ChainNext, CreateNote, ConsumeExternally, Boot, ResetSettling, vars
  <2>2. One(n)
    BY <2>1, Zenon DEF OnceInv
  <2> QED
    BY <2>1, <2>2, Zenon DEF One, Apart, Held, Forwarding
<1> QED
  BY <1>1, <1>2, <1>3, <1>4, <1>5, <1>6 DEF Next, Crash, Shutdown

-----------------------------------------------------------------------------
(* Somebody has every order that can still be settled.                      *)

\* Ingest forwards what it has inserted and drops nothing on the way.
LEMMA IngestKept ==
    ASSUME TypeOK, NEW n \in Notes, Owed(n)', Owed(n) => Held(n), IngestNext
    PROVE  Held(n)'
<1> USE DEF Held, Owed, outside, channels, ingest, matcher, executor, bounds, stops, history
<1>1. CASE IngestSync \/ IngestFetch \/ IngestMarkFails \/ IngestInsertFails
           \/ \E k \in Notes : IngestNotifyConsumed(k)
  <2>1. UNCHANGED <<chain, db, gaveUp, orderQ, execQ, book, xBatch>> /\ inPc # "forward"
    BY <1>1, Zenon DEF IngestSync, IngestFetch, IngestMarkFails, IngestInsertFails, IngestNotifyConsumed
  <2> QED
    BY <2>1, Zenon DEF Forwarding
<1>2. CASE IngestMarkConsumed
  <2>1. UNCHANGED <<chain, gaveUp, orderQ, execQ, book, xBatch>> /\ inPc # "forward"
        /\ (db'[n] \in {"active", "settling"} => db[n] \in {"active", "settling"})
    BY <1>2, Zenon DEF IngestMarkConsumed, MarkNullified
  <2> QED
    BY <2>1, Zenon DEF Forwarding
<1>3. CASE IngestInsert
  <2>1. UNCHANGED <<chain, gaveUp, orderQ, execQ, book, xBatch>> /\ inPc # "forward"
    BY <1>3, Zenon DEF IngestInsert
  <2>2. db'[n] = db[n] \/ Forwarding(n)'
    BY <1>3, Zenon DEF IngestInsert, InsertNew, Forwarding
  <2> QED
    BY <2>1, <2>2, Zenon DEF Forwarding
<1>4. ASSUME NEW k \in Notes, IngestForward(k) PROVE Held(n)'
  <2>1. UNCHANGED <<chain, db, gaveUp, execQ, book, xBatch>> /\ orderQ' = Append(orderQ, k)
        /\ (Forwarding(n) => Forwarding(n)' \/ n = k)
    BY <1>4, Zenon DEF IngestForward, Forwarding
  <2>2. In(orderQ', n) <=> In(orderQ, n) \/ k = n
    BY <2>1, SentOrder, QueueTypes
  <2> QED
    BY <2>1, <2>2, Zenon
<1> QED
  BY <1>1, <1>2, <1>3, <1>4, Zenon DEF IngestNext

\* The matcher drops only what the ledger says is consumed; the hydration finds
\* every order that is owed, for none is settling then.
LEMMA MatcherKept ==
    ASSUME TypeOK, HandInv, RowInv, NEW n \in Notes, Owed(n)', mPc # "hydrate" => (Owed(n) => Held(n)), MatcherNext
    PROVE  Held(n)'
<1> USE DEF Held, Owed, outside, channels, ingest, matcher, executor, bounds, stops, history
<1>1. CASE Tick \/ Match \/ NoMatch
  BY <1>1, Zenon DEF Tick, Match, NoMatch, Forwarding
<1>2. CASE Hydrate \/ HydrateFails
  BY <1>2, Zenon DEF Hydrate, HydrateFails, RowInv, Active
<1>3. CASE DrainConsumed
  <2>1. UNCHANGED <<chain, db, gaveUp, orderQ, execQ, inPc, fresh, xBatch>> /\ mPc # "hydrate"
    BY <1>3, Zenon DEF DrainConsumed
  <2>2. book' = book \/ (consumedQ # <<>> /\ book' = book \ {Head(consumedQ)})
    BY <1>3 DEF DrainConsumed
  <2>3. consumedQ # <<>> => chain[Head(consumedQ)] = "spent"
    BY DEF TypeOK, RowInv
  <2> QED
    BY <2>1, <2>2, <2>3, Zenon DEF Forwarding
<1>4. CASE DrainOrders
  <2>1. UNCHANGED <<chain, db, gaveUp, execQ, inPc, fresh, xBatch>> /\ mPc # "hydrate"
    BY <1>4, Zenon DEF DrainOrders
  <2>2. CASE orderQ = <<>>
    BY <1>4, <2>1, <2>2, Zenon DEF DrainOrders, Forwarding
  <2>3. CASE orderQ # <<>>
    <3>1. book' = book \cup {Head(orderQ)} /\ orderQ' = Tail(orderQ)
      BY <1>4, <2>3, Zenon DEF DrainOrders
    <3>2. In(orderQ, n) <=> In(orderQ', n) \/ Head(orderQ) = n
      BY <2>3, <3>1, ReceivedOrder, QueueTypes
    <3> QED
      BY <2>1, <3>1, <3>2, Zenon DEF Forwarding
  <2> QED
    BY <2>2, <2>3, Zenon
<1>5. CASE EmitBatch
  <2>1. UNCHANGED <<chain, db, gaveUp, orderQ, inPc, fresh, xBatch>> /\ execQ' = Append(execQ, mBatch)
        /\ book' = book \ mBatch /\ mPc # "hydrate"
    BY <1>5, Zenon DEF EmitBatch
  <2>2. InSome(execQ', n) <=> InSome(execQ, n) \/ n \in mBatch
    BY <2>1, SentBatch, QueueTypes
  <2> QED
    BY <2>1, <2>2, Zenon DEF Forwarding
<1> QED
  BY <1>1, <1>2, <1>3, <1>4, <1>5, Zenon DEF MatcherNext

\* The executor lets go of an order when it is spent, when it is queued again, or
\* on an error return.
LEMMA ExecutorKept ==
    ASSUME LifeInv, HandInv, NEW n \in Notes, Owed(n)', Owed(n) => Held(n), ExecutorNext
    PROVE  Held(n)'
<1> USE DEF LifeInv, RetireInv, Held, Owed, outside, channels, ingest, matcher, executor, bounds, stops, history
<1>1. CASE TakeBatch
  <2>1. UNCHANGED <<chain, db, gaveUp, orderQ, inPc, fresh, book>> /\ execQ # <<>> /\ execQ' = Tail(execQ)
        /\ xBatch' = Head(execQ) /\ xBatch = {}
    BY <1>1, Zenon DEF TakeBatch, HandInv
  <2>2. InSome(execQ, n) <=> InSome(execQ', n) \/ n \in Head(execQ)
    BY <2>1, ReceivedBatch, QueueTypes
  <2> QED
    BY <2>1, <2>2, Zenon DEF Forwarding
<1>2. ASSUME NEW k \in Notes, Refeed(k) PROVE Held(n)'
  <2>1. UNCHANGED <<chain, db, gaveUp, execQ, inPc, fresh, book>> /\ orderQ' = Append(orderQ, k)
        /\ xBatch' = xBatch \ {k}
    BY <1>2, Zenon DEF Refeed
  <2>2. In(orderQ', n) <=> In(orderQ, n) \/ k = n
    BY <2>1, SentOrder, QueueTypes
  <2> QED
    BY <2>1, <2>2, Zenon DEF Forwarding
<1>3. CASE \/ PrepareFails \/ MarkSettling \/ MarkSettlingFails \/ SubmitOk \/ SubmitRpcError \/ BuildFails
           \/ SubmitTxError \/ CommitExecuted \/ CommitFails \/ RevertToActive \/ ClassifyQuery
           \/ ClassifyQueryFails \/ ClassifyApply \/ ClassifyApplyFails
  <2>1. UNCHANGED <<orderQ, execQ, inPc, fresh, book>> /\ gaveUp \subseteq gaveUp'
    BY <1>3, Zenon DEF PrepareFails, MarkSettling, MarkSettlingFails, SubmitOk, SubmitRpcError, BuildFails, SubmitTxError,
                CommitExecuted, CommitFails, RevertToActive, ClassifyQuery, ClassifyQueryFails, ClassifyApply,
                ClassifyApplyFails, GiveUp
  <2>2. chain[n] = "live"
    BY <1>3, Zenon DEF PrepareFails, MarkSettling, MarkSettlingFails, SubmitOk, SubmitRpcError, BuildFails, SubmitTxError,
                CommitExecuted, CommitFails, RevertToActive, ClassifyQuery, ClassifyQueryFails, ClassifyApply,
                ClassifyApplyFails, Land
  <2>3. n \in xBatch => n \in xBatch'
    <3>1. CASE \/ MarkSettling \/ SubmitOk \/ SubmitRpcError \/ BuildFails \/ SubmitTxError \/ RevertToActive
               \/ ClassifyQuery
      BY <3>1, Zenon DEF MarkSettling, SubmitOk, SubmitRpcError, BuildFails, SubmitTxError, RevertToActive, ClassifyQuery
    <3>2. CASE PrepareFails \/ MarkSettlingFails \/ CommitFails \/ ClassifyQueryFails \/ ClassifyApplyFails
      BY <3>2, Zenon DEF PrepareFails, MarkSettlingFails, CommitFails, ClassifyQueryFails, ClassifyApplyFails, GiveUp
    <3>3. CASE CommitExecuted \/ ClassifyApply
      BY <2>2, <3>3, Zenon DEF CommitExecuted, ClassifyApply, EvidenceSound, Spent
    <3> QED
      BY <1>3, <3>1, <3>2, <3>3
  <2>4. db'[n] \in {"active", "settling"} => db[n] \in {"active", "settling"} \/ n \in xBatch
    BY <1>3, Zenon DEF PrepareFails, MarkSettling, MarkSettlingFails, SubmitOk, SubmitRpcError, BuildFails, SubmitTxError,
                CommitExecuted, CommitFails, RevertToActive, ClassifyQuery, ClassifyQueryFails, ClassifyApply,
                ClassifyApplyFails, UpdateStatus, MarkNullified
  <2> QED
    BY <2>1, <2>2, <2>3, <2>4, Zenon DEF Forwarding
<1> QED
  BY <1>1, <1>2, <1>3, Zenon DEF ExecutorNext

\* Every step of the pipeline keeps what is owed in somebody's hands.
LEMMA KeptStep == LifeInv /\ HandInv /\ RowInv /\ KeptInv /\ [Next]_vars => KeptInv'
<1> SUFFICES ASSUME LifeInv, HandInv, RowInv, KeptInv, [Next]_vars, up', mPc' # "hydrate",
                    NEW n \in Notes, Owed(n)'
             PROVE  Held(n)'
  BY DEF KeptInv
<1> USE DEF LifeInv, RetireInv, outside, channels, ingest, matcher, executor, bounds, stops, history
<1>1. CASE IngestNext
  <2>1. up /\ mPc' = mPc
    BY <1>1, Zenon DEF IngestNext, IngestSync, IngestFetch, IngestMarkConsumed, IngestMarkFails, IngestInsert,
                IngestInsertFails, IngestNotifyConsumed, IngestForward
  <2> QED
    BY <1>1, <2>1, IngestKept DEF KeptInv
<1>2. CASE MatcherNext
  <2>1. up
    BY <1>2, Zenon DEF MatcherNext, Hydrate, HydrateFails, Tick, DrainConsumed, DrainOrders, Match, NoMatch, EmitBatch
  <2> QED
    BY <1>2, <2>1, MatcherKept DEF KeptInv
<1>3. CASE ExecutorNext
  <2>1. up /\ mPc' = mPc
    BY <1>3, Zenon DEF ExecutorNext, TakeBatch, PrepareFails, MarkSettling, MarkSettlingFails, SubmitOk, SubmitRpcError,
                BuildFails, SubmitTxError, CommitExecuted, CommitFails, RevertToActive, ClassifyQuery,
                ClassifyQueryFails, ClassifyApply, ClassifyApplyFails, Refeed
  <2> QED
    BY <1>3, <2>1, ExecutorKept DEF KeptInv
<1>4. ASSUME NEW k \in Notes, CreateNote(k) \/ ConsumeExternally(k) PROVE Held(n)'
  <2>1. UNCHANGED <<db, up, mPc, gaveUp, orderQ, execQ, inPc, fresh, book, xBatch>>
    BY <1>4, Zenon DEF CreateNote, ConsumeExternally
  <2>2. chain[n] = "live" \/ chain[n] = "absent"
    BY <1>4, Zenon DEF CreateNote, ConsumeExternally, Owed, TypeOK
  <2>3. db[n] # "none"
    BY <2>1 DEF Owed
  <2>4. Owed(n)
    BY <2>1, <2>2, <2>3 DEF Owed, RowInv
  <2> QED
    BY <2>1, <2>4 DEF KeptInv, Held, Forwarding
<1>5. CASE Stop
  BY <1>5 DEF Stop
<1>6. CASE Boot
  BY <1>6 DEF Boot, HandInv
<1>7. CASE UNCHANGED vars
  BY <1>7, Zenon DEF vars, KeptInv, Owed, Held, Forwarding
<1> QED
  BY <1>1, <1>2, <1>3, <1>4, <1>5, <1>6, <1>7 DEF Next, ChainNext, Crash, Shutdown

-----------------------------------------------------------------------------
(* The theorems.                                                            *)

\* The inductive invariant.
HeldInv == LifeInv /\ HandInv /\ RowInv /\ OnceInv /\ KeptInv

\* The invariant holds in every state of the pipeline, with its faults, crashes
\* and restarts.
LEMMA HeldInvariant == Spec => []HeldInv
<1>1. Init => HandInv /\ RowInv /\ OnceInv /\ KeptInv
  <2> SUFFICES ASSUME Init PROVE HandInv /\ RowInv /\ OnceInv /\ KeptInv
    OBVIOUS
  <2>1. OnceInv
    BY EmptyQueue DEF Init, OnceInv, One, Apart, Held, Forwarding
  <2> QED
    BY <2>1 DEF Init, HandInv, RowInv, KeptInv
<1>2. HandInv /\ RowInv /\ OnceInv /\ KeptInv /\ LifeInv /\ [Next]_vars => (HandInv /\ RowInv /\ OnceInv /\ KeptInv)'
  BY HandStep, RowStep, OnceStep, KeptStep DEF LifeInv, RetireInv
<1> QED
  BY <1>1, <1>2, LifeInvariant, PTL DEF Spec, HeldInv

\* The place x has the order n.
At(x, n) ==
    \/ x = <<"forward", 0>> /\ Forwarding(n)
    \/ \E i \in 1..Len(orderQ) : x = <<"orderQ", i>> /\ orderQ[i] = n
    \/ x = <<"book", 0>> /\ n \in book
    \/ \E i \in 1..Len(execQ) : x = <<"execQ", i>> /\ n \in execQ[i]
    \/ x = <<"executor", 0>> /\ n \in xBatch

\* The places of an order are those that have it.
LEMMA PlacesAre ==
    ASSUME NEW n, DOMAIN orderQ = 1..Len(orderQ), DOMAIN execQ = 1..Len(execQ)
    PROVE  \A x : x \in Places(n) <=> At(x, n)
<1> TAKE x
<1>1. x \in {p \in {<<"forward", 0>>} : inPc = "forward" /\ n \in fresh} <=> x = <<"forward", 0>> /\ Forwarding(n)
  BY Zenon DEF Forwarding
<1>2. x \in {<<"orderQ", i>> : i \in {j \in DOMAIN orderQ : orderQ[j] = n}}
        <=> \E i \in 1..Len(orderQ) : x = <<"orderQ", i>> /\ orderQ[i] = n
  BY Zenon
<1>3. x \in {p \in {<<"book", 0>>} : n \in book} <=> x = <<"book", 0>> /\ n \in book
  BY Zenon
<1>4. x \in {<<"execQ", i>> : i \in {j \in DOMAIN execQ : n \in execQ[j]}}
        <=> \E i \in 1..Len(execQ) : x = <<"execQ", i>> /\ n \in execQ[i]
  BY Zenon
<1>5. x \in {p \in {<<"executor", 0>>} : n \in xBatch} <=> x = <<"executor", 0>> /\ n \in xBatch
  BY Zenon
<1> QED
  BY <1>1, <1>2, <1>3, <1>4, <1>5, Zenon DEF Places, At

\* An order is in at most one place of the pipeline, whatever ingest, matcher and
\* executor do at the same time, so that two batches never compete for it: only
\* one hydrated while its channel copy was on its way may be in two.
THEOREM NeverTwoCopies == Spec => []SingleCustody
<1>1. HeldInv => SingleCustody
  <2> SUFFICES ASSUME HeldInv, NEW n \in Notes \ raced, NEW p \in Places(n), NEW q \in Places(n) PROVE p = q
    BY DEF SingleCustody
  <2>1. Apart(n) /\ DOMAIN orderQ = 1..Len(orderQ) /\ DOMAIN execQ = 1..Len(execQ)
    BY DEF HeldInv, OnceInv, One, LifeInv, RetireInv, TypeOK
  <2>2. At(p, n) /\ At(q, n)
    BY <2>1, PlacesAre, Zenon
  <2>3. CASE Forwarding(n)
    BY <2>1, <2>2, <2>3, Zenon DEF At, Apart, In, InSome
  <2>4. CASE In(orderQ, n)
    BY <2>1, <2>2, <2>4, Zenon DEF At, Apart, In, InSome, OnceIn
  <2>5. CASE n \in book
    BY <2>1, <2>2, <2>5, Zenon DEF At, Apart, In, InSome
  <2>6. CASE InSome(execQ, n)
    BY <2>1, <2>2, <2>6, Zenon DEF At, Apart, In, InSome, OnceInSome
  <2>7. CASE n \in xBatch
    BY <2>1, <2>2, <2>7, Zenon DEF At, Apart, In, InSome
  <2> QED
    BY <2>2, <2>3, <2>4, <2>5, <2>6, <2>7 DEF At, In, InSome
<1> QED
  BY <1>1, HeldInvariant, PTL

\* An order that is live on the ledger and unsettled in the table is in somebody's
\* hands while the process runs: the channels, the book, the batches and the
\* re-feed of execute_batch lose none, and only an error return or a failed
\* hydration gives one up.
THEOREM NoLiveOrderLost == Spec => []LiveOrdersInCustody
<1>1. HeldInv => LiveOrdersInCustody
  <2> SUFFICES ASSUME HeldInv, up, mPc # "hydrate", NEW n \in Notes \ gaveUp, chain[n] = "live",
                      db[n] \in {"active", "settling"}
               PROVE  Places(n) # {}
    BY DEF LiveOrdersInCustody
  <2>1. Held(n) /\ DOMAIN orderQ = 1..Len(orderQ) /\ DOMAIN execQ = 1..Len(execQ)
    BY DEF HeldInv, KeptInv, Owed, LifeInv, RetireInv, TypeOK
  <2>2. \E p : p \in Places(n)
    BY <2>1, PlacesAre, Zenon DEF At, Held, In, InSome
  <2> QED
    BY <2>2, Zenon
<1> QED
  BY <1>1, HeldInvariant, PTL

\* An Executed row never changes again, although update_orders_status would
\* overwrite it: nobody has an executed order any more, unless it was hydrated
\* while its channel copy was on its way.
THEOREM ExecutedStays == Spec => ExecutedFinal
<1>1. HeldInv /\ [Next]_vars => [\A n \in Notes \ raced : db[n] = "executed" => db'[n] = "executed"]_vars
  <2> SUFFICES ASSUME HeldInv, Next, NEW n \in Notes \ raced, db[n] = "executed" PROVE db'[n] = "executed"
    OBVIOUS
  <2>1. n \notin xBatch
    BY Zenon DEF HeldInv, OnceInv, One, Held
  <2> USE DEF HeldInv, LifeInv, RetireInv, TypeOK, outside
  <2>2. CASE IngestNext
    BY <2>2, Zenon DEF IngestNext, IngestSync, IngestFetch, IngestMarkConsumed, IngestMarkFails, IngestInsert,
                IngestInsertFails, IngestNotifyConsumed, IngestForward, MarkNullified, InsertNew
  <2>3. CASE MatcherNext
    BY <2>3 DEF MatcherNext, Hydrate, HydrateFails, Tick, DrainConsumed, DrainOrders, Match, NoMatch, EmitBatch
  <2>4. CASE ExecutorNext
    BY <2>1, <2>4, Zenon DEF ExecutorNext, TakeBatch, PrepareFails, MarkSettling, MarkSettlingFails, SubmitOk,
         SubmitRpcError, BuildFails, SubmitTxError, CommitExecuted, CommitFails, RevertToActive, ClassifyQuery,
         ClassifyQueryFails, ClassifyApply, ClassifyApplyFails, Refeed, UpdateStatus, MarkNullified
  <2>5. CASE ChainNext \/ Crash \/ Shutdown \/ Boot
    BY <2>5 DEF ChainNext, CreateNote, ConsumeExternally, Crash, Shutdown, Stop, Boot, ResetSettling
  <2> QED
    BY <2>2, <2>3, <2>4, <2>5 DEF Next
<1> QED
  BY <1>1, HeldInvariant, PTL DEF Spec, ExecutedFinal

==============================================================================
