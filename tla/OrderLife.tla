----------------------------- MODULE OrderLife -----------------------------
(***************************************************************************)
(* The life of an order, as someone sees it who can read the ledger and    *)
(* the orders table and nothing else: the promise that the pipeline of     *)
(* module Settlement implements.  The ledger and the table never change in *)
(* one step; what ties them together is that a note is settled only while  *)
(* its row says Settling, and retired only once the ledger has it spent.   *)
(***************************************************************************)
CONSTANT Notes

VARIABLES
    chain,  \* what the ledger says of each note
    db      \* its status in the table, "none": no row

life == <<chain, db>>

Init ==
    /\ chain = [n \in Notes |-> "absent"]
    /\ db = [n \in Notes |-> "none"]

Create(n) ==
    /\ chain[n] = "absent"
    /\ chain' = [chain EXCEPT ![n] = "live"]
    /\ UNCHANGED db

\* The creator, a competing filler or a DEX consumes the note.
Consume(n) ==
    /\ chain[n] = "live"
    /\ chain' = [chain EXCEPT ![n] = "spent"]
    /\ UNCHANGED db

\* The solver's transaction consumes a batch whose rows it has all claimed.
Settle(S) ==
    /\ \A n \in S : chain[n] = "live" /\ db[n] = "settling"
    /\ chain' = [n \in Notes |-> IF n \in S THEN "spent" ELSE chain[n]]
    /\ UNCHANGED db

\* The status a row may have next.  A note that a stale copy in memory still
\* names may be claimed again when its row is already retired.
Discovered(n) == db[n] = "none" /\ db'[n] = "active" /\ chain[n] # "absent"
Claimed(n)    == db[n] \in {"active", "nullified", "executed"} /\ db'[n] = "settling"
Released(n)   == db[n] \in {"settling", "nullified"} /\ db'[n] = "active"
Executed(n)   == db[n] \in {"settling", "nullified"} /\ db'[n] = "executed" /\ chain[n] = "spent"
Nullified(n)  == db[n] \in {"active", "settling"} /\ db'[n] = "nullified" /\ chain[n] = "spent"

\* One statement or transaction on the table: each row stays or moves on.
Write ==
    /\ db' \in [Notes -> {"none", "active", "settling", "executed", "nullified"}]
    /\ \A n \in Notes : \/ db'[n] = db[n]
                        \/ Discovered(n) \/ Claimed(n) \/ Released(n) \/ Executed(n) \/ Nullified(n)
    /\ UNCHANGED chain

Next ==
    \/ \E n \in Notes : Create(n) \/ Consume(n)
    \/ \E S \in SUBSET Notes : Settle(S)
    \/ Write

Spec == Init /\ [][Next]_life
=============================================================================
