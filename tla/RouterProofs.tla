---------------------------- MODULE RouterProofs ----------------------------
(***************************************************************************)
(* Proofs about the router thread, for any number of connections, quotes   *)
(* and batches and any capacity.                                           *)
(***************************************************************************)
EXTENDS Router, TLAPS, FiniteSetTheorems, SequenceTheorems

Labels == {"new", "upgrade", "read", "publish", "send", "purge", "uncount", "closed"}

\* The ids of the connections: handed out once, and used as keys of both maps
\* by their own connection only.
DexInv ==
    /\ pc \in [Actors -> Labels \cup {"recv", "consume"}] /\ \A s \in Sockets : pc[s] \in Labels
    /\ dexOf \in [Sockets -> Nat] /\ posted \in 0..MaxQuotes
    /\ next_dex \in Nat \ {0} /\ conn_count \in Nat
    /\ \A s \in Sockets : dexOf[s] < next_dex
    /\ \A s, u \in Sockets : dexOf[s] = dexOf[u] /\ dexOf[s] # 0 => s = u
    /\ \A s \in Sockets : pc[s] \in {"new", "upgrade"} => dexOf[s] = 0
    /\ \A s \in Sockets : pc[s] \in {"read", "publish", "send", "purge", "uncount"} => dexOf[s] # 0
    /\ \A d \in DOMAIN conns : d # 0 /\ conns[d] \in Sockets /\ dexOf[conns[d]] = d
    /\ \A d \in DOMAIN quotes : d # 0 /\ quotes[d] \in Sockets \X Nat /\ dexOf[quotes[d][1]] = d
    /\ \A d \in DOMAIN quotes : quotes[d][2] \in 1..posted

\* Where a connection stands fixes whether it is in the maps.
MapInv ==
    \A s \in Sockets :
        /\ pc[s] = "read" => dexOf[s] \in DOMAIN conns
        /\ pc[s] \in {"new", "upgrade", "purge", "uncount", "closed"} => dexOf[s] \notin DOMAIN conns
        /\ pc[s] # "purge" /\ dexOf[s] \notin DOMAIN conns => dexOf[s] \notin DOMAIN quotes

\* A connection is in the map of connections under its own id.
LEMMA ConnectedIff ==
    ASSUME DexInv, NEW s \in Sockets
    PROVE  Connected(s) <=> dexOf[s] \in DOMAIN conns
BY DEF DexInv, Connected

\* Before the first connection both maps are empty.
LEMMA DexInit == Init => DexInv /\ MapInv
<1> SUFFICES ASSUME Init PROVE DexInv /\ MapInv
  OBVIOUS
<1>1. DOMAIN conns = {} /\ DOMAIN quotes = {}
  BY DEF Init
<1> QED
  BY <1>1, RelayAssumption, RouterBounds DEF Init, DexInv, MapInv, Actors, Labels

\* A new id is no key of the maps.
LEMMA NewDexFresh ==
    ASSUME DexInv
    PROVE  next_dex \notin DOMAIN conns /\ next_dex \notin DOMAIN quotes
BY DEF DexInv

\* Every step keeps the ids apart and the maps in step with the connections.
LEMMA DexStep ==
    ASSUME DexInv, MapInv, [Next]_vars
    PROVE  DexInv' /\ MapInv'
<1> USE RelayAssumption DEF Actors, Labels, connVars, watchVars, routeVars, Goto
<1>1. CASE UNCHANGED vars
  BY <1>1 DEF vars, DexInv, MapInv
<1>2. CASE ExternalPass
  BY <1>2 DEF ExternalPass, ReadQuotes, RouteTick, RouteNothing, DexInv, MapInv
<1>3. CASE Deliver
  BY <1>3 DEF Deliver, DexInv, MapInv
<1>4. CASE Consume
  <2>1. DOMAIN quotes' \subseteq DOMAIN quotes /\ \A d \in DOMAIN quotes' : quotes'[d] = quotes[d]
    BY <1>4 DEF Consume, Drop
  <2> QED
    BY <1>4, <2>1 DEF Consume, DexInv, MapInv
<1>5. ASSUME NEW a \in Actors, BuildSnapshot(a) PROVE DexInv' /\ MapInv'
  BY <1>5 DEF BuildSnapshot, DexInv, MapInv
<1>6. ASSUME NEW a \in Actors, SendSnapshot(a) PROVE DexInv' /\ MapInv'
  BY <1>6, ConnectedIff DEF SendSnapshot, DexInv, MapInv
<1>7. ASSUME NEW s \in Sockets, Accept(s) \/ UpgradeFails(s) PROVE DexInv' /\ MapInv'
  BY <1>7 DEF Accept, UpgradeFails, DexInv, MapInv
<1>8. ASSUME NEW s \in Sockets, Open(s) PROVE DexInv' /\ MapInv'
  <2>1. /\ DOMAIN conns' = DOMAIN conns \cup {next_dex} /\ conns'[next_dex] = s
        /\ \A d \in DOMAIN conns : d # next_dex /\ conns'[d] = conns[d]
    BY <1>8, NewDexFresh DEF Open, Put
  <2>2. /\ dexOf' = [dexOf EXCEPT ![s] = next_dex] /\ next_dex' = next_dex + 1
        /\ pc' = [pc EXCEPT ![s] = "read"] /\ conn_count' = conn_count + 1 /\ pc[s] = "upgrade"
        /\ UNCHANGED <<posted, quotes>>
    BY <1>8 DEF Open
  <2>3. DexInv'
    BY <2>1, <2>2 DEF DexInv
  <2>4. MapInv'
    BY <2>1, <2>2, NewDexFresh DEF DexInv, MapInv
  <2> QED
    BY <2>3, <2>4
<1>9. ASSUME NEW s \in Sockets, StoreQuote(s) PROVE DexInv' /\ MapInv'
  <2>1. /\ DOMAIN quotes' = DOMAIN quotes \cup {dexOf[s]} /\ quotes'[dexOf[s]] = <<s, posted'>>
        /\ \A d \in DOMAIN quotes : d # dexOf[s] => quotes'[d] = quotes[d]
    BY <1>9 DEF StoreQuote, Put
  <2>2. /\ posted' = posted + 1 /\ pc' = [pc EXCEPT ![s] = "publish"] /\ pc[s] = "read"
        /\ UNCHANGED <<dexOf, next_dex, conn_count, conns>>
    BY <1>9 DEF StoreQuote
  <2>3. posted' \in 1..MaxQuotes /\ posted' \in 0..MaxQuotes /\ posted \in Nat
    BY <1>9, <2>2, RouterBounds DEF StoreQuote, DexInv
  <2>4. \A d \in DOMAIN quotes' : d # 0 /\ quotes'[d] \in Sockets \X Nat /\ dexOf[quotes'[d][1]] = d
    <3>1. posted' \in Nat
      BY <2>3, RouterBounds
    <3>2. <<s, posted'>> \in Sockets \X Nat /\ dexOf[s] # 0
      BY <2>2, <3>1 DEF DexInv
    <3> QED
      BY <2>1, <3>2 DEF DexInv
  <2>7. \A d \in DOMAIN quotes' : quotes'[d][2] \in 1..posted'
    <3>1. \A d \in DOMAIN quotes : quotes[d][2] \in 1..posted'
      BY <2>2, <2>3 DEF DexInv
    <3>2. quotes'[dexOf[s]][2] \in 1..posted'
      BY <2>1, <2>3, RouterBounds
    <3> QED
      BY <2>1, <3>1, <3>2
  <2>5. DexInv'
    BY <2>2, <2>3, <2>4, <2>7 DEF DexInv
  <2>6. MapInv'
    BY <2>1, <2>2 DEF DexInv, MapInv
  <2> QED
    BY <2>5, <2>6
<1>10. ASSUME NEW s \in Sockets, Unlink(s) PROVE DexInv' /\ MapInv'
  <2>1. DOMAIN conns' = DOMAIN conns \ {dexOf[s]} /\ \A d \in DOMAIN conns' : conns'[d] = conns[d]
    BY <1>10 DEF Unlink, Drop
  <2>2. /\ pc' = [pc EXCEPT ![s] = "purge"] /\ pc[s] = "read"
        /\ UNCHANGED <<dexOf, posted, next_dex, conn_count, quotes>>
    BY <1>10 DEF Unlink
  <2>3. DexInv'
    BY <2>1, <2>2 DEF DexInv
  <2>4. MapInv'
    BY <2>1, <2>2 DEF DexInv, MapInv
  <2> QED
    BY <2>3, <2>4
<1>11. ASSUME NEW s \in Sockets, Purge(s) PROVE DexInv' /\ MapInv'
  <2>1. DOMAIN quotes' = DOMAIN quotes \ {dexOf[s]} /\ \A d \in DOMAIN quotes' : quotes'[d] = quotes[d]
    BY <1>11 DEF Purge, Drop
  <2>2. /\ pc' = [pc EXCEPT ![s] = "uncount"] /\ pc[s] = "purge"
        /\ UNCHANGED <<dexOf, posted, next_dex, conn_count, conns>>
    BY <1>11 DEF Purge
  <2>3. DexInv'
    BY <2>1, <2>2 DEF DexInv
  <2>4. MapInv'
    BY <2>1, <2>2 DEF DexInv, MapInv
  <2> QED
    BY <2>3, <2>4
<1>12. ASSUME NEW s \in Sockets, Uncount(s) PROVE DexInv' /\ MapInv'
  <2>1. /\ pc' = [pc EXCEPT ![s] = "publish"] /\ pc[s] = "uncount"
        /\ UNCHANGED <<dexOf, posted, next_dex, conns, quotes>>
    BY <1>12 DEF Uncount
  <2>2. conn_count' \in Nat
    BY <1>12 DEF Uncount, DexInv
  <2>3. DexInv'
    BY <2>1, <2>2 DEF DexInv
  <2>4. MapInv'
    BY <2>1 DEF DexInv, MapInv
  <2> QED
    BY <2>3, <2>4
<1> QED
  BY <1>1, <1>2, <1>3, <1>4, <1>5, <1>6, <1>7, <1>8, <1>9, <1>10, <1>11, <1>12, Zenon
     DEF Next, RelayNext, SocketNext

\* A closed connection leaves no quote behind, whatever the relay and its own
\* last messages did while it was closing.
THEOREM ClosedGone == Spec => []ClosedLeavesNoQuote
<1>1. DexInv /\ MapInv => ClosedLeavesNoQuote
  BY DEF DexInv, MapInv, ClosedLeavesNoQuote
<1>2. DexInv /\ MapInv /\ [Next]_vars => (DexInv /\ MapInv)'
  BY DexStep
<1> QED
  BY <1>1, <1>2, DexInit, PTL DEF Spec

-----------------------------------------------------------------------------
(* The connection count.                                                   *)

Counted == {s \in Sockets : pc[s] \in {"purge", "uncount"} \/ dexOf[s] \in DOMAIN conns}

\* The connections the count is about, by their ids.
LEMMA CountedIs ==
    ASSUME DexInv
    PROVE  ConnCountExact <=> conn_count = Cardinality(Counted)
<1>1. Counted = {s \in Sockets : pc[s] \in {"purge", "uncount"} \/ Connected(s)}
  BY ConnectedIff DEF Counted
<1> QED
  BY <1>1 DEF ConnCountExact

\* Only the head of handle_conn and deregister change who is counted, and both
\* change the count with it.
LEMMA CountStep ==
    ASSUME DexInv, MapInv, conn_count = Cardinality(Counted), [Next]_vars
    PROVE  conn_count' = Cardinality(Counted')
<1> USE RelayAssumption DEF Actors, Labels, connVars, watchVars, routeVars, Goto
<1>0. IsFiniteSet(Counted)
  BY FS_Subset DEF Counted
<1>s. ASSUME Counted' = Counted, conn_count' = conn_count PROVE conn_count' = Cardinality(Counted')
  BY <1>s
<1>1. CASE UNCHANGED vars
  BY <1>1, <1>s DEF vars, Counted
<1>2. CASE ExternalPass
  BY <1>2, <1>s DEF ExternalPass, ReadQuotes, RouteTick, RouteNothing, Counted
<1>3. CASE Deliver \/ Consume
  BY <1>3, <1>s DEF Deliver, Consume, DexInv, Counted
<1>4. ASSUME NEW a \in Actors, BuildSnapshot(a) \/ SendSnapshot(a) PROVE conn_count' = Cardinality(Counted')
  BY <1>4, <1>s DEF BuildSnapshot, SendSnapshot, DexInv, Counted
<1>5. ASSUME NEW s \in Sockets, Accept(s) \/ UpgradeFails(s) \/ StoreQuote(s) \/ Purge(s)
      PROVE  conn_count' = Cardinality(Counted')
  BY <1>5, <1>s DEF Accept, UpgradeFails, StoreQuote, Purge, DexInv, Counted
<1>6. ASSUME NEW s \in Sockets, Open(s) PROVE conn_count' = Cardinality(Counted')
  <2>1. Counted' = Counted \cup {s} /\ s \notin Counted
    <3>1. DOMAIN conns' = DOMAIN conns \cup {next_dex}
      BY <1>6 DEF Open, Put
    <3>2. /\ dexOf' = [dexOf EXCEPT ![s] = next_dex] /\ pc' = [pc EXCEPT ![s] = "read"] /\ pc[s] = "upgrade"
          /\ \A u \in Sockets : dexOf[u] # next_dex
      BY <1>6 DEF Open, DexInv
    <3> QED
      BY <3>1, <3>2 DEF DexInv, MapInv, Counted
  <2> QED
    BY <1>0, <1>6, <2>1, FS_AddElement, Zenon DEF Open
<1>7. ASSUME NEW s \in Sockets, Unlink(s) PROVE conn_count' = Cardinality(Counted')
  <2>1. Counted' = Counted
    <3>1. DOMAIN conns' = DOMAIN conns \ {dexOf[s]}
      BY <1>7 DEF Unlink, Drop
    <3>2. pc' = [pc EXCEPT ![s] = "purge"] /\ pc[s] = "read" /\ UNCHANGED dexOf
      BY <1>7 DEF Unlink
    <3> QED
      BY <3>1, <3>2 DEF DexInv, MapInv, Counted
  <2> QED
    BY <1>7, <1>s, <2>1 DEF Unlink
<1>8. ASSUME NEW s \in Sockets, Uncount(s) PROVE conn_count' = Cardinality(Counted')
  <2>1. Counted' = Counted \ {s} /\ s \in Counted
    BY <1>8 DEF Uncount, DexInv, MapInv, Counted
  <2>2. Cardinality(Counted') = Cardinality(Counted) - 1
    BY <1>0, <2>1, FS_RemoveElement, Zenon
  <2>3. conn_count # 0
    BY <1>0, <2>1, FS_EmptySet
  <2> QED
    BY <1>8, <2>2, <2>3 DEF Uncount
<1> QED
  BY <1>1, <1>2, <1>3, <1>4, <1>5, <1>6, <1>7, <1>8, Zenon DEF Next, RelayNext, SocketNext

\* The count that ws_handler compares with the cap is exact in every state: no
\* failed upgrade and no order of opens and closes leaves a residue in it.
THEOREM CountIsExact == Spec => []ConnCountExact
<1> DEFINE IInv == DexInv /\ MapInv /\ conn_count = Cardinality(Counted)
<1>1. Init => IInv
  <2> SUFFICES ASSUME Init PROVE conn_count = Cardinality(Counted)
    BY DexInit
  <2>1. Counted = {}
    BY RelayAssumption DEF Init, Counted, Actors
  <2> QED
    BY <2>1, FS_EmptySet DEF Init
<1>2. IInv /\ [Next]_vars => IInv'
  BY DexStep, CountStep
<1>3. IInv => ConnCountExact
  BY CountedIs
<1> QED
  BY <1>1, <1>2, <1>3, PTL DEF Spec

-----------------------------------------------------------------------------
(* The handovers.                                                          *)

\* An item that names a quote of the connection its dex id belongs to.
Good ==
    {i \in [dex : Nat \ {0}, quote : Sockets \X Nat] :
        dexOf[i.quote[1]] = i.dex /\ i.quote[2] \in 1..posted}
Pending == [by : Actors, snap : SUBSET Good, late : BOOLEAN]

ItemInv ==
    /\ pending \in Seq(Pending) /\ snapshot \subseteq Good
    /\ routeQ \in Seq(SUBSET Good) /\ batch \subseteq Good /\ used \subseteq Good /\ view \subseteq Good
    /\ HandedToQuoter

\* The snapshot of the quote map holds good items only.
LEMMA StandingGood ==
    ASSUME DexInv
    PROVE  Standing \subseteq Good
BY DEF DexInv, Standing, Good

\* An id, once given, stays with its connection, so a good item stays good.
LEMMA GoodStays ==
    ASSUME DexInv, [Next]_vars
    PROVE  Good \subseteq Good'
<1>1. \A s \in Sockets : dexOf[s] # 0 => dexOf'[s] = dexOf[s]
  <2> USE RelayAssumption DEF Actors, connVars, watchVars, routeVars
  <2>1. ASSUME NEW s \in Sockets, Open(s) PROVE \A u \in Sockets : dexOf[u] # 0 => dexOf'[u] = dexOf[u]
    BY <2>1 DEF Open, DexInv
  <2>2. CASE UNCHANGED dexOf
    BY <2>2
  <2> QED
    BY <2>1, <2>2, Zenon DEF Next, RelayNext, SocketNext, ExternalPass, ReadQuotes, RouteTick, RouteNothing, Deliver, Consume, BuildSnapshot, SendSnapshot,
                      Accept, UpgradeFails, StoreQuote, Unlink, Purge, Uncount, vars
<1>2. posted \in Nat /\ posted' \in Nat /\ posted <= posted'
  <2>1. ASSUME NEW s \in Sockets, StoreQuote(s) PROVE posted' = posted + 1
    BY <2>1 DEF StoreQuote
  <2>2. posted' = posted \/ posted' = posted + 1
    BY <2>1, Zenon
       DEF Next, RelayNext, SocketNext, ExternalPass, ReadQuotes, RouteTick, RouteNothing, Deliver, Consume,
           BuildSnapshot, SendSnapshot, Accept, UpgradeFails, Open, Unlink, Purge, Uncount, vars, connVars
  <2>3. posted \in Nat
    BY RouterBounds DEF DexInv
  <2> QED
    BY <2>2, <2>3
<1> QED
  BY <1>1, <1>2 DEF Good

\* A sequence over a set is one over any larger set.
LEMMA SeqGrows ==
    ASSUME NEW S, NEW T, S \subseteq T, NEW s \in Seq(S)
    PROVE  s \in Seq(T)
OBVIOUS

\* Removing an element leaves a sequence over the same set.
LEMMA RemoveAtSeq ==
    ASSUME NEW S, NEW s \in Seq(S), NEW i \in 1..Len(s)
    PROVE  RemoveAt(s, i) \in Seq(S)
<1>1. SubSeq(s, 1, i - 1) \in Seq(S)
  BY SubSeqProperties
<1>2. SubSeq(s, i + 1, Len(s)) \in Seq(S)
  BY SubSeqProperties
<1> QED
  BY <1>1, <1>2, ConcatProperties DEF RemoveAt

\* What waits in a channel or a task's hands stays good while it waits.
LEMMA ItemsWait ==
    ASSUME DexInv, ItemInv, [Next]_vars
    PROVE  /\ pending \in Seq(Pending') /\ snapshot \subseteq Good' /\ routeQ \in Seq(SUBSET Good')
           /\ batch \subseteq Good' /\ used \subseteq Good' /\ view \subseteq Good'
<1>1. Good \subseteq Good'
  BY GoodStays
<1>2. Pending \subseteq Pending' /\ SUBSET Good \subseteq SUBSET Good'
  BY <1>1 DEF Pending
<1> QED
  BY <1>1, <1>2, SeqGrows DEF ItemInv

\* Every step hands on good items only, and hands them to their quoter.
LEMMA ItemStep ==
    ASSUME DexInv, ItemInv, [Next]_vars
    PROVE  ItemInv'
<1> USE DEF connVars, watchVars, routeVars
<1>0. /\ pending \in Seq(Pending') /\ snapshot \subseteq Good' /\ routeQ \in Seq(SUBSET Good')
      /\ batch \subseteq Good' /\ used \subseteq Good' /\ view \subseteq Good'
  BY ItemsWait
<1>1. ASSUME UNCHANGED <<pending, snapshot, routeQ, batch, used, handed, view>> PROVE ItemInv'
  BY <1>0, <1>1 DEF ItemInv, HandedToQuoter
<1>2. CASE ExternalPass
  <2>1. Good' = Good /\ Pending' = Pending
    BY <1>2 DEF ExternalPass, ReadQuotes, RouteTick, RouteNothing, Good, Pending
  <2>2. CASE ReadQuotes \/ RouteNothing
    BY <2>1, <2>2 DEF ReadQuotes, RouteNothing, ItemInv, HandedToQuoter
  <2>3. CASE RouteTick
    BY <2>1, <2>3 DEF RouteTick, ItemInv, HandedToQuoter
  <2> QED
    BY <1>2, <2>2, <2>3 DEF ExternalPass
<1>3. CASE Deliver
  <2>1. Good' = Good /\ Pending' = Pending
    BY <1>3 DEF Deliver, Good, Pending
  <2>2. Head(routeQ) \subseteq Good /\ Tail(routeQ) \in Seq(SUBSET Good)
    BY <1>3 DEF Deliver, ItemInv
  <2>3. HandedToQuoter'
    BY <1>3, <2>2 DEF Deliver, HandedToQuoter, Good, DexInv
  <2> QED
    BY <1>3, <2>1, <2>2, <2>3 DEF Deliver, ItemInv
<1>4. CASE Consume
  BY <1>0, <1>4 DEF Consume, ItemInv, HandedToQuoter
<1>5. ASSUME NEW a \in Actors, BuildSnapshot(a) PROVE ItemInv'
  <2>1. Good' = Good /\ Pending' = Pending
    BY <1>5 DEF BuildSnapshot, Good, Pending
  <2>2. [by |-> a, snap |-> Standing, late |-> FALSE] \in Pending
    BY StandingGood DEF Pending
  <2>3. pending' \in Seq(Pending)
    BY <1>5, <2>2 DEF BuildSnapshot, ItemInv
  <2> QED
    BY <1>5, <2>1, <2>3 DEF BuildSnapshot, ItemInv, HandedToQuoter
<1>6. ASSUME NEW a \in Actors, SendSnapshot(a) PROVE ItemInv'
  <2>1. Good' = Good /\ Pending' = Pending
    BY <1>6 DEF SendSnapshot, Good, Pending
  <2>2. PICK i \in DOMAIN pending :
          /\ snapshot' = pending[i].snap
          /\ pending' = RemoveAt([j \in DOMAIN pending |-> [pending[j] EXCEPT !.late = @ \/ j < i]], i)
    BY <1>6, Zenon DEF SendSnapshot
  <2>3. \A j \in DOMAIN pending : pending[j] \in Pending
    BY DEF ItemInv
  <2>4. \A j \in DOMAIN pending : [pending[j] EXCEPT !.late = @ \/ j < i] \in Pending
    BY <2>3, Zenon DEF Pending
  <2> DEFINE marked == [j \in DOMAIN pending |-> [pending[j] EXCEPT !.late = @ \/ j < i]]
  <2>5. marked \in Seq(Pending) /\ i \in 1..Len(marked)
    BY <2>4 DEF ItemInv
  <2> HIDE DEF marked
  <2>6. RemoveAt(marked, i) \in Seq(Pending)
    BY <2>5, RemoveAtSeq
  <2>7. pending' \in Seq(Pending)
    BY <2>2, <2>6 DEF marked
  <2>8. snapshot' \subseteq Good
    BY <2>2, <2>3 DEF Pending
  <2> QED
    BY <1>6, <2>1, <2>7, <2>8 DEF SendSnapshot, ItemInv, HandedToQuoter
<1> QED
  BY <1>1, <1>2, <1>3, <1>4, <1>5, <1>6, Zenon
     DEF Next, RelayNext, SocketNext, Accept, UpgradeFails, Open, StoreQuote, Unlink, Purge, Uncount, vars, Actors

\* A handover goes to the connection that posted the quote it answers, however
\* long its batch has waited and whoever has connected and left meanwhile.
THEOREM HandoversReachQuoter == Spec => []HandedToQuoter
<1> DEFINE IInv == DexInv /\ MapInv /\ ItemInv
<1>1. Init => IInv
  BY DexInit DEF Init, ItemInv, HandedToQuoter
<1>2. IInv /\ [Next]_vars => IInv'
  BY DexStep, ItemStep
<1>3. IInv => HandedToQuoter
  BY DEF ItemInv
<1> QED
  BY <1>1, <1>2, <1>3, PTL DEF Spec

-----------------------------------------------------------------------------
(* The ids stay within the number of connections ever made.                *)

Named == {s \in Sockets : dexOf[s] # 0}
NumberInv == next_dex = Cardinality(Named) + 1

\* Only the head of handle_conn gives an id, and it gives the next one.
LEMMA NumberStep ==
    ASSUME DexInv, NumberInv, [Next]_vars
    PROVE  NumberInv'
<1>0. IsFiniteSet(Named)
  BY RelayAssumption, FS_Subset DEF Named
<1>1. ASSUME UNCHANGED <<dexOf, next_dex>> PROVE NumberInv'
  BY <1>1 DEF NumberInv, Named
<1>2. ASSUME NEW s \in Sockets, Open(s) PROVE NumberInv'
  <2>1. /\ pc[s] = "upgrade" /\ dexOf' = [dexOf EXCEPT ![s] = next_dex]
        /\ next_dex' = next_dex + 1 /\ next_dex # 0
    BY <1>2 DEF Open, DexInv
  <2>2. Named' = Named \cup {s} /\ s \notin Named
    BY <2>1 DEF Named, DexInv
  <2> QED
    BY <1>0, <2>1, <2>2, FS_AddElement, Zenon DEF NumberInv, DexInv
<1> QED
  BY <1>1, <1>2, Zenon
     DEF Next, RelayNext, SocketNext, ExternalPass, ReadQuotes, RouteTick, RouteNothing, Deliver, Consume, BuildSnapshot, SendSnapshot,
         Accept, UpgradeFails, StoreQuote, Unlink, Purge, Uncount, vars, connVars

\* So every id a connection has is one of DexIds.
LEMMA IdsInRange ==
    ASSUME DexInv, NumberInv
    PROVE  /\ next_dex \in 1..(Cardinality(Sockets) + 1)
           /\ \A s \in Sockets : dexOf[s] \in {0} \cup DexIds
           /\ Good \subseteq Items
<1>1. IsFiniteSet(Named) /\ Cardinality(Named) <= Cardinality(Sockets)
  BY RelayAssumption, FS_Subset DEF Named
<1>2. Cardinality(Named) \in Nat /\ Cardinality(Sockets) \in Nat
  BY <1>1, RelayAssumption, FS_CardinalityType
<1>3. next_dex \in 1..(Cardinality(Sockets) + 1)
  BY <1>1, <1>2 DEF NumberInv
<1>4. \A s \in Sockets : dexOf[s] \in {0} \cup DexIds
  BY <1>2, <1>3 DEF DexInv, DexIds
<1>5. Good \subseteq Items
  <2> SUFFICES ASSUME NEW i \in Good PROVE i \in Items
    OBVIOUS
  <2>1. i \in [dex : Nat \ {0}, quote : Sockets \X Nat]
    BY DEF Good
  <2>2. i.dex \in DexIds
    BY <1>4, <2>1 DEF Good
  <2>3. i.quote \in Quotes
    <3>1. posted \in 0..MaxQuotes
      BY DEF DexInv
    <3>2. i.quote[2] \in 1..MaxQuotes
      BY <2>1, <3>1, RouterBounds DEF Good
    <3> QED
      BY <2>1, <3>2 DEF Quotes
  <2> QED
    BY <2>1, <2>2, <2>3 DEF Items
<1> QED
  BY <1>3, <1>4, <1>5
-----------------------------------------------------------------------------
(* What the matcher sees.                                                  *)

NewestLate == pending = <<>> \/ pending[Len(pending)].late = TRUE

\* The newest snapshot that was built shows the quotes that stand, unless a task
\* is about to build a newer one.  It is the last of the pending ones until it
\* is sent; from then on those that remain are late.
PublishInv ==
    /\ NewestLate /\ Quiet => overtaken = TRUE \/ snapshot = Standing
    /\ ~NewestLate /\ Quiet => pending[Len(pending)].snap = Standing
    /\ NewestLate => \A j \in DOMAIN pending : pending[j].late = TRUE

\* Removing one element of a sequence moves the later ones forward.
LEMMA RemoveAtIs ==
    ASSUME NEW S, NEW s \in Seq(S), NEW i \in 1..Len(s)
    PROVE  /\ Len(RemoveAt(s, i)) = Len(s) - 1 /\ DOMAIN RemoveAt(s, i) = 1..(Len(s) - 1)
           /\ \A j \in 1..(i - 1) : RemoveAt(s, i)[j] = s[j]
           /\ \A j \in i..(Len(s) - 1) : RemoveAt(s, i)[j] = s[j + 1]
<1> DEFINE a == SubSeq(s, 1, i - 1)
           b == SubSeq(s, i + 1, Len(s))
           r == RemoveAt(s, i)
<1>0. Len(s) \in Nat /\ i \in Nat
  OBVIOUS
<1>1. a \in Seq(S) /\ Len(a) = i - 1 /\ \A j \in 1..(i - 1) : a[j] = s[j]
  BY SubSeqProperties
<1>2. b \in Seq(S) /\ Len(b) = Len(s) - i /\ \A j \in 1..(Len(s) - i) : b[j] = s[i + j]
  BY SubSeqProperties
<1>3. r = a \o b
  BY DEF RemoveAt
<1> HIDE DEF a, b, r
<1>4. /\ r \in Seq(S) /\ Len(r) = Len(a) + Len(b)
      /\ \A j \in 1..Len(a) : r[j] = a[j]
      /\ \A k \in 1..Len(b) : r[Len(a) + k] = b[k]
  <2>1. /\ r \in Seq(S) /\ Len(r) = Len(a) + Len(b)
        /\ \A j \in 1..(Len(a) + Len(b)) : r[j] = IF j <= Len(a) THEN a[j] ELSE b[j - Len(a)]
    BY <1>1, <1>2, <1>3, ConcatProperties, Zenon
  <2>2. Len(a) \in Nat /\ Len(b) \in Nat
    BY <1>1, <1>2
  <2>3. \A j \in 1..Len(a) : r[j] = a[j]
    BY <2>1, <2>2
  <2>4. ASSUME NEW k \in 1..Len(b) PROVE r[Len(a) + k] = b[k]
    <3>1. Len(a) + k \in 1..(Len(a) + Len(b)) /\ ~(Len(a) + k <= Len(a)) /\ (Len(a) + k) - Len(a) = k
      BY <2>2
    <3> QED
      BY <2>1, <3>1
  <2> QED
    BY <2>1, <2>3, <2>4
<1>5. ASSUME NEW j \in i..(Len(s) - 1) PROVE r[j] = s[j + 1]
  <2> DEFINE k == j - (i - 1)
  <2>1. k \in 1..(Len(s) - i) /\ i + k = j + 1 /\ (i - 1) + k = j
    BY <1>0
  <2> HIDE DEF k
  <2>2. b[k] = s[i + k] /\ r[(i - 1) + k] = b[k]
    BY <1>1, <1>2, <1>4, <2>1
  <2> QED
    BY <2>1, <2>2
<1>6. Len(r) = Len(s) - 1 /\ DOMAIN r = 1..(Len(s) - 1)
  BY <1>0, <1>1, <1>2, <1>4
<1>7. \A j \in 1..(i - 1) : r[j] = s[j]
  BY <1>1, <1>4
<1> QED
  BY <1>5, <1>6, <1>7 DEF r

\* Every change of the quote map leaves its task about to publish, so the newest
\* snapshot falls behind only while somebody is.
LEMMA PublishStep ==
    ASSUME DexInv, ItemInv, PublishInv, [Next]_vars
    PROVE  PublishInv'
<1> USE RelayAssumption DEF connVars, watchVars, routeVars, Goto
<1>0. /\ pc \in [Actors -> Labels \cup {"recv", "consume"}] /\ Relay \in Actors /\ Sockets \subseteq Actors
      /\ pending \in Seq(Pending) /\ Len(pending) \in Nat /\ DOMAIN pending = 1..Len(pending)
  BY DEF DexInv, ItemInv, Actors
<1>u. ASSUME UNCHANGED <<pending, snapshot, overtaken>>, Quiet' => Quiet /\ quotes' = quotes
      PROVE  PublishInv'
  <2>1. NewestLate' <=> NewestLate
    BY <1>u DEF NewestLate
  <2>2. Quiet' => Standing' = Standing
    BY <1>u DEF Standing
  <2> QED
    BY <1>u, <2>1, <2>2 DEF PublishInv
<1>1. CASE UNCHANGED vars
  BY <1>1, <1>u DEF vars, Quiet
<1>2. CASE ExternalPass
  BY <1>2, <1>u DEF ExternalPass, ReadQuotes, RouteTick, RouteNothing, Quiet
<1>3. CASE Deliver
  BY <1>0, <1>3, <1>u DEF Deliver, Quiet
<1>4. CASE Consume
  <2>1. UNCHANGED <<pending, snapshot, overtaken>>
    BY <1>4 DEF Consume
  <2>2. quotes' # quotes => ~Quiet'
    BY <1>0, <1>4 DEF Consume, Quiet
  <2>3. quotes' = quotes /\ Quiet' => Quiet
    BY <1>0, <1>4, Zenon DEF Consume, Quiet
  <2> QED
    BY <1>u, <2>1, <2>2, <2>3
<1>5. ASSUME NEW s \in Sockets, Accept(s) \/ UpgradeFails(s) \/ Open(s) \/ Unlink(s) PROVE PublishInv'
  <2>1. UNCHANGED <<pending, snapshot, overtaken, quotes>>
    BY <1>5 DEF Accept, UpgradeFails, Open, Unlink
  <2>2. Quiet' => Quiet
    BY <1>0, <1>5 DEF Accept, UpgradeFails, Open, Unlink, Quiet
  <2> QED
    BY <1>u, <2>1, <2>2
<1>6. ASSUME NEW s \in Sockets, StoreQuote(s) \/ Purge(s) \/ Uncount(s) PROVE PublishInv'
  <2>1. UNCHANGED <<pending, snapshot, overtaken>>
    BY <1>6 DEF StoreQuote, Purge, Uncount
  <2>2. ~Quiet'
    BY <1>0, <1>6 DEF StoreQuote, Purge, Uncount, Quiet
  <2> QED
    BY <1>u, <2>1, <2>2, Zenon
<1>7. ASSUME NEW a \in Actors, BuildSnapshot(a) PROVE PublishInv'
  <2>1. [by |-> a, snap |-> Standing, late |-> FALSE] \in Pending
    BY StandingGood DEF Pending
  <2>2. /\ pending' \in Seq(Pending) /\ pending' # <<>>
        /\ pending'[Len(pending')] = [by |-> a, snap |-> Standing, late |-> FALSE]
    BY <1>0, <1>7, <2>1, AppendProperties DEF BuildSnapshot
  <2>3. Standing' = Standing
    BY <1>7 DEF BuildSnapshot, Standing
  <2>4. ~NewestLate' /\ pending'[Len(pending')].snap = Standing'
    BY <2>2, <2>3 DEF NewestLate
  <2> QED
    BY <2>4 DEF PublishInv
<1>8. ASSUME NEW a \in Actors, SendSnapshot(a) PROVE PublishInv'
  <2>1. PICK i \in DOMAIN pending :
          /\ snapshot' = pending[i].snap /\ overtaken' = pending[i].late
          /\ pending' = RemoveAt([j \in DOMAIN pending |-> [pending[j] EXCEPT !.late = @ \/ j < i]], i)
    BY <1>8, Zenon DEF SendSnapshot
  <2>2. Standing' = Standing /\ (Quiet' => Quiet)
    BY <1>0, <1>8 DEF SendSnapshot, Quiet, Standing
  <2> DEFINE marked == [j \in DOMAIN pending |-> [pending[j] EXCEPT !.late = @ \/ j < i]]
  <2>3. \A j \in DOMAIN pending : pending[j] \in Pending
    BY <1>0
  <2>4. \A j \in DOMAIN pending : [pending[j] EXCEPT !.late = @ \/ j < i] \in Pending
    BY <2>3, Zenon DEF Pending
  <2>5. marked \in Seq(Pending) /\ Len(marked) = Len(pending)
    BY <1>0, <2>4
  <2>6. \A j \in DOMAIN pending :
          /\ marked[j].snap = pending[j].snap
          /\ marked[j].late = TRUE <=> pending[j].late = TRUE \/ j < i
    <3> SUFFICES ASSUME NEW j \in DOMAIN pending
                 PROVE  /\ marked[j].snap = pending[j].snap
                        /\ marked[j].late = TRUE <=> pending[j].late = TRUE \/ j < i
      BY Zenon
    <3>1. marked[j] = [pending[j] EXCEPT !.late = @ \/ j < i]
      OBVIOUS
    <3> QED
      BY <2>3, <3>1, Zenon DEF Pending
  <2> HIDE DEF marked
  <2>7. /\ Len(pending') = Len(pending) - 1 /\ DOMAIN pending' = 1..(Len(pending) - 1)
        /\ \A j \in 1..(i - 1) : pending'[j] = marked[j]
        /\ \A j \in i..(Len(pending) - 1) : pending'[j] = marked[j + 1]
    <3>1. pending' = RemoveAt(marked, i) /\ i \in 1..Len(marked)
      BY <1>0, <2>1, <2>5 DEF marked
    <3> QED
      BY <2>5, <3>1, RemoveAtIs
  <2>8. CASE i = Len(pending)
    <3>1. \A j \in DOMAIN pending' : pending'[j].late = TRUE
      BY <1>0, <2>6, <2>7, <2>8
    <3>2. NewestLate'
      BY <1>0, <2>7, <3>1 DEF NewestLate
    <3>3. Quiet' => overtaken' = TRUE \/ snapshot' = Standing'
      BY <1>0, <2>1, <2>2, <2>8 DEF PublishInv, NewestLate
    <3> QED
      BY <3>1, <3>2, <3>3 DEF PublishInv
  <2>9. CASE i # Len(pending)
    <3>1. /\ Len(pending') \in DOMAIN pending' /\ pending' # <<>> /\ pending # <<>>
          /\ pending'[Len(pending')] = marked[Len(pending)] /\ Len(pending) \in DOMAIN pending
      BY <1>0, <2>7, <2>9
    <3>2. NewestLate' <=> NewestLate
      BY <1>0, <2>6, <2>9, <3>1 DEF NewestLate
    <3>3. CASE NewestLate
      <4>1. \A j \in DOMAIN pending : marked[j].late = TRUE /\ pending[j].late = TRUE
        BY <2>6, <3>3 DEF PublishInv
      <4>2. \A j \in DOMAIN pending' : pending'[j].late = TRUE
        BY <1>0, <2>7, <4>1, SMTT(15)
      <4> QED
        BY <2>1, <3>2, <3>3, <4>1, <4>2, Zenon DEF PublishInv
    <3>4. CASE ~NewestLate
      BY <2>2, <2>6, <3>1, <3>2, <3>4 DEF PublishInv
    <3> QED
      BY <3>3, <3>4
  <2> QED
    BY <2>8, <2>9
<1> QED
  BY <1>0, <1>1, <1>2, <1>3, <1>4, <1>5, <1>6, <1>7, <1>8, Zenon DEF Next, RelayNext, SocketNext

\* The channel's capacity, the bound on the batches and the types that the other
\* invariants leave open.
LimitInv ==
    /\ overtaken \in BOOLEAN
    /\ Len(routeQ) <= RouteBuf /\ batches \in 0..MaxBatches
    /\ handed \subseteq Sockets \X Quotes /\ window \subseteq view /\ (view # {} => batches < MaxBatches)

\* The fields of a snapshot that waits to be sent.
LEMMA PendingIs ==
    ASSUME pending \in Seq(Pending), NEW j \in DOMAIN pending
    PROVE  pending[j].by \in Actors /\ pending[j].snap \subseteq Good /\ pending[j].late \in BOOLEAN
<1>1. pending[j] \in Pending
  OBVIOUS
<1> QED
  BY <1>1 DEF Pending

\* No step exceeds the limits.
LEMMA LimitStep ==
    ASSUME DexInv, NumberInv, ItemInv, LimitInv, [Next]_vars
    PROVE  LimitInv'
<1> USE DEF connVars, watchVars, routeVars
<1>0. routeQ \in Seq(SUBSET Good) /\ Len(routeQ) \in Nat
  BY DEF ItemInv
<1>1. ASSUME UNCHANGED <<overtaken, routeQ, batches, handed, view, window>> PROVE LimitInv'
  BY <1>1 DEF LimitInv
<1>2. CASE RouteTick
  <2>1. /\ Len(routeQ') = Len(routeQ) + 1 /\ batches' = batches + 1 /\ UNCHANGED <<overtaken, handed>>
        /\ view' = {} /\ window' = {}
    BY <1>0, <1>2 DEF RouteTick, ItemInv
  <2>2. Len(routeQ) < RouteBuf /\ batches < MaxBatches
    <3>1. Len(routeQ) < RouteBuf /\ \E picks \in SUBSET view : picks # {}
      BY <1>2 DEF RouteTick
    <3>2. view # {}
      BY <3>1
    <3> QED
      BY <3>1, <3>2 DEF LimitInv
  <2>3. Len(routeQ') <= RouteBuf /\ batches' \in 0..MaxBatches
    BY <1>0, <2>1, <2>2, CapacityAssumption, RouterBounds DEF LimitInv
  <2> QED
    BY <2>1, <2>3 DEF LimitInv
<1>3. CASE Deliver
  <2>1. Head(routeQ) \subseteq Good /\ Len(routeQ') <= RouteBuf
    BY <1>0, <1>3, CapacityAssumption DEF Deliver, LimitInv
  <2>2. \A i \in Good : i.quote \in Quotes
    BY IdsInRange DEF Items
  <2>3. \A h \in handed' : h \in Sockets \X Quotes
    BY <1>3, <2>1, <2>2, SMTT(15) DEF Deliver, DexInv
  <2> QED
    BY <1>3, <2>1, <2>3 DEF Deliver, LimitInv
<1>4. CASE Consume
  BY <1>4 DEF Consume, LimitInv
<1>5. ASSUME NEW a \in Actors, SendSnapshot(a) PROVE LimitInv'
  <2>1. \A j \in DOMAIN pending : pending[j].late \in BOOLEAN
    BY PendingIs DEF ItemInv
  <2>2. overtaken' \in BOOLEAN
    BY <1>5, <2>1 DEF SendSnapshot
  <2> QED
    BY <1>5, <2>2 DEF SendSnapshot, LimitInv
<1>6. CASE ReadQuotes \/ RouteNothing
  BY <1>6 DEF ReadQuotes, RouteNothing, LimitInv
<1> QED
  BY <1>1, <1>2, <1>3, <1>4, <1>5, <1>6, Zenon
     DEF Next, RelayNext, SocketNext, ExternalPass, BuildSnapshot, Accept, UpgradeFails, Open, StoreQuote, Unlink, Purge, Uncount,
         vars, Actors

\* What holds of the router in every state.
RouterInv ==
    /\ DexInv /\ MapInv /\ NumberInv /\ ItemInv /\ LimitInv /\ PublishInv

\* It holds before the first connection ...
LEMMA RouterInit == Init => RouterInv
<1> SUFFICES ASSUME Init PROVE RouterInv
  OBVIOUS
<1>1. DexInv /\ MapInv
  BY DexInit
<1>2. NumberInv
  <2>1. Named = {}
    BY DEF Init, Named
  <2> QED
    BY <2>1, FS_EmptySet DEF Init, NumberInv
<1>3. ItemInv
  BY DEF Init, ItemInv, HandedToQuoter
<1>4. LimitInv
  <2>1. overtaken = FALSE /\ routeQ = <<>> /\ batches = 0 /\ handed = {} /\ view = {} /\ window = {}
    BY DEF Init
  <2>2. Len(routeQ) = 0
    BY <2>1
  <2>3. Len(routeQ) <= RouteBuf /\ batches \in 0..MaxBatches
    BY <2>1, <2>2, CapacityAssumption, RouterBounds
  <2> QED
    BY <2>1, <2>3, Zenon DEF LimitInv
<1>5. PublishInv
  BY DEF Init, PublishInv, NewestLate, Standing
<1> QED
  BY <1>1, <1>2, <1>3, <1>4, <1>5 DEF RouterInv

\* ... and every step keeps it.
LEMMA RouterStep ==
    ASSUME RouterInv, [Next]_vars
    PROVE  RouterInv'
BY DexStep, NumberStep, ItemStep, LimitStep, PublishStep, Zenon DEF RouterInv

\* The invariant types every variable.
LEMMA RouterTyped ==
    ASSUME RouterInv
    PROVE  TypeOK
<1>1. /\ next_dex \in 1..(Cardinality(Sockets) + 1) /\ Good \subseteq Items
      /\ \A s \in Sockets : dexOf[s] \in {0} \cup DexIds
  BY IdsInRange DEF RouterInv
<1>2. pc \in [Actors -> {"new", "upgrade", "read", "publish", "send", "purge", "uncount", "closed",
                      "recv", "consume"}]
  BY DEF RouterInv, DexInv, Labels
<1>3. dexOf \in [Sockets -> {0} \cup DexIds] /\ posted \in 0..MaxQuotes
  BY <1>1 DEF RouterInv, DexInv
<1>4. DOMAIN conns \subseteq DexIds /\ \A d \in DOMAIN conns : conns[d] \in Sockets /\ dexOf[conns[d]] = d
  BY <1>1 DEF RouterInv, DexInv
<1>5. DOMAIN quotes \subseteq DexIds /\ \A d \in DOMAIN quotes : quotes[d] \in Quotes
  <2>1. ASSUME NEW d \in DOMAIN quotes PROVE d \in DexIds /\ quotes[d] \in Quotes
    <3>1. [dex |-> d, quote |-> quotes[d]] \in Standing
      BY DEF Standing
    <3>2. [dex |-> d, quote |-> quotes[d]] \in Items
      BY <1>1, <3>1, StandingGood DEF RouterInv
    <3> QED
      BY <3>2 DEF Items
  <2> QED
    BY <2>1
<1>6. \A i \in DOMAIN pending : pending[i].by \in Actors /\ pending[i].snap \subseteq Items
  BY <1>1, PendingIs DEF RouterInv, ItemInv
<1>7. \A i \in DOMAIN routeQ : routeQ[i] \subseteq Items
  BY <1>1 DEF RouterInv, ItemInv
<1>8. snapshot \subseteq Items /\ batch \subseteq Items /\ used \subseteq Items /\ view \subseteq Items
  BY <1>1 DEF RouterInv, ItemInv
<1>9. /\ overtaken \in BOOLEAN /\ Len(routeQ) <= RouteBuf /\ batches \in 0..MaxBatches
      /\ handed \subseteq Sockets \X Quotes /\ window \subseteq view
  BY DEF RouterInv, LimitInv
<1> QED
  BY <1>1, <1>2, <1>3, <1>4, <1>5, <1>6, <1>7, <1>8, <1>9, Zenon DEF TypeOK

\* When every task is done publishing, the matcher sees exactly the standing
\* quotes, or a snapshot that a newer one had overtaken on its way to it.
LEMMA QuietIsCurrent ==
    ASSUME RouterInv, pending = <<>>, ~overtaken, Quiet
    PROVE  snapshot = Standing
BY DEF RouterInv, PublishInv, LimitInv, NewestLate

\* No change of the quote map, by a quote, a handover or a disconnect, goes
\* unpublished, whichever tasks build and send their snapshots in which order.
THEOREM NothingUnpublished == Spec => []SnapshotCurrent
<1>1. RouterInv => SnapshotCurrent
  BY RouterTyped, QuietIsCurrent DEF SnapshotCurrent
<1> QED
  BY <1>1, RouterInit, RouterStep, PTL DEF Spec

-----------------------------------------------------------------------------
(* The second use of a quote.                                              *)

\* A used quote that still stands is with the relay: in its hand, or in the
\* channel to it.  A used quote that the matcher has read was being withdrawn
\* when it read it.
InFlight(i) == i \in batch \/ \E k \in DOMAIN routeQ : i \in routeQ[k]
UseInv ==
    /\ pc[Relay] # "consume" => batch = {}
    /\ \A i \in used : i \in Standing => InFlight(i)
    /\ view \cap used \subseteq window

\* A quote leaves the relay only when it no longer stands, and a quote that was
\* used is never posted again.
LEMMA UseStep ==
    ASSUME RouterInv, UseInv, [Next]_vars
    PROVE  UseInv'
<1> USE RelayAssumption DEF connVars, watchVars, routeVars, Goto
<1>0. /\ pc \in [Actors -> Labels \cup {"recv", "consume"}] /\ Relay \in Actors /\ Sockets \subseteq Actors
      /\ routeQ \in Seq(SUBSET Good) /\ Len(routeQ) \in Nat /\ DOMAIN routeQ = 1..Len(routeQ)
  BY DEF RouterInv, DexInv, ItemInv, Actors
<1>u. ASSUME UNCHANGED <<used, batch, routeQ, view, window>>, pc'[Relay] = "consume" \/ pc[Relay] # "consume",
             \A i \in used : i \in Standing' => i \in Standing
      PROVE  UseInv'
  BY <1>u DEF UseInv, InFlight
<1>1. CASE UNCHANGED vars
  BY <1>1, <1>u DEF vars, Standing
<1>2. CASE RouteTick
  <2>1. PICK picks \in SUBSET view : routeQ' = Append(routeQ, picks) /\ used' = used \cup picks
    BY <1>2 DEF RouteTick
  <2>2. picks \in SUBSET Good
    BY DEF RouterInv, ItemInv, LimitInv
  <2>3. /\ DOMAIN routeQ' = 1..(Len(routeQ) + 1) /\ routeQ'[Len(routeQ) + 1] = picks
        /\ \A k \in DOMAIN routeQ : routeQ'[k] = routeQ[k]
    BY <1>0, <2>1, <2>2, AppendProperties
  <2>4. UNCHANGED <<pc, batch>> /\ Standing' = Standing /\ view' = {}
    BY <1>2 DEF RouteTick, Standing
  <2>5. \A i \in used' : i \in Standing' => InFlight(i)'
    BY <1>0, <2>1, <2>3, <2>4, SMTT(15) DEF UseInv, InFlight
  <2> QED
    BY <2>4, <2>5 DEF UseInv
<1>3. CASE Deliver
  <2>1. /\ batch = {} /\ batch' = routeQ[1] /\ routeQ' = Tail(routeQ) /\ UNCHANGED <<used, view, window>>
        /\ Standing' = Standing
    BY <1>0, <1>3 DEF Deliver, UseInv, Standing
  <2>2. routeQ # <<>> /\ pc'[Relay] = "consume"
    BY <1>0, <1>3 DEF Deliver
  <2>3. DOMAIN routeQ' = 1..(Len(routeQ) - 1) /\ \A k \in DOMAIN routeQ' : routeQ'[k] = routeQ[k + 1]
    BY <1>0, <2>1, <2>2, HeadTailProperties
  <2>4. ASSUME NEW i, NEW k \in DOMAIN routeQ, i \in routeQ[k] PROVE InFlight(i)'
    <3>1. CASE k = 1
      BY <2>1, <2>4, <3>1 DEF InFlight
    <3>2. CASE k # 1
      <4>1. k - 1 \in DOMAIN routeQ' /\ (k - 1) + 1 = k
        BY <1>0, <2>3, <3>2
      <4>2. routeQ'[k - 1] = routeQ[k]
        BY <2>3, <4>1
      <4> QED
        BY <2>4, <4>1, <4>2 DEF InFlight
    <3> QED
      BY <3>1, <3>2
  <2>5. \A i \in used' : i \in Standing' => InFlight(i)'
    BY <2>1, <2>4 DEF UseInv, InFlight
  <2> QED
    BY <2>1, <2>2, <2>5 DEF UseInv
<1>4. CASE Consume
  <2>1. batch' = {} /\ UNCHANGED <<used, routeQ, view, window>> /\ quotes' = Drop(quotes, {i.dex : i \in batch})
    BY <1>4 DEF Consume
  <2>2. \A i \in Standing' : i \in Standing /\ i \notin batch
    BY <2>1 DEF Standing, Drop
  <2> QED
    BY <2>1, <2>2 DEF UseInv, InFlight
<1>5. ASSUME NEW a \in Actors, BuildSnapshot(a) \/ SendSnapshot(a) PROVE UseInv'
  <2>1. UNCHANGED <<used, batch, routeQ, view, window, quotes>>
    BY <1>5 DEF BuildSnapshot, SendSnapshot
  <2>2. pc'[Relay] = "consume" \/ pc[Relay] # "consume"
    BY <1>0, <1>5 DEF BuildSnapshot, SendSnapshot
  <2> QED
    BY <1>u, <2>1, <2>2 DEF Standing
<1>6. ASSUME NEW s \in Sockets, Accept(s) \/ UpgradeFails(s) \/ Open(s) \/ Unlink(s) \/ Uncount(s) PROVE UseInv'
  <2>1. UNCHANGED <<used, batch, routeQ, view, window, quotes>>
    BY <1>6 DEF Accept, UpgradeFails, Open, Unlink, Uncount
  <2>2. pc'[Relay] = pc[Relay]
    BY <1>0, <1>6 DEF Accept, UpgradeFails, Open, Unlink, Uncount
  <2> QED
    BY <1>u, <2>1, <2>2, Zenon DEF Standing
<1>7. ASSUME NEW s \in Sockets, StoreQuote(s) PROVE UseInv'
  <2>1. UNCHANGED <<used, batch, routeQ, view, window>> /\ pc'[Relay] = pc[Relay]
    BY <1>0, <1>7, Zenon DEF StoreQuote
  <2>2. /\ DOMAIN quotes' = DOMAIN quotes \cup {dexOf[s]} /\ quotes'[dexOf[s]] = <<s, posted + 1>>
        /\ \A d \in DOMAIN quotes : d # dexOf[s] => quotes'[d] = quotes[d]
    BY <1>7 DEF StoreQuote, Put, RouterInv, DexInv
  <2>3. \A i \in used : i.quote # <<s, posted + 1>>
    <3>1. used \subseteq Good /\ posted \in Nat
      BY RouterBounds DEF RouterInv, ItemInv, DexInv
    <3> QED
      BY <3>1 DEF Good
  <2>4. \A i \in used : i \in Standing' => i \in Standing
    BY <2>2, <2>3 DEF Standing
  <2> QED
    BY <1>u, <2>1, <2>4, Zenon
<1>8. ASSUME NEW s \in Sockets, Purge(s) PROVE UseInv'
  <2>1. UNCHANGED <<used, batch, routeQ, view, window>> /\ pc'[Relay] = pc[Relay]
    BY <1>0, <1>8 DEF Purge
  <2>2. \A i \in Standing' : i \in Standing
    BY <1>8 DEF Purge, Standing, Drop
  <2> QED
    BY <1>u, <2>1, <2>2
<1>9. CASE ReadQuotes
  <2>1. /\ view' = snapshot /\ window' = {i \in view' \cap used : Withdrawing(i)}
        /\ UNCHANGED <<pc, used, batch, routeQ, quotes>>
    BY <1>9 DEF ReadQuotes
  <2>2. ASSUME NEW i \in snapshot \cap used PROVE Withdrawing(i)
    <3> SUFFICES ASSUME ~overtaken, pending = <<>>, Quiet PROVE i \in batch \cup UNION ToSet(routeQ)
      BY DEF Withdrawing
    <3>1. InFlight(i)
      BY QuietIsCurrent DEF UseInv
    <3> QED
      BY <3>1 DEF InFlight, ToSet
  <2>3. view' \cap used' \subseteq window'
    BY <2>1, <2>2
  <2>4. \A i \in used' : i \in Standing' => InFlight(i)'
    BY <2>1 DEF UseInv, InFlight, Standing
  <2> QED
    BY <2>1, <2>3, <2>4 DEF UseInv
<1>10. CASE RouteNothing
  <2>1. view' = {} /\ UNCHANGED <<pc, used, batch, routeQ, quotes>>
    BY <1>10 DEF RouteNothing
  <2> QED
    BY <2>1 DEF UseInv, InFlight, Standing
<1> QED
  BY <1>0, <1>1, <1>2, <1>3, <1>4, <1>5, <1>6, <1>7, <1>8, <1>9, <1>10, Zenon
     DEF Next, RelayNext, SocketNext, ExternalPass

\* A batch holds quotes that the matcher's pass has read, and the used ones among
\* those were being withdrawn when it read them.
LEMMA TickStep ==
    ASSUME RouterInv, UseInv, [Next]_vars, Len(routeQ') > Len(routeQ)
    PROVE  Last(routeQ') \cap used \subseteq window
<1>0. routeQ \in Seq(SUBSET Good) /\ Len(routeQ) \in Nat
  BY DEF RouterInv, ItemInv
<1>1. RouteTick
  <2>1. ASSUME UNCHANGED routeQ PROVE FALSE
    BY <1>0, <2>1
  <2>2. CASE Deliver
    <3>1. Len(routeQ') = Len(routeQ) - 1
      BY <1>0, <2>2, HeadTailProperties DEF Deliver
    <3> QED
      BY <1>0, <3>1
  <2> QED
    BY <2>1, <2>2, Zenon
       DEF Next, RelayNext, SocketNext, ExternalPass, ReadQuotes, RouteNothing, Consume, BuildSnapshot,
           SendSnapshot, Accept, UpgradeFails, Open, StoreQuote, Unlink, Purge, Uncount, vars, routeVars
<1>2. PICK picks \in SUBSET view : routeQ' = Append(routeQ, picks)
  BY <1>1 DEF RouteTick
<1>3. picks \in SUBSET Good
  BY DEF RouterInv, ItemInv
<1>4. Last(routeQ') = picks
  BY <1>0, <1>2, <1>3, AppendProperties DEF Last
<1> QED
  BY <1>4 DEF UseInv

\* A second batch goes out against a quote only from a pass that read the quotes
\* while the withdrawal was under way: while an earlier batch was with the relay
\* or the snapshot without the quote was on its way to the matcher.
THEOREM SecondUseBounded == Spec => SecondUseInFlight
<1> DEFINE IInv == RouterInv /\ UseInv
           Step == Len(routeQ') > Len(routeQ) => Last(routeQ') \cap used \subseteq window
<1>1. Init => IInv
  <2>1. Init => UseInv
    BY DEF Init, UseInv
  <2> QED
    BY <2>1, RouterInit
<1>2. IInv /\ [Next]_vars => IInv'
  BY RouterStep, UseStep
<1>3. IInv /\ [Next]_vars => [Step]_vars
  BY TickStep
<1> QED
  BY <1>1, <1>2, <1>3, PTL DEF Spec, SecondUseInFlight

=============================================================================
