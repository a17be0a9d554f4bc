------------------------- MODULE TokenRegistryProofs -------------------------
(* The symbol cache and the pair subscriptions, for any number of tokens,     *)
(* symbols, requests and crashes and any capacity of the channel.             *)
EXTENDS TokenRegistry, TLAPS, FiniteSetTheorems

-----------------------------------------------------------------------------
(* Sequences and sets.                                                       *)

\* SetToSeq lists a finite set, all of it.
LEMMA Listed ==
    ASSUME NEW S, IsFiniteSet(S)
    PROVE  SetToSeq(S) \in Seq(S) /\ ToSet(SetToSeq(S)) = S
<1> DEFINE c == Cardinality(S)
           f == SetToSeq(S)
<1>1. c \in Nat /\ ExistsBijection(1..c, S)
  BY FS_CardinalityType
<1>2. \E g \in [1..c -> S] : IsInjective(g)
  BY <1>1 DEF ExistsBijection, Bijection, Injection
<1>3. f \in [1..c -> S] /\ IsInjective(f)
  BY <1>2 DEF SetToSeq
<1>4. f \in Injection(1..c, S)
  BY <1>3 DEF Injection
<1>5. Cardinality(1..c) = c
  BY <1>1, FS_Interval
<1>6. f \in Surjection(1..c, S)
  BY <1>4, <1>5, FS_Injection
<1>7. f \in Seq(S)
  BY <1>1, <1>3
<1>8. ToSet(f) = S
  BY <1>3, <1>6 DEF ToSet, Surjection
<1> QED
  BY <1>7, <1>8

\* What a sequence holds after a send.
LEMMA AppendSet ==
    ASSUME NEW S, NEW s \in Seq(S), NEW x \in S
    PROVE  ToSet(Append(s, x)) = ToSet(s) \cup {x}
<1> DEFINE t == Append(s, x)
<1>1. Len(s) \in Nat /\ DOMAIN s = 1..Len(s) /\ DOMAIN t = 1..(Len(s) + 1) /\ t[Len(s) + 1] = x
      /\ \A i \in 1..Len(s) : t[i] = s[i]
  OBVIOUS
<1>2. DOMAIN t = DOMAIN s \cup {Len(s) + 1}
  BY <1>1
<1> HIDE DEF t
<1>3. ToSet(t) = ToSet(s) \cup {x}
  BY <1>1, <1>2 DEF ToSet
<1> QED
  BY <1>3 DEF t

\* What it holds after a receive.
LEMMA TailSet ==
    ASSUME NEW S, NEW s \in Seq(S), s # <<>>
    PROVE  ToSet(s) = ToSet(Tail(s)) \cup {Head(s)}
<1> DEFINE t == Tail(s)
<1>1. Len(s) \in Nat \ {0} /\ DOMAIN s = 1..Len(s) /\ DOMAIN t = 1..(Len(s) - 1) /\ Head(s) = s[1]
      /\ \A i \in 1..(Len(s) - 1) : t[i] = s[i + 1]
  OBVIOUS
<1> HIDE DEF t
<1>2. \A i \in DOMAIN s : i = 1 \/ (i - 1 \in DOMAIN t /\ s[i] = t[i - 1])
  BY <1>1
<1>3. \A i \in DOMAIN t : i + 1 \in DOMAIN s /\ t[i] = s[i + 1]
  BY <1>1
<1>4. 1 \in DOMAIN s
  BY <1>1
<1>5. ToSet(s) = ToSet(t) \cup {Head(s)}
  BY <1>1, <1>2, <1>3, <1>4 DEF ToSet
<1> QED
  BY <1>5 DEF t

\* What two sequences hold together.
LEMMA ConcatSet ==
    ASSUME NEW S, NEW s \in Seq(S), NEW t \in Seq(S)
    PROVE  s \o t \in Seq(S) /\ ToSet(s \o t) = ToSet(s) \cup ToSet(t)
<1> DEFINE u == s \o t
<1>1. u \in Seq(S) /\ Len(s) \in Nat /\ Len(t) \in Nat /\ DOMAIN s = 1..Len(s) /\ DOMAIN t = 1..Len(t)
      /\ DOMAIN u = 1..(Len(s) + Len(t))
  OBVIOUS
<1>2. (\A i \in 1..Len(s) : u[i] = s[i]) /\ \A i \in 1..Len(t) : u[Len(s) + i] = t[i]
  OBVIOUS
<1> HIDE DEF u
<1>3. \A i \in DOMAIN u : i \in DOMAIN s \/ (i - Len(s) \in DOMAIN t /\ u[i] = t[i - Len(s)])
  <2> TAKE i \in DOMAIN u
  <2>1. i \in DOMAIN s \/ (i - Len(s) \in 1..Len(t) /\ Len(s) + (i - Len(s)) = i)
    BY <1>1
  <2> QED
    BY <1>1, <1>2, <2>1
<1>4. \A i \in DOMAIN t : Len(s) + i \in DOMAIN u
  BY <1>1
<1>5. \A i \in DOMAIN s : i \in DOMAIN u
  BY <1>1
<1>6. ToSet(u) \subseteq ToSet(s) \cup ToSet(t)
  BY <1>1, <1>2, <1>3, Zenon DEF ToSet
<1>7. ToSet(s) \subseteq ToSet(u)
  BY <1>1, <1>2, <1>5 DEF ToSet
<1>8. ToSet(t) \subseteq ToSet(u)
  BY <1>1, <1>2, <1>4 DEF ToSet
<1> QED
  BY <1>1, <1>6, <1>7, <1>8 DEF u

\* The pairs and the jobs of finitely many tokens are finitely many.
LEMMA FewJobs ==
    /\ \A P \in SUBSET Pairs : IsFiniteSet(P)
    /\ \A R \in SUBSET Tokens : IsFiniteSet({<<t>> : t \in R})
<1>1. IsFiniteSet(Tokens)
  BY RegistryAssumption
<1>2. ASSUME NEW P \in SUBSET Pairs PROVE IsFiniteSet(P)
  <2>1. IsFiniteSet(Tokens \X Tokens)
    BY <1>1, FS_Product
  <2>2. P \in SUBSET (Tokens \X Tokens)
    BY DEF Pairs
  <2> QED
    BY <2>1, <2>2, FS_Subset
<1>3. ASSUME NEW R \in SUBSET Tokens PROVE IsFiniteSet({<<t>> : t \in R})
  <2> DEFINE J == {<<t>> : t \in R}
             f == [t \in R |-> <<t>>]
  <2>1. IsFiniteSet(R)
    BY <1>1, FS_Subset
  <2>2. f \in Surjection(R, J)
    BY DEF Surjection
  <2> HIDE DEF J, f
  <2>3. IsFiniteSet(J)
    BY <2>1, <2>2, FS_Surjection
  <2> QED
    BY <2>3 DEF J
<1> QED
  BY <1>2, <1>3

\* The pairs register_token sends are all those of the new token with the others.
LEMMA SentPairs ==
    ASSUME NEW t \in Tokens, NEW R \in SUBSET Tokens
    PROVE  /\ PairsWith(t, R) \in Seq(Pairs)
           /\ \A p \in Pairs : {p[1], p[2]} \subseteq R \cup {t} /\ t \in {p[1], p[2]} => p \in ToSet(PairsWith(t, R))
           /\ ToSet(PairsWith(t, R)) \subseteq Pairs
<1> DEFINE P == {<<t, u>> : u \in R \ {t}} \cup {<<u, t>> : u \in R \ {t}}
<1>1. P \in SUBSET Pairs
  BY DEF Pairs
<1>2. \A p \in Pairs : {p[1], p[2]} \subseteq R \cup {t} /\ t \in {p[1], p[2]} => p \in P
  BY DEF Pairs
<1>3. PairsWith(t, R) = SetToSeq(P)
  BY DEF PairsWith
<1> HIDE DEF P
<1>4. SetToSeq(P) \in Seq(P) /\ ToSet(SetToSeq(P)) = P
  BY <1>1, FewJobs, Listed
<1>5. SetToSeq(P) \in Seq(Pairs)
  BY <1>1, <1>4
<1> QED
  BY <1>1, <1>2, <1>3, <1>4, <1>5

\* The jobs subscribe_all_pairs starts with are all tokens and all pairs.
LEMMA BootJobs ==
    ASSUME NEW R \in SUBSET Tokens
    PROVE  LET q == SetToSeq({<<t>> : t \in R}) \o SetToSeq({p \in Pairs : {p[1], p[2]} \subseteq R})
           IN  q \in Seq(Jobs) /\ \A p \in Pairs : {p[1], p[2]} \subseteq R => p \in ToSet(q)
<1> DEFINE A == {<<t>> : t \in R}
           B == {p \in Pairs : {p[1], p[2]} \subseteq R}
<1>1. A \subseteq Jobs /\ B \subseteq Jobs /\ B \in SUBSET Pairs
  BY DEF Jobs
<1>2. IsFiniteSet(A) /\ IsFiniteSet(B)
  BY <1>1, FewJobs
<1>3. \A p \in Pairs : {p[1], p[2]} \subseteq R => p \in B
  OBVIOUS
<1> HIDE DEF A, B
<1>4. SetToSeq(A) \in Seq(A) /\ SetToSeq(B) \in Seq(B) /\ ToSet(SetToSeq(B)) = B
  BY <1>2, Listed
<1>5. SetToSeq(A) \in Seq(Jobs) /\ SetToSeq(B) \in Seq(Jobs)
  BY <1>1, <1>4
<1>6. /\ SetToSeq(A) \o SetToSeq(B) \in Seq(Jobs)
      /\ ToSet(SetToSeq(A) \o SetToSeq(B)) = ToSet(SetToSeq(A)) \cup ToSet(SetToSeq(B))
  BY <1>5, ConcatSet
<1>7. \A p \in Pairs : {p[1], p[2]} \subseteq R => p \in ToSet(SetToSeq(A) \o SetToSeq(B))
  BY <1>3, <1>4, <1>6
<1> QED
  BY <1>6, <1>7 DEF A, B

-----------------------------------------------------------------------------
(* The table and the cache.                                                  *)

RowsOK(r) == DOMAIN r \subseteq Tokens /\ r \in [DOMAIN r -> Row]
MapOK(m) == DOMAIN m \subseteq Tokens /\ m \in [DOMAIN m -> Symbols]

\* The map with the entry of t set to symbol, as set_cache leaves it.
Cached(m, t, symbol) ==
    IF symbol = None THEN Restrict(m, DOMAIN m \ {t})
    ELSE [u \in DOMAIN m \cup {t} |-> IF u = t THEN symbol ELSE m[u]]

\* What load_token_symbols reads is a map of symbols.
LEMMA LoadTyped ==
    ASSUME NEW r, RowsOK(r)
    PROVE  MapOK(load_token_symbols(r))
<1>1. \A t \in DOMAIN r : r[t] \in Row
  BY DEF RowsOK
<1>2. \A t \in DOMAIN r : r[t].symbol # None => r[t].symbol \in Symbols
  BY <1>1 DEF Row
<1> QED
  BY <1>2 DEF RowsOK, MapOK, load_token_symbols

\* An insert keeps the rows that are there, and types.
LEMMA InsertTyped ==
    ASSUME NEW r, RowsOK(r), NEW new \in SUBSET Tokens, NEW s \in Symbols \cup {None}
    PROVE  RowsOK(Inserted(r, new, s)) /\ DOMAIN Inserted(r, new, s) = DOMAIN r \cup new
<1>1. [symbol |-> s, decimals |-> FALSE] \in Row
  BY DEF Row
<1> QED
  BY <1>1 DEF RowsOK, Inserted

\* Inserting a token that has a row changes nothing.
LEMMA InsertAgain ==
    ASSUME NEW r, RowsOK(r), NEW t \in DOMAIN r, NEW s
    PROVE  Inserted(r, {t}, s) = r
<1>1. DOMAIN r \cup {t} = DOMAIN r
  OBVIOUS
<1>2. Inserted(r, {t}, s) = [u \in DOMAIN r |-> r[u]]
  BY <1>1 DEF Inserted
<1> QED
  BY <1>2 DEF RowsOK

\* The cache after the insert of a new token is what a load would read.
LEMMA LoadInserted ==
    ASSUME NEW r, RowsOK(r), NEW t \in Tokens, t \notin DOMAIN r, NEW s \in Symbols \cup {None}
    PROVE  load_token_symbols(Inserted(r, {t}, s))
             = IF s = None THEN load_token_symbols(r) ELSE Cached(load_token_symbols(r), t, s)
<1> DEFINE q == Inserted(r, {t}, s)
           m == load_token_symbols(r)
           D == {u \in DOMAIN r : r[u].symbol # None}
<1>1. DOMAIN q = DOMAIN r \cup {t} /\ q[t].symbol = s /\ \A u \in DOMAIN r : q[u] = r[u]
  BY DEF Inserted
<1>2. DOMAIN m = D /\ \A u \in D : m[u] = r[u].symbol
  BY DEF load_token_symbols
<1>3. CASE s = None
  <2>1. {u \in DOMAIN q : q[u].symbol # None} = D
    BY <1>1, <1>3
  <2>2. load_token_symbols(q) = [u \in D |-> q[u].symbol]
    BY <2>1, Zenon DEF load_token_symbols
  <2>3. \A u \in D : q[u].symbol = r[u].symbol
    BY <1>1
  <2> HIDE DEF q
  <2>4. load_token_symbols(q) = m
    BY <2>2, <2>3 DEF load_token_symbols
  <2> QED
    BY <1>3, <2>4 DEF q
<1>4. CASE s # None
  <2>1. {u \in DOMAIN q : q[u].symbol # None} = D \cup {t}
    BY <1>1, <1>4
  <2>2. load_token_symbols(q) = [u \in D \cup {t} |-> q[u].symbol]
    BY <2>1 DEF load_token_symbols
  <2>3. \A u \in D \cup {t} : q[u].symbol = IF u = t THEN s ELSE m[u]
    BY <1>1, <1>2
  <2>4. Cached(m, t, s) = [u \in D \cup {t} |-> IF u = t THEN s ELSE m[u]]
    BY <1>2, <1>4 DEF Cached
  <2> HIDE DEF q, m, D
  <2>5. load_token_symbols(q) = Cached(m, t, s)
    BY <2>2, <2>3, <2>4
  <2> QED
    BY <1>4, <2>5 DEF q, m
<1> QED
  BY <1>3, <1>4

\* So is the cache after a change of symbol.
LEMMA LoadUpdated ==
    ASSUME NEW r, RowsOK(r), NEW t \in DOMAIN r, NEW s \in Symbols \cup {None}
    PROVE  /\ RowsOK([r EXCEPT ![t].symbol = s])
           /\ load_token_symbols([r EXCEPT ![t].symbol = s]) = Cached(load_token_symbols(r), t, s)
<1> DEFINE q == [r EXCEPT ![t].symbol = s]
           m == load_token_symbols(r)
           D == {u \in DOMAIN r : r[u].symbol # None}
           E == IF s = None THEN D \ {t} ELSE D \cup {t}
<1>0. r[t] \in Row
  BY DEF RowsOK
<1>1. DOMAIN q = DOMAIN r /\ q[t].symbol = s /\ (\A u \in DOMAIN r \ {t} : q[u] = r[u]) /\ q[t] \in Row
  BY <1>0 DEF RowsOK, Row
<1>2. DOMAIN m = D /\ \A u \in D : m[u] = r[u].symbol
  BY DEF load_token_symbols
<1>3. {u \in DOMAIN q : q[u].symbol # None} = E
  BY <1>1
<1>4. load_token_symbols(q) = [u \in E |-> q[u].symbol]
  BY <1>3 DEF load_token_symbols
<1>5. \A u \in E : q[u].symbol = IF u = t THEN s ELSE m[u]
  BY <1>1, <1>2
<1>6. RowsOK(q)
  BY <1>1 DEF RowsOK
<1> HIDE DEF q, m
<1>7. Cached(m, t, s) = [u \in E |-> IF u = t THEN s ELSE m[u]]
  <2>1. CASE s = None
    BY <1>2, <2>1 DEF Cached, Restrict
  <2>2. CASE s # None
    BY <1>2, <2>2 DEF Cached
  <2> QED
    BY <2>1, <2>2
<1> HIDE DEF E
<1>8. load_token_symbols(q) = Cached(m, t, s)
  BY <1>4, <1>5, <1>7
<1> QED
  BY <1>6, <1>8 DEF q, m

\* And after a removal.
LEMMA LoadRemoved ==
    ASSUME NEW r, RowsOK(r), NEW t \in DOMAIN r
    PROVE  /\ RowsOK(Restrict(r, DOMAIN r \ {t})) /\ DOMAIN Restrict(r, DOMAIN r \ {t}) = DOMAIN r \ {t}
           /\ load_token_symbols(Restrict(r, DOMAIN r \ {t})) = Cached(load_token_symbols(r), t, None)
<1> DEFINE q == Restrict(r, DOMAIN r \ {t})
           m == load_token_symbols(r)
           D == {u \in DOMAIN r : r[u].symbol # None}
<1>1. DOMAIN q = DOMAIN r \ {t} /\ \A u \in DOMAIN r \ {t} : q[u] = r[u]
  BY DEF Restrict
<1>2. DOMAIN m = D /\ \A u \in D : m[u] = r[u].symbol
  BY DEF load_token_symbols
<1>3. {u \in DOMAIN q : q[u].symbol # None} = D \ {t}
  BY <1>1
<1>4. load_token_symbols(q) = [u \in D \ {t} |-> q[u].symbol]
  BY <1>3, Zenon DEF load_token_symbols
<1>5. \A u \in D \ {t} : q[u].symbol = m[u]
  BY <1>1, <1>2
<1>6. RowsOK(q)
  BY DEF RowsOK, Restrict
<1>7. Cached(m, t, None) = [u \in D \ {t} |-> m[u]]
  BY <1>2 DEF Cached, Restrict
<1> HIDE DEF q, m, D
<1>8. load_token_symbols(q) = Cached(m, t, None)
  BY <1>4, <1>5, <1>7
<1> QED
  BY <1>1, <1>6, <1>8 DEF q, m

\* The metadata has no part in the cache.
LEMMA LoadAnnotated ==
    ASSUME NEW r, RowsOK(r), NEW t \in DOMAIN r
    PROVE  /\ RowsOK([r EXCEPT ![t].decimals = TRUE]) /\ DOMAIN [r EXCEPT ![t].decimals = TRUE] = DOMAIN r
           /\ load_token_symbols([r EXCEPT ![t].decimals = TRUE]) = load_token_symbols(r)
<1> DEFINE q == [r EXCEPT ![t].decimals = TRUE]
           D == {u \in DOMAIN r : r[u].symbol # None}
<1>0. r[t] \in Row
  BY DEF RowsOK
<1>1. DOMAIN q = DOMAIN r /\ (\A u \in DOMAIN r : q[u].symbol = r[u].symbol) /\ q[t] \in Row
      /\ \A u \in DOMAIN r \ {t} : q[u] = r[u]
  BY <1>0, Zenon DEF RowsOK, Row
<1>2. {u \in DOMAIN q : q[u].symbol # None} = D
  BY <1>1
<1>3. load_token_symbols(q) = [u \in D |-> q[u].symbol]
  BY <1>2 DEF load_token_symbols
<1>4. RowsOK(q)
  BY <1>1 DEF RowsOK
<1> HIDE DEF q
<1>5. load_token_symbols(q) = load_token_symbols(r)
  BY <1>1, <1>3 DEF load_token_symbols
<1> QED
  BY <1>1, <1>4, <1>5 DEF q

-----------------------------------------------------------------------------
(* Type correctness, in parts: an action disturbs few of them.               *)

Flags == up \in BOOLEAN /\ stalled \in BOOLEAN
TableOK == RowsOK(rows) /\ MapOK(map)
SubsOK == tags \subseteq Pairs /\ missed \subseteq Pairs
QueuesOK == sends \in Seq(Pairs) /\ subQ \in Seq(Pairs) /\ Len(subQ) <= SubscribeBuf
RelayOK ==
    /\ ingest \in {"down", "start", "boot", "relay"} /\ todo \in Seq(Jobs)
    /\ step \in {"check", "fetch", "set"}
FeedOK == DOMAIN prices \subseteq Tokens /\ (poll # None => DOMAIN poll \subseteq Tokens)
CountsOK == requests \in 0..MaxRequests /\ crashes \in 0..MaxCrashes
Typed == Flags /\ TableOK /\ SubsOK /\ QueuesOK /\ RelayOK /\ FeedOK /\ CountsOK

\* The parts make up the type invariant.
LEMMA PartsAreTypes == Typed <=> TypeOK
  BY DEF Typed, TypeOK, Flags, TableOK, RowsOK, MapOK, SubsOK, QueuesOK, RelayOK, FeedOK, CountsOK, Registered

\* The solver starts well typed, with an empty cache and nothing to cover.
LEMMA InitTyped == Init => Typed
<1> SUFFICES ASSUME Init PROVE Typed
  OBVIOUS
<1>1. Flags
  BY Zenon DEF Init, Flags
<1>2. TableOK
  BY DEF Init, TableOK, RowsOK, MapOK, Empty
<1>3. SubsOK
  BY DEF Init, SubsOK
<1>4. QueuesOK
  <2>1. <<>> \in Seq(Pairs) /\ Len(<<>>) = 0
    OBVIOUS
  <2> QED
    BY <2>1, RegistryAssumption DEF Init, QueuesOK
<1>5. RelayOK
  BY DEF Init, RelayOK
<1>6. FeedOK
  BY DEF Init, FeedOK, Empty
<1>7. CountsOK
  BY RegistryAssumption DEF Init, CountsOK
<1> QED
  BY <1>1, <1>2, <1>3, <1>4, <1>5, <1>6, <1>7, Zenon DEF Typed

\* A crash or a failed start leaves empty memory.
LEMMA DownTyped == Typed /\ Down => Typed'
<1> SUFFICES ASSUME Typed, Down PROVE Typed'
  OBVIOUS
<1>1. Flags'
  BY Zenon DEF Down, Flags
<1>2. TableOK'
  BY DEF Typed, Down, TableOK, RowsOK, MapOK, Empty, disk
<1>3. SubsOK'
  BY DEF Typed, Down, SubsOK, disk
<1>4. QueuesOK'
  <2>1. <<>> \in Seq(Pairs) /\ Len(<<>>) = 0
    OBVIOUS
  <2> QED
    BY <2>1, RegistryAssumption DEF Down, QueuesOK
<1>5. RelayOK'
  BY DEF Down, RelayOK
<1>6. FeedOK'
  BY DEF Down, FeedOK, Empty
<1>7. CountsOK'
  BY RegistryAssumption DEF Typed, Down, CountsOK
<1> QED
  BY <1>1, <1>2, <1>3, <1>4, <1>5, <1>6, <1>7, Zenon DEF Typed

\* A start seeds the table and loads the cache.
LEMMA BootTyped == Typed /\ Boot => Typed'
<1> SUFFICES ASSUME Typed, Boot PROVE Typed'
  OBVIOUS
<1>1. RowsOK(rows')
  <2>1. ConfigTokens \in SUBSET Tokens /\ SeedSymbol \in Symbols \cup {None} /\ RowsOK(rows)
    BY RegistryAssumption DEF Typed, TableOK
  <2> QED
    BY <2>1, InsertTyped, Zenon DEF Boot
<1>2. MapOK(map')
  BY <1>1, LoadTyped DEF Boot
<1>3. TableOK'
  BY <1>1, <1>2 DEF TableOK, RowsOK, MapOK
<1>4. Flags'
  BY DEF Typed, Boot, Flags
<1>5. SubsOK' /\ QueuesOK' /\ FeedOK' /\ CountsOK'
  BY DEF Typed, Boot, SubsOK, QueuesOK, FeedOK, CountsOK, feed
<1>6. RelayOK'
  BY DEF Typed, Boot, RelayOK
<1> QED
  BY <1>3, <1>4, <1>5, <1>6 DEF Typed

-----------------------------------------------------------------------------
(* The cache: what it says is what a load of the table would say.            *)

Coherent == up => map = load_token_symbols(rows)

\* The table and the cache after a step that leaves both alone.
LEMMA TableKept ==
    ASSUME TableOK, Coherent, UNCHANGED <<rows, map, up>>
    PROVE  TableOK' /\ Coherent'
<1>1. TableOK'
  BY DEF TableOK, RowsOK, MapOK
<1>2. Coherent'
  BY DEF Coherent, load_token_symbols
<1> QED
  BY <1>1, <1>2

\* The table and the cache after a step that ends with the cache loaded.
LEMMA TableLoaded ==
    ASSUME RowsOK(rows'), map' = load_token_symbols(rows')
    PROVE  TableOK' /\ Coherent'
<1>1. MapOK(map')
  BY LoadTyped
<1>2. TableOK'
  BY <1>1 DEF TableOK, RowsOK, MapOK
<1>3. Coherent'
  BY DEF Coherent, load_token_symbols
<1> QED
  BY <1>2, <1>3

\* add_token writes the cache through.
LEMMA AddTable ==
    ASSUME TableOK, Coherent, NEW t \in Tokens, NEW s \in Symbols \cup {None}, add_token(t, s)
    PROVE  TableOK' /\ Coherent'
<1>1. up /\ rows' = Inserted(rows, {t}, s)
  BY DEF add_token, Request, MainRuns
<1>2. RowsOK(rows) /\ map = load_token_symbols(rows)
  BY <1>1 DEF TableOK, Coherent
<1>3. RowsOK(rows')
  BY <1>1, <1>2, InsertTyped, Zenon
<1>4. map' = load_token_symbols(rows')
  <2>1. CASE t \in Registered
    <3>1. rows' = rows
      BY <1>1, <1>2, <2>1, InsertAgain DEF Registered
    <3>2. map' = map
      BY <2>1 DEF add_token
    <3> QED
      BY <1>2, <3>1, <3>2
  <2>2. CASE t \notin Registered
    <3>1. map' = IF s = None THEN map ELSE Cached(map, t, s)
      BY <2>2 DEF add_token, set_cache, Cached
    <3>2. load_token_symbols(rows')
            = IF s = None THEN load_token_symbols(rows) ELSE Cached(load_token_symbols(rows), t, s)
      BY <1>1, <1>2, <2>2, LoadInserted DEF Registered
    <3> QED
      BY <1>2, <3>1, <3>2
  <2> QED
    BY <2>1, <2>2
<1> QED
  BY <1>3, <1>4, TableLoaded

\* update_token_symbol_handler does.
LEMMA UpdateTable ==
    ASSUME TableOK, Coherent, NEW t \in Tokens, NEW s \in Symbols \cup {None},
           update_token_symbol_handler(t, s)
    PROVE  TableOK' /\ Coherent'
<1>1. up /\ up' = up
  BY DEF update_token_symbol_handler, Request, MainRuns
<1>2. RowsOK(rows) /\ map = load_token_symbols(rows)
  BY <1>1 DEF TableOK, Coherent
<1>3. CASE t \in Registered
  <2>1. rows' = [rows EXCEPT ![t].symbol = s] /\ map' = Cached(map, t, s)
    BY <1>3 DEF update_token_symbol_handler, set_cache, Cached
  <2>2. RowsOK(rows') /\ load_token_symbols(rows') = Cached(load_token_symbols(rows), t, s)
    BY <1>2, <1>3, <2>1, LoadUpdated, Zenon DEF Registered
  <2>3. map' = load_token_symbols(rows')
    BY <1>2, <2>1, <2>2
  <2> QED
    BY <2>2, <2>3, TableLoaded
<1>4. CASE t \notin Registered
  <2>1. rows' = rows /\ map' = map
    BY <1>4 DEF update_token_symbol_handler
  <2> QED
    BY <1>1, <2>1, TableKept
<1> QED
  BY <1>3, <1>4

\* remove_token does.
LEMMA RemoveTable ==
    ASSUME TableOK, Coherent, NEW t \in Tokens, remove_token(t)
    PROVE  TableOK' /\ Coherent'
<1>1. up /\ up' = up
  BY DEF remove_token, Request, MainRuns
<1>2. RowsOK(rows) /\ map = load_token_symbols(rows)
  BY <1>1 DEF TableOK, Coherent
<1>3. CASE t \in Registered
  <2>1. rows' = Restrict(rows, DOMAIN rows \ {t}) /\ map' = Cached(map, t, None)
    BY <1>3 DEF remove_token, set_cache, Cached, Registered
  <2>2. RowsOK(rows') /\ load_token_symbols(rows') = Cached(load_token_symbols(rows), t, None)
    BY <1>2, <1>3, <2>1, LoadRemoved DEF Registered
  <2>3. map' = load_token_symbols(rows')
    BY <1>2, <2>1, <2>2
  <2> QED
    BY <2>2, <2>3, TableLoaded
<1>4. CASE t \notin Registered
  <2>1. rows' = rows /\ map' = map
    BY <1>4 DEF remove_token
  <2> QED
    BY <1>1, <2>1, TableKept
<1> QED
  BY <1>3, <1>4

\* set_token_metadata leaves the symbols alone.
LEMMA MetadataTable ==
    ASSUME TableOK, Coherent, MetadataSet
    PROVE  TableOK' /\ Coherent' /\ DOMAIN rows' = DOMAIN rows
<1> DEFINE t == Head(todo)[1]
<1>1. up' = up /\ map' = map /\ rows' = IF t \in Registered THEN [rows EXCEPT ![t].decimals = TRUE] ELSE rows
  BY DEF MetadataSet, main
<1>2. RowsOK(rows) /\ MapOK(map)
  BY DEF TableOK
<1> HIDE DEF t
<1>3. CASE t \in Registered
  <2>1. RowsOK(rows') /\ DOMAIN rows' = DOMAIN rows /\ load_token_symbols(rows') = load_token_symbols(rows)
    BY <1>1, <1>2, <1>3, LoadAnnotated, Zenon DEF Registered
  <2>2. TableOK'
    BY <1>1, <1>2, <2>1 DEF TableOK, RowsOK, MapOK
  <2>3. Coherent'
    <3> SUFFICES ASSUME up' PROVE map' = load_token_symbols(rows')
      BY DEF Coherent, load_token_symbols
    <3>1. map = load_token_symbols(rows)
      BY <1>1 DEF Coherent
    <3> QED
      BY <1>1, <2>1, <3>1
  <2> QED
    BY <2>1, <2>2, <2>3
<1>4. CASE t \notin Registered
  <2>1. rows' = rows
    BY <1>1, <1>4
  <2> QED
    BY <1>1, <2>1, TableKept
<1> QED
  BY <1>3, <1>4

-----------------------------------------------------------------------------
(* The pairs: what an action takes from one place it puts in another.        *)

Covered == tags \cup missed \cup ToSet(sends) \cup ToSet(subQ) \cup ToSet(todo)

\* A step that keeps what is covered and registers nothing forgets no pair.
LEMMA CoverKept ==
    ASSUME PairsCovered, ingest' \in {"boot", "relay"} => ingest \in {"boot", "relay"},
           DOMAIN rows' \subseteq DOMAIN rows, \A p \in Pairs : p \in Covered => p \in Covered'
    PROVE  PairsCovered'
  BY DEF PairsCovered, Covered, Registered

\* A job of two tokens is a pair, one of one token is not.
LEMMA JobKinds ==
    ASSUME NEW j \in Jobs
    PROVE  (Len(j) = 2 => j \in Pairs) /\ (Len(j) = 1 => j \notin Pairs)
  BY DEF Jobs, Pairs

\* The job at the head, and those behind it.
LEMMA NextJob ==
    ASSUME RelayOK, todo # <<>>
    PROVE  Head(todo) \in Jobs /\ Tail(todo) \in Seq(Jobs) /\ ToSet(todo) = ToSet(Tail(todo)) \cup {Head(todo)}
  BY TailSet DEF RelayOK

\* The empty sequence covers nothing.
LEMMA NothingHeld == ToSet(<<>>) = {}
  BY DEF ToSet

\* add_token has sent nothing it would forget, and sends every new pair, or
\* gives them all up.
LEMMA AddCovers ==
    ASSUME TableOK, SubsOK, QueuesOK, PairsCovered,
           NEW t \in Tokens, NEW s \in Symbols \cup {None}, add_token(t, s)
    PROVE  SubsOK' /\ QueuesOK' /\ PairsCovered'
<1>1. rows' = Inserted(rows, {t}, s) /\ RowsOK(rows) /\ DOMAIN rows \subseteq Tokens
  BY DEF add_token, TableOK, RowsOK
<1>2. RowsOK(rows') /\ DOMAIN rows' = DOMAIN rows \cup {t} /\ DOMAIN rows' \in SUBSET Tokens
  <2>1. {t} \in SUBSET Tokens
    OBVIOUS
  <2>2. RowsOK(rows') /\ DOMAIN rows' = DOMAIN rows \cup {t}
    BY <1>1, <2>1, InsertTyped, Zenon
  <2> QED
    BY <1>1, <2>2
<1>3. tags' = tags /\ subQ' = subQ /\ ingest' = ingest /\ todo' = todo /\ sends = <<>>
  BY DEF add_token, Request, relay
<1>4. CASE t \in Registered
  <2>1. sends' = sends /\ missed' = missed
    BY <1>4 DEF add_token
  <2>2. DOMAIN rows' \subseteq DOMAIN rows
    BY <1>2, <1>4 DEF Registered
  <2>3. PairsCovered'
    BY <1>3, <2>1, <2>2 DEF PairsCovered, Registered
  <2> QED
    BY <1>3, <2>1, <2>3 DEF SubsOK, QueuesOK
<1>5. CASE t \notin Registered
  <2> DEFINE new == PairsWith(t, DOMAIN rows')
  <2>1. \/ sends' = new /\ missed' = missed
        \/ missed' = missed \cup ToSet(new) /\ sends' = sends
    BY <1>5 DEF add_token
  <2>2. /\ new \in Seq(Pairs) /\ ToSet(new) \subseteq Pairs
        /\ \A p \in Pairs : {p[1], p[2]} \subseteq DOMAIN rows' /\ t \in {p[1], p[2]} => p \in ToSet(new)
    BY <1>2, SentPairs
  <2> HIDE DEF new
  <2>3. SubsOK' /\ QueuesOK'
    BY <1>3, <2>1, <2>2, Zenon DEF SubsOK, QueuesOK
  <2>4. ToSet(new) \subseteq missed' \cup ToSet(sends')
    BY <2>1
  <2>5. missed \subseteq missed' /\ ToSet(sends) = {}
    BY <1>3, <2>1, NothingHeld
  <2>6. ASSUME ingest' \in {"boot", "relay"}, NEW p \in Pairs, {p[1], p[2]} \subseteq DOMAIN rows'
        PROVE  p \in Covered'
    <3>1. CASE t \in {p[1], p[2]}
      BY <2>2, <2>4, <2>6, <3>1 DEF Covered
    <3>2. CASE t \notin {p[1], p[2]}
      <4>1. {p[1], p[2]} \subseteq Registered
        BY <1>2, <2>6, <3>2 DEF Registered
      <4>2. p \in Covered
        BY <1>3, <2>6, <4>1 DEF PairsCovered, Covered
      <4> QED
        BY <1>3, <2>5, <4>2 DEF Covered
    <3> QED
      BY <3>1, <3>2
  <2> QED
    BY <2>3, <2>6 DEF PairsCovered, Covered, Registered
<1> QED
  BY <1>4, <1>5

\* A send moves a pair into the channel; a dropped handler gives its pairs up.
LEMMA SendCovers ==
    ASSUME SubsOK, QueuesOK, PairsCovered, Send \/ Disconnect
    PROVE  SubsOK' /\ QueuesOK' /\ PairsCovered'
<1>1. rows' = rows /\ tags' = tags /\ ingest' = ingest /\ todo' = todo /\ sends # <<>>
  BY DEF Send, Disconnect, disk, relay
<1>2. CASE Send
  <2>1. Head(sends) \in Pairs /\ Tail(sends) \in Seq(Pairs) /\ ToSet(sends) = ToSet(Tail(sends)) \cup {Head(sends)}
    BY <1>1, TailSet DEF QueuesOK
  <2>2. missed' = missed /\ sends' = Tail(sends) /\ subQ' = Append(subQ, Head(sends)) /\ Len(subQ) < SubscribeBuf
    BY <1>2 DEF Send
  <2>3. ToSet(Append(subQ, Head(sends))) = ToSet(subQ) \cup {Head(sends)}
    BY <2>1, AppendSet DEF QueuesOK
  <2>4. subQ' \in Seq(Pairs) /\ Len(subQ') <= SubscribeBuf
    BY <2>1, <2>2, RegistryAssumption DEF QueuesOK
  <2>5. Covered' = Covered
    BY <1>1, <2>1, <2>2, <2>3 DEF Covered
  <2> QED
    BY <1>1, <2>1, <2>2, <2>4, <2>5, CoverKept, Zenon DEF SubsOK, QueuesOK
<1>3. CASE Disconnect
  <2>1. missed' = missed \cup ToSet(sends) /\ sends' = <<>> /\ subQ' = subQ
    BY <1>3 DEF Disconnect
  <2>2. ToSet(sends) \subseteq Pairs
    BY DEF QueuesOK, ToSet
  <2>3. Covered' = Covered
    BY <1>1, <2>1, NothingHeld DEF Covered
  <2>4. <<>> \in Seq(Pairs)
    OBVIOUS
  <2> QED
    BY <1>1, <2>1, <2>2, <2>3, <2>4, CoverKept, Zenon DEF SubsOK, QueuesOK
<1> QED
  BY <1>2, <1>3

\* The load at boot covers every pair there is.
LEMMA LoadCovers ==
    ASSUME TableOK, RelayOK, subscribe_all_pairs
    PROVE  RelayOK' /\ PairsCovered'
<1>1. Registered \in SUBSET Tokens /\ rows' = rows /\ step' = step /\ ingest' = "boot"
  BY DEF TableOK, RowsOK, Registered, subscribe_all_pairs, disk
<1>2. todo' \in Seq(Jobs) /\ \A p \in Pairs : {p[1], p[2]} \subseteq Registered => p \in ToSet(todo')
  BY <1>1, BootJobs, Zenon DEF subscribe_all_pairs
<1> QED
  BY <1>1, <1>2 DEF RelayOK, PairsCovered, Registered

\* The relay takes a pair from the channel as its first job.
LEMMA ReceiveCovers ==
    ASSUME QueuesOK, RelayOK, PairsCovered, Receive
    PROVE  QueuesOK' /\ RelayOK' /\ PairsCovered'
<1> DEFINE p == Head(subQ)
<1>1. rows' = rows /\ tags' = tags /\ missed' = missed /\ sends' = sends /\ ingest' = ingest /\ step' = step
      /\ todo = <<>> /\ subQ # <<>> /\ subQ' = Tail(subQ) /\ todo' = <<p, <<p[1]>>, <<p[2]>>>>
  BY DEF Receive, disk, main
<1>2. p \in Pairs /\ subQ' \in Seq(Pairs) /\ Len(subQ') <= SubscribeBuf /\ ToSet(subQ) = ToSet(Tail(subQ)) \cup {p}
  <2>1. p \in Pairs /\ Tail(subQ) \in Seq(Pairs) /\ Len(Tail(subQ)) = Len(subQ) - 1 /\ Len(subQ) \in Nat
    BY <1>1 DEF QueuesOK
  <2>2. ToSet(subQ) = ToSet(Tail(subQ)) \cup {p}
    BY <1>1, TailSet DEF QueuesOK
  <2> QED
    BY <1>1, <2>1, <2>2, RegistryAssumption DEF QueuesOK
<1> HIDE DEF p
<1>3. p \in Jobs /\ <<p[1]>> \in Jobs /\ <<p[2]>> \in Jobs
  BY <1>2 DEF Jobs, Pairs
<1>4. todo' \in Seq(Jobs)
  BY <1>1, <1>3
<1>5. p \in ToSet(todo')
  <2>1. 1 \in DOMAIN todo' /\ todo'[1] = p
    BY <1>1
  <2> QED
    BY <2>1 DEF ToSet
<1>6. \A q \in Pairs : q \in Covered => q \in Covered'
  BY <1>1, <1>2, <1>5, NothingHeld DEF Covered
<1> QED
  BY <1>1, <1>2, <1>4, <1>6, CoverKept, Zenon DEF QueuesOK, RelayOK

\* A subscription made or failed takes the pair from the jobs.
LEMMA SubscribeCovers ==
    ASSUME SubsOK, RelayOK, PairsCovered, subscribe_pair \/ SubscribeFails
    PROVE  SubsOK' /\ RelayOK' /\ PairsCovered'
<1>1. rows' = rows /\ sends' = sends /\ subQ' = subQ /\ ingest' = ingest /\ step' = step
      /\ todo # <<>> /\ Len(Head(todo)) = 2 /\ todo' = Tail(todo)
  BY DEF subscribe_pair, SubscribeFails, Subscribing, disk, main
<1>2. Head(todo) \in Pairs /\ Tail(todo) \in Seq(Jobs) /\ ToSet(todo) = ToSet(Tail(todo)) \cup {Head(todo)}
  BY <1>1, NextJob, JobKinds
<1>3. \/ tags' = tags \cup {Head(todo)} /\ missed' = missed
      \/ tags' = tags /\ missed' = missed \cup {Head(todo)}
  BY DEF subscribe_pair, SubscribeFails, disk
<1>4. Covered' = Covered
  BY <1>1, <1>2, <1>3 DEF Covered
<1>5. SubsOK'
  BY <1>2, <1>3 DEF SubsOK
<1> QED
  BY <1>1, <1>2, <1>4, <1>5, CoverKept, Zenon DEF RelayOK

\* The metadata of a token, found or not, is no pair's business.
LEMMA MetadataCovers ==
    ASSUME RelayOK, PairsCovered, DOMAIN rows' = DOMAIN rows,
           MetadataCheck \/ MetadataFetch \/ MetadataSet \/ MetadataGivesUp
    PROVE  RelayOK' /\ PairsCovered'
<1>1. tags' = tags /\ missed' = missed /\ sends' = sends /\ subQ' = subQ /\ ingest' = ingest
      /\ todo # <<>> /\ Len(Head(todo)) = 1
  BY DEF MetadataCheck, MetadataFetch, MetadataSet, MetadataGivesUp, Annotating, disk, main
<1>2. (todo' = todo /\ step' \in {"fetch", "set"}) \/ (todo' = Tail(todo) /\ step' = "check")
  BY DEF MetadataCheck, MetadataFetch, MetadataSet, MetadataGivesUp, JobDone
<1>3. Head(todo) \notin Pairs /\ Tail(todo) \in Seq(Jobs) /\ ToSet(todo) = ToSet(Tail(todo)) \cup {Head(todo)}
  BY <1>1, NextJob, JobKinds
<1>4. \A p \in Pairs : p \in Covered => p \in Covered'
  BY <1>1, <1>2, <1>3, Zenon DEF Covered
<1>5. RelayOK'
  BY <1>1, <1>2, <1>3 DEF RelayOK
<1> QED
  BY <1>1, <1>4, <1>5, CoverKept

-----------------------------------------------------------------------------
(* The theorems.                                                             *)

RegistryInv == Typed /\ Coherent /\ PairsCovered

\* The invariant holds when the solver has never run.
LEMMA InitInv == Init => RegistryInv
<1> SUFFICES ASSUME Init PROVE RegistryInv
  OBVIOUS
<1>1. Typed
  BY InitTyped
<1>2. Coherent
  BY DEF Init, Coherent
<1>3. PairsCovered
  BY DEF Init, PairsCovered
<1> QED
  BY <1>1, <1>2, <1>3 DEF RegistryInv

\* Every step of the process, the handlers, the relay and the feed keeps it.
LEMMA StepInv == RegistryInv /\ [Next]_vars => RegistryInv'
<1> SUFFICES ASSUME RegistryInv, [Next]_vars PROVE RegistryInv'
  OBVIOUS
<1>0. Flags /\ TableOK /\ SubsOK /\ QueuesOK /\ RelayOK /\ FeedOK /\ CountsOK /\ Coherent /\ PairsCovered
  BY DEF RegistryInv, Typed
<1>1. CASE Boot
  <2>1. Typed'
    BY <1>1, BootTyped DEF RegistryInv
  <2>2. Coherent'
    BY <1>1 DEF Boot, Coherent, load_token_symbols
  <2>3. PairsCovered'
    BY <1>1 DEF Boot, PairsCovered
  <2> QED
    BY <2>1, <2>2, <2>3 DEF RegistryInv
<1>2. CASE Crash \/ StartFails
  <2>1. Down
    BY <1>2 DEF Crash, StartFails
  <2>2. Typed'
    BY <2>1, DownTyped DEF RegistryInv
  <2>3. Coherent'
    BY <2>1 DEF Down, Coherent
  <2>4. PairsCovered'
    BY <2>1 DEF Down, PairsCovered
  <2> QED
    BY <2>2, <2>3, <2>4 DEF RegistryInv
<1>3. CASE Send \/ Disconnect
  <2>1. SubsOK' /\ QueuesOK' /\ PairsCovered'
    BY <1>0, <1>3, SendCovers
  <2>2. UNCHANGED <<rows, map, up, stalled, ingest, todo, step, poll, prices, requests, crashes>>
    BY <1>3 DEF Send, Disconnect, disk, relay, feed
  <2>3. TableOK' /\ Coherent'
    BY <1>0, <2>2, TableKept
  <2>4. Flags'
    BY <1>0, <2>2 DEF Flags
  <2>5. RelayOK' /\ FeedOK' /\ CountsOK'
    BY <1>0, <2>2 DEF RelayOK, FeedOK, CountsOK
  <2> QED
    BY <2>1, <2>3, <2>4, <2>5 DEF RegistryInv, Typed
<1>4. CASE RequestStalls \/ RequestFails
  <2>1. UNCHANGED <<rows, tags, map, up, sends, subQ, ingest, todo, step, poll, prices, missed, crashes>>
    BY <1>4 DEF RequestStalls, RequestFails, disk, relay, feed
  <2>2. requests' = requests \/ (requests < MaxRequests /\ requests' = requests + 1)
    BY <1>4 DEF RequestStalls, RequestFails
  <2>3. stalled' = TRUE \/ stalled' = FALSE
    BY <1>4 DEF RequestStalls, RequestFails
  <2>4. TableOK' /\ Coherent'
    BY <1>0, <2>1, TableKept
  <2>5. Flags'
    BY <1>0, <2>1, <2>3, Zenon DEF Flags
  <2>6. CountsOK'
    BY <1>0, <2>1, <2>2, RegistryAssumption DEF CountsOK
  <2>7. SubsOK' /\ QueuesOK' /\ RelayOK' /\ FeedOK'
    BY <1>0, <2>1 DEF SubsOK, QueuesOK, RelayOK, FeedOK
  <2>8. PairsCovered'
    BY <1>0, <2>1 DEF PairsCovered, Registered
  <2> QED
    BY <2>4, <2>5, <2>6, <2>7, <2>8, Zenon DEF RegistryInv, Typed
<1>5. ASSUME NEW t \in Tokens, NEW s \in Symbols \cup {None}, add_token(t, s)
      PROVE  RegistryInv'
  <2>1. TableOK' /\ Coherent'
    BY <1>0, <1>5, AddTable
  <2>2. SubsOK' /\ QueuesOK' /\ PairsCovered'
    BY <1>0, <1>5, AddCovers
  <2>3. UNCHANGED <<up, stalled, ingest, todo, step, poll, prices, crashes>>
    BY <1>5 DEF add_token, relay, feed
  <2>4. requests < MaxRequests /\ requests' = requests + 1
    BY <1>5 DEF add_token, Request
  <2>5. Flags'
    BY <1>0, <2>3 DEF Flags
  <2>6. RelayOK' /\ FeedOK'
    BY <1>0, <2>3 DEF RelayOK, FeedOK
  <2>7. CountsOK'
    BY <1>0, <2>3, <2>4, RegistryAssumption DEF CountsOK
  <2> QED
    BY <2>1, <2>2, <2>5, <2>6, <2>7, Zenon DEF RegistryInv, Typed
<1>6. ASSUME NEW t \in Tokens, NEW s \in Symbols \cup {None}, update_token_symbol_handler(t, s)
      PROVE  RegistryInv'
  <2>1. TableOK' /\ Coherent'
    BY <1>0, <1>6, UpdateTable
  <2>2. DOMAIN rows' \subseteq DOMAIN rows
    BY <1>6 DEF update_token_symbol_handler, Registered
  <2>3. UNCHANGED <<tags, up, sends, stalled, subQ, ingest, todo, step, poll, prices, missed, crashes>>
    BY <1>6 DEF update_token_symbol_handler, relay, feed
  <2>4. requests < MaxRequests /\ requests' = requests + 1
    BY <1>6 DEF update_token_symbol_handler, Request
  <2>5. Flags'
    BY <1>0, <2>3 DEF Flags
  <2>6. SubsOK' /\ QueuesOK' /\ RelayOK' /\ FeedOK'
    BY <1>0, <2>3 DEF SubsOK, QueuesOK, RelayOK, FeedOK
  <2>7. CountsOK'
    BY <1>0, <2>3, <2>4, RegistryAssumption DEF CountsOK
  <2>8. PairsCovered'
    BY <1>0, <2>2, <2>3, CoverKept DEF Covered
  <2> QED
    BY <2>1, <2>5, <2>6, <2>7, <2>8, Zenon DEF RegistryInv, Typed
<1>7. ASSUME NEW t \in Tokens, remove_token(t)
      PROVE  RegistryInv'
  <2>1. TableOK' /\ Coherent'
    BY <1>0, <1>7, RemoveTable
  <2>2. DOMAIN rows' \subseteq DOMAIN rows
    BY <1>7 DEF remove_token, Registered, Restrict
  <2>3. UNCHANGED <<tags, up, sends, stalled, subQ, ingest, todo, step, poll, prices, missed, crashes>>
    BY <1>7 DEF remove_token, relay, feed
  <2>4. requests < MaxRequests /\ requests' = requests + 1
    BY <1>7 DEF remove_token, Request
  <2>5. Flags'
    BY <1>0, <2>3 DEF Flags
  <2>6. SubsOK' /\ QueuesOK' /\ RelayOK' /\ FeedOK'
    BY <1>0, <2>3 DEF SubsOK, QueuesOK, RelayOK, FeedOK
  <2>7. CountsOK'
    BY <1>0, <2>3, <2>4, RegistryAssumption DEF CountsOK
  <2>8. PairsCovered'
    BY <1>0, <2>2, <2>3, CoverKept DEF Covered
  <2> QED
    BY <2>1, <2>5, <2>6, <2>7, <2>8, Zenon DEF RegistryInv, Typed
<1>8. CASE subscribe_all_pairs \/ RelayStarts
  <2>1. RelayOK' /\ PairsCovered'
    <3>1. CASE subscribe_all_pairs
      BY <1>0, <3>1, LoadCovers, Zenon
    <3>2. CASE RelayStarts
      BY <1>0, <3>2 DEF RelayStarts, RelayOK, PairsCovered, Registered, disk, main
    <3> QED
      BY <1>8, <3>1, <3>2
  <2>2. UNCHANGED <<rows, tags, up, map, sends, stalled, subQ, poll, prices, missed, requests, crashes>>
    BY <1>8 DEF subscribe_all_pairs, RelayStarts, disk, main, feed
  <2>3. TableOK' /\ Coherent'
    BY <1>0, <2>2, TableKept
  <2>4. Flags'
    BY <1>0, <2>2, Zenon DEF Flags
  <2>5. SubsOK' /\ QueuesOK' /\ FeedOK' /\ CountsOK'
    BY <1>0, <2>2 DEF SubsOK, QueuesOK, FeedOK, CountsOK
  <2> QED
    BY <2>1, <2>3, <2>4, <2>5 DEF RegistryInv, Typed
<1>9. CASE Receive
  <2>1. QueuesOK' /\ RelayOK' /\ PairsCovered'
    BY <1>0, <1>9, ReceiveCovers
  <2>2. UNCHANGED <<rows, tags, up, map, stalled, poll, prices, missed, requests, crashes>>
    BY <1>9 DEF Receive, disk, main, feed
  <2>3. TableOK' /\ Coherent'
    BY <1>0, <2>2, TableKept
  <2>4. Flags'
    BY <1>0, <2>2 DEF Flags
  <2>5. SubsOK' /\ FeedOK' /\ CountsOK'
    BY <1>0, <2>2 DEF SubsOK, FeedOK, CountsOK
  <2> QED
    BY <2>1, <2>3, <2>4, <2>5 DEF RegistryInv, Typed
<1>10. CASE subscribe_pair \/ SubscribeFails
  <2>1. SubsOK' /\ RelayOK' /\ PairsCovered'
    BY <1>0, <1>10, SubscribeCovers
  <2>2. UNCHANGED <<rows, up, map, sends, stalled, subQ, poll, prices, requests, crashes>>
    BY <1>10 DEF subscribe_pair, SubscribeFails, disk, main, feed
  <2>3. TableOK' /\ Coherent'
    BY <1>0, <2>2, TableKept
  <2>4. Flags'
    BY <1>0, <2>2 DEF Flags
  <2>5. QueuesOK' /\ FeedOK' /\ CountsOK'
    BY <1>0, <2>2 DEF QueuesOK, FeedOK, CountsOK
  <2> QED
    BY <2>1, <2>3, <2>4, <2>5 DEF RegistryInv, Typed
<1>11. CASE MetadataCheck \/ MetadataFetch \/ MetadataSet \/ MetadataGivesUp
  <2>1. UNCHANGED <<tags, up, map, sends, stalled, subQ, poll, prices, missed, requests, crashes>>
    BY <1>11 DEF MetadataCheck, MetadataFetch, MetadataSet, MetadataGivesUp, disk, main, feed
  <2>2. TableOK' /\ Coherent' /\ DOMAIN rows' = DOMAIN rows
    <3>1. CASE MetadataSet
      BY <1>0, <3>1, MetadataTable
    <3>2. CASE ~MetadataSet
      <4>1. rows' = rows
        BY <1>11, <3>2 DEF MetadataCheck, MetadataFetch, MetadataGivesUp, disk
      <4> QED
        BY <1>0, <2>1, <4>1, TableKept, Zenon
    <3> QED
      BY <3>1, <3>2
  <2>3. RelayOK' /\ PairsCovered'
    BY <1>0, <1>11, <2>2, MetadataCovers, Zenon
  <2>4. Flags'
    BY <1>0, <2>1 DEF Flags
  <2>5. SubsOK' /\ QueuesOK' /\ FeedOK' /\ CountsOK'
    BY <1>0, <2>1 DEF SubsOK, QueuesOK, FeedOK, CountsOK
  <2> QED
    BY <2>2, <2>3, <2>4, <2>5 DEF RegistryInv, Typed
<1>12. CASE Poll \/ PollAnswered \/ PollFails
  <2>1. UNCHANGED <<rows, tags, up, map, sends, stalled, subQ, ingest, todo, step, missed, requests, crashes>>
    BY <1>12 DEF Poll, PollAnswered, PollFails, disk, main, relay
  <2>2. FeedOK'
    <3>1. DOMAIN map \subseteq Tokens
      BY <1>0 DEF TableOK, MapOK
    <3>2. CASE Poll
      BY <1>0, <3>1, <3>2, Zenon DEF Poll, FeedOK, Empty
    <3>3. CASE PollAnswered
      BY <1>0, <3>3 DEF PollAnswered, FeedOK, Restrict
    <3>4. CASE PollFails
      BY <1>0, <3>4 DEF PollFails, FeedOK
    <3> QED
      BY <1>12, <3>2, <3>3, <3>4
  <2>3. TableOK' /\ Coherent'
    BY <1>0, <2>1, TableKept
  <2>4. Flags'
    BY <1>0, <2>1 DEF Flags
  <2>5. SubsOK' /\ QueuesOK' /\ RelayOK' /\ CountsOK'
    BY <1>0, <2>1 DEF SubsOK, QueuesOK, RelayOK, CountsOK
  <2>6. PairsCovered'
    BY <1>0, <2>1 DEF PairsCovered, Registered
  <2> QED
    BY <2>2, <2>3, <2>4, <2>5, <2>6, Zenon DEF RegistryInv, Typed
<1>13. CASE UNCHANGED vars
  <2>1. UNCHANGED <<rows, tags, up, map, sends, stalled, subQ, ingest, todo, step, poll, prices, missed, requests, crashes>>
    BY <1>13 DEF vars, disk, main, relay, feed
  <2>2. TableOK' /\ Coherent'
    BY <1>0, <2>1, TableKept
  <2>3. Flags'
    BY <1>0, <2>1 DEF Flags
  <2>4. SubsOK' /\ QueuesOK' /\ RelayOK' /\ FeedOK' /\ CountsOK'
    BY <1>0, <2>1 DEF SubsOK, QueuesOK, RelayOK, FeedOK, CountsOK
  <2>5. PairsCovered'
    BY <1>0, <2>1 DEF PairsCovered, Registered
  <2> QED
    BY <2>2, <2>3, <2>4, <2>5 DEF RegistryInv, Typed
<1> QED
  BY <1>1, <1>2, <1>3, <1>4, <1>5, <1>6, <1>7, <1>8, <1>9, <1>10, <1>11, <1>12, <1>13, Zenon DEF Next, IngestStep

\* Whatever the handlers did and failed at, and whatever a restart seeded, the
\* symbol cache of a running solver says what the registered_tokens table says.
THEOREM CacheFollowsRows == Spec => []CacheMatchesRows
<1>1. RegistryInv => CacheMatchesRows
  BY PartsAreTypes DEF RegistryInv, Coherent, CacheMatchesRows
<1> QED
  BY <1>1, InitInv, StepInv, PTL DEF Spec

\* No pair of registered tokens is forgotten between the handler that registers
\* a token, the channel, the relay and the subscriptions made at boot.
THEOREM NoPairForgotten == Spec => []PairsCovered
<1>1. RegistryInv => PairsCovered
  BY DEF RegistryInv
<1> QED
  BY <1>1, InitInv, StepInv, PTL DEF Spec

==============================================================================
