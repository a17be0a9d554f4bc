------------------------- MODULE MatcherTickProofs -------------------------
(***************************************************************************)
(* Proofs about the matcher's tick and its order book, for any orders,     *)
(* pairs, rates, clock and traffic.                                        *)
(***************************************************************************)
EXTENDS MatcherTick, TLAPS, FiniteSetTheorems, SequenceTheorems, NaturalsInduction, WellFoundedInduction

-----------------------------------------------------------------------------
(* Sequences.                                                              *)

\* A set of naturals that is not empty has a least element.
LEMMA Least ==
    ASSUME NEW T \in SUBSET Nat, T # {}
    PROVE  \E x \in T : \A y \in T : x <= y
<1> DEFINE R == {ss \in Nat \X Nat : ss[1] < ss[2]}
<1>1. IsWellFoundedOn(R, Nat)
  BY NatLessThanWellFounded DEF OpToRel, R
<1>2. PICK x \in T : \A y \in T : ~(<<y, x>> \in R)
  BY <1>1, WFMin, Zenon
<1>3. \A y \in T : <<y, x>> \in R <=> y < x
  OBVIOUS
<1> HIDE DEF R
<1>4. ASSUME NEW y \in T PROVE x <= y
  <2>1. x \in Nat /\ y \in Nat /\ ~(y < x)
    BY <1>2, <1>3, Zenon
  <2> QED
    BY <2>1
<1> QED
  BY <1>4

\* Removing one element of a sequence moves the later ones forward.
LEMMA RemoveAtIs ==
    ASSUME NEW S, NEW s \in Seq(S), NEW i \in 1..Len(s)
    PROVE  /\ Len(RemoveAt(s, i)) = Len(s) - 1 /\ DOMAIN RemoveAt(s, i) = 1..(Len(s) - 1)
           /\ \A j \in 1..(i - 1) : RemoveAt(s, i)[j] = s[j]
           /\ \A j \in i..(Len(s) - 1) : RemoveAt(s, i)[j] = s[j + 1]
<1> DEFINE a == SubSeq(s, 1, i - 1)
           b == SubSeq(s, i + 1, Len(s))
           r == RemoveAt(s, i)
<1>0. Len(s) \in Nat /\ i \in Nat
  OBVIOUS
<1>1. a \in Seq(S) /\ Len(a) = i - 1 /\ \A j \in 1..(i - 1) : a[j] = s[j]
  BY SubSeqProperties
<1>2. b \in Seq(S) /\ Len(b) = Len(s) - i /\ \A j \in 1..(Len(s) - i) : b[j] = s[i + j]
  BY SubSeqProperties
<1>3. r = a \o b
  BY DEF RemoveAt
<1> HIDE DEF a, b, r
<1>4. /\ r \in Seq(S) /\ Len(r) = Len(a) + Len(b)
      /\ \A j \in 1..Len(a) : r[j] = a[j]
      /\ \A k \in 1..Len(b) : r[Len(a) + k] = b[k]
  <2>1. /\ r \in Seq(S) /\ Len(r) = Len(a) + Len(b)
        /\ \A j \in 1..(Len(a) + Len(b)) : r[j] = IF j <= Len(a) THEN a[j] ELSE b[j - Len(a)]
    BY <1>1, <1>2, <1>3, ConcatProperties, Zenon
  <2>2. Len(a) \in Nat /\ Len(b) \in Nat
    BY <1>1, <1>2
  <2>3. \A j \in 1..Len(a) : r[j] = a[j]
    BY <2>1, <2>2
  <2>4. ASSUME NEW k \in 1..Len(b) PROVE r[Len(a) + k] = b[k]
    <3>1. Len(a) + k \in 1..(Len(a) + Len(b)) /\ ~(Len(a) + k <= Len(a)) /\ (Len(a) + k) - Len(a) = k
      BY <2>2
    <3> QED
      BY <2>1, <3>1
  <2> QED
    BY <2>1, <2>3, <2>4
<1>5. ASSUME NEW j \in i..(Len(s) - 1) PROVE r[j] = s[j + 1]
  <2> DEFINE k == j - (i - 1)
  <2>1. k \in 1..(Len(s) - i) /\ i + k = j + 1 /\ (i - 1) + k = j
    BY <1>0
  <2> HIDE DEF k
  <2>2. b[k] = s[i + k] /\ r[(i - 1) + k] = b[k]
    BY <1>1, <1>2, <1>4, <2>1
  <2> QED
    BY <2>1, <2>2
<1>6. Len(r) = Len(s) - 1 /\ DOMAIN r = 1..(Len(s) - 1)
  BY <1>0, <1>1, <1>2, <1>4
<1>7. \A j \in 1..(i - 1) : r[j] = s[j]
  BY <1>1, <1>4
<1> QED
  BY <1>5, <1>6, <1>7 DEF r

\* Removing an element leaves a sequence over the same set.
LEMMA RemoveAtSeq ==
    ASSUME NEW S, NEW s \in Seq(S), NEW i \in 1..Len(s)
    PROVE  RemoveAt(s, i) \in Seq(S)
<1>1. SubSeq(s, 1, i - 1) \in Seq(S)
  BY SubSeqProperties
<1>2. SubSeq(s, i + 1, Len(s)) \in Seq(S)
  BY SubSeqProperties
<1> QED
  BY <1>1, <1>2, ConcatProperties DEF RemoveAt

\* Inserting an element moves those from its position on backward.
LEMMA InsertIdIs ==
    ASSUME NEW S, NEW s \in Seq(S), NEW e \in S, NEW i \in 1..(Len(s) + 1)
    PROVE  /\ InsertId(s, i, e) \in Seq(S)
           /\ Len(InsertId(s, i, e)) = Len(s) + 1 /\ DOMAIN InsertId(s, i, e) = 1..(Len(s) + 1)
           /\ \A j \in 1..(i - 1) : InsertId(s, i, e)[j] = s[j]
           /\ InsertId(s, i, e)[i] = e
           /\ \A j \in i..Len(s) : InsertId(s, i, e)[j + 1] = s[j]
<1> DEFINE a == SubSeq(s, 1, i - 1)
           c == a \o <<e>>
           b == SubSeq(s, i, Len(s))
           r == InsertId(s, i, e)
<1>0. Len(s) \in Nat /\ i \in Nat
  OBVIOUS
<1>1. a \in Seq(S) /\ Len(a) = i - 1 /\ \A j \in 1..(i - 1) : a[j] = s[j]
  BY SubSeqProperties
<1>2. b \in Seq(S) /\ Len(b) = Len(s) - i + 1 /\ \A j \in 1..(Len(s) - i + 1) : b[j] = s[i + j - 1]
  BY SubSeqProperties
<1>3. r = c \o b
  BY DEF InsertId
<1>4. c = Append(a, e)
  BY <1>1, AppendIsConcat
<1> HIDE DEF a, b, c, r
<1>5. c \in Seq(S) /\ Len(c) = i /\ c[i] = e /\ \A j \in 1..(i - 1) : c[j] = s[j]
  BY <1>0, <1>1, <1>4, AppendProperties
<1>6. /\ r \in Seq(S) /\ Len(r) = Len(c) + Len(b)
      /\ \A j \in 1..(Len(c) + Len(b)) : r[j] = IF j <= Len(c) THEN c[j] ELSE b[j - Len(c)]
  BY <1>2, <1>3, <1>5, ConcatProperties, Zenon
<1>7. \A j \in 1..i : r[j] = c[j]
  BY <1>0, <1>2, <1>5, <1>6
<1>8. ASSUME NEW j \in i..Len(s) PROVE r[j + 1] = s[j]
  <2> DEFINE k == j + 1 - i
  <2>1. /\ k \in 1..(Len(s) - i + 1) /\ i + k - 1 = j /\ j + 1 \in 1..(i + (Len(s) - i + 1))
        /\ ~(j + 1 <= i) /\ (j + 1) - i = k
    BY <1>0
  <2> HIDE DEF k
  <2>2. r[j + 1] = b[k]
    BY <1>2, <1>5, <1>6, <2>1
  <2>3. b[k] = s[i + k - 1]
    BY <1>2, <2>1
  <2> QED
    BY <2>1, <2>2, <2>3
<1>9. Len(r) = Len(s) + 1 /\ DOMAIN r = 1..(Len(s) + 1)
  BY <1>0, <1>2, <1>5, <1>6
<1>10. r[i] = e /\ \A j \in 1..(i - 1) : r[j] = s[j]
  BY <1>0, <1>5, <1>7
<1> QED
  BY <1>6, <1>8, <1>9, <1>10 DEF r

\* Removing the first occurrence of an element removes one position that holds it.
LEMMA RemoveIdIs ==
    ASSUME NEW S, NEW s \in Seq(S), NEW e, NEW k \in 1..Len(s), s[k] = e
    PROVE  \E i \in 1..Len(s) : s[i] = e /\ RemoveId(s, e) = RemoveAt(s, i)
<1> DEFINE at == {i \in 1..Len(s) : s[i] = e}
           first == CHOOSE i \in at : \A j \in at : i <= j
<1>1. at \in SUBSET Nat /\ at # {}
  OBVIOUS
<1>2. \E x \in at : \A y \in at : x <= y
  BY <1>1, Least, Zenon
<1>3. first \in at
  BY <1>2, Zenon
<1> QED
  BY <1>1, <1>3, Zenon DEF RemoveId, RemoveAt

\* Removing an element that is not there changes nothing.
LEMMA RemoveIdNone ==
    ASSUME NEW s, NEW e, \A i \in 1..Len(s) : s[i] # e
    PROVE  RemoveId(s, e) = s
BY DEF RemoveId

-----------------------------------------------------------------------------
(* The queue of one pair.                                                  *)

\* No order stands twice, and none stands behind a dearer one.
Queue(q) ==
    /\ q \in Seq(Notes)
    /\ \A i, j \in DOMAIN q : q[i] = q[j] => i = j
    /\ \A i, j \in DOMAIN q : i < j => ~Cheaper(q[j], q[i])

\* From the queue q to the queue r: two that stay keep their order, and whoever
\* joins stands behind everyone of its own rate.
Priority(q, r) ==
    LET stay == ToSet(q) \cap ToSet(r)
    IN /\ \A a, b \in stay : Before(q, a, b) => Before(r, a, b)
       /\ \A a \in stay, b \in ToSet(r) \ stay : ~Cheaper(b, a) => Before(r, a, b)

\* The orders a newcomer stands behind are the front of the queue, so their
\* number is the position in front of it.
LEMMA AheadIsFront ==
    ASSUME NEW q, Queue(q), NEW n \in Notes
    PROVE  /\ Cardinality(Ahead(q, n)) \in 0..Len(q)
           /\ \A i \in 1..Cardinality(Ahead(q, n)) : ~Cheaper(n, q[i])
           /\ \A i \in (Cardinality(Ahead(q, n)) + 1)..Len(q) : Cheaper(n, q[i])
<1>0. q \in Seq(Notes) /\ Len(q) \in Nat /\ DOMAIN q = 1..Len(q) /\ \A i \in DOMAIN q : q[i] \in Notes
  BY DEF Queue
<1> DEFINE T == {i \in 1..(Len(q) + 1) : i \notin Ahead(q, n)}
<1>1. Ahead(q, n) \subseteq 1..Len(q)
  BY <1>0 DEF Ahead
<1>2. T \in SUBSET Nat /\ Len(q) + 1 \in T
  BY <1>0, <1>1
<1>3. PICK x \in T : \A y \in T : x <= y
  <2>1. T # {}
    BY <1>2
  <2> HIDE DEF T
  <2> QED
    BY <1>2, <2>1, Least
<1>4. x \in 1..(Len(q) + 1) /\ x \notin Ahead(q, n)
  OBVIOUS
<1>5. \A i \in 1..(x - 1) : i \in Ahead(q, n)
  <2> SUFFICES ASSUME NEW i \in 1..(x - 1), i \notin Ahead(q, n) PROVE FALSE
    OBVIOUS
  <2>1. i \in T
    BY <1>0, <1>4
  <2> QED
    BY <1>0, <1>3, <1>4, <2>1
<1>6. ASSUME NEW i \in x..Len(q) PROVE Cheaper(n, q[i])
  <2>1. x \in DOMAIN q /\ i \in DOMAIN q
    BY <1>0, <1>4
  <2>2. Cheaper(n, q[x])
    BY <1>4, <2>1 DEF Ahead
  <2>3. x = i \/ ~Cheaper(q[i], q[x])
    BY <1>0, <1>4, <2>1 DEF Queue
  <2> QED
    BY <1>0, <2>1, <2>2, <2>3, RateAssumption
<1>7. Ahead(q, n) = 1..(x - 1)
  <2>1. \A i \in Ahead(q, n) : i \in 1..(x - 1)
    <3> SUFFICES ASSUME NEW i \in Ahead(q, n), i \notin 1..(x - 1) PROVE FALSE
      OBVIOUS
    <3>1. i \in x..Len(q)
      BY <1>0, <1>1, <1>4
    <3> QED
      BY <1>6, <3>1 DEF Ahead
  <2> QED
    BY <1>5, <2>1, Zenon
<1>8. Cardinality(1..(x - 1)) = x - 1
  <2>1. 1 \in Int /\ x - 1 \in Int /\ x - 1 >= 0
    BY <1>0, <1>4
  <2>2. Cardinality(1..(x - 1)) = IF 1 > x - 1 THEN 0 ELSE (x - 1) - 1 + 1
    BY <2>1, FS_Interval
  <2> QED
    BY <2>1, <2>2
<1>9. Cardinality(Ahead(q, n)) = x - 1
  BY <1>7, <1>8
<1>10. \A i \in 1..(x - 1) : ~Cheaper(n, q[i])
  BY <1>5 DEF Ahead
<1>11. x - 1 \in 0..Len(q) /\ (x - 1) + 1 = x
  BY <1>0, <1>4
<1> HIDE DEF T
<1> QED
  BY <1>6, <1>9, <1>10, <1>11

\* A newcomer joins at its place: behind its own rate, in front of the dearer ones.
LEMMA Inserted ==
    ASSUME NEW q, Queue(q), NEW n \in Notes, n \notin ToSet(q), NEW r,
           r = InsertId(q, Cardinality(Ahead(q, n)) + 1, n)
    PROVE  Queue(r) /\ ToSet(r) = ToSet(q) \cup {n} /\ Len(r) = Len(q) + 1 /\ Priority(q, r)
<1> DEFINE c == Cardinality(Ahead(q, n))
           k == c + 1
<1>0. q \in Seq(Notes) /\ Len(q) \in Nat /\ DOMAIN q = 1..Len(q) /\ \A i \in DOMAIN q : q[i] \in Notes
  BY DEF Queue
<1>1. /\ k \in 1..(Len(q) + 1)
      /\ \A i \in 1..(k - 1) : ~Cheaper(n, q[i])
      /\ \A i \in k..Len(q) : Cheaper(n, q[i])
  <2>1. /\ c \in 0..Len(q)
        /\ \A i \in 1..c : ~Cheaper(n, q[i])
        /\ \A i \in (c + 1)..Len(q) : Cheaper(n, q[i])
    BY AheadIsFront
  <2> HIDE DEF c
  <2>2. k \in 1..(Len(q) + 1) /\ k - 1 = c
    BY <1>0, <2>1
  <2> QED
    BY <2>1, <2>2
<1>2. r = InsertId(q, k, n)
  OBVIOUS
<1> HIDE DEF c, k
<1>3. /\ r \in Seq(Notes) /\ Len(r) = Len(q) + 1 /\ DOMAIN r = 1..(Len(q) + 1)
      /\ \A j \in 1..(k - 1) : r[j] = q[j]
      /\ r[k] = n
      /\ \A j \in k..Len(q) : r[j + 1] = q[j]
  <2>1. q \in Seq(Notes) /\ k \in 1..(Len(q) + 1) /\ n \in Notes
    BY <1>0, <1>1
  <2> QED
    BY <1>2, <2>1, InsertIdIs
<1>4. ASSUME NEW j \in DOMAIN r
      PROVE  \/ j < k /\ j \in DOMAIN q /\ r[j] = q[j]
             \/ j = k /\ r[j] = n
             \/ j > k /\ j - 1 \in DOMAIN q /\ r[j] = q[j - 1]
  <2>1. CASE j < k
    BY <1>0, <1>1, <1>3, <2>1
  <2>2. CASE j > k
    <3>1. j - 1 \in k..Len(q) /\ (j - 1) + 1 = j
      BY <1>0, <1>1, <1>3, <2>2
    <3>2. r[(j - 1) + 1] = q[j - 1]
      BY <1>3, <3>1
    <3> QED
      BY <1>0, <1>1, <2>2, <3>1, <3>2
  <2> QED
    BY <1>0, <1>1, <1>3, <2>1, <2>2
<1>5. \A i \in DOMAIN q : q[i] # n
  BY DEF ToSet
<1>6. ASSUME NEW i \in DOMAIN r, NEW j \in DOMAIN r, r[i] = r[j] PROVE i = j
  <2>1. /\ i \in Nat /\ j \in Nat /\ k \in Nat
        /\ \A a, b \in DOMAIN q : q[a] = q[b] => a = b
    BY <1>0, <1>1, <1>3 DEF Queue
  <2>2. CASE i = k \/ j = k
    BY <1>4, <1>5, <1>6, <2>1, <2>2
  <2>3. CASE i < k /\ j < k
    BY <1>4, <1>6, <2>1, <2>3
  <2>4. CASE i > k /\ j > k
    BY <1>4, <1>6, <2>1, <2>4
  <2>5. CASE i < k /\ j > k
    BY <1>4, <1>6, <2>1, <2>5
  <2>6. CASE i > k /\ j < k
    BY <1>4, <1>6, <2>1, <2>6
  <2> QED
    BY <2>1, <2>2, <2>3, <2>4, <2>5, <2>6
<1>7. ASSUME NEW i \in DOMAIN r, NEW j \in DOMAIN r, i < j PROVE ~Cheaper(r[j], r[i])
  <2>1. /\ i \in Nat /\ j \in Nat /\ k \in Nat
        /\ \A a, b \in DOMAIN q : a < b => ~Cheaper(q[b], q[a])
    BY <1>0, <1>1, <1>3 DEF Queue
  <2>2. CASE j < k
    BY <1>4, <1>7, <2>1, <2>2
  <2>3. CASE j = k
    <3>1. i \in 1..(k - 1) /\ r[i] = q[i] /\ r[j] = n
      BY <1>3, <1>7, <2>1, <2>3
    <3> QED
      BY <1>1, <3>1
  <2>4. CASE j > k /\ i < k
    BY <1>4, <1>7, <2>1, <2>4
  <2>5. CASE j > k /\ i = k
    <3>1. j - 1 \in k..Len(q) /\ r[j] = q[j - 1] /\ r[i] = n /\ q[j - 1] \in Notes
      BY <1>0, <1>4, <2>1, <2>5
    <3>2. Cheaper(n, q[j - 1])
      BY <1>1, <3>1
    <3> QED
      BY <3>1, <3>2, RateAssumption
  <2>6. CASE j > k /\ i > k
    BY <1>4, <1>7, <2>1, <2>6
  <2> QED
    BY <2>1, <2>2, <2>3, <2>4, <2>5, <2>6
<1>8. Queue(r)
  BY <1>3, <1>6, <1>7 DEF Queue
<1>9. ToSet(r) = ToSet(q) \cup {n}
  <2>1. \A a \in ToSet(r) : a \in ToSet(q) \cup {n}
    BY <1>4 DEF ToSet
  <2>2. n \in ToSet(r)
    BY <1>0, <1>1, <1>3 DEF ToSet
  <2>3. ASSUME NEW i \in DOMAIN q PROVE q[i] \in ToSet(r)
    <3>1. CASE i < k
      <4>1. i \in DOMAIN r /\ r[i] = q[i]
        BY <1>0, <1>1, <1>3, <3>1
      <4> QED
        BY <4>1 DEF ToSet
    <3>2. CASE ~(i < k)
      <4>1. i + 1 \in DOMAIN r /\ r[i + 1] = q[i]
        BY <1>0, <1>1, <1>3, <3>2
      <4> QED
        BY <4>1 DEF ToSet
    <3> QED
      BY <3>1, <3>2
  <2> QED
    BY <2>1, <2>2, <2>3 DEF ToSet
<1>10. ASSUME NEW a, NEW b, Before(q, a, b) PROVE Before(r, a, b)
  <2>1. PICK i \in DOMAIN q, j \in DOMAIN q : i < j /\ q[i] = a /\ q[j] = b
    BY <1>10 DEF Before
  <2> DEFINE f(m) == IF m < k THEN m ELSE m + 1
  <2>2. \A m \in DOMAIN q : f(m) \in DOMAIN r /\ r[f(m)] = q[m]
    BY <1>0, <1>1, <1>3
  <2>3. f(i) < f(j)
    BY <1>0, <1>1, <2>1
  <2> HIDE DEF f
  <2> QED
    BY <2>1, <2>2, <2>3 DEF Before
<1>11. ASSUME NEW a \in ToSet(q), ~Cheaper(n, a) PROVE Before(r, a, n)
  <2>1. PICK i \in DOMAIN q : q[i] = a
    BY DEF ToSet
  <2>2. i < k
    BY <1>0, <1>1, <1>11, <2>1
  <2>3. i \in DOMAIN r /\ r[i] = a /\ k \in DOMAIN r /\ r[k] = n
    BY <1>0, <1>1, <1>3, <2>1, <2>2
  <2> QED
    BY <2>2, <2>3 DEF Before
<1>12. Priority(q, r)
  BY <1>9, <1>10, <1>11 DEF Priority
<1> QED
  BY <1>3, <1>8, <1>9, <1>12

\* An order that leaves makes nobody else move past another.
LEMMA Removed ==
    ASSUME NEW q, Queue(q), NEW n \in ToSet(q), NEW r, r = RemoveId(q, n)
    PROVE  Queue(r) /\ ToSet(r) = ToSet(q) \ {n} /\ Len(r) = Len(q) - 1 /\ Priority(q, r)
<1>0. q \in Seq(Notes) /\ Len(q) \in Nat /\ DOMAIN q = 1..Len(q) /\ \A i \in DOMAIN q : q[i] \in Notes
  BY DEF Queue
<1>1. PICK k \in 1..Len(q) : q[k] = n /\ r = RemoveAt(q, k)
  BY <1>0, RemoveIdIs, Zenon DEF ToSet
<1>2. /\ Len(r) = Len(q) - 1 /\ DOMAIN r = 1..(Len(q) - 1)
      /\ \A j \in 1..(k - 1) : r[j] = q[j]
      /\ \A j \in k..(Len(q) - 1) : r[j] = q[j + 1]
  BY <1>0, <1>1, RemoveAtIs, Zenon
<1> DEFINE f(m) == IF m < k THEN m ELSE m + 1
           g(m) == IF m < k THEN m ELSE m - 1
<1>3. \A m \in DOMAIN r : f(m) \in DOMAIN q /\ f(m) # k /\ r[m] = q[f(m)]
  BY <1>0, <1>1, <1>2
<1>4. \A m, o \in DOMAIN r : (m < o <=> f(m) < f(o)) /\ (f(m) = f(o) => m = o)
  BY <1>0, <1>1, <1>2
<1>5. ASSUME NEW m \in DOMAIN q, m # k PROVE g(m) \in DOMAIN r /\ r[g(m)] = q[m]
  <2>1. CASE m < k
    BY <1>0, <1>1, <1>2, <2>1
  <2>2. CASE ~(m < k)
    <3>1. g(m) = m - 1 /\ m - 1 \in k..(Len(q) - 1) /\ (m - 1) + 1 = m
      BY <1>0, <1>1, <1>5, <2>2
    <3>2. r[m - 1] = q[(m - 1) + 1]
      BY <1>2, <3>1
    <3> QED
      BY <1>0, <1>1, <1>2, <3>1, <3>2
  <2> QED
    BY <2>1, <2>2
<1>6. \A m, o \in DOMAIN q : m # k /\ o # k /\ m < o => g(m) < g(o)
  BY <1>0, <1>1
<1>7. \A a, b \in DOMAIN q : q[a] = q[b] => a = b
  BY DEF Queue
<1>8. \A a, b \in DOMAIN q : a < b => ~Cheaper(q[b], q[a])
  BY DEF Queue
<1> HIDE DEF f, g
<1>9. Queue(r)
  <2>1. r \in Seq(Notes)
    BY <1>0, <1>1, RemoveAtSeq
  <2>2. \A i, j \in DOMAIN r : r[i] = r[j] => i = j
    BY <1>3, <1>4, <1>7
  <2>3. \A i, j \in DOMAIN r : i < j => ~Cheaper(r[j], r[i])
    BY <1>3, <1>4, <1>8
  <2> QED
    BY <2>1, <2>2, <2>3 DEF Queue
<1>10. ToSet(r) = ToSet(q) \ {n}
  <2>1. \A a \in ToSet(r) : a \in ToSet(q) \ {n}
    BY <1>0, <1>1, <1>3, <1>7 DEF ToSet
  <2>2. ASSUME NEW a \in ToSet(q), a # n PROVE a \in ToSet(r)
    <3>1. PICK m \in DOMAIN q : q[m] = a /\ m # k
      BY <1>1, <2>2 DEF ToSet
    <3> QED
      BY <1>5, <3>1 DEF ToSet
  <2> QED
    BY <2>1, <2>2
<1>11. ASSUME NEW a \in ToSet(r), NEW b \in ToSet(r), Before(q, a, b) PROVE Before(r, a, b)
  <2>1. PICK i \in DOMAIN q, j \in DOMAIN q : i < j /\ q[i] = a /\ q[j] = b
    BY <1>11 DEF Before
  <2>2. i # k /\ j # k
    BY <1>1, <1>10, <2>1
  <2> QED
    BY <1>5, <1>6, <2>1, <2>2 DEF Before
<1>12. Priority(q, r)
  BY <1>10, <1>11 DEF Priority
<1> QED
  BY <1>2, <1>9, <1>10, <1>12

-----------------------------------------------------------------------------
(* The book.                                                               *)

OrderMap == UNION {[S -> Nat] : S \in SUBSET Notes}
BookRec ==
    [orders : OrderMap, index : [Pairs -> Seq(Notes)], count : [Pairs -> Nat], adj : SUBSET Pairs,
     parked : OrderMap, queue : Seq(Nat \X Notes)]

\* The index, the counter and the adjacency of every pair agree on the orders L.
Indexes(b, L) ==
    \A p \in Pairs :
        /\ Queue(b.index[p]) /\ ToSet(b.index[p]) = {n \in L : PairOf(n) = p}
        /\ b.count[p] = Len(b.index[p])
        /\ p \in b.adj <=> b.index[p] # <<>>

\* The orders the index should hold.
Live(b) == {n \in DOMAIN b.orders : b.orders[n] > 0 /\ n \notin DOMAIN b.parked}

Exact(b) ==
    /\ b \in BookRec
    /\ DOMAIN b.parked \subseteq DOMAIN b.orders
    /\ \A n \in DOMAIN b.orders : b.orders[n] \in 0..Requested(n)
    /\ Indexes(b, Live(b))

\* Only the queue of the order's own pair changes, and it keeps price and time.
Touched(b, c, n) ==
    \A p \in Pairs : Priority(b.index[p], c.index[p]) /\ (p # PairOf(n) => c.index[p] = b.index[p])

\* A queue that stays as it is keeps price and time.
LEMMA PriorityStays ==
    ASSUME NEW q
    PROVE  Priority(q, q)
BY DEF Priority

\* Maps of orders: dropping and adding an entry.
LEMMA MapIs ==
    ASSUME NEW f \in OrderMap
    PROVE  DOMAIN f \subseteq Notes /\ \A m \in DOMAIN f : f[m] \in Nat
BY DEF OrderMap

\* Without takes one key away.
LEMMA WithoutIs ==
    ASSUME NEW f \in OrderMap, NEW n
    PROVE  /\ Without(f, n) \in OrderMap /\ DOMAIN Without(f, n) = DOMAIN f \ {n}
           /\ \A m \in DOMAIN f \ {n} : Without(f, n)[m] = f[m]
<1>1. Without(f, n) \in [DOMAIN f \ {n} -> Nat]
  BY MapIs DEF Without
<1>2. Without(f, n) \in OrderMap
  BY <1>1, MapIs DEF OrderMap
<1> QED
  BY <1>2 DEF Without

\* With sets one key.
LEMMA WithIs ==
    ASSUME NEW f \in OrderMap, NEW n \in Notes, NEW v \in Nat
    PROVE  /\ With(f, n, v) \in OrderMap /\ DOMAIN With(f, n, v) = DOMAIN f \cup {n}
           /\ With(f, n, v)[n] = v /\ \A m \in DOMAIN f : m # n => With(f, n, v)[m] = f[m]
<1>1. With(f, n, v) \in [DOMAIN f \cup {n} -> Nat]
  BY MapIs DEF With
<1>2. With(f, n, v) \in OrderMap
  BY <1>1, MapIs DEF OrderMap
<1> QED
  BY <1>2 DEF With

\* index_insert enters the order once, everywhere.
LEMMA InsertIndexes ==
    ASSUME NEW b \in BookRec, NEW L \in SUBSET Notes, Indexes(b, L), NEW n \in Notes \ L, NEW r,
           r = index_insert(b, n)
    PROVE  /\ r \in BookRec /\ Indexes(r, L \cup {n}) /\ Touched(b, r, n)
           /\ r.orders = b.orders /\ r.parked = b.parked /\ r.queue = b.queue
<1> DEFINE o == PairOf(n)
           q == b.index[o]
           i == InsertId(q, Cardinality(Ahead(q, n)) + 1, n)
<1>0. o \in Pairs
  BY OrderAssumption
<1>1. r = [b EXCEPT !.index[o] = i, !.count[o] = @ + 1, !.adj = @ \cup {o}]
  BY DEF index_insert
<1>2. Queue(q) /\ n \notin ToSet(q)
  BY <1>0 DEF Indexes
<1>3. Queue(i) /\ ToSet(i) = ToSet(q) \cup {n} /\ Len(i) = Len(q) + 1 /\ Priority(q, i)
  <2> HIDE DEF q
  <2> QED
    BY <1>2, Inserted, Zenon
<1>4. i \in Seq(Notes) /\ i # <<>>
  BY <1>2, <1>3 DEF Queue
<1> HIDE DEF o, i
<1>5. /\ r.orders = b.orders /\ r.parked = b.parked /\ r.queue = b.queue
      /\ r.index = [b.index EXCEPT ![o] = i] /\ r.count = [b.count EXCEPT ![o] = @ + 1] /\ r.adj = b.adj \cup {o}
  BY <1>1, Zenon DEF BookRec
<1>6. r \in BookRec
  <2>1. b.orders \in OrderMap /\ b.parked \in OrderMap /\ b.queue \in Seq(Nat \X Notes)
    BY DEF BookRec
  <2>2. [b.index EXCEPT ![o] = i] \in [Pairs -> Seq(Notes)]
    BY <1>0, <1>4 DEF BookRec
  <2>3. [b.count EXCEPT ![o] = @ + 1] \in [Pairs -> Nat]
    BY <1>0 DEF BookRec
  <2>4. b.adj \cup {o} \in SUBSET Pairs
    BY <1>0 DEF BookRec
  <2>5. r = [orders |-> b.orders, index |-> [b.index EXCEPT ![o] = i], count |-> [b.count EXCEPT ![o] = @ + 1],
             adj |-> b.adj \cup {o}, parked |-> b.parked, queue |-> b.queue]
    BY <1>1, Zenon DEF BookRec
  <2> QED
    BY <2>1, <2>2, <2>3, <2>4, <2>5 DEF BookRec
<1>7. ASSUME NEW p \in Pairs
      PROVE  /\ Queue(r.index[p]) /\ ToSet(r.index[p]) = {m \in L \cup {n} : PairOf(m) = p}
             /\ r.count[p] = Len(r.index[p])
             /\ p \in r.adj <=> r.index[p] # <<>>
             /\ Priority(b.index[p], r.index[p]) /\ (p # o => r.index[p] = b.index[p])
  <2>0. /\ ToSet(b.index[p]) = {m \in L : PairOf(m) = p} /\ b.count[p] = Len(b.index[p])
        /\ p \in b.adj <=> b.index[p] # <<>>
        /\ Queue(b.index[p])
    BY DEF Indexes
  <2>1. CASE p = o
    <3>1. r.index[p] = i /\ r.count[p] = b.count[p] + 1 /\ p \in r.adj
      BY <1>0, <1>5, <2>1 DEF BookRec
    <3>2. ToSet(i) = {m \in L \cup {n} : PairOf(m) = p}
      BY <1>3, <2>0, <2>1 DEF o
    <3> QED
      BY <1>3, <1>4, <2>0, <2>1, <3>1, <3>2
  <2>2. CASE p # o
    <3>1. r.index[p] = b.index[p] /\ r.count[p] = b.count[p] /\ (p \in r.adj <=> p \in b.adj)
      BY <1>0, <1>5, <2>2 DEF BookRec
    <3>2. {m \in L \cup {n} : PairOf(m) = p} = {m \in L : PairOf(m) = p}
      BY <2>2 DEF o
    <3> QED
      BY <2>0, <2>2, <3>1, <3>2, PriorityStays
  <2> QED
    BY <2>1, <2>2
<1> QED
  BY <1>5, <1>6, <1>7 DEF Indexes, Touched, o

\* remove_from_index leaves the book alone when the order is not indexed.
LEMMA RemoveNone ==
    ASSUME NEW b \in BookRec, NEW L \in SUBSET Notes, Indexes(b, L), NEW n \in Notes \ L
    PROVE  remove_from_index(b, n) = b
<1> DEFINE o == PairOf(n)
           q == RemoveId(b.index[o], n)
<1>0. o \in Pairs
  BY OrderAssumption
<1>1. n \notin ToSet(b.index[o]) /\ b.index[o] \in Seq(Notes)
  BY <1>0 DEF Indexes, Queue
<1>2. q = b.index[o]
  <2>1. \A i \in 1..Len(b.index[o]) : b.index[o][i] # n
    BY <1>1 DEF ToSet
  <2> QED
    BY <2>1, RemoveIdNone
<1>3. remove_from_index(b, n) =
        IF b.index[o] = <<>> THEN b
        ELSE [b EXCEPT !.index[o] = q, !.adj = IF q = <<>> THEN @ \ {o} ELSE @]
  BY DEF remove_from_index
<1> HIDE DEF o, q
<1>4. ASSUME b.index[o] # <<>>
      PROVE  [b EXCEPT !.index[o] = q, !.adj = IF q = <<>> THEN @ \ {o} ELSE @] = b
  <2>1. [b.index EXCEPT ![o] = q] = b.index
    BY <1>0, <1>2 DEF BookRec
  <2>2. (IF q = <<>> THEN b.adj \ {o} ELSE b.adj) = b.adj
    BY <1>2, <1>4
  <2>3. [b EXCEPT !.index = b.index, !.adj = b.adj] = b
    BY Zenon DEF BookRec
  <2> QED
    BY <2>1, <2>2, <2>3, Zenon
<1> QED
  BY <1>3, <1>4

\* unindex takes the order out, everywhere.
LEMMA UnindexIndexes ==
    ASSUME NEW b \in BookRec, NEW L \in SUBSET Notes, Indexes(b, L), NEW n \in L, NEW r,
           r = unindex(b, n)
    PROVE  /\ r \in BookRec /\ Indexes(r, L \ {n}) /\ Touched(b, r, n)
           /\ r.orders = b.orders /\ r.parked = b.parked /\ r.queue = b.queue
<1> DEFINE o == PairOf(n)
           i == RemoveId(b.index[o], n)
           v == SaturatingDec(b.count[o])
           c == [b.count EXCEPT ![o] = v]
           a == IF i = <<>> THEN b.adj \ {o} ELSE b.adj
           d == [b EXCEPT !.count[o] = v]
<1>0. o \in Pairs
  BY OrderAssumption
<1>1. Queue(b.index[o]) /\ n \in ToSet(b.index[o]) /\ b.count[o] = Len(b.index[o])
  BY <1>0 DEF Indexes
<1>2. Queue(i) /\ ToSet(i) = ToSet(b.index[o]) \ {n} /\ Len(i) = Len(b.index[o]) - 1 /\ Priority(b.index[o], i)
  BY <1>1, Removed, Zenon
<1>3. i \in Seq(Notes) /\ b.index[o] # <<>> /\ Len(b.index[o]) \in Nat \ {0}
  BY <1>1, <1>2 DEF Queue, ToSet
<1>4. d \in BookRec /\ d.index = b.index /\ d.count = c /\ d.adj = b.adj
      /\ d.orders = b.orders /\ d.parked = b.parked /\ d.queue = b.queue
  <2>1. c \in [Pairs -> Nat]
    BY <1>0 DEF BookRec, SaturatingDec
  <2>2. d = [orders |-> b.orders, index |-> b.index, count |-> c, adj |-> b.adj, parked |-> b.parked, queue |-> b.queue]
    <3> SUFFICES ASSUME NEW e, e = d
                 PROVE  e = [orders |-> b.orders, index |-> b.index, count |-> c, adj |-> b.adj,
                             parked |-> b.parked, queue |-> b.queue]
      OBVIOUS
    <3> HIDE DEF o, v
    <3> QED
      BY Zenon DEF BookRec
  <2> HIDE DEF c, d
  <2> QED
    BY <2>1, <2>2 DEF BookRec
<1>5. r = remove_from_index(d, n)
  BY DEF unindex
<1> HIDE DEF d
<1>6. r = [d EXCEPT !.index[o] = i, !.adj = a]
  <2>1. RemoveId(d.index[PairOf(n)], n) = i /\ d.index[PairOf(n)] # <<>>
    BY <1>3, <1>4
  <2> HIDE DEF i, c
  <2> QED
    BY <1>4, <1>5, <2>1 DEF remove_from_index
<1> HIDE DEF o, i, a, c, v
<1>7. r = [orders |-> b.orders, index |-> [b.index EXCEPT ![o] = i], count |-> c, adj |-> a,
           parked |-> b.parked, queue |-> b.queue]
  BY <1>4, <1>6, Zenon DEF BookRec
<1>8. r \in BookRec
  <2>1. b.orders \in OrderMap /\ b.parked \in OrderMap /\ b.queue \in Seq(Nat \X Notes)
    BY DEF BookRec
  <2>2. [b.index EXCEPT ![o] = i] \in [Pairs -> Seq(Notes)]
    BY <1>0, <1>3 DEF BookRec
  <2>3. c \in [Pairs -> Nat]
    BY <1>4 DEF BookRec
  <2>4. a \in SUBSET Pairs
    BY DEF BookRec, a
  <2> QED
    BY <1>7, <2>1, <2>2, <2>3, <2>4 DEF BookRec
<1>9. ASSUME NEW p \in Pairs
      PROVE  /\ Queue(r.index[p]) /\ ToSet(r.index[p]) = {m \in L \ {n} : PairOf(m) = p}
             /\ r.count[p] = Len(r.index[p])
             /\ p \in r.adj <=> r.index[p] # <<>>
             /\ Priority(b.index[p], r.index[p]) /\ (p # o => r.index[p] = b.index[p])
  <2>0. /\ ToSet(b.index[p]) = {m \in L : PairOf(m) = p} /\ b.count[p] = Len(b.index[p])
        /\ p \in b.adj <=> b.index[p] # <<>>
        /\ Queue(b.index[p])
    BY DEF Indexes
  <2>1. CASE p = o
    <3>1. r.index[p] = i /\ r.count[p] = SaturatingDec(b.count[p]) /\ (p \in r.adj <=> p \in a)
      BY <1>0, <1>7, <2>1 DEF BookRec, c, v
    <3>2. ToSet(i) = {m \in L \ {n} : PairOf(m) = p}
      BY <1>2, <2>0, <2>1 DEF o
    <3>3. SaturatingDec(b.count[p]) = Len(i)
      BY <1>1, <1>2, <1>3, <2>1 DEF SaturatingDec
    <3>4. p \in a <=> i # <<>>
      BY <1>3, <2>0, <2>1 DEF a
    <3> QED
      BY <1>2, <2>1, <3>1, <3>2, <3>3, <3>4, Zenon
  <2>2. CASE p # o
    <3>1. r.index[p] = b.index[p] /\ r.count[p] = b.count[p] /\ (p \in r.adj <=> p \in b.adj)
      BY <1>0, <1>7, <2>2 DEF BookRec, a, c
    <3>2. {m \in L \ {n} : PairOf(m) = p} = {m \in L : PairOf(m) = p}
      BY <2>2 DEF o
    <3> QED
      BY <2>0, <2>2, <3>1, <3>2, PriorityStays, Zenon
  <2> QED
    BY <2>1, <2>2
<1> QED
  BY <1>7, <1>8, <1>9 DEF Indexes, Touched, o

-----------------------------------------------------------------------------
(* The operations of the book.                                             *)

SubMap(f, g) == DOMAIN f \subseteq DOMAIN g /\ \A m \in DOMAIN f : f[m] = g[m]

\* What an operation on the order n that parks nothing leaves of the book b.
Keeps(b, r, n) ==
    Exact(r) /\ Touched(b, r, n) /\ r.queue = b.queue /\ SubMap(r.parked, b.parked)

\* Changing the orders and the parked ones leaves the index as it is.
LEMMA SetOrders ==
    ASSUME NEW b \in BookRec, NEW X \in OrderMap, NEW Y \in OrderMap, NEW e,
           e = [orders |-> X, index |-> b.index, count |-> b.count, adj |-> b.adj, parked |-> Y, queue |-> b.queue]
    PROVE  /\ e \in BookRec /\ e.orders = X /\ e.parked = Y /\ e.queue = b.queue
           /\ \A L : Indexes(b, L) => Indexes(e, L)
           /\ \A c, n : Touched(e, c, n) <=> Touched(b, c, n)
           /\ \A n : Touched(b, e, n)
<1>1. e \in BookRec
  BY DEF BookRec
<1>2. /\ e.orders = X /\ e.parked = Y /\ e.queue = b.queue
      /\ e.index = b.index /\ e.count = b.count /\ e.adj = b.adj
  OBVIOUS
<1>3. \A n : Touched(b, e, n)
  BY <1>2, PriorityStays DEF Touched
<1>4. \A c, n : Touched(e, c, n) <=> Touched(b, c, n)
  BY <1>2 DEF Touched
<1>5. \A L : Indexes(b, L) => Indexes(e, L)
  BY <1>2 DEF Indexes
<1> QED
  BY <1>1, <1>2, <1>3, <1>4, <1>5, Zenon

\* The live orders are notes.
LEMMA LiveNotes ==
    ASSUME NEW b \in BookRec
    PROVE  /\ Live(b) \in SUBSET Notes /\ DOMAIN b.orders \subseteq Notes /\ DOMAIN b.parked \subseteq Notes
           /\ b.orders \in OrderMap /\ b.parked \in OrderMap
           /\ \A n \in DOMAIN b.orders : b.orders[n] \in Nat
           /\ \A n \in DOMAIN b.parked : b.parked[n] \in Nat
<1>1. b.orders \in OrderMap /\ b.parked \in OrderMap
  BY DEF BookRec
<1>2. DOMAIN b.orders \subseteq Notes /\ \A n \in DOMAIN b.orders : b.orders[n] \in Nat
  BY <1>1, MapIs
<1>3. DOMAIN b.parked \subseteq Notes /\ \A n \in DOMAIN b.parked : b.parked[n] \in Nat
  BY <1>1, MapIs
<1> QED
  BY <1>1, <1>2, <1>3 DEF Live

\* A book that is left alone.
LEMMA KeepsSame ==
    ASSUME NEW b, Exact(b), NEW n
    PROVE  Keeps(b, b, n)
BY PriorityStays DEF Keeps, Touched, SubMap

\* add_user_order: a live order is left alone; a new or a parked one is entered.
LEMMA AddKeeps ==
    ASSUME NEW b, Exact(b), NEW n \in Notes
    PROVE  Keeps(b, add_user_order(b, n), n)
<1> DEFINE X == With(b.orders, n, Requested(n))
           Y == Without(b.parked, n)
<1>0. b \in BookRec /\ Indexes(b, Live(b)) /\ Requested(n) \in Nat /\ Requested(n) > 0
  BY OrderAssumption DEF Exact
<1>m. b.orders \in OrderMap /\ b.parked \in OrderMap
  BY <1>0, LiveNotes
<1>1. CASE Has(b, n) /\ ~IsParked(b, n)
  BY <1>1, KeepsSame DEF add_user_order
<1>2. CASE ~(Has(b, n) /\ ~IsParked(b, n))
  <2>e. PICK e : e = [b EXCEPT !.parked = Y, !.orders = X]
    OBVIOUS
  <2> DEFINE r == index_insert(e, n)
  <2>1. add_user_order(b, n) = r
    BY <1>2, <2>e DEF add_user_order
  <2>2. /\ X \in OrderMap /\ DOMAIN X = DOMAIN b.orders \cup {n}
        /\ X[n] = Requested(n) /\ \A m \in DOMAIN b.orders : m # n => X[m] = b.orders[m]
    BY <1>0, <1>m, WithIs, Zenon
  <2>3. /\ Y \in OrderMap /\ DOMAIN Y = DOMAIN b.parked \ {n}
        /\ \A m \in DOMAIN b.parked \ {n} : Y[m] = b.parked[m]
    BY <1>0, <1>m, WithoutIs, Zenon
  <2> HIDE DEF X, Y
  <2>4. e = [orders |-> X, index |-> b.index, count |-> b.count, adj |-> b.adj, parked |-> Y, queue |-> b.queue]
    BY <1>0, <2>e, Zenon DEF BookRec
  <2>5. /\ e \in BookRec /\ e.orders = X /\ e.parked = Y /\ e.queue = b.queue
        /\ Indexes(e, Live(b)) /\ \A c, m : Touched(e, c, m) <=> Touched(b, c, m)
    BY <1>0, <2>2, <2>3, <2>4, SetOrders
  <2>6. Live(b) \in SUBSET Notes /\ n \in Notes \ Live(b)
    BY <1>0, <1>2, LiveNotes DEF Live, Has, IsParked
  <2>7. /\ r \in BookRec /\ Indexes(r, Live(b) \cup {n}) /\ Touched(e, r, n)
        /\ r.orders = X /\ r.parked = Y /\ r.queue = b.queue
    BY <2>5, <2>6, InsertIndexes
  <2> HIDE DEF r
  <2>8. Live(r) = Live(b) \cup {n}
    BY <1>0, <2>2, <2>3, <2>7, Zenon DEF Live
  <2>9. Exact(r)
    BY <1>0, <2>2, <2>3, <2>7, <2>8 DEF Exact
  <2>10. SubMap(r.parked, b.parked)
    BY <2>3, <2>7 DEF SubMap
  <2> QED
    BY <2>1, <2>5, <2>7, <2>9, <2>10 DEF Keeps
<1> QED
  BY <1>1, <1>2

\* Order::fill and the clean-up: an exhausted order leaves the index and stays in
\* the book, and nothing happens to the others.
LEMMA FillKeeps ==
    ASSUME NEW b, Exact(b), NEW n \in Live(b), NEW x \in 1..b.orders[n], NEW r,
           r = fill_and_cleanup(b, n, x)
    PROVE  /\ Keeps(b, r, n)
           /\ \A m \in Live(b) \ {n} : m \in Live(r) /\ r.orders[m] = b.orders[m]
<1> DEFINE X == [b.orders EXCEPT ![n] = @ - x]
           Y == b.parked
<1>0. /\ b \in BookRec /\ Indexes(b, Live(b)) /\ n \in DOMAIN b.orders /\ n \in Notes /\ n \notin DOMAIN b.parked
      /\ b.orders[n] \in Nat /\ x \in Nat /\ x <= b.orders[n] /\ Live(b) \in SUBSET Notes /\ n \in Live(b)
      /\ b.orders[n] <= Requested(n) /\ Requested(n) \in Nat
  BY LiveNotes, OrderAssumption DEF Exact, Live
<1>m. b.orders \in OrderMap /\ Y \in OrderMap
  BY <1>0, LiveNotes
<1>1. /\ X \in OrderMap /\ DOMAIN X = DOMAIN b.orders /\ X[n] = b.orders[n] - x
      /\ \A m \in DOMAIN b.orders : m # n => X[m] = b.orders[m]
  <2>1. b.orders \in [DOMAIN b.orders -> Nat] /\ DOMAIN b.orders \in SUBSET Notes
    BY <1>m DEF OrderMap
  <2>2. X \in [DOMAIN b.orders -> Nat]
    BY <1>0, <2>1
  <2> QED
    BY <1>0, <2>1, <2>2 DEF OrderMap
<1>2. PICK e : e = [b EXCEPT !.orders[n] = @ - x]
  BY Zenon
<1>3. r = cleanup_if_filled(e, n)
  BY <1>2 DEF fill_and_cleanup
<1>4. e = [orders |-> X, index |-> b.index, count |-> b.count, adj |-> b.adj, parked |-> Y, queue |-> b.queue]
  BY <1>0, <1>2, Zenon DEF BookRec
<1> HIDE DEF X
<1>5. /\ e \in BookRec /\ e.orders = X /\ e.parked = b.parked /\ e.queue = b.queue
      /\ Indexes(e, Live(b)) /\ (\A c, m : Touched(e, c, m) <=> Touched(b, c, m)) /\ Touched(b, e, n)
  BY <1>0, <1>1, <1>4, <1>m, SetOrders
<1>6. /\ DOMAIN b.parked \subseteq DOMAIN X /\ SubMap(b.parked, b.parked)
      /\ \A m \in DOMAIN X : X[m] \in 0..Requested(m)
  BY <1>0, <1>1 DEF Exact, SubMap
<1>7. CASE X[n] > 0
  <2>1. r = e
    BY <1>3, <1>5, <1>7, Zenon DEF cleanup_if_filled, IsActive
  <2>2. Live(e) = Live(b)
    BY <1>0, <1>1, <1>5, <1>7, Zenon DEF Live
  <2>3. Exact(e)
    BY <1>5, <1>6, <2>2, Zenon DEF Exact
  <2>4. \A m \in Live(b) \ {n} : m \in Live(e) /\ e.orders[m] = b.orders[m]
    BY <1>1, <1>5, <2>2, Zenon DEF Live
  <2> QED
    BY <1>5, <1>6, <2>1, <2>3, <2>4, Zenon DEF Keeps
<1>8. CASE ~(X[n] > 0)
  <2>1. r = unindex(e, n)
    BY <1>0, <1>1, <1>3, <1>5, <1>8, Zenon DEF cleanup_if_filled, IsActive, Has
  <2>2. /\ r \in BookRec /\ Indexes(r, Live(b) \ {n}) /\ Touched(e, r, n)
        /\ r.orders = X /\ r.parked = b.parked /\ r.queue = b.queue
    BY <1>0, <1>5, <2>1, UnindexIndexes
  <2>3. Live(r) = Live(b) \ {n}
    BY <1>0, <1>1, <1>8, <2>2, Zenon DEF Live
  <2>4. Exact(r)
    BY <1>6, <2>2, <2>3, Zenon DEF Exact
  <2>5. \A m \in Live(b) \ {n} : m \in Live(r) /\ r.orders[m] = b.orders[m]
    BY <1>1, <2>2, <2>3 DEF Live
  <2> QED
    BY <1>5, <1>6, <2>2, <2>4, <2>5, Zenon DEF Keeps
<1> QED
  BY <1>7, <1>8

\* remove_order: a parked order has already left the index, an exhausted one too.
LEMMA RemoveKeeps ==
    ASSUME NEW b, Exact(b), NEW n \in Notes, NEW r, r = remove_order(b, n)
    PROVE  Keeps(b, r, n)
<1> DEFINE X == Without(b.orders, n)
           Y == Without(b.parked, n)
<1>0. b \in BookRec /\ Indexes(b, Live(b)) /\ Live(b) \in SUBSET Notes
  BY LiveNotes DEF Exact
<1>m. b.orders \in OrderMap /\ b.parked \in OrderMap
  BY <1>0, LiveNotes
<1>1. CASE ~Has(b, n)
  BY <1>1, KeepsSame DEF remove_order
<1>2. CASE Has(b, n)
  <2>1. /\ X \in OrderMap /\ DOMAIN X = DOMAIN b.orders \ {n}
        /\ \A m \in DOMAIN b.orders \ {n} : X[m] = b.orders[m]
    BY <1>m, WithoutIs, Zenon
  <2>2. /\ Y \in OrderMap /\ DOMAIN Y = DOMAIN b.parked \ {n}
        /\ \A m \in DOMAIN b.parked \ {n} : Y[m] = b.parked[m]
    BY <1>m, WithoutIs, Zenon
  <2>3. PICK e : e = [b EXCEPT !.orders = X, !.parked = Y]
    OBVIOUS
  <2>4. r = IF IsParked(b, n) THEN e ELSE IF IsActive(b, n) THEN unindex(e, n) ELSE remove_from_index(e, n)
    BY <1>2, <2>3 DEF remove_order
  <2> HIDE DEF X, Y
  <2>5. e = [orders |-> X, index |-> b.index, count |-> b.count, adj |-> b.adj, parked |-> Y, queue |-> b.queue]
    BY <1>0, <2>3, Zenon DEF BookRec
  <2>6. /\ e \in BookRec /\ e.orders = X /\ e.parked = Y /\ e.queue = b.queue
        /\ Indexes(e, Live(b)) /\ (\A c, m : Touched(e, c, m) <=> Touched(b, c, m)) /\ Touched(b, e, n)
    BY <1>0, <2>1, <2>2, <2>5, SetOrders
  <2>7. /\ DOMAIN Y \subseteq DOMAIN X /\ SubMap(Y, b.parked)
        /\ \A m \in DOMAIN X : X[m] \in 0..Requested(m)
    BY <2>1, <2>2 DEF Exact, SubMap
  <2>8. Live(e) = Live(b) \ {n}
    BY <2>1, <2>2, <2>6 DEF Live
  <2>9. CASE n \notin Live(b)
    <3>1. r = e
      <4>1. remove_from_index(e, n) = e
        BY <1>0, <2>6, <2>9, RemoveNone
      <4>2. IsParked(b, n) \/ ~IsActive(b, n)
        BY <1>2, <2>9 DEF Live, IsParked, IsActive, Has
      <4> QED
        BY <2>4, <4>1, <4>2
    <3>2. Live(b) \ {n} = Live(b)
      BY <2>9
    <3>3. Exact(e)
      BY <2>6, <2>7, <2>8, <3>2, Zenon DEF Exact
    <3> QED
      BY <2>6, <2>7, <3>1, <3>3 DEF Keeps
  <2>10. CASE n \in Live(b)
    <3>1. r = unindex(e, n)
      BY <2>4, <2>10 DEF Live, IsParked, IsActive
    <3>2. /\ r \in BookRec /\ Indexes(r, Live(b) \ {n}) /\ Touched(e, r, n)
          /\ r.orders = X /\ r.parked = Y /\ r.queue = b.queue
      BY <1>0, <2>6, <2>10, <3>1, UnindexIndexes
    <3>3. Live(r) = Live(b) \ {n}
      BY <2>6, <2>8, <3>2, Zenon DEF Live
    <3>4. Exact(r)
      BY <2>7, <3>2, <3>3, Zenon DEF Exact
    <3> QED
      BY <2>6, <2>7, <3>2, <3>4 DEF Keeps
  <2> QED
    BY <2>9, <2>10
<1> QED
  BY <1>1, <1>2

\* park: a live order leaves the index, and its entry joins the end of the queue.
LEMMA ParkIs ==
    ASSUME NEW b, Exact(b), NEW n \in Live(b), NEW t \in Nat, NEW r, r = park(b, n, t)
    PROVE  /\ Exact(r) /\ Touched(b, r, n) /\ r.queue = Append(b.queue, <<t, n>>)
           /\ DOMAIN r.parked = DOMAIN b.parked \cup {n} /\ r.parked[n] = t
           /\ \A m \in DOMAIN b.parked : m # n /\ r.parked[m] = b.parked[m]
<1> DEFINE Y == With(b.parked, n, t)
           Q == Append(b.queue, <<t, n>>)
<1>0. /\ b \in BookRec /\ Indexes(b, Live(b)) /\ n \in DOMAIN b.orders /\ n \in Notes /\ n \notin DOMAIN b.parked
      /\ Live(b) \in SUBSET Notes /\ n \in Live(b)
  BY LiveNotes DEF Exact, Live
<1>a. b.orders[n] > 0 /\ t \in Nat
  BY DEF Live
<1>m. b.orders \in OrderMap /\ b.parked \in OrderMap
  BY <1>0, LiveNotes
<1>1. PICK u : u = unindex(b, n)
  OBVIOUS
<1>2. PICK e : e = [u EXCEPT !.parked = With(@, n, t), !.queue = Append(@, <<t, n>>)]
  OBVIOUS
<1>3. r = e
  BY <1>0, <1>1, <1>2, <1>a DEF park, IsParked, Has, IsActive
<1>4. /\ u \in BookRec /\ Indexes(u, Live(b) \ {n}) /\ Touched(b, u, n)
      /\ u.orders = b.orders /\ u.parked = b.parked /\ u.queue = b.queue
  <2>1. b \in BookRec /\ Indexes(b, Live(b)) /\ Live(b) \in SUBSET Notes /\ n \in Live(b)
    BY <1>0
  <2> QED
    BY <2>1, <1>1, UnindexIndexes
<1>5. /\ Y \in OrderMap /\ DOMAIN Y = DOMAIN b.parked \cup {n}
      /\ Y[n] = t /\ \A m \in DOMAIN b.parked : m # n => Y[m] = b.parked[m]
  <2>1. n \in Notes /\ t \in Nat /\ b.parked \in OrderMap
    BY <1>0, <1>a, <1>m
  <2> QED
    BY <2>1, WithIs, Zenon
<1>6. Q \in Seq(Nat \X Notes)
  <2>1. <<t, n>> \in Nat \X Notes /\ b.queue \in Seq(Nat \X Notes)
    BY <1>0 DEF BookRec
  <2> QED
    BY <2>1, AppendProperties
<1>7. r = [orders |-> b.orders, index |-> u.index, count |-> u.count, adj |-> u.adj, parked |-> Y, queue |-> Q]
  <2>1. e = [u EXCEPT !.parked = Y, !.queue = Q]
    BY <1>2, <1>4
  <2> HIDE DEF Y, Q
  <2> QED
    BY <1>3, <1>4, <2>1, Zenon DEF BookRec
<1> HIDE DEF Y, Q
<1>8. r \in BookRec
  BY <1>4, <1>5, <1>6, <1>7, <1>m, SMTT(15) DEF BookRec
<1>9. Indexes(r, Live(b) \ {n}) /\ Touched(b, r, n)
  BY <1>4, <1>7 DEF Indexes, Touched
<1>10. Live(r) = Live(b) \ {n}
  BY <1>0, <1>5, <1>7 DEF Live
<1>11. Exact(r)
  BY <1>0, <1>5, <1>7, <1>8, <1>9, <1>10 DEF Exact
<1> QED
  BY <1>0, <1>5, <1>7, <1>9, <1>11, SMTT(15) DEF Q

\* unpark: the order is no longer parked, and is back in the index if it is active.
LEMMA UnparkKeeps ==
    ASSUME NEW b, Exact(b), NEW n \in Notes, NEW r, r = unpark(b, n)
    PROVE  Keeps(b, r, n) /\ n \notin DOMAIN r.parked
<1> DEFINE X == b.orders
           Y == Without(b.parked, n)
<1>0. b \in BookRec /\ Indexes(b, Live(b)) /\ Live(b) \in SUBSET Notes
  BY LiveNotes DEF Exact
<1>m. X \in OrderMap /\ b.parked \in OrderMap
  BY <1>0, LiveNotes
<1>1. CASE ~IsParked(b, n)
  BY <1>1, KeepsSame DEF unpark, IsParked
<1>2. CASE IsParked(b, n)
  <2>1. /\ Y \in OrderMap /\ DOMAIN Y = DOMAIN b.parked \ {n}
        /\ \A m \in DOMAIN b.parked \ {n} : Y[m] = b.parked[m]
    BY <1>m, WithoutIs, Zenon
  <2>2. PICK e : e = [b EXCEPT !.parked = Y]
    BY Zenon
  <2>3. r = reindex(e, n)
    BY <1>2, <2>2 DEF unpark
  <2> HIDE DEF Y
  <2>4. e = [orders |-> X, index |-> b.index, count |-> b.count, adj |-> b.adj, parked |-> Y, queue |-> b.queue]
    BY <1>0, <2>2, Zenon DEF BookRec
  <2>5. /\ e \in BookRec /\ e.orders = b.orders /\ e.parked = Y /\ e.queue = b.queue
        /\ Indexes(e, Live(b)) /\ (\A c, m : Touched(e, c, m) <=> Touched(b, c, m)) /\ Touched(b, e, n)
    BY <1>0, <1>m, <2>1, <2>4, SetOrders
  <2>6. /\ DOMAIN Y \subseteq DOMAIN b.orders /\ SubMap(Y, b.parked) /\ n \notin DOMAIN Y
        /\ \A m \in DOMAIN b.orders : b.orders[m] \in 0..Requested(m)
    BY <2>1 DEF Exact, SubMap
  <2>7. n \in Notes \ Live(b) /\ n \in DOMAIN b.orders
    BY <1>2 DEF Live, IsParked, Exact
  <2>8. CASE b.orders[n] > 0
    <3>1. r = index_insert(e, n)
      BY <2>3, <2>5, <2>7, <2>8, Zenon DEF reindex, Has, IsActive
    <3>2. /\ r \in BookRec /\ Indexes(r, Live(b) \cup {n}) /\ Touched(e, r, n)
          /\ r.orders = b.orders /\ r.parked = Y /\ r.queue = b.queue
      BY <1>0, <2>5, <2>7, <3>1, InsertIndexes
    <3>3. Live(r) = Live(b) \cup {n}
      BY <2>1, <2>7, <2>8, <3>2, Zenon DEF Live
    <3>4. Exact(r)
      BY <2>6, <3>2, <3>3, Zenon DEF Exact
    <3> QED
      BY <2>5, <2>6, <3>2, <3>4, Zenon DEF Keeps
  <2>9. CASE ~(b.orders[n] > 0)
    <3>1. r = e
      BY <2>3, <2>5, <2>9, Zenon DEF reindex, IsActive
    <3>2. Live(e) = Live(b)
      BY <2>1, <2>5, <2>9, Zenon DEF Live
    <3>3. Exact(e)
      BY <2>5, <2>6, <3>2 DEF Exact
    <3> QED
      BY <2>5, <2>6, <3>1, <3>3, Zenon DEF Keeps
  <2> QED
    BY <2>8, <2>9
<1> QED
  BY <1>1, <1>2

\* One turn of reactivate_parked_older_than: the head of the queue goes, and its
\* order is no longer parked.
LEMMA PopIs ==
    ASSUME NEW b, Exact(b), b.queue # <<>>, NEW r, r = pop_expired(b)
    PROVE  /\ Exact(r) /\ r.queue = Tail(b.queue) /\ SubMap(r.parked, b.parked)
           /\ b.queue[1][2] \in Notes /\ b.queue[1][2] \notin DOMAIN r.parked
           /\ Touched(b, r, b.queue[1][2])
<1> DEFINE n == b.queue[1][2]
           Q == Tail(b.queue)
<1>0. b \in BookRec /\ b.queue \in Seq(Nat \X Notes)
  BY DEF Exact, BookRec
<1>1. Q \in Seq(Nat \X Notes) /\ b.queue[1] \in Nat \X Notes /\ Head(b.queue) = b.queue[1]
  BY <1>0, HeadTailProperties
<1>2. n \in Notes
  BY <1>1
<1>3. PICK e : e = [b EXCEPT !.queue = Q]
  BY Zenon
<1>4. r = unpark(e, n)
  BY <1>1, <1>3 DEF pop_expired
<1> HIDE DEF n, Q
<1>5. e = [orders |-> b.orders, index |-> b.index, count |-> b.count, adj |-> b.adj, parked |-> b.parked, queue |-> Q]
  BY <1>0, <1>3, Zenon DEF BookRec
<1>6. e \in BookRec
  BY <1>0, <1>1, <1>5 DEF BookRec
<1>7. Exact(e)
  <2>1. Live(e) = Live(b)
    BY <1>5 DEF Live
  <2>2. Indexes(e, Live(b))
    BY <1>5 DEF Exact, Indexes
  <2> QED
    BY <1>5, <1>6, <2>1, <2>2 DEF Exact
<1>8. Keeps(e, r, n) /\ n \notin DOMAIN r.parked
  BY <1>2, <1>4, <1>7, UnparkKeeps, Zenon
<1>9. Touched(b, r, n)
  BY <1>5, <1>8 DEF Keeps, Touched
<1> QED
  BY <1>2, <1>5, <1>8, <1>9, Zenon DEF Keeps, n, Q

-----------------------------------------------------------------------------
(* The tick.                                                               *)

TickType ==
    /\ phase \in Phases /\ now \in 0..MaxTime
    /\ filled \subseteq Notes /\ items \in Seq(Notes)
    /\ consumed \subseteq Notes /\ feeds \in 0..MaxFeeds

\* What a step makes of the book.
Moves == Exact(book') /\ \A p \in Pairs : Priority(book.index[p], book'.index[p])

\* What the index shows is live.
LEMMA IndexedLive ==
    ASSUME Exact(book)
    PROVE  Indexed \subseteq Live(book)
BY DEF Exact, Indexes, Indexed

\* A step that leaves the book alone.
LEMMA MovesSame ==
    ASSUME Exact(book), book' = book
    PROVE  Moves
BY PriorityStays DEF Moves

\* An operation that keeps the book.
LEMMA KeepsMoves ==
    ASSUME NEW n, Keeps(book, book', n)
    PROVE  Moves /\ book'.queue = book.queue /\ SubMap(book'.parked, book.parked)
BY DEF Keeps, Moves, Touched

\* The empty book is exact.
LEMMA EmptyExact == Exact(EmptyBook)
<1> DEFINE b == EmptyBook
<1>1. b = [orders |-> NoOrders, index |-> [p \in Pairs |-> <<>>], count |-> [p \in Pairs |-> 0],
           adj |-> {}, parked |-> NoOrders, queue |-> <<>>]
  BY DEF EmptyBook
<1>2. NoOrders \in OrderMap /\ DOMAIN NoOrders = {}
  <2>1. NoOrders \in [{} -> Nat]
    BY DEF NoOrders
  <2> QED
    BY <2>1, Zenon DEF OrderMap, NoOrders
<1>3. <<>> \in Seq(Notes) /\ <<>> \in Seq(Nat \X Notes) /\ Len(<<>>) = 0 /\ DOMAIN <<>> = {}
  OBVIOUS
<1> HIDE DEF b
<1>4. b \in BookRec
  BY <1>1, <1>2, <1>3 DEF BookRec
<1>5. Live(b) = {}
  BY <1>1, <1>2 DEF Live
<1>6. Queue(<<>>) /\ ToSet(<<>>) = {}
  BY <1>3 DEF Queue, ToSet
<1>7. Indexes(b, {})
  BY <1>1, <1>3, <1>6 DEF Indexes
<1>8. DOMAIN b.parked \subseteq DOMAIN b.orders /\ \A n \in DOMAIN b.orders : b.orders[n] \in 0..Requested(n)
  BY <1>1, <1>2
<1>9. Exact(b)
  BY <1>4, <1>5, <1>7, <1>8, Zenon DEF Exact
<1> QED
  BY <1>9 DEF b

\* A trade fills orders of distinct pairs one after the other.
LEMMA TradeMoves ==
    ASSUME Exact(book), Trade
    PROVE  /\ Moves /\ book'.queue = book.queue /\ SubMap(book'.parked, book.parked)
           /\ \A n \in filled' \ filled : n \in Notes
<1>1. PICK legs \in (Indexed \X Indexed) \cup (Indexed \X Indexed \X Indexed) :
        /\ Closes(legs)
        /\ \E x \in 1..book.orders[legs[1]], y \in 1..book.orders[legs[2]], z \in 1..book.orders[legs[Len(legs)]] :
             book' = FillLegs(book, legs, <<x, y, z>>)
        /\ filled' = filled \cup ToSet(legs)
  BY DEF Trade
<1>2. PICK x \in 1..book.orders[legs[1]], y \in 1..book.orders[legs[2]], z \in 1..book.orders[legs[Len(legs)]] :
        book' = FillLegs(book, legs, <<x, y, z>>)
  BY <1>1, Zenon
<1>3. Len(legs) \in {2, 3} /\ DOMAIN legs = 1..Len(legs) /\ \A i \in 1..Len(legs) : legs[i] \in Live(book)
  <2>1. CASE legs \in Indexed \X Indexed
    <3>1. PICK a \in Indexed, b \in Indexed : legs = <<a, b>>
      BY <2>1
    <3> QED
      BY <3>1, IndexedLive
  <2>2. CASE legs \in Indexed \X Indexed \X Indexed
    <3>1. PICK a \in Indexed, b \in Indexed, c \in Indexed : legs = <<a, b, c>>
      BY <2>2
    <3> QED
      BY <3>1, IndexedLive
  <2> QED
    BY <2>1, <2>2
<1> DEFINE b1 == fill_and_cleanup(book, legs[1], x)
           b2 == fill_and_cleanup(b1, legs[2], y)
           b3 == fill_and_cleanup(b2, legs[3], z)
<1>4. book' = IF Len(legs) = 2 THEN b2 ELSE b3
  BY <1>2 DEF FillLegs
<1>5. \A i, j \in 1..Len(legs) : i # j => PairOf(legs[i]) # PairOf(legs[j])
  BY <1>1, <1>3 DEF Closes
<1>6. x \in 1..book.orders[legs[1]] /\ legs[1] \in Live(book) /\ legs[2] \in Live(book) \ {legs[1]}
  BY <1>2, <1>3, <1>5
<1>7. Keeps(book, b1, legs[1]) /\ \A m \in Live(book) \ {legs[1]} : m \in Live(b1) /\ b1.orders[m] = book.orders[m]
  BY <1>6, FillKeeps
<1> HIDE DEF b1
<1>8. Exact(b1) /\ legs[2] \in Live(b1) /\ y \in 1..b1.orders[legs[2]]
  BY <1>2, <1>6, <1>7 DEF Keeps
<1>9. Keeps(b1, b2, legs[2]) /\ \A m \in Live(b1) \ {legs[2]} : m \in Live(b2) /\ b2.orders[m] = b1.orders[m]
  BY <1>8, FillKeeps
<1> HIDE DEF b2
<1>10. /\ Exact(b2) /\ b2.queue = book.queue /\ SubMap(b2.parked, book.parked)
       /\ \A p \in Pairs : /\ Priority(book.index[p], b2.index[p])
                           /\ p \notin {PairOf(legs[1]), PairOf(legs[2])} => b2.index[p] = book.index[p]
  <2>1. PairOf(legs[1]) # PairOf(legs[2])
    BY <1>3, <1>5
  <2>2. Touched(book, b1, legs[1]) /\ Touched(b1, b2, legs[2])
    BY <1>7, <1>9 DEF Keeps
  <2>3. Exact(b2) /\ b2.queue = book.queue /\ SubMap(b2.parked, book.parked)
    BY <1>7, <1>9 DEF Keeps, SubMap
  <2> QED
    BY <2>1, <2>2, <2>3 DEF Touched
<1>11. ToSet(legs) \subseteq Notes
  <2>1. Live(book) \subseteq Notes
    BY LiveNotes DEF Exact
  <2> QED
    BY <1>3, <2>1 DEF ToSet
<1>12. CASE Len(legs) = 2
  BY <1>1, <1>4, <1>10, <1>11, <1>12, Zenon DEF Moves
<1>13. CASE Len(legs) = 3
  <2>1. legs[3] \in Live(book) /\ legs[3] # legs[1] /\ legs[3] # legs[2] /\ z \in 1..book.orders[legs[3]]
    BY <1>2, <1>3, <1>5, <1>13
  <2>2. legs[3] \in Live(b2) /\ z \in 1..b2.orders[legs[3]]
    BY <2>1, <1>7, <1>9, Zenon
  <2>3. Keeps(b2, b3, legs[3])
    BY <1>10, <2>2, FillKeeps
  <2> HIDE DEF b3
  <2>4. PairOf(legs[3]) # PairOf(legs[1]) /\ PairOf(legs[3]) # PairOf(legs[2])
    BY <1>3, <1>5, <1>13
  <2>5. book' = b3
    BY <1>4, <1>13
  <2>6. \A p \in Pairs : Priority(book.index[p], b3.index[p])
    BY <1>10, <2>3, <2>4, Zenon DEF Keeps, Touched
  <2>7. Exact(b3) /\ b3.queue = book.queue /\ SubMap(b3.parked, book.parked)
    BY <1>10, <2>3, Zenon DEF Keeps, SubMap
  <2> QED
    BY <1>1, <1>11, <2>5, <2>6, <2>7, Zenon DEF Moves
<1> QED
  BY <1>3, <1>12, <1>13

\* What the proofs keep of park_queue and the clock: entries are in the past and
\* in order, and a parked order has its own entry; when a tick comes to matching
\* with a router, no entry is left whose time has run out.
TimeInv ==
    /\ \A i \in DOMAIN book.queue : book.queue[i][1] <= now
    /\ \A i, j \in DOMAIN book.queue : i < j => book.queue[i][1] <= book.queue[j][1]
    /\ \A n \in DOMAIN book.parked : \E i \in DOMAIN book.queue : book.queue[i] = <<book.parked[n], n>>
    /\ phase = "match" /\ routing = TRUE => \A i \in DOMAIN book.queue : book.queue[i][1] + Ttl > now

TickInv == TickType /\ routing \in BOOLEAN /\ Exact(book) /\ TimeInv

\* Of the tick's entry into matching only the last step of Reactivate, with an
\* unexpired head, comes with a router.
LEMMA TimeKeeps ==
    ASSUME TimeInv, TickType, Exact(book), book'.queue = book.queue, SubMap(book'.parked, book.parked),
           now' \in Nat, now <= now',
           phase' = "match" /\ routing' = TRUE => phase = "match" /\ routing = TRUE /\ now' = now
    PROVE  TimeInv'
<1>1. \A i \in DOMAIN book.queue : book.queue[i][1] \in Nat
  BY DEF Exact, BookRec
<1>2. \A i \in DOMAIN book'.queue : book'.queue[i][1] <= now'
  BY <1>1 DEF TimeInv, TickType
<1>3. \A i, j \in DOMAIN book'.queue : i < j => book'.queue[i][1] <= book'.queue[j][1]
  BY DEF TimeInv
<1>4. \A n \in DOMAIN book'.parked : \E i \in DOMAIN book'.queue : book'.queue[i] = <<book'.parked[n], n>>
  BY Zenon DEF TimeInv, SubMap
<1>5. phase' = "match" /\ routing' = TRUE => \A i \in DOMAIN book'.queue : book'.queue[i][1] + Ttl > now'
  BY DEF TimeInv
<1> QED
  BY <1>2, <1>3, <1>4, <1>5, Zenon DEF TimeInv

\* The invariant holds at the start.
LEMMA TickInit == Init => TickInv
<1> SUFFICES ASSUME Init PROVE TickInv
  OBVIOUS
<1>1. Exact(book)
  BY EmptyExact DEF Init
<1>2. TickType
  BY TickBounds DEF Init, TickType, Phases
<1>3. routing \in BOOLEAN
  BY DEF Init
<1>4. book.queue = <<>> /\ DOMAIN book.queue = {} /\ DOMAIN book.parked = {} /\ phase = "idle"
  BY DEF Init, EmptyBook, NoOrders
<1>5. TimeInv
  BY <1>4 DEF TimeInv
<1> QED
  BY <1>1, <1>2, <1>3, <1>5 DEF TickInv

\* Every step keeps the types of the tick's own variables.
LEMMA TickTypeStep ==
    ASSUME TickInv, Next
    PROVE  TickType'
<1> USE TickBounds DEF TickInv, TickType, Phases
<1>1. CASE Tick
  BY <1>1 DEF Tick
<1>2. CASE ConsumedDrained
  BY <1>2 DEF ConsumedDrained
<1>3. CASE OrdersDrained
  BY <1>3 DEF OrdersDrained
<1>4. CASE Reactivate
  BY <1>4 DEF Reactivate
<1>5. CASE Trade
  <2>1. filled' \subseteq Notes
    BY <1>5, TradeMoves
  <2> QED
    BY <1>5, <2>1 DEF Trade
<1>6. CASE MatchDone
  BY <1>6 DEF MatchDone
<1>7. CASE RemoveFilled
  BY <1>7 DEF RemoveFilled
<1>8. CASE RouteSent
  BY <1>8 DEF RouteSent
<1>9. CASE RouteNotSent
  BY <1>9 DEF RouteNotSent
<1>10. CASE Rollback
  BY <1>10 DEF Rollback
<1>11. ASSUME NEW n \in Notes, DrainConsumed(n) \/ DrainOrder(n) \/ Pick(n) PROVE TickType'
  <2>1. CASE DrainConsumed(n)
    BY <2>1 DEF DrainConsumed
  <2>2. CASE DrainOrder(n)
    BY <2>2 DEF DrainOrder
  <2>3. CASE Pick(n)
    BY <2>3 DEF Pick
  <2> QED
    BY <1>11, <2>1, <2>2, <2>3, Zenon
<1> QED
  BY <1>1, <1>2, <1>3, <1>4, <1>5, <1>6, <1>7, <1>8, <1>9, <1>10, <1>11, Zenon DEF Next

\* The last turn of reactivate_parked_older_than: the head of park_queue has not
\* expired, so nothing behind it has.  An earlier turn takes the head off.
LEMMA ReactivateMoves ==
    ASSUME TickInv, Reactivate
    PROVE  Moves /\ TimeInv'
<1> USE TtlAssumption
<1> DEFINE q == book.queue
<1>1. q \in Seq(Nat \X Notes) /\ now \in Nat /\ Exact(book) /\ TimeInv /\ TickType /\ now' = now
  BY DEF TickInv, Exact, BookRec, TickType, Reactivate
<1>2. Len(q) \in Nat /\ DOMAIN q = 1..Len(q) /\ \A i \in DOMAIN q : q[i] \in Nat \X Notes /\ q[i][1] \in Nat
  BY <1>1
<1>3. CASE HeadExpired(book, Ttl, now)
  <2>1. q # <<>> /\ book' = pop_expired(book) /\ phase' = "reactivate"
    BY <1>3 DEF HeadExpired, Reactivate
  <2>2. /\ Exact(book') /\ book'.queue = Tail(q) /\ SubMap(book'.parked, book.parked)
        /\ q[1][2] \notin DOMAIN book'.parked /\ Touched(book, book', q[1][2])
    BY <1>1, <2>1, PopIs
  <2>3. Moves
    BY <2>2 DEF Moves, Touched
  <2>4. /\ DOMAIN book'.queue = 1..(Len(q) - 1)
        /\ \A i \in 1..(Len(q) - 1) : i + 1 \in DOMAIN q /\ book'.queue[i] = q[i + 1]
    BY <1>1, <1>2, <2>1, <2>2
  <2>5. ASSUME NEW i \in DOMAIN book'.queue PROVE book'.queue[i][1] <= now'
    <3>1. i + 1 \in DOMAIN q /\ book'.queue[i] = q[i + 1]
      BY <2>4
    <3> QED
      BY <1>1, <3>1 DEF TimeInv
  <2>6. ASSUME NEW i \in DOMAIN book'.queue, NEW j \in DOMAIN book'.queue, i < j
        PROVE  book'.queue[i][1] <= book'.queue[j][1]
    <3>1. i + 1 \in DOMAIN q /\ j + 1 \in DOMAIN q /\ i + 1 < j + 1
      BY <1>2, <2>4, <2>6
    <3>2. q[i + 1][1] <= q[j + 1][1]
      BY <1>1, <3>1 DEF TimeInv
    <3> QED
      BY <2>4, <3>2
  <2>7. ASSUME NEW n \in DOMAIN book'.parked
        PROVE  \E i \in DOMAIN book'.queue : book'.queue[i] = <<book'.parked[n], n>>
    <3>1. PICK i \in DOMAIN q : q[i] = <<book'.parked[n], n>>
      BY <1>1, <2>2 DEF TimeInv, SubMap
    <3>2. i # 1
      BY <2>2, <3>1
    <3>3. i - 1 \in 1..(Len(q) - 1) /\ (i - 1) + 1 = i
      BY <1>2, <3>1, <3>2
    <3> QED
      BY <2>4, <3>1, <3>3, Zenon
  <2> QED
    BY <2>1, <2>3, <2>5, <2>6, <2>7, Zenon DEF TimeInv
<1>4. CASE ~HeadExpired(book, Ttl, now)
  <2>1. book' = book /\ phase' = "match" /\ routing' = routing
    BY <1>4 DEF Reactivate
  <2>2. ASSUME NEW i \in DOMAIN q PROVE q[i][1] + Ttl > now
    <3>1. q # <<>> /\ 1 \in DOMAIN q /\ Head(q) = q[1]
      BY <1>1, <1>2, <2>2
    <3>2. ~(q[1][1] + Ttl <= now)
      BY <1>4, <3>1 DEF HeadExpired
    <3>3. q[1][1] <= q[i][1]
      <4>1. CASE i = 1
        BY <4>1, <1>2, <3>1
      <4>2. CASE i # 1
        BY <4>2, <1>1, <1>2, <3>1 DEF TimeInv
      <4> QED
        BY <4>1, <4>2
    <3> QED
      BY <1>1, <1>2, <3>1, <3>2, <3>3
  <2>3. Moves
    BY <1>1, <2>1, MovesSame, Zenon
  <2> QED
    BY <1>1, <2>1, <2>2, <2>3, Zenon DEF TimeInv
<1> QED
  BY <1>3, <1>4, Zenon

\* A pick appends its entry at the current time, which no entry is ahead of.
LEMMA PickMoves ==
    ASSUME TickInv, NEW n \in Notes, Pick(n)
    PROVE  Moves /\ TimeInv'
<1> DEFINE q == book.queue
<1>1. q \in Seq(Nat \X Notes) /\ now \in Nat /\ Exact(book) /\ TimeInv /\ now' = now /\ phase' = "route"
  BY DEF TickInv, Exact, BookRec, TickType, Pick
<1>2. n \in Live(book) /\ book' = park(book, n, now)
  BY <1>1, IndexedLive DEF Pick
<1>3. /\ Exact(book') /\ Touched(book, book', n) /\ book'.queue = Append(q, <<now, n>>)
      /\ DOMAIN book'.parked = DOMAIN book.parked \cup {n} /\ book'.parked[n] = now
      /\ \A m \in DOMAIN book.parked : m # n /\ book'.parked[m] = book.parked[m]
  BY <1>1, <1>2, ParkIs
<1>4. Moves
  BY <1>3, Zenon DEF Moves, Touched
<1>5. /\ Len(q) \in Nat /\ DOMAIN q = 1..Len(q) /\ DOMAIN book'.queue = 1..(Len(q) + 1)
      /\ book'.queue[Len(q) + 1] = <<now, n>>
      /\ \A i \in DOMAIN q : i \in DOMAIN book'.queue /\ book'.queue[i] = q[i]
      /\ \A i \in DOMAIN q : q[i][1] \in Nat /\ q[i][1] <= now
  BY <1>1, <1>3 DEF TimeInv
<1>6. ASSUME NEW i \in DOMAIN book'.queue PROVE book'.queue[i][1] <= now'
  BY <1>1, <1>5
<1>7. ASSUME NEW i \in DOMAIN book'.queue, NEW j \in DOMAIN book'.queue, i < j
      PROVE  book'.queue[i][1] <= book'.queue[j][1]
  <2>1. i \in DOMAIN q
    BY <1>5, <1>7
  <2>2. CASE j \in DOMAIN q
    BY <1>1, <1>5, <1>7, <2>1, <2>2, Zenon DEF TimeInv
  <2>3. CASE j = Len(q) + 1
    BY <1>5, <2>1, <2>3
  <2> QED
    BY <1>5, <2>2, <2>3
<1>8. ASSUME NEW m \in DOMAIN book'.parked
      PROVE  \E i \in DOMAIN book'.queue : book'.queue[i] = <<book'.parked[m], m>>
  <2>1. CASE m = n
    <3>1. Len(q) + 1 \in DOMAIN book'.queue
      BY <1>5
    <3> QED
      BY <1>3, <1>5, <2>1, <3>1, Zenon
  <2>2. CASE m # n
    <3>1. PICK i \in DOMAIN q : q[i] = <<book.parked[m], m>>
      BY <1>1, <1>3, <2>2, Zenon DEF TimeInv
    <3> QED
      BY <1>3, <1>5, <2>2, <3>1, Zenon
  <2> QED
    BY <2>1, <2>2
<1> QED
  BY <1>1, <1>4, <1>6, <1>7, <1>8, Zenon DEF TimeInv

\* What every step makes of the book, of park_queue and of the clock.
LEMMA TickStep ==
    ASSUME TickInv, Next
    PROVE  Moves /\ TimeInv' /\ routing' \in BOOLEAN
<1>0. TickType /\ Exact(book) /\ TimeInv /\ routing \in BOOLEAN /\ now \in Nat /\ now <= now
  BY DEF TickInv, TickType
<1>1. SubMap(book.parked, book.parked)
  BY DEF SubMap
<1>2. CASE Tick
  <2>1. book' = book /\ now' \in Nat /\ now <= now' /\ phase' = "consumed" /\ routing' = routing
    BY <1>0, <1>2, TickBounds DEF Tick
  <2>2. Moves
    BY <1>0, <2>1, MovesSame
  <2>3. TimeInv'
    BY <1>0, <1>1, <2>1, TimeKeeps
  <2> QED
    BY <1>0, <2>1, <2>2, <2>3
<1>3. ASSUME book' = book, now' = now, routing' \in BOOLEAN, phase' = "match" => phase = "match" /\ routing' = routing
      PROVE  Moves /\ TimeInv' /\ routing' \in BOOLEAN
  <2>1. Moves
    BY <1>0, <1>3, MovesSame
  <2>2. TimeInv'
    BY <1>0, <1>1, <1>3, TimeKeeps, Zenon
  <2> QED
    BY <1>3, <2>1, <2>2
<1>4. ASSUME Moves, book'.queue = book.queue, SubMap(book'.parked, book.parked),
             now' = now, routing' = routing, phase' = phase
      PROVE  Moves /\ TimeInv' /\ routing' \in BOOLEAN
  <2>2. TimeInv'
    BY <1>0, <1>4, TimeKeeps, Zenon
  <2> QED
    BY <1>0, <1>4, <2>2
<1>5. CASE ConsumedDrained
  BY <1>0, <1>3, <1>5 DEF ConsumedDrained
<1>6. CASE OrdersDrained
  <2>1. book' = book /\ now' = now /\ routing' = routing /\ phase' # phase
        /\ (phase' = "match" => routing' = FALSE)
    BY <1>0, <1>6 DEF OrdersDrained
  <2>2. Moves
    BY <1>0, <2>1, MovesSame
  <2>3. TimeInv'
    BY <1>0, <1>1, <2>1, TimeKeeps, Zenon
  <2> QED
    BY <1>0, <2>1, <2>2, <2>3
<1>7. CASE Reactivate
  BY <1>0, <1>7, ReactivateMoves DEF Reactivate
<1>8. CASE Trade
  BY <1>0, <1>4, <1>8, TradeMoves, Zenon DEF Trade
<1>9. CASE MatchDone
  BY <1>0, <1>3, <1>9 DEF MatchDone
<1>10. CASE RemoveFilled
  <2>1. CASE filled = {}
    <3>1. book' = book /\ now' = now /\ routing' = routing /\ phase' # "match"
      BY <1>10, <2>1 DEF RemoveFilled
    <3> QED
      BY <1>0, <1>3, <3>1
  <2>2. CASE filled # {}
    <3>1. PICK n \in filled : book' = remove_order(book, n)
      BY <1>10, <2>2 DEF RemoveFilled
    <3>2. n \in Notes
      BY <1>0 DEF TickType
    <3>3. Keeps(book, book', n)
      BY <1>0, <3>1, <3>2, RemoveKeeps, Zenon
    <3>4. now' = now /\ routing' = routing /\ phase' = phase
      BY <1>10, <2>2 DEF RemoveFilled
    <3> QED
      BY <1>4, <3>3, <3>4, KeepsMoves, Zenon
  <2> QED
    BY <2>1, <2>2
<1>11. CASE RouteSent
  BY <1>0, <1>3, <1>11 DEF RouteSent
<1>12. CASE RouteNotSent
  BY <1>0, <1>3, <1>12 DEF RouteNotSent
<1>13. CASE Rollback
  <2>1. CASE items = <<>>
    <3>1. book' = book /\ now' = now /\ routing' = routing /\ phase' # "match"
      BY <1>13, <2>1 DEF Rollback
    <3> QED
      BY <1>0, <1>3, <3>1
  <2>2. CASE items # <<>>
    <3>1. book' = unpark(book, Head(items)) /\ now' = now /\ routing' = routing /\ phase' = phase
      BY <1>13, <2>2 DEF Rollback
    <3>2. Head(items) \in Notes
      BY <1>0, <2>2 DEF TickType
    <3>3. Keeps(book, book', Head(items))
      BY <1>0, <3>1, <3>2, UnparkKeeps, Zenon
    <3> QED
      BY <1>4, <3>1, <3>3, KeepsMoves, Zenon
  <2> QED
    BY <2>1, <2>2, Zenon
<1>14. ASSUME NEW n \in Notes, DrainConsumed(n)
       PROVE  Moves /\ TimeInv' /\ routing' \in BOOLEAN
  <2>1. book' = remove_order(book, n) /\ now' = now /\ routing' = routing /\ phase' = phase
    BY <1>14 DEF DrainConsumed
  <2>2. Keeps(book, book', n)
    BY <1>0, <2>1, RemoveKeeps, Zenon
  <2> QED
    BY <1>4, <2>1, <2>2, KeepsMoves, Zenon
<1>15. ASSUME NEW n \in Notes, DrainOrder(n)
       PROVE  Moves /\ TimeInv' /\ routing' \in BOOLEAN
  <2>1. book' = add_user_order(book, n) /\ now' = now /\ routing' = routing /\ phase' = phase
    BY <1>15 DEF DrainOrder
  <2>2. Keeps(book, book', n)
    BY <1>0, <2>1, AddKeeps
  <2> QED
    BY <1>4, <2>1, <2>2, KeepsMoves
<1>16. ASSUME NEW n \in Notes, Pick(n)
       PROVE  Moves /\ TimeInv' /\ routing' \in BOOLEAN
  BY <1>0, <1>16, PickMoves DEF Pick
<1> QED
  BY <1>2, <1>5, <1>6, <1>7, <1>8, <1>9, <1>10, <1>11, <1>12, <1>13, <1>14, <1>15, <1>16, SMTT(15) DEF Next

\* The invariant of the tick.
LEMMA TickTyped == Spec => []TickInv
<1>1. TickInv /\ [Next]_vars => TickInv'
  <2> SUFFICES ASSUME TickInv, [Next]_vars PROVE TickInv'
    OBVIOUS
  <2>1. CASE Next
    BY <2>1, TickStep, TickTypeStep, Zenon DEF TickInv, Moves
  <2>2. CASE UNCHANGED vars
    BY <2>2, Zenon DEF vars, TickInv, TickType, TimeInv
  <2> QED
    BY <2>1, <2>2
<1> QED
  BY <1>1, TickInit, PTL DEF Spec

\* A queue without repetitions is as long as the set it holds.
LEMMA QueueLength ==
    ASSUME NEW q, Queue(q)
    PROVE  Len(q) = Cardinality(ToSet(q))
<1>1. q \in Seq(Notes) /\ Len(q) \in Nat /\ DOMAIN q = 1..Len(q)
  BY DEF Queue
<1>2. q \in Bijection(1..Len(q), ToSet(q))
  <2>1. q \in [1..Len(q) -> ToSet(q)]
    BY <1>1 DEF ToSet
  <2>2. q \in Injection(1..Len(q), ToSet(q))
    BY <1>1, <2>1 DEF Queue, Injection, IsInjective
  <2>3. q \in Surjection(1..Len(q), ToSet(q))
    BY <1>1, <2>1 DEF ToSet, Surjection
  <2> QED
    BY <2>2, <2>3 DEF Bijection
<1>3. ExistsBijection(1..Len(q), ToSet(q))
  BY <1>2 DEF ExistsBijection
<1> QED
  BY <1>1, <1>3, FS_CountingElements

\* For any orders, rates, clock and traffic: an order of the book is in exactly
\* one of indexed, parked and filled, the index, the pair counters and the
\* adjacency agree, and every variable keeps its type.
THEOREM BookIsExact == Spec => []IndexExact
<1>1. TickInv => IndexExact
  <2> SUFFICES ASSUME TickInv PROVE IndexExact
    OBVIOUS
  <2>0. TickType /\ Exact(book) /\ TimeInv /\ routing \in BOOLEAN /\ book \in BookRec
    BY DEF TickInv, Exact
  <2>1. /\ Live(book) \in SUBSET Notes /\ DOMAIN book.orders \subseteq Notes /\ DOMAIN book.parked \subseteq Notes
        /\ \A n \in DOMAIN book.orders : book.orders[n] \in Nat
        /\ \A n \in DOMAIN book.parked : book.parked[n] \in Nat
    BY <2>0, LiveNotes
  <2>2. book.queue \in Seq((0..MaxTime) \X Notes)
    <3>1. book.queue \in Seq(Nat \X Notes)
      BY <2>0 DEF BookRec
    <3>2. Len(book.queue) \in Nat /\ DOMAIN book.queue = 1..Len(book.queue)
      BY <3>1
    <3>3. ASSUME NEW i \in 1..Len(book.queue) PROVE book.queue[i] \in (0..MaxTime) \X Notes
      <4>1. PICK t \in Nat, n \in Notes : book.queue[i] = <<t, n>>
        BY <3>1
      <4>2. t <= now /\ now \in 0..MaxTime
        BY <2>0, <3>2, <4>1 DEF TimeInv, TickType
      <4>3. t \in 0..MaxTime
        BY <4>2, TickBounds
      <4> QED
        BY <4>1, <4>3
    <3>4. book.queue \in [1..Len(book.queue) -> (0..MaxTime) \X Notes]
      <4>1. book.queue = [i \in 1..Len(book.queue) |-> book.queue[i]]
        BY <3>1, <3>2
      <4> QED
        BY <3>3, <4>1
    <3> QED
      BY <3>2, <3>4, SeqDef
  <2>3. ASSUME NEW n \in DOMAIN book.parked PROVE book.parked[n] \in 0..MaxTime
    <3>1. PICK i \in DOMAIN book.queue : book.queue[i] = <<book.parked[n], n>>
      BY <2>0, Zenon DEF TimeInv
    <3>2. book.queue[i] \in (0..MaxTime) \X Notes
      BY <2>2, <3>1
    <3> QED
      BY <3>1, <3>2
  <2>4. \A p \in Pairs : book.index[p] \in Seq(Notes) /\ book.count[p] \in Nat
    BY <2>0 DEF BookRec
  <2>5. TypeOK
    <3>1. /\ DOMAIN book.parked \subseteq DOMAIN book.orders /\ book.adj \subseteq Pairs
          /\ \A n \in DOMAIN book.orders : book.orders[n] \in 0..Requested(n)
      BY <2>0 DEF Exact, BookRec
    <3> QED
      BY <2>0, <2>1, <2>2, <2>3, <2>4, <3>1, SMTT(15) DEF TypeOK, TickType
  <2>6. ASSUME NEW p \in Pairs
        PROVE  LET q == book.index[p]
                   active == {n \in DOMAIN book.orders : book.orders[n] > 0 /\ PairOf(n) = p}
               IN /\ ToSet(q) = active \ DOMAIN book.parked
                  /\ book.count[p] = Len(q) /\ Len(q) = Cardinality(ToSet(q))
                  /\ p \in book.adj <=> q # <<>>
    <3>1. /\ Queue(book.index[p]) /\ ToSet(book.index[p]) = {n \in Live(book) : PairOf(n) = p}
          /\ book.count[p] = Len(book.index[p])
          /\ p \in book.adj <=> book.index[p] # <<>>
      BY <2>0 DEF Exact, Indexes
    <3>2. Len(book.index[p]) = Cardinality(ToSet(book.index[p]))
      BY <3>1, QueueLength, Zenon
    <3> QED
      BY <3>1, <3>2, Zenon DEF Live
  <2> QED
    BY <2>5, <2>6 DEF IndexExact
<1> QED
  BY <1>1, TickTyped, PTL

\* For any clock and traffic, no order whose time in flight has run out is still
\* parked when a tick with a router comes to matching.
THEOREM NoShowsReturn == Spec => []NoShowReturns
<1>1. TickInv => NoShowReturns
  <2> SUFFICES ASSUME TickInv, phase = "match", routing = TRUE, NEW n \in DOMAIN book.parked
               PROVE  book.parked[n] + Ttl > now
    BY Zenon DEF NoShowReturns, TickInv
  <2>1. PICK i \in DOMAIN book.queue : book.queue[i] = <<book.parked[n], n>>
    BY Zenon DEF TickInv, TimeInv
  <2>2. book.queue[i][1] + Ttl > now
    BY DEF TickInv, TimeInv
  <2> QED
    BY <2>1, <2>2
<1> QED
  BY <1>1, TickTyped, PTL

\* In a queue, of two orders at different rates the cheaper one is in front.
LEMMA CheaperInFront ==
    ASSUME NEW r, Queue(r), NEW a \in ToSet(r), NEW b \in ToSet(r), Cheaper(a, b)
    PROVE  Before(r, a, b)
<1>1. PICK i \in DOMAIN r, j \in DOMAIN r : r[i] = a /\ r[j] = b
  BY DEF ToSet
<1>2. r \in Seq(Notes) /\ i \in Nat /\ j \in Nat /\ a \in Notes /\ b \in Notes
  BY <1>1 DEF Queue
<1>3. ~(j < i)
  BY <1>1 DEF Queue
<1>4. a # b
  BY <1>2, RateAssumption
<1>5. i < j
  BY <1>1, <1>2, <1>3, <1>4
<1> QED
  BY <1>1, <1>5 DEF Before

\* For any orders, rates and traffic, within a pair the cheaper order stands in
\* front, orders that stay are never reordered, and whoever joins stands behind
\* everyone of its own rate.
THEOREM PriceTime == Spec => PriceTimePriority
<1> DEFINE Kept ==
        \A p \in Pairs :
            LET q == book.index[p]
                r == book'.index[p]
                stay == ToSet(q) \cap ToSet(r)
            IN /\ \A a, b \in ToSet(r) : Cheaper(a, b) => Before(r, a, b)
               /\ \A a, b \in stay : Before(q, a, b) => Before(r, a, b)
               /\ \A a \in stay, b \in ToSet(r) \ stay : ~Cheaper(b, a) => Before(r, a, b)
<1>1. TickInv /\ [Next]_vars => [Kept]_vars
  <2> SUFFICES ASSUME TickInv, Next PROVE Kept
    BY Zenon
  <2>1. Moves
    BY TickStep, Zenon
  <2>2. \A p \in Pairs : Queue(book'.index[p]) /\ Priority(book.index[p], book'.index[p])
    BY <2>1 DEF Moves, Exact, Indexes
  <2>3. ASSUME NEW p \in Pairs PROVE \A a, b \in ToSet(book'.index[p]) : Cheaper(a, b) => Before(book'.index[p], a, b)
    BY <2>2, CheaperInFront
  <2> QED
    BY <2>2, <2>3, Zenon DEF Priority
<1> QED
  BY <1>1, TickTyped, PTL DEF Spec, PriceTimePriority

=============================================================================
