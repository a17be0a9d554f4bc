--------------------------- MODULE OrderMathProofs ---------------------------
(***************************************************************************)
(* The arithmetic of an order, for amounts of any size.                    *)
(***************************************************************************)
EXTENDS OrderMath, TLAPS

Positive == Nat \ {0}
Terms == [offered : Positive, requested : Positive]

\* What the integer division returns.
LEMMA DivBounds ==
    ASSUME NEW a \in Nat, NEW d \in Positive
    PROVE  a \div d \in Nat /\ d * (a \div d) <= a /\ a < d * (a \div d) + d
BY DEF Positive

\* A common positive factor can be cancelled.
LEMMA MulCancel ==
    ASSUME NEW d \in Positive, NEW u \in Nat, NEW v \in Nat, d * u < d * v
    PROVE  u < v
<1> SUFFICES ASSUME v <= u PROVE FALSE
  OBVIOUS
<1>1. PICK k \in Nat : u = v + k
  <2>1. u - v \in Nat /\ u = v + (u - v)
    OBVIOUS
  <2> QED
    BY <2>1
<1>2. d * u = d * v + d * k
  BY <1>1 DEF Positive
<1>3. d * k \in Nat /\ d * v \in Nat
  BY DEF Positive
<1> QED
  BY <1>2, <1>3

\* Filling an order in parts never releases more than filling it at once: what
\* the partial fills of match_with release is covered by the single settlement
\* of the whole fill on chain.
THEOREM FillsInParts ==
    ASSUME NEW o \in Terms, NEW x \in Nat, NEW y \in Nat
    PROVE  offered_for(o, x) + offered_for(o, y) <= offered_for(o, x + y)
<1> DEFINE p == o.offered
           r == o.requested
           qx == (p * x) \div r
           qy == (p * y) \div r
           q == (p * (x + y)) \div r
<1>1. p \in Nat /\ r \in Positive /\ r \in Nat
  BY DEF Terms, Positive
<1>2. p * x \in Nat /\ p * y \in Nat /\ p * (x + y) \in Nat /\ p * (x + y) = p * x + p * y
  BY <1>1
<1> HIDE DEF p, r
<1>3. qx \in Nat /\ r * qx <= p * x
  BY <1>1, <1>2, DivBounds
<1>4. qy \in Nat /\ r * qy <= p * y
  BY <1>1, <1>2, DivBounds
<1>5. q \in Nat /\ p * (x + y) < r * q + r
  BY <1>1, <1>2, DivBounds
<1> HIDE DEF qx, qy, q
<1>6. r * (qx + qy) = r * qx + r * qy /\ r * (q + 1) = r * q + r
  BY <1>1, <1>3, <1>4, <1>5
<1>7. r * qx \in Nat /\ r * qy \in Nat /\ r * q \in Nat
  BY <1>1, <1>3, <1>4, <1>5
<1>8. r * (qx + qy) < r * (q + 1)
  BY <1>1, <1>2, <1>3, <1>4, <1>5, <1>6, <1>7
<1>9. qx + qy < q + 1
  BY <1>1, <1>3, <1>4, <1>5, <1>8, MulCancel
<1>10. qx + qy <= q
  BY <1>3, <1>4, <1>5, <1>9
<1> QED
  BY <1>10 DEF offered_for, p, r, qx, qy, q

\* An order never releases more than it offers, and exactly that when it is
\* filled: the cast of calculate_output_amount back to u64 loses nothing.
THEOREM ReleaseBounded ==
    ASSUME NEW o \in Terms, NEW x \in 0..o.requested
    PROVE  /\ offered_for(o, x) \in 0..o.offered
           /\ offered_for(o, o.requested) = o.offered
<1> DEFINE p == o.offered
           r == o.requested
           q == (p * x) \div r
           f == (p * r) \div r
<1>1. p \in Nat /\ r \in Positive /\ r \in Nat /\ r > 0 /\ x \in Nat /\ x <= r
  BY DEF Terms, Positive
<1>2. p * x \in Nat /\ p * r \in Nat /\ p * x <= p * r
  <2>1. PICK k \in Nat : r = x + k
    <3>1. r - x \in Nat /\ r = x + (r - x)
      BY <1>1
    <3> QED
      BY <3>1
  <2>2. p * r = p * x + p * k
    BY <1>1, <2>1
  <2>3. p * x \in Nat /\ p * k \in Nat
    BY <1>1
  <2> QED
    BY <2>2, <2>3
<1> HIDE DEF p, r
<1>3. q \in Nat /\ r * q <= p * x
  BY <1>1, <1>2, DivBounds
<1>4. f \in Nat /\ r * f <= p * r /\ p * r < r * f + r
  BY <1>1, <1>2, DivBounds
<1> HIDE DEF q, f
<1>5. r * q \in Nat /\ r * f \in Nat /\ r * (p + 1) = p * r + r /\ r * (f + 1) = r * f + r /\ r * p = p * r
  BY <1>1, <1>3, <1>4
<1>6. q <= p
  <2>1. r * q < r * (p + 1)
    BY <1>1, <1>2, <1>3, <1>5
  <2>2. q < p + 1
    BY <1>1, <1>3, <2>1, MulCancel
  <2> QED
    BY <1>1, <1>3, <2>2
<1>7. f = p
  <2>1. r * f < r * (p + 1) /\ r * p < r * (f + 1)
    BY <1>1, <1>2, <1>4, <1>5
  <2>2. f < p + 1 /\ p < f + 1
    BY <1>1, <1>4, <2>1, MulCancel
  <2> QED
    BY <1>1, <1>4, <2>2
<1> QED
  BY <1>1, <1>3, <1>6, <1>7 DEF offered_for, p, r, q, f

\* What the fills of a trade are: at least one unit on each side, within what
\* each order still requests, and each side covered by the other's release.
LEMMA TradeAmounts ==
    ASSUME NEW a \in Terms, NEW b \in Terms, NEW ra \in 0..a.requested, NEW rb \in 0..b.requested,
           CanTrade(a, ra, b, rb)
    PROVE  LET t == Trade(a, ra, b, rb)
           IN /\ t.sends \in 1..rb /\ t.receives \in 1..ra
              /\ t.releases = offered_for(a, t.receives) /\ t.other_releases = offered_for(b, t.sends)
              /\ t.sends <= t.releases /\ t.receives <= t.other_releases
<1> DEFINE sends == Min2(offered_for(a, ra), rb)
           other == offered_for(b, Min2(sends, rb))
           recv == Min2(other, ra)
<1>1. ra \in Nat /\ rb \in Nat /\ ra > 0 /\ rb > 0
  BY DEF CanTrade, Terms, Positive
<1>2. offered_for(a, ra) \in Nat
  BY ReleaseBounded DEF Terms, Positive
<1>3. sends \in Nat /\ sends <= rb /\ Min2(sends, rb) = sends
  BY <1>1, <1>2 DEF Min2
<1>4. sends \in 0..b.requested
  BY <1>1, <1>3 DEF Terms, Positive
<1>5. other = offered_for(b, sends) /\ other \in Nat
  BY <1>3, <1>4, ReleaseBounded DEF Terms, Positive
<1>6. sends > 0 /\ other > 0 /\ sends <= offered_for(a, recv)
  BY DEF CanTrade, Trade, offered_remaining
<1> HIDE DEF sends, other
<1>7. recv \in 1..ra /\ recv <= other
  BY <1>1, <1>5, <1>6 DEF Min2
<1>8. Trade(a, ra, b, rb) = [sends |-> sends, other_releases |-> other,
                             receives |-> recv, releases |-> offered_for(a, recv)]
  BY DEF Trade, sends, other, offered_remaining
<1> QED
  BY <1>1, <1>3, <1>5, <1>6, <1>7, <1>8

\* A trade of match_with leaves the protocol's balance backed: whatever the two
\* orders were filled with before (fa and fb), the settlement of the larger fill
\* releases what the other side takes and the surplus that is credited.
THEOREM TradeStaysBacked ==
    ASSUME NEW a \in Terms, NEW b \in Terms, NEW ra \in 0..a.requested, NEW rb \in 0..b.requested,
           NEW fa \in Nat, NEW fb \in Nat, CanTrade(a, ra, b, rb)
    PROVE  LET t == Trade(a, ra, b, rb)
           IN /\ offered_for(a, fa) + t.sends + SatSub(t.releases, t.sends)
                    <= offered_for(a, fa + t.receives)
              /\ offered_for(b, fb) + t.receives + SatSub(t.other_releases, t.receives)
                    <= offered_for(b, fb + t.sends)
<1> DEFINE t == Trade(a, ra, b, rb)
<1>1. /\ t.sends \in 1..rb /\ t.receives \in 1..ra
      /\ t.releases = offered_for(a, t.receives) /\ t.other_releases = offered_for(b, t.sends)
      /\ t.sends <= t.releases /\ t.receives <= t.other_releases
  BY TradeAmounts
<1> HIDE DEF t
<1>2. ra \in Nat /\ rb \in Nat /\ ra <= a.requested /\ rb <= b.requested /\ a.requested \in Nat /\ b.requested \in Nat
  BY DEF Terms, Positive
<1>3. t.sends \in Nat /\ t.receives \in Nat /\ t.sends \in 0..b.requested /\ t.receives \in 0..a.requested
  BY <1>1, <1>2
<1>4. t.releases \in Nat /\ t.other_releases \in Nat
  BY <1>1, <1>3, ReleaseBounded DEF Terms, Positive
<1>5. t.sends + SatSub(t.releases, t.sends) = t.releases
  BY <1>1, <1>3, <1>4 DEF SatSub
<1>6. t.receives + SatSub(t.other_releases, t.receives) = t.other_releases
  BY <1>1, <1>3, <1>4 DEF SatSub
<1>7. offered_for(a, fa) + t.releases <= offered_for(a, fa + t.receives)
  BY <1>1, <1>3, FillsInParts, Zenon
<1>8. offered_for(b, fb) + t.other_releases <= offered_for(b, fb + t.sends)
  BY <1>1, <1>3, FillsInParts, Zenon
<1>9. offered_for(a, fa) \in Nat /\ offered_for(b, fb) \in Nat
  <2>1. a.offered * fa \in Nat /\ b.offered * fb \in Nat
    BY DEF Terms, Positive
  <2>2. a.requested \in Positive /\ b.requested \in Positive
    BY DEF Terms
  <2> QED
    BY <2>1, <2>2, DivBounds DEF offered_for
<1>10. SatSub(t.releases, t.sends) \in Nat /\ SatSub(t.other_releases, t.receives) \in Nat
  BY <1>3, <1>4 DEF SatSub
<1>11. /\ offered_for(a, fa) + t.sends + SatSub(t.releases, t.sends) = offered_for(a, fa) + t.releases
       /\ offered_for(b, fb) + t.receives + SatSub(t.other_releases, t.receives) = offered_for(b, fb) + t.other_releases
  BY <1>3, <1>4, <1>5, <1>6, <1>9, <1>10
<1> QED
  BY <1>7, <1>8, <1>11 DEF t

\* A quotient is at least what the dividend covers.
LEMMA DivAtLeast ==
    ASSUME NEW a \in Nat, NEW d \in Positive, NEW m \in Nat, m * d <= a
    PROVE  m <= a \div d
<1> DEFINE q == a \div d
<1>1. q \in Nat /\ a < d * q + d
  BY DivBounds
<1> HIDE DEF q
<1>2. d * q \in Nat /\ d * m \in Nat /\ d * m = m * d /\ d * (q + 1) = d * q + d /\ q + 1 \in Nat
  BY <1>1 DEF Positive
<1>3. d * m < d * (q + 1)
  <2>1. d \in Nat /\ d * m <= a
    BY <1>2 DEF Positive
  <2> QED
    BY <1>1, <1>2, <2>1
<1>4. m < q + 1
  BY <1>2, <1>3, MulCancel
<1> QED
  BY <1>1, <1>4 DEF q

\* Two untouched orders whose rates cross always trade, and one of them is filled
\* completely: no rounding makes match_with give up on them.
THEOREM CrossingOrdersTrade ==
    ASSUME NEW a \in Terms, NEW b \in Terms, is_profitable_with(a, b)
    PROVE  /\ CanTrade(a, a.requested, b, b.requested)
           /\ LET t == Trade(a, a.requested, b, b.requested)
              IN t.receives = a.requested \/ t.sends = b.requested
<1> DEFINE ao == a.offered
           ar == a.requested
           bo == b.offered
           br == b.requested
           sends == Min2(ao, br)
           other == (bo * sends) \div br
           recv == Min2(other, ar)
           rel == (ao * recv) \div ar
<1>1. ao \in Nat /\ ar \in Nat /\ bo \in Nat /\ br \in Nat /\ ao > 0 /\ ar > 0 /\ bo > 0 /\ br > 0
      /\ ar \in Positive /\ br \in Positive
  BY DEF Terms, Positive
<1>2. offered_for(a, ar) = ao /\ offered_for(b, br) = bo
  BY <1>1, ReleaseBounded
<1>3. ao * bo > ar * br /\ ao * bo \in Nat /\ ar * br \in Nat
  BY <1>1 DEF is_profitable_with
<1>4. (ao * ar) \div ar = ao /\ (bo * br) \div br = bo
  BY <1>2 DEF offered_for
<1>5. offered_remaining(a, ar) = ao /\ offered_remaining(b, br) = bo
  BY <1>2 DEF offered_remaining
<1>6. Min2(sends, br) = sends /\ sends \in Nat /\ sends > 0
  BY <1>1 DEF Min2
<1>7. Trade(a, ar, b, br) = [sends |-> sends, other_releases |-> other, receives |-> recv, releases |-> rel]
  BY <1>5, <1>6 DEF Trade, offered_for
<1> HIDE DEF ao, ar, bo, br, other, rel
<1>8. CASE br <= ao
  <2>1. sends = br /\ other = bo
    BY <1>1, <1>4, <1>8 DEF Min2, other
  <2>2. rel >= sends
    <3>1. CASE ar <= bo
      <4>1. recv = ar /\ rel = ao
        BY <1>1, <1>4, <2>1, <3>1 DEF Min2, rel
      <4> QED
        BY <1>1, <1>8, <2>1, <4>1
    <3>2. CASE bo < ar
      <4>1. recv = bo
        BY <1>1, <2>1, <3>2 DEF Min2
      <4>2. br * ar <= ao * bo
        BY <1>1, <1>3
      <4>3. br <= (ao * bo) \div ar
        BY <1>1, <1>3, <4>2, DivAtLeast
      <4> QED
        BY <2>1, <4>1, <4>3 DEF rel
    <3> QED
      BY <1>1, <3>1, <3>2
  <2> QED
    BY <1>1, <1>3, <1>7, <2>1, <2>2 DEF CanTrade, is_profitable_with, ao, ar, bo, br
<1>9. CASE ao < br
  <2>1. sends = ao
    BY <1>1, <1>9 DEF Min2
  <2>2. bo * ao \in Nat /\ ar * br <= bo * ao
    BY <1>1, <1>3
  <2>3. ar <= (bo * ao) \div br /\ (bo * ao) \div br \in Nat
    BY <1>1, <2>2, DivAtLeast, DivBounds
  <2>4. other \in Nat /\ ar <= other
    BY <2>1, <2>3 DEF other
  <2>5. recv = ar /\ rel = ao
    BY <1>1, <1>4, <2>4 DEF Min2, rel
  <2> QED
    BY <1>1, <1>3, <1>7, <2>1, <2>4, <2>5 DEF CanTrade, is_profitable_with, ao, ar, bo, br
<1> QED
  BY <1>1, <1>8, <1>9

\* The promise of /v1/swap-eta against a level of one untouched order r: when
\* eval_can_fill says yes, match_with trades the order n with r, whichever of the
\* two it is called on, and n is filled completely.
THEOREM CanFillSound ==
    ASSUME NEW n \in Terms, NEW r \in Terms,
           eval_can_fill(n, {[rate |-> r, orders |-> {1}, volume |-> r.offered]})
    PROVE  /\ CanTrade(n, n.requested, r, r.requested)
           /\ Trade(n, n.requested, r, r.requested).receives = n.requested
           /\ CanTrade(r, r.requested, n, n.requested)
           /\ Trade(r, r.requested, n, n.requested).sends = n.requested
<1>1. n.offered \in Nat /\ n.requested \in Nat /\ r.offered \in Nat /\ r.requested \in Nat
      /\ r.offered * n.offered = n.offered * r.offered /\ r.requested * n.requested = n.requested * r.requested
  BY DEF Terms, Positive
<1>2. n.offered * r.offered > n.requested * r.requested /\ r.offered >= n.requested
  BY DEF eval_can_fill
<1>3. is_profitable_with(n, r) /\ is_profitable_with(r, n)
  BY <1>1, <1>2 DEF is_profitable_with
<1>4. CanTrade(n, n.requested, r, r.requested) /\ CanTrade(r, r.requested, n, n.requested)
  BY <1>3, CrossingOrdersTrade
<1>5. offered_for(r, r.requested) = r.offered
  BY <1>1, ReleaseBounded DEF Terms, Positive
<1>6. Trade(r, r.requested, n, n.requested).sends = n.requested
  BY <1>1, <1>2, <1>5 DEF Trade, offered_remaining, Min2
<1>7. Trade(n, n.requested, r, r.requested).receives = n.requested
  <2> DEFINE t == Trade(n, n.requested, r, r.requested)
  <2>1. t.receives = n.requested \/ t.sends = r.requested
    BY <1>3, CrossingOrdersTrade
  <2>2. t.other_releases = offered_for(r, Min2(t.sends, r.requested)) /\ t.receives = Min2(t.other_releases, n.requested)
    BY DEF Trade
  <2> HIDE DEF t
  <2>3. CASE t.sends = r.requested
    <3>1. t.other_releases = r.offered
      BY <1>1, <1>5, <2>2, <2>3 DEF Min2
    <3> QED
      BY <1>1, <1>2, <2>2, <3>1 DEF Min2, t
  <2> QED
    BY <2>1, <2>3 DEF t
<1> QED
  BY <1>4, <1>6, <1>7

\* Products of naturals keep the order.
LEMMA MulMono ==
    ASSUME NEW a \in Nat, NEW b \in Nat, NEW c \in Nat, a <= b
    PROVE  c * a <= c * b /\ c * a \in Nat /\ c * b \in Nat
<1>1. PICK k \in Nat : b = a + k
  <2>1. b - a \in Nat /\ b = a + (b - a)
    OBVIOUS
  <2> QED
    BY <2>1
<1>2. c * b = c * a + c * k
  BY <1>1
<1>3. c * a \in Nat /\ c * k \in Nat
  BY <1>1
<1> QED
  BY <1>2, <1>3

\* An order is off market only if it asks for more value than it offers.
LEMMA OffMarketAsksMore ==
    ASSUME NEW o \in Terms, NEW p \in Positive, NEW q \in Positive, NEW tol \in Nat,
           OffMarketUsd(o, p, q, tol)
    PROVE  o.offered * p < o.requested * q
<1> DEFINE v == o.offered * p
           w == o.requested * q
<1>1. v \in Nat /\ w \in Nat
  BY DEF Terms, Positive
<1>2. w * 10000 > v * (10000 + tol)
  BY DEF OffMarketUsd
<1> HIDE DEF v, w
<1>3. v * (10000 + tol) = v * 10000 + v * tol /\ v * tol \in Nat
  BY <1>1
<1>4. v < w
  BY <1>1, <1>2, <1>3
<1> QED
  BY <1>4 DEF v, w

\* Two orders that cross are never both off market, whatever the two prices and
\* the tolerance: /v1/swap-eta calls at most one of them unmatchable.
THEOREM OneSideOffMarket ==
    ASSUME NEW a \in Terms, NEW b \in Terms, is_profitable_with(a, b),
           NEW p \in Positive, NEW q \in Positive, NEW tol \in Nat
    PROVE  ~(OffMarketUsd(a, p, q, tol) /\ OffMarketUsd(b, q, p, tol))
<1> SUFFICES ASSUME OffMarketUsd(a, p, q, tol), OffMarketUsd(b, q, p, tol) PROVE FALSE
  OBVIOUS
<1> DEFINE ao == a.offered
           ar == a.requested
           bo == b.offered
           br == b.requested
           f == p * q
<1>1. ao \in Nat /\ ar \in Nat /\ bo \in Nat /\ br \in Nat /\ p \in Nat /\ q \in Nat /\ f \in Positive
  BY DEF Terms, Positive
<1>2. ao * p < ar * q /\ bo * q < br * p
  BY OffMarketAsksMore
<1>3. ar * br < ao * bo /\ ar * br \in Nat /\ ao * bo \in Nat
  BY <1>1 DEF is_profitable_with
<1> HIDE DEF ao, ar, bo, br
<1>4. (ao * p) * (bo * q) <= (ao * p) * (br * p)
  <2>1. ao * p \in Nat /\ bo * q \in Nat /\ br * p \in Nat
    BY <1>1
  <2> QED
    BY <1>2, <2>1, MulMono
<1>5. (br * p) * (ao * p) <= (br * p) * (ar * q)
  <2>1. ao * p \in Nat /\ ar * q \in Nat /\ br * p \in Nat
    BY <1>1
  <2> QED
    BY <1>2, <2>1, MulMono
<1>6. (ao * p) * (bo * q) = f * (ao * bo) /\ (br * p) * (ar * q) = f * (ar * br)
      /\ (ao * p) * (br * p) = (br * p) * (ao * p)
  BY <1>1
<1>7. f * (ao * bo) <= f * (ar * br)
  <2>1. f * (ao * bo) \in Nat /\ f * (ar * br) \in Nat /\ (br * p) * (ao * p) \in Nat
    BY <1>1
  <2> QED
    BY <1>4, <1>5, <1>6, <2>1
<1> HIDE DEF f
<1>8. f * (ar * br) < f * (ao * bo)
  <2>1. f * (ar * br + 1) <= f * (ao * bo)
    BY <1>1, <1>3, MulMono DEF Positive
  <2>2. f * (ar * br + 1) = f * (ar * br) + f /\ f * (ar * br) \in Nat /\ f * (ao * bo) \in Nat /\ f > 0
    BY <1>1, <1>3 DEF Positive
  <2> QED
    BY <1>1, <2>1, <2>2 DEF Positive
<1> QED
  <2>1. f * (ar * br) \in Nat /\ f * (ao * bo) \in Nat
    BY <1>1, <1>3 DEF Positive
  <2> QED
    BY <1>7, <1>8, <2>1

=============================================================================
