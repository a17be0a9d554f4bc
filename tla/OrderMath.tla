------------------------------ MODULE OrderMath ------------------------------
(***************************************************************************)
(* The integer arithmetic of an order.  An order o has o.offered and       *)
(* o.requested, which never change, and rem, its requested_remaining.  The *)
(* products are u128 over u64 factors in the code and cannot overflow.     *)
(***************************************************************************)
EXTENDS Naturals

Min2(a, b) == IF a <= b THEN a ELSE b
SatSub(a, b) == IF a >= b THEN a - b ELSE 0

\* What the order releases for a fill, as calculate_output_amount and the PSWAP
\* script compute it.
offered_for(o, fill) == (o.offered * fill) \div o.requested

offered_remaining(o, rem) == offered_for(o, rem)

is_profitable_with(a, b) == a.offered * b.offered > a.requested * b.requested

\* RateKey: the rate requested / offered, compared exactly.
LowerRate(a, b) == a.requested * b.offered < b.requested * a.offered

\* The four amounts of match_with: a is self, b is other.
Trade(a, ra, b, rb) ==
    LET sends == Min2(offered_remaining(a, ra), rb)
        other == offered_for(b, Min2(sends, rb))
        recv  == Min2(other, ra)
    IN [sends |-> sends, other_releases |-> other,
        receives |-> recv, releases |-> offered_for(a, recv)]

\* Mutant of CanTrade: rounding may make a release less than it sends.
CanTradeAtLoss(a, ra, b, rb) ==
    LET t == Trade(a, ra, b, rb)
    IN /\ ra > 0 /\ rb > 0 /\ is_profitable_with(a, b)
       /\ t.sends > 0 /\ t.other_releases > 0

\* match_with returns Some.
CanTrade(a, ra, b, rb) ==
    LET t == Trade(a, ra, b, rb)
    IN /\ ra > 0 /\ rb > 0 /\ is_profitable_with(a, b)
       /\ t.sends > 0 /\ t.other_releases > 0
       /\ t.releases >= t.sends

\* Mutant of eval_can_fill: the depth of the level is not compared.
CanFillAnyDepth(o, best) ==
    \E l \in best : o.offered * l.rate.offered > o.requested * l.rate.requested

\* The question of /v1/swap-eta: would the order fill against best, the top level
\* of the opposite pair (none or one), by its rate and the volume it still offers?
eval_can_fill(o, best) ==
    \E l \in best :
        /\ o.offered * l.rate.offered > o.requested * l.rate.requested
        /\ l.volume >= o.requested

\* Mutant of OffMarketUsd: the tolerance is applied to the wrong side.
OffMarketUsdInside(o, p, q, tol) == o.requested * q * (10000 + tol) > o.offered * p * 10000

\* The order asks for more value than it offers, beyond the tolerance in basis
\* points; p and q are the values of one unit of the offered and requested token.
OffMarketUsd(o, p, q, tol) == o.requested * q * 10000 > o.offered * p * (10000 + tol)

\* A price in tenths of a cent as whole cents: round(usd * 100).
to_cents(usd) == (usd + 5) \div 10

\* The values of one unit of either token on a common scale: x holds the decimals
\* of the offered and the requested token, then their prices.
UnitValues(x) ==
    LET m == Min2(x[1], x[2])
    IN <<to_cents(x[3]) * 10^(x[2] - m), to_cents(x[4]) * 10^(x[1] - m)>>

\* Neither price rounds to zero, and no product of the comparison overflows.
Comparable(o, w, tol, max) ==
    /\ w[1] > 0 /\ w[2] > 0
    /\ o.requested * w[2] * 10000 <= max /\ o.offered * w[1] * (10000 + tol) <= max

\* The oracle's verdict on an order, Some(b) as {b} and None as {}: decimals d
\* and prices usd of the offered and the requested token are options too, and a
\* product above max is an overflow.
eval_off_market(o, d_a, usd_a, d_b, usd_b, tol, max) ==
    {OffMarketUsd(o, w[1], w[2], tol) :
       w \in {v \in {UnitValues(x) : x \in d_a \X d_b \X usd_a \X usd_b} : Comparable(o, v, tol, max)}}

=============================================================================
