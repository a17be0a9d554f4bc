---------------------------- MODULE MCMatcherTick ----------------------------
(* Four orders: three compete on one pair, n1 and n2 at the same rate and n3 *)
(* at a lower one; n4 stands on the opposite pair.                           *)
EXTENDS MatcherTick

CONSTANTS n1, n2, n3, n4

MCNotes == {n1, n2, n3, n4}
MCPairs == {<<"A", "B">>, <<"B", "A">>}
MCPairOf(n) == IF n = n4 THEN <<"B", "A">> ELSE <<"A", "B">>
MCRequested(n) == IF n = n1 THEN 2 ELSE 1
MCCheaper(a, b) == a = n3 /\ b # n3

=============================================================================
