------------------------------ MODULE MCMatching ------------------------------
(* Markets: two sides of one pair, where the last order comes after the first *)
(* tick, or all of them before it; a triangle; two triangles that share a     *)
(* side, with two orders on that side, fewer amounts for the second triangle  *)
(* and its own token perhaps unpriced; two notes of a pair three DEXes quote;  *)
(* orders that rounding leaves behind although they cross.                     *)
EXTENDS Matching

AllPriced == [t \in Tokens |-> {1}]

TwoSided ==
    [pairs |-> <<<<1, 2>>, <<2, 1>>, <<2, 1>>, <<1, 2>>>>, first |-> 3,
     amounts |-> [n \in 1..4 |-> IF n = 4 THEN {1, 2, 3, 5} ELSE {1, 3, 5}], prices |-> AllPriced,
     quoted |-> <<1, 2>>, quotes |-> 0, quoteAmounts |-> {}]
TwoByTwo ==
    [pairs |-> <<<<1, 2>>, <<2, 1>>, <<1, 2>>, <<2, 1>>>>, first |-> 4,
     amounts |-> [n \in 1..4 |-> {2, 3, 5}], prices |-> AllPriced,
     quoted |-> <<1, 2>>, quotes |-> 0, quoteAmounts |-> {}]
OneTriangle ==
    [pairs |-> <<<<1, 2>>, <<2, 3>>, <<3, 1>>>>, first |-> 3,
     amounts |-> [n \in 1..3 |-> {1, 2, 3}], prices |-> AllPriced,
     quoted |-> <<1, 2>>, quotes |-> 0, quoteAmounts |-> {}]
TwoTriangles ==
    [pairs |-> <<<<1, 2>>, <<2, 3>>, <<3, 1>>, <<2, 4>>, <<4, 1>>, <<1, 2>>>>, first |-> 6,
     amounts |-> [n \in 1..6 |-> IF n >= 3 THEN {1, 9} ELSE {1, 2, 9}],
     prices |-> [AllPriced EXCEPT ![4] = {NoPrice, 1}],
     quoted |-> <<1, 2>>, quotes |-> 0, quoteAmounts |-> {}]

Quoted ==
    [pairs |-> <<<<1, 2>>, <<1, 2>>>>, first |-> 2,
     amounts |-> <<{1, 2, 3}, {1, 2}>>, prices |-> AllPriced,
     quoted |-> <<1, 2>>, quotes |-> 3, quoteAmounts |-> {1, 2, 3}]

LeftBehind ==
    [pairs |-> <<<<1, 2>>, <<2, 1>>, <<2, 1>>, <<1, 2>>, <<1, 2>>>>, first |-> 4,
     amounts |-> <<{2, 3}, {1, 2}, {300, 500}, {5, 8}, {308, 500}>>, prices |-> AllPriced,
     quoted |-> <<1, 2>>, quotes |-> 0, quoteAmounts |-> {}]

AllMarkets == {TwoSided, TwoByTwo, TwoTriangles, Quoted, LeftBehind}
Triangle == {OneTriangle}

=============================================================================
