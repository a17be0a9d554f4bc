------------------------------ MODULE MCPriceApi ------------------------------
(* Scenarios: prices asked for while polls come, fail and stop; an order and   *)
(* its counterpart priced by one or two polls; settlements around the edges of *)
(* the window and of the cap; more requests than permits.                      *)
EXTENDS PriceApi

Quiet ==
    [requests |-> <<>>, seconds |-> 0, polls |-> 0, usd |-> {20}, rows |-> [t \in Tokens |-> "dec"],
     changing |-> {}, levels |-> {}, batches |-> {}, settlements |-> 0, allow |-> {FALSE}, amounts |-> {1}]

Ask(kind, ids) == [kind |-> kind, ids |-> ids]

Polling ==
    [Quiet EXCEPT !.requests = <<Ask("prices", <<1, 2>>)>>, !.seconds = 4, !.polls = 3, !.allow = BOOLEAN]
Busy ==
    [Quiet EXCEPT !.requests = <<Ask("price", <<1>>), Ask("prices", <<1, 2, 1>>)>>, !.seconds = 2, !.polls = 1,
                  !.rows = [t \in Tokens |-> IF t = 1 THEN "nodec" ELSE "none"], !.changing = {1}, !.allow = BOOLEAN]
Counterparts ==
    [Quiet EXCEPT !.requests = <<Ask("swap", <<1, 2>>), Ask("swap", <<2, 1>>)>>, !.polls = 1,
                  !.usd = {4, 20}, !.amounts = {1, 9, 10}]
Rebooked ==
    [Quiet EXCEPT !.requests = <<Ask("swap", <<1, 2>>)>>, !.seconds = 2, !.polls = 1, !.changing = {1},
                  !.levels = {{}, {[rate |-> [offered |-> 2, requested |-> 1], volume |-> 2]}}]
Settlements ==
    [Quiet EXCEPT !.seconds = 5, !.settlements = 5,
                  !.batches = {<<[pair |-> 1, secs |-> s]>> : s \in {1, 2, 4}} \cup {<<[pair |-> 1, secs |-> 7], [pair |-> 2, secs |-> 2]>>}]

All == {Polling, Busy, Counterparts, Rebooked, Settlements}
TwoTokens == <<1, 0>>

=============================================================================
