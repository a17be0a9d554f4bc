------------------------------ MODULE Selection ------------------------------
(***************************************************************************)
(* How the external pass assigns the whole notes of one pair to the pair's *)
(* quotes: the order in which republish lists the quotes and the scan of   *)
(* match_pair for one note.  A note has offered and requested, a quote     *)
(* supply, demand and whether it is still fresh.                           *)
(***************************************************************************)
EXTENDS Naturals, Sequences, FiniteSetsExt

Quote(amounts) == [supply : amounts, demand : amounts, fresh : BOOLEAN]

\* note rate <= quote rate
crosses(note, q) == note.requested * q.demand <= q.supply * note.offered

MoreGenerous(a, b) == a.supply * b.demand > b.supply * a.demand

\* The order of republish: most generous first, ties in any order.
Sorted(s) == \A i, j \in DOMAIN s : i < j => ~MoreGenerous(s[j], s[i])

\* Where the scan for a note breaks: the first fresh quote that does not cross.
ScanEnd(note, quotes) ==
    Min({i \in DOMAIN quotes : quotes[i].fresh /\ ~crosses(note, quotes[i])} \cup {Len(quotes) + 1})

\* Mutant of Chosen: the first fit instead of the last.
ChosenFirst(note, quotes, remaining) ==
    LET fits == {i \in 1..(ScanEnd(note, quotes) - 1) : quotes[i].fresh /\ remaining[i] >= note.requested}
    IN IF fits = {} THEN 0 ELSE Min(fits)

\* The last quote the scan saw with room for the whole note, 0: none.
Chosen(note, quotes, remaining) ==
    LET fits == {i \in 1..(ScanEnd(note, quotes) - 1) : quotes[i].fresh /\ remaining[i] >= note.requested}
    IN IF fits = {} THEN 0 ELSE Max(fits)

\* Mutant of DrawDown: the quote's capacity is not drawn down.
DrawDownNothing(remaining, i, note) == remaining

\* What is left of the quotes once a note went to quote i.
DrawDown(remaining, i, note) ==
    IF i = 0 THEN remaining ELSE [remaining EXCEPT ![i] = @ - note.requested]

=============================================================================
