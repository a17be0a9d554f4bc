------------------------------- MODULE SwapEta -------------------------------
(***************************************************************************)
(* SettlementStats of swap_eta.rs for one directed pair: the rolling       *)
(* window of settlement times, samples [at, secs] with the oldest first,   *)
(* and its median.  None is the empty set, Some(x) is {x}.                 *)
(***************************************************************************)
EXTENDS Integers, SequencesExt

\* What is left of q when samples are popped until the front is one of `stays'.
PopUntil(q, stays) == IF stays = {} THEN <<>> ELSE SubSeq(q, Min(stays), Len(q))

\* Mutant of Prune: a sample leaves the window one second early.
PruneEarly(q, cutoff) == PopUntil(q, {i \in DOMAIN q : q[i].at > cutoff})

\* The first loop of record: only the front is looked at, so an expired sample
\* behind a fresh one stays.
Prune(q, cutoff) == PopUntil(q, {i \in DOMAIN q : q[i].at >= cutoff})

Cutoff(now, window) == IF now >= window THEN now - window ELSE 0

\* Push, drop what is out of the window, then what is beyond the cap.
record(q, now, secs, window, cap) ==
    LET kept == Prune(Append(q, [at |-> now, secs |-> secs]), Cutoff(now, window))
    IN  IF Len(kept) > cap THEN SubSeq(kept, Len(kept) - cap + 1, Len(kept)) ELSE kept

\* The middle of the sorted values, or the floored mean of the two middle ones.
median_of(v) ==
    LET s == SortSeq(v, <)
        n == Len(s)
    IN  IF n = 0 THEN {}
        ELSE IF n % 2 = 1 THEN {s[n \div 2 + 1]}
        ELSE {(s[n \div 2] + s[n \div 2 + 1]) \div 2}

median_secs(q, now, window) ==
    LET fresh == SelectSeq(q, LAMBDA s : s.at >= Cutoff(now, window))
    IN  median_of([i \in DOMAIN fresh |-> fresh[i].secs])

=============================================================================
