---- MODULE MCSettlement ----
(* Settlement on a small instance. *)
EXTENDS Settlement, TLC

NoteSymmetry == Permutations(Notes)
=============================
