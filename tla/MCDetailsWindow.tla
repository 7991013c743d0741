---------------------------- MODULE MCDetailsWindow ----------------------------
(* Small instances of DetailsWindow. *)
EXTENDS DetailsWindow, TLC

\* No status is special.
Symmetry == Permutations(Statuses)
=============================================================================
