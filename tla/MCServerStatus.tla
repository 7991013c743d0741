---------------------------- MODULE MCServerStatus ----------------------------
(* Small instances of ServerStatus. *)
EXTENDS ServerStatus, TLC

\* The goroutines of one kind do the same, and no id is special.
Symmetry == Permutations(Servers) \cup Permutations(Calls)
=============================================================================
