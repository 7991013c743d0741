------------------------- MODULE MCServerStatusHistory -------------------------
(* Small instances of ServerStatusHistory. *)
EXTENDS ServerStatusHistory, TLC

Symmetry == Permutations(Servers) \cup Permutations(Calls)
=============================================================================
