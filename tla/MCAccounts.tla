------------------------------ MODULE MCAccounts ------------------------------
(* Small instances of Accounts. *)
EXTENDS Accounts, TLC

OnlyExport == {{"Export"}}
Two == {{}, {"Export"}}

Symmetry == Permutations(Requests) \cup Permutations(Passwords)
=============================================================================
