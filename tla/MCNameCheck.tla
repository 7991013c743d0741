----------------------------- MODULE MCNameCheck -----------------------------
(* Small instances of NameCheck. *)
EXTENDS NameCheck
=============================================================================
