---------------------------- MODULE MCListingCache ----------------------------
(* Small instances of ListingCache. *)
EXTENDS ListingCache

Symmetry == Permutations(Requests)
=============================================================================
