---------------------------- MODULE MCSearchCache ----------------------------
(* A small instance of SearchCache. *)
EXTENDS SearchCache, TLC

CONSTANTS Web, Name, Ip   \* a word, and the fields servername and ip

\* The pattern "web" and the pattern "web_total", which whatever matches also matches "web".
Short == <<Web>>
Long == <<Web, Total>>
TwoPatterns == {Short, Long}

Matches(name, ip) == (Name :> name) @@ (Ip :> ip)
Nested == {Matches({Short, Long}, {}), Matches({Short}, {})}
=============================================================================
