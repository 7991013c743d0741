---------------------------- MODULE MCDetailsCache ----------------------------
(* A small instance of DetailsCache. *)
EXTENDS DetailsCache

CONSTANTS Day, Hour   \* the two parts of a time as it is written in a request

Window(timeIn, timeOut) == [timeIn |-> timeIn, timeOut |-> timeOut]
Noon == <<Day, Hour>>
Since == Window(Noon, << >>)
Until == Window(<< >>, Noon)
Split == Window(<<Day>>, <<Hour>>)
Cut == Window(Noon, <<Day>>)

\* The first three have the same key; Split and Cut cannot be parsed.
FourWindows == {Since, Until, Split, Cut}
Unreadable == {Split, Cut}
=============================================================================
