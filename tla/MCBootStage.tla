---------------------------- MODULE MCBootStage ----------------------------
(***************************************************************************)
(* BootStage for TLC: interrupts on a screen of two columns, a screen of   *)
(* its own with room for tabs and scrolling, all small formats.            *)
(***************************************************************************)
EXTENDS BootStage

\* A text that fills a line of the two-column screen and starts the next.
ExceptionText == <<"a", "a", "a">>

\* Formats of up to three pieces, which may join to other directives.
Pieces ==
    {<<"a">>, <<"{">>, <<"}">>, <<"{", "d", "}">>, <<"{", "x", "}">>, <<"{", "s", "}">>,
     <<"{", "q", "}">>}
MCFormats ==
    {<<>>} \cup Pieces \cup {p \o q : p, q \in Pieces} \cup {p \o q \o r : p, q, r \in Pieces}
MCArgs ==
    <<[n |-> 0, s |-> <<"b", "c">>], [n |-> 507, s |-> <<>>], [n |-> 10, s |-> <<"{", "d", "}">>],
      [n |-> 16, s |-> <<>>]>>
\* With ints of 12 bits, count overflows for the numbers of four digits.
MCValues == {0, 1, 10, 16, 99, 255, 999, 1000, 2047, -1, -50, -999, -1000, -2048}
=============================================================================
