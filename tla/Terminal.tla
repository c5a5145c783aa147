------------------------------ MODULE Terminal ------------------------------
(***************************************************************************)
(* What a text screen promises: the last Height lines of what was typed,   *)
(* the last of them still open, and the column at which the next sign of   *)
(* it goes.  There is no buffer, no scrolling and no cursor address.       *)
(***************************************************************************)
EXTENDS Integers, Sequences

CONSTANTS Width, Height, TabStop, Signs, Blank

VARIABLE term   \* the lines, the oldest first, and the column in the last one

Columns == 0 .. Width - 1
Fresh == [c \in Columns |-> Blank]

LineFeed(t) ==
    LET all == Append(t.lines, Fresh)
    IN  [lines |-> IF Len(all) > Height THEN Tail(all) ELSE all, col |-> 0]
Goto(t, col) == IF col = Width THEN LineFeed(t) ELSE [t EXCEPT !.col = col]
Typed(t, sign) == Goto([t EXCEPT !.lines[Len(t.lines)][t.col] = sign], t.col + 1)

Init == term = [lines |-> <<Fresh>>, col |-> 0]

Type == \E sign \in Signs : term' = Typed(term, sign)
Word == \E sign \in Signs : term' = Typed(Typed(Typed(Typed(term, sign), sign), sign), sign)
Return == \E col \in {0, term.col - 1} \cap Columns : term' = [term EXCEPT !.col = col]
NextStop ==
    \E col \in term.col + 1 .. term.col + TabStop :
        col % TabStop = 0 /\ term' = Goto(term, col)
NextLine == term' = LineFeed(term)
\* One sign, or all of the open line, is taken back.
RubOut ==
    \E col \in {0, term.col - 1} \cap Columns :
        term' = [lines |-> [term.lines EXCEPT ![Len(term.lines)] =
                               [c \in Columns |-> IF c \in col .. term.col - 1 THEN Blank ELSE @[c]]],
                 col |-> col]
Clear == term' = [lines |-> <<Fresh>>, col |-> 0]

Next == Type \/ Word \/ Return \/ NextStop \/ NextLine \/ RubOut \/ Clear
Spec == Init /\ [][Next]_term
=============================================================================
