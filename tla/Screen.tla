------------------------------- MODULE Screen -------------------------------
(***************************************************************************)
(* The text screen of the 32-bit boot stage (bootload/scrn.c): the cells   *)
(* of the VGA buffer, the cursor csr_x, csr_y and the hardware cursor.     *)
(* Operators take and return the whole screen; a character is its class or *)
(* the sign it shows.                                                      *)
(***************************************************************************)
EXTENDS Integers, Sequences

CONSTANTS
    Width, Height,   \* 80 and 25 in the code
    TabStop          \* 8 in the code

ScreenAssumption ==
    /\ Width \in Nat \ {0} /\ Height \in Nat \ {0}
    /\ TabStop \in Nat \ {0} /\ Width % TabStop = 0

Cells == 0 .. Width * Height - 1
Blank == " "
\* '\b', '\t', '\r', '\n' and the characters below ' ' that do nothing.
Controls == {"bs", "tab", "cr", "nl", "ctl"}
Signs == {Blank, "a"}

VARIABLE scr   \* cell, x and y, the hardware cursor, and a write off the buffer

\* A mutant: the line above the last one is cleared.
ScrollClearsAbove(s) ==
    IF s.y < Height THEN s
    ELSE LET temp == s.y - Height + 1
         IN  [s EXCEPT
                !.cell = [i \in Cells |->
                    IF i \div Width = Height - temp - 1 THEN Blank
                    ELSE IF i \div Width < Height - temp THEN s.cell[i + temp * Width]
                    ELSE s.cell[i]],
                !.y = Height - 1]

\* scroll: past the last line, move the text up and clear the line it leaves.
scroll(s) ==
    IF s.y < Height THEN s
    ELSE LET temp == s.y - Height + 1
         IN  [s EXCEPT
                !.cell = [i \in Cells |->
                    IF i \div Width = Height - temp THEN Blank
                    ELSE IF i \div Width < Height - temp THEN s.cell[i + temp * Width]
                    ELSE s.cell[i]],
                !.y = Height - 1]

move_csr(s) == [s EXCEPT !.hw = s.y * Width + s.x]

\* *where = c | att
Write(s, c) ==
    LET where == s.y * Width + s.x
    IN  IF where \in Cells THEN [s EXCEPT !.cell[where] = c] ELSE [s EXCEPT !.off = TRUE]

\* The edge of the screen's width starts a new line.
Wrap(s) == IF s.x >= Width THEN [s EXCEPT !.x = 0, !.y = @ + 1] ELSE s

Tab(s) == [s EXCEPT !.x = ((@ + TabStop) \div TabStop) * TabStop]

\* putch up to the scroll.
Advance(s, c) ==
    Wrap(CASE c = "bs" -> [s EXCEPT !.x = IF @ # 0 THEN @ - 1 ELSE 0]
           [] c = "tab" -> Tab(s)
           [] c = "cr" -> [s EXCEPT !.x = 0]
           [] c = "nl" -> [s EXCEPT !.x = 0, !.y = @ + 1]
           [] c = "ctl" -> s
           [] OTHER -> [Write(s, c) EXCEPT !.x = @ + 1])

putch(s, c) == move_csr(scroll(Advance(s, c)))

suppr(s) ==
    IF s.x = 0 THEN s
    ELSE move_csr([putch([s EXCEPT !.x = @ - 1], Blank) EXCEPT !.x = @ - 1])

\* supprl: suppr until the start of the line, which takes csr_x turns.
supprl(s) ==
    LET after[n \in 0 .. s.x] == IF n = 0 THEN s ELSE suppr(after[n - 1])
    IN  after[s.x]

puts4(s, c) == putch(putch(putch(putch(s, c), c), c), c)

cls(s) == move_csr([s EXCEPT !.cell = [i \in Cells |-> Blank], !.x = 0, !.y = 0])

\* What keyboard_handling does for the classes of scan codes: Escape, Enter, the
\* release of Backspace, the ignored releases, Ctrl, a code with a sign or with
\* 0 in keymap, and a code past its 89 elements, most releases among them, for
\* which any byte may be read.
Keys == {"escape", "enter", "backspace", "ignored", "ctrl", "sign", "none", "past"}
keyboard_handling(s, key) ==
    CASE key = "escape" -> {supprl(s)}
      [] key = "enter" -> {putch(s, "nl")}
      [] key = "backspace" -> {suppr(s)}
      [] key = "ignored" -> {s}
      [] key = "ctrl" -> {puts4(s, "a")}
      [] key = "sign" -> {putch(s, "a")}
      [] key = "none" -> {putch(s, "ctl")}
      [] key = "past" -> {putch(s, c) : c \in Controls \cup Signs}

init_video ==
    cls([cell |-> [i \in Cells |-> Blank], x |-> 0, y |-> 0, hw |-> 0, off |-> FALSE])

Init == scr = init_video

\* The boot stage prints, with interrupts off, or a key is handled.
PrintChar == \E c \in Controls \cup Signs : scr' = putch(scr, c)
Key == \E key \in Keys : scr' \in keyboard_handling(scr, key)
Clear == scr' = cls(scr)

Next == PrintChar \/ Key \/ Clear
Spec == Init /\ [][Next]_scr

-----------------------------------------------------------------------------
(* Properties.                                                             *)

\* The cursor stays on the screen, the hardware cursor goes with it, and nothing is
\* written outside the buffer.
TypeOK ==
    /\ scr.cell \in [Cells -> Signs]
    /\ scr.x \in 0 .. Width - 1 /\ scr.y \in 0 .. Height - 1
    /\ scr.hw = scr.y * Width + scr.x
    /\ ~scr.off

\* What is seen of a screen: its rows down to the cursor's, and the cursor's column.
Shows(s) ==
    [lines |-> [r \in 1 .. s.y + 1 |-> [c \in 0 .. Width - 1 |-> s.cell[(r - 1) * Width + c]]],
     col |-> s.x]
T == INSTANCE Terminal WITH term <- Shows(scr)

\* The rows down to the cursor's are the last lines typed and the cursor's column
\* is where the next sign goes, for any sequence of characters and keys: no line
\* is lost, kept twice or mixed with another by wrapping, scroll or suppr.
ScreenImplements == T!Spec

-----------------------------------------------------------------------------
(* What the refinement rests on.                                           *)

\* The rows below the cursor's are blank, so that a line it comes to is a new one.
BelowBlank == \A i \in Cells : i >= (scr.y + 1) * Width => scr.cell[i] = Blank

Screens ==
    [cell : [Cells -> Signs], x : 0 .. Width - 1, y : 0 .. Height - 1, hw : Int, off : BOOLEAN]

\* What every operation of scrn.c finds and leaves.
IInv == scr \in Screens /\ TypeOK /\ BelowBlank
=============================================================================
