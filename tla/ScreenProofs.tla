---------------------------- MODULE ScreenProofs ----------------------------
(***************************************************************************)
(* Proof that the screen of the boot stage implements the abstract         *)
(* terminal, for every width, height and tab stop that fit together and    *)
(* for any sequence of characters and keys.                                *)
(***************************************************************************)
EXTENDS Screen, Counting

-----------------------------------------------------------------------------
(* The cells.                                                              *)

LEMMA Sizes ==
  ASSUME ScreenAssumption
  PROVE  Width \in Nat \ {0} /\ Height \in Nat \ {0} /\ TabStop \in Nat \ {0}
         /\ Width % TabStop = 0
  BY DEF ScreenAssumption

\* Rows and lengths in the order of their numbers.
LEMMA Order ==
  ASSUME NEW w \in Nat \ {0}, NEW a \in Int, NEW b \in Int
  PROVE  /\ a * w \in Int /\ (a + 1) * w = a * w + w /\ (a - 1) * w = a * w - w
         /\ a <= b => a * w <= b * w
         /\ a < b => a * w + w <= b * w
  <1>1. a * w \in Int /\ b * w \in Int /\ (a + 1) * w = a * w + w /\ (a - 1) * w = a * w - w
    OBVIOUS
  <1>2. \A x, y \in Int : x <= y => w * x <= w * y
    OBVIOUS
  <1>3. a * w = w * a /\ b * w = w * b /\ (a + 1) * w = w * (a + 1)
    OBVIOUS
  <1>. QED  BY <1>1, <1>2, <1>3

\* A row and a column stand for one cell, and no other row and column do.
LEMMA Place ==
  ASSUME NEW w \in Nat \ {0}, NEW y \in Int, NEW x \in 0 .. w - 1
  PROVE  /\ y * w + x \in Int /\ (y * w + x) \div w = y
         /\ \A v \in Int : \A u \in 0 .. w - 1 : v * w + u = y * w + x => v = y /\ u = x
         /\ \A h \in Int : y \in 0 .. h - 1 => y * w + x \in 0 .. w * h - 1
  <1>1. y * w \in Int /\ x \in Int /\ 0 <= x /\ x < w
    OBVIOUS
  <1>2. (y * w + x) \div w = y
    <2>1. PICK p \in Int : p = y * w + x
      BY <1>1
    <2>2. p = w * y + x
      BY <2>1
    <2>. QED  BY <1>1, <2>1, <2>2
  <1>3. ASSUME NEW v \in Int, NEW u \in 0 .. w - 1, v * w + u = y * w + x
        PROVE  v = y /\ u = x
    <2>1. v * w \in Int /\ u \in Int /\ 0 <= u /\ u < w
      OBVIOUS
    <2>2. ~(v < y)
      <3>1. v < y => v * w + w <= y * w
        BY Order
      <3>. QED  BY <1>1, <1>3, <2>1, <3>1
    <2>3. ~(y < v)
      <3>1. y < v => y * w + w <= v * w
        BY Order
      <3>. QED  BY <1>1, <1>3, <2>1, <3>1
    <2>4. v = y
      BY <2>2, <2>3
    <2>. QED  BY <1>1, <1>3, <2>1, <2>4
  <1>4. ASSUME NEW h \in Int, y \in 0 .. h - 1
        PROVE  y * w + x \in 0 .. w * h - 1
    <2>1. 0 <= y /\ y < h
      BY <1>4
    <2>2. 0 * w <= y * w /\ y * w + w <= h * w
      BY <2>1, Order
    <2>3. 0 * w = 0 /\ h * w = w * h /\ w * h \in Int
      OBVIOUS
    <2>. QED  BY <1>1, <2>2, <2>3
  <1>. QED  BY <1>1, <1>2, <1>3, <1>4

LEMMA DivMod ==
  ASSUME NEW p \in Int, NEW a \in Nat \ {0}
  PROVE  /\ p \div a \in Int /\ p % a \in Int /\ 0 <= p % a /\ p % a < a
         /\ p = a * (p \div a) + (p % a)
  OBVIOUS

\* The cells of the screen are those of its rows.
LEMMA Rows ==
  ASSUME ScreenAssumption, NEW i \in Cells
  PROVE  /\ i \div Width \in 0 .. Height - 1 /\ i % Width \in 0 .. Width - 1
         /\ i = (i \div Width) * Width + (i % Width)
         /\ \A r \in Int : (r * Width <= i <=> r <= i \div Width)
  <1>1. i \in Int /\ 0 <= i /\ i < Width * Height /\ Width \in Nat \ {0} /\ Height \in Nat \ {0}
    BY Sizes DEF Cells
  <1>2. PICK q \in Int, x \in Int : q = i \div Width /\ x = i % Width
    BY <1>1, DivMod
  <1>3. i = Width * q + x /\ 0 <= x /\ x < Width
    BY ONLY <1>1, <1>2, DivMod
  <1>4. /\ Width * q = q * Width /\ Width * Height = Height * Width
        /\ q * Width \in Int /\ Height * Width \in Int
    BY ONLY <1>1, <1>2
  <1>5. ASSUME NEW r \in Int PROVE r * Width <= i <=> r <= q
    <2>1. /\ r * Width \in Int
          /\ r <= q => r * Width <= q * Width
          /\ q < r => q * Width + Width <= r * Width
      BY ONLY <1>1, <1>2, <1>5, Order
    <2>. QED  BY ONLY <1>1, <1>2, <1>3, <1>4, <1>5, <2>1
  <1>6. 0 <= q /\ ~(Height <= q)
    <2>1. 0 * Width = 0 /\ 0 \in Int /\ Height \in Int
      BY <1>1
    <2>. QED  BY <1>1, <1>2, <1>4, <1>5, <2>1
  <1>. QED  BY ONLY <1>1, <1>2, <1>3, <1>4, <1>5, <1>6

-----------------------------------------------------------------------------
(* The operators of scrn.c on a screen with the cursor at x, y.            *)

R(k, x, y, h) == [cell |-> k, x |-> x, y |-> y, hw |-> h, off |-> FALSE]
Scr(k, x, y) == R(k, x, y, y * Width + x)

\* The text moved up by a line, and one cell changed.
Up(k) ==
    [i \in Cells |->
        IF i \div Width = Height - 1 THEN Blank
        ELSE IF i \div Width < Height - 1 THEN k[i + Width] ELSE k[i]]
Put(k, x, y, c) == [k EXCEPT ![y * Width + x] = c]

\* The start of the line below the one of y.
Below(k, y) == IF y < Height - 1 THEN Scr(k, 0, y + 1) ELSE Scr(Up(k), 0, Height - 1)

Columns == 0 .. Width - 1
Lines == 0 .. Height - 1
Texts == [Cells -> Signs]

\* putch ends with scroll and move_csr.
LEMMA Settle ==
  ASSUME ScreenAssumption, NEW k \in Texts, NEW x \in Columns, NEW y \in Lines, NEW h
  PROVE  /\ move_csr(R(k, x, y, h)) = Scr(k, x, y)
         /\ move_csr(scroll(R(k, x, y, h))) = Scr(k, x, y)
         /\ move_csr(scroll(R(k, 0, y + 1, h))) = Below(k, y)
  <1>. USE Sizes
  <1>1. ASSUME NEW kk, NEW xx, NEW yy
        PROVE  move_csr(R(kk, xx, yy, h)) = Scr(kk, xx, yy)
    <2>1. PICK r : r = R(kk, xx, yy, h)
      OBVIOUS
    <2>2. r.x = xx /\ r.y = yy
      BY ONLY <2>1 DEF R
    <2>3. PICK p : p = yy * Width + xx
      OBVIOUS
    <2>4. move_csr(r) = [r EXCEPT !.hw = p]
      BY ONLY <2>2, <2>3 DEF move_csr
    <2>5. PICK t : t = [r EXCEPT !.hw = p]
      OBVIOUS
    <2>6. t = R(kk, xx, yy, p)
      BY ONLY <2>1, <2>5 DEF R
    <2>. QED  BY ONLY <2>1, <2>3, <2>4, <2>5, <2>6 DEF Scr
  <1>2. scroll(R(k, x, y, h)) = R(k, x, y, h)
    BY DEF scroll, R, Lines
  <1>3. CASE y < Height - 1
    <2>1. scroll(R(k, 0, y + 1, h)) = R(k, 0, y + 1, h)
      BY <1>3 DEF scroll, R, Lines
    <2>. QED  BY <1>1, <1>2, <1>3, <2>1 DEF Below
  <1>4. CASE ~(y < Height - 1)
    <2>1. y + 1 = Height
      BY <1>4 DEF Lines
    <2>2. Height - Height + 1 = 1
      OBVIOUS
    <2>3. PICK s : s = R(k, 0, Height, h)
      OBVIOUS
    <2>4. s.y = Height /\ s.cell = k
      BY ONLY <2>3 DEF R
    <2>5. PICK u : u = Up(k)
      OBVIOUS
    <2>6. scroll(s) = [s EXCEPT !.cell = u, !.y = Height - 1]
      <3>1. ~(s.y < Height)
        BY <2>4
      <3>2. PICK m : m = s.y - Height + 1
        OBVIOUS
      <3>3. m = 1 /\ m * Width = Width
        BY <2>4, <3>2
      <3>4. scroll(s) = [s EXCEPT
              !.cell = [i \in Cells |->
                  IF i \div Width = Height - m THEN Blank
                  ELSE IF i \div Width < Height - m THEN s.cell[i + m * Width]
                  ELSE s.cell[i]],
              !.y = Height - 1]
        BY ONLY <3>1, <3>2 DEF scroll
      <3>5. u = [i \in Cells |->
                  IF i \div Width = Height - m THEN Blank
                  ELSE IF i \div Width < Height - m THEN s.cell[i + m * Width]
                  ELSE s.cell[i]]
        BY ONLY <2>4, <2>5, <3>3 DEF Up
      <3>. QED  BY ONLY <3>4, <3>5
    <2>7. PICK t : t = [s EXCEPT !.cell = u, !.y = Height - 1]
      OBVIOUS
    <2>8. t = R(u, 0, Height - 1, h)
      BY ONLY <2>3, <2>7 DEF R
    <2>9. move_csr(scroll(s)) = Scr(u, 0, Height - 1)
      BY ONLY <1>1, <2>6, <2>7, <2>8
    <2>. QED  BY ONLY <1>1, <1>2, <1>4, <2>1, <2>3, <2>5, <2>9 DEF Below
  <1>. QED  BY <1>1, <1>2, <1>3, <1>4

\* The column of the next tab stop.
Stop(x) == ((x + TabStop) \div TabStop) * TabStop

LEMMA NextStops ==
  ASSUME ScreenAssumption, NEW x \in Columns
  PROVE  /\ Stop(x) \in x + 1 .. x + TabStop /\ Stop(x) % TabStop = 0 /\ Stop(x) <= Width
  <1>. USE Sizes
  <1>2. PICK p \in Int : p = x + TabStop
    BY DEF Columns
  <1>0. TabStop \in Nat \ {0} /\ Width \in Int /\ Width % TabStop = 0
    OBVIOUS
  <1>1. PICK q \in Int : q = (x + TabStop) \div TabStop
    BY ONLY <1>0, <1>2, DivMod
  <1>3. TabStop * q <= p /\ p < TabStop * q + TabStop
    <2>1. PICK r \in Int : r = p % TabStop
      BY ONLY <1>0, <1>2, DivMod
    <2>2. q = p \div TabStop
      BY ONLY <1>1, <1>2
    <2>3. 0 <= r /\ r < TabStop /\ p = TabStop * q + r
      BY ONLY <1>0, <1>2, <2>1, <2>2, DivMod
    <2>4. PICK t \in Int : t = TabStop * q
      BY ONLY <1>0, <1>1
    <2>. QED  BY ONLY <1>0, <1>2, <2>1, <2>3, <2>4
  <1>4. PICK m \in Int : m = Width \div TabStop /\ Width = TabStop * m
    <2>1. PICK m \in Int : m = Width \div TabStop
      BY ONLY <1>0, DivMod
    <2>2. Width = TabStop * m + 0
      BY ONLY <1>0, <2>1, DivMod
    <2>3. PICK t \in Int : t = TabStop * m
      BY ONLY <1>0, <2>1
    <2>. QED  BY ONLY <2>1, <2>2, <2>3
  <1>5. /\ q * TabStop = TabStop * q /\ m * TabStop = TabStop * m /\ q * TabStop \in Int
        /\ (m + 1) * TabStop = m * TabStop + TabStop
    OBVIOUS
  <1>6. Stop(x) = q * TabStop
    BY <1>1 DEF Stop
  <1>7. Stop(x) \in x + 1 .. x + TabStop
    BY <1>2, <1>3, <1>5, <1>6 DEF Columns
  <1>8. ~(m < q)
    <2>1. m < q => m * TabStop + TabStop <= q * TabStop
      BY Order
    <2>2. p < Width + TabStop
      BY <1>2 DEF Columns
    <2>. QED  BY <1>3, <1>4, <1>5, <2>1, <2>2
  <1>9. q * TabStop <= m * TabStop
    BY <1>8, Order
  <1>10. (q * TabStop) % TabStop = 0
    <2>1. PICK z \in Int : z = q * TabStop
      BY <1>5
    <2>2. z = TabStop * q + 0
      BY <1>5, <2>1
    <2>. QED  BY <2>1, <2>2
  <1>. QED  BY <1>4, <1>5, <1>6, <1>7, <1>9, <1>10

\* What putch makes of each character.
LEMMA PutCases ==
  ASSUME ScreenAssumption, NEW k \in Texts, NEW x \in Columns, NEW y \in Lines, NEW h
  PROVE  /\ putch(R(k, x, y, h), "bs") = Scr(k, IF x # 0 THEN x - 1 ELSE 0, y)
         /\ putch(R(k, x, y, h), "cr") = Scr(k, 0, y)
         /\ putch(R(k, x, y, h), "ctl") = Scr(k, x, y)
         /\ putch(R(k, x, y, h), "nl") = Below(k, y)
         /\ putch(R(k, x, y, h), "tab") = IF Stop(x) < Width THEN Scr(k, Stop(x), y) ELSE Below(k, y)
         /\ \A c \in Signs :
              putch(R(k, x, y, h), c) = IF x + 1 < Width THEN Scr(Put(k, x, y, c), x + 1, y)
                                        ELSE Below(Put(k, x, y, c), y)
  <1>. USE Sizes
  <1>1. x \in Int /\ 0 <= x /\ x < Width /\ y \in Int /\ 0 <= y /\ y < Height /\ 0 \in Columns
    BY DEF Columns, Lines
  <1>2. ASSUME NEW kk, NEW u \in Int, 0 <= u
        PROVE  /\ u < Width => Wrap(R(kk, u, y, h)) = R(kk, u, y, h)
               /\ ~(u < Width) => Wrap(R(kk, u, y, h)) = R(kk, 0, y + 1, h)
    <2>1. PICK r : r = R(kk, u, y, h)
      OBVIOUS
    <2>2. r.x = u /\ r.y = y
      BY ONLY <2>1 DEF R
    <2>3. u < Width => Wrap(r) = r
      BY <1>2, <2>2 DEF Wrap
    <2>4. ~(u < Width) => Wrap(r) = [r EXCEPT !.x = 0, !.y = y + 1]
      <3>1. ~(u < Width) => u >= Width
        BY <1>2
      <3>. QED  BY ONLY <2>2, <3>1 DEF Wrap
    <2>5. PICK t : t = [r EXCEPT !.x = 0, !.y = y + 1]
      OBVIOUS
    <2>6. t = R(kk, 0, y + 1, h)
      BY ONLY <2>1, <2>5 DEF R
    <2>. QED  BY ONLY <2>1, <2>3, <2>4, <2>5, <2>6
  <1>3. ASSUME NEW kk \in Texts, NEW u \in Int, 0 <= u
        PROVE  /\ u < Width => move_csr(scroll(Wrap(R(kk, u, y, h)))) = Scr(kk, u, y)
               /\ ~(u < Width) => move_csr(scroll(Wrap(R(kk, u, y, h)))) = Below(kk, y)
    <2>1. u < Width => u \in Columns
      BY <1>3 DEF Columns
    <2>. QED  BY <1>1, <1>2, <1>3, <2>1, Settle
  <1>4. putch(R(k, x, y, h), "bs") = Scr(k, IF x # 0 THEN x - 1 ELSE 0, y)
    <2>1. PICK u \in Int : u = (IF x # 0 THEN x - 1 ELSE 0) /\ 0 <= u /\ u < Width
      BY <1>1
    <2>2. Advance(R(k, x, y, h), "bs") = Wrap(R(k, u, y, h))
      BY <2>1 DEF Advance, R
    <2>. QED  BY <1>3, <2>1, <2>2 DEF putch
  <1>5. putch(R(k, x, y, h), "cr") = Scr(k, 0, y)
    <2>1. Advance(R(k, x, y, h), "cr") = Wrap(R(k, 0, y, h))
      BY DEF Advance, R
    <2>. QED  BY <1>3, <2>1 DEF putch
  <1>6. putch(R(k, x, y, h), "ctl") = Scr(k, x, y)
    <2>1. Advance(R(k, x, y, h), "ctl") = Wrap(R(k, x, y, h))
      BY DEF Advance, R
    <2>. QED  BY <1>1, <1>3, <2>1 DEF putch
  <1>7. putch(R(k, x, y, h), "nl") = Below(k, y)
    <2>1. Advance(R(k, x, y, h), "nl") = Wrap(R(k, 0, y + 1, h))
      BY DEF Advance, R
    <2>2. Wrap(R(k, 0, y + 1, h)) = R(k, 0, y + 1, h)
      BY DEF Wrap, R
    <2>. QED  BY <1>1, <2>1, <2>2, Settle DEF putch
  <1>8. putch(R(k, x, y, h), "tab") = IF Stop(x) < Width THEN Scr(k, Stop(x), y) ELSE Below(k, y)
    <2>1. Stop(x) \in Int /\ 0 <= Stop(x)
      BY <1>1, NextStops
    <2>2. Advance(R(k, x, y, h), "tab") = Wrap(R(k, Stop(x), y, h))
      BY DEF Advance, Tab, Stop, R
    <2>. QED  BY <1>3, <2>1, <2>2 DEF putch
  <1>9. ASSUME NEW c \in Signs
        PROVE  putch(R(k, x, y, h), c) = IF x + 1 < Width THEN Scr(Put(k, x, y, c), x + 1, y)
                                         ELSE Below(Put(k, x, y, c), y)
    <2>1. c \notin Controls
      BY DEF Signs, Controls, Blank
    <2>2. y * Width + x \in Cells
      <3>1. y \in Int /\ x \in 0 .. Width - 1 /\ Height \in Int /\ y \in 0 .. Height - 1
        BY <1>1
      <3>. QED  BY ONLY <3>1, Sizes, ScreenAssumption, Place DEF Cells
    <2>3. Put(k, x, y, c) \in Texts
      BY DEF Put, Texts
    <2>4. Write(R(k, x, y, h), c) = R(Put(k, x, y, c), x, y, h)
      <3>1. PICK p : p = y * Width + x
        OBVIOUS
      <3>2. PICK r : r = R(k, x, y, h)
        OBVIOUS
      <3>3. r.x = x /\ r.y = y
        BY ONLY <3>2 DEF R
      <3>4. Write(r, c) = [r EXCEPT !.cell[p] = c]
        BY ONLY <2>2, <3>1, <3>3 DEF Write
      <3>5. PICK kk : kk = [k EXCEPT ![p] = c]
        OBVIOUS
      <3>6. PICK t : t = [r EXCEPT !.cell[p] = c]
        OBVIOUS
      <3>7. t = R(kk, x, y, h)
        BY ONLY <3>2, <3>5, <3>6 DEF R
      <3>. QED  BY ONLY <3>1, <3>2, <3>4, <3>5, <3>6, <3>7 DEF Put
    <2>5. Advance(R(k, x, y, h), c) = Wrap([Write(R(k, x, y, h), c) EXCEPT !.x = @ + 1])
      BY <2>1 DEF Advance, Controls
    <2>6. [R(Put(k, x, y, c), x, y, h) EXCEPT !.x = @ + 1] = R(Put(k, x, y, c), x + 1, y, h)
      <3>1. PICK r : r = R(Put(k, x, y, c), x, y, h)
        OBVIOUS
      <3>2. PICK t : t = [r EXCEPT !.x = @ + 1]
        OBVIOUS
      <3>3. t = R(Put(k, x, y, c), x + 1, y, h)
        BY ONLY <3>1, <3>2 DEF R
      <3>. QED  BY ONLY <3>1, <3>2, <3>3
    <2>7. putch(R(k, x, y, h), c) = move_csr(scroll(Wrap(R(Put(k, x, y, c), x + 1, y, h))))
      BY <2>4, <2>5, <2>6 DEF putch
    <2>. QED  BY <1>1, <1>3, <2>3, <2>7
  <1>. QED  BY <1>4, <1>5, <1>6, <1>7, <1>8, <1>9

-----------------------------------------------------------------------------
(* The lines the cells show.                                               *)

\* Row r of the cells, the rows down to y, and what is seen with the cursor at x, y.
Row(k, r) == [c \in Columns |-> k[(r - 1) * Width + c]]
Text(k, y) == [r \in 1 .. y + 1 |-> Row(k, r)]
View(k, x, y) == [lines |-> Text(k, y), col |-> x]

\* A screen between two operations.
Good(k, x, y) ==
    /\ k \in Texts /\ x \in Columns /\ y \in Lines
    /\ \A i \in Cells : i >= (y + 1) * Width => k[i] = Blank

LEMMA ShowsView ==
  ASSUME NEW k, NEW x, NEW y
  PROVE  Shows(Scr(k, x, y)) = View(k, x, y)
  <1>1. PICK s : s = Scr(k, x, y)
    OBVIOUS
  <1>2. s.cell = k /\ s.x = x /\ s.y = y
    BY <1>1 DEF Scr, R
  <1>3. Shows(s) = View(k, x, y)
    BY ONLY <1>2 DEF Shows, View, Text, Row, Columns
  <1>. QED  BY <1>1, <1>3

\* Cells by their row and column.
LEMMA AtPlace ==
  ASSUME ScreenAssumption
  PROVE  /\ \A r \in Lines, c \in Columns :
              /\ r * Width + c \in Cells /\ (r * Width + c) \div Width = r
              /\ \A q \in Lines, d \in Columns : q * Width + d = r * Width + c => q = r /\ d = c
         /\ \A i \in Cells : \E r \in Lines, c \in Columns : i = r * Width + c
         /\ \A r, y \in Lines, c \in Columns : r * Width + c >= (y + 1) * Width <=> r > y
  <1>1. ASSUME NEW r \in Lines, NEW c \in Columns
        PROVE  /\ r * Width + c \in Cells /\ (r * Width + c) \div Width = r
               /\ \A q \in Lines, d \in Columns : q * Width + d = r * Width + c => q = r /\ d = c
    <2>1. /\ Width \in Nat \ {0} /\ Height \in Int /\ r \in Int /\ r \in 0 .. Height - 1
          /\ c \in 0 .. Width - 1
      BY Sizes DEF Lines, Columns
    <2>2. r * Width + c \in 0 .. Width * Height - 1 /\ (r * Width + c) \div Width = r
      BY ONLY <2>1, Place
    <2>3. \A v \in Int : \A u \in 0 .. Width - 1 :
             v * Width + u = r * Width + c => v = r /\ u = c
      BY ONLY <2>1, Place
    <2>4. Lines \subseteq Int
      BY DEF Lines
    <2>. QED  BY ONLY <2>2, <2>3, <2>4 DEF Cells, Columns
  <1>2. ASSUME NEW i \in Cells PROVE \E r \in Lines, c \in Columns : i = r * Width + c
    BY Rows DEF Lines, Columns
  <1>3. ASSUME NEW r \in Lines, NEW y \in Lines, NEW c \in Columns
        PROVE  r * Width + c >= (y + 1) * Width <=> r > y
    <2>1. /\ Width \in Nat \ {0} /\ r \in Int /\ y \in Int /\ y + 1 \in Int
          /\ c \in Int /\ 0 <= c /\ c < Width
      BY Sizes DEF Lines, Columns
    <2>2. /\ r * Width \in Int /\ (y + 1) * Width \in Int
          /\ y + 1 <= r => (y + 1) * Width <= r * Width
          /\ r < y + 1 => r * Width + Width <= (y + 1) * Width
      BY ONLY <2>1, Order
    <2>3. PICK p \in Int : p = r * Width
      BY <2>2
    <2>4. PICK q \in Int : q = (y + 1) * Width
      BY <2>2
    <2>5. /\ y + 1 <= r => q <= p
          /\ r < y + 1 => p + Width <= q
      BY ONLY <2>2, <2>3, <2>4
    <2>6. p + c >= q <=> r > y
      BY ONLY <2>1, <2>5
    <2>. QED  BY ONLY <2>3, <2>4, <2>6
  <1>. QED  BY <1>1, <1>2, <1>3

\* A change of cells of the cursor's row changes its line, and no other.
LEMMA Edited ==
  ASSUME ScreenAssumption, NEW k \in Texts, NEW m \in Texts, NEW y \in Lines,
         \A r \in Lines, c \in Columns : r # y => m[r * Width + c] = k[r * Width + c]
  PROVE  /\ Text(m, y) = [Text(k, y) EXCEPT ![y + 1] = Row(m, y + 1)]
         /\ \A x, u \in Columns : Good(k, x, y) => Good(m, u, y)
  <1>1. y \in Int /\ 0 <= y /\ y < Height /\ Height \in Int
    BY Sizes DEF Lines
  <1>2. ASSUME NEW r \in 1 .. y + 1, r # y + 1
        PROVE  Row(m, r) = Row(k, r)
    <2>1. r - 1 \in Lines /\ r - 1 # y
      BY <1>1, <1>2 DEF Lines
    <2>. QED  BY <2>1 DEF Row
  <1>3. Text(m, y) = [Text(k, y) EXCEPT ![y + 1] = Row(m, y + 1)]
    <2>1. PICK z : z = Row(m, y + 1)
      OBVIOUS
    <2>2. Text(m, y) = [r \in 1 .. y + 1 |-> IF r = y + 1 THEN z ELSE Row(k, r)]
      BY <1>2, <2>1 DEF Text
    <2>3. [Text(k, y) EXCEPT ![y + 1] = z] = [r \in 1 .. y + 1 |-> IF r = y + 1 THEN z ELSE Row(k, r)]
      BY DEF Text
    <2>. QED  BY ONLY <2>1, <2>2, <2>3
  <1>4. ASSUME NEW x \in Columns, NEW u \in Columns, Good(k, x, y) PROVE Good(m, u, y)
    <2>1. ASSUME NEW i \in Cells, i >= (y + 1) * Width PROVE m[i] = Blank
      <3>1. PICK r \in Lines, c \in Columns : i = r * Width + c
        BY AtPlace
      <3>2. r > y
        BY <2>1, <3>1, AtPlace
      <3>3. r # y
        BY <1>1, <3>2
      <3>4. m[i] = k[i]
        BY <3>1, <3>3
      <3>. QED  BY <1>4, <2>1, <3>4 DEF Good
    <2>. QED  BY <2>1 DEF Good
  <1>. QED  BY <1>3, <1>4

\* The moved text has the rows of the old one, one higher, and a blank one.
LEMMA UpCells ==
  ASSUME ScreenAssumption, NEW k \in Texts
  PROVE  /\ Up(k) \in Texts
         /\ \A r \in Lines, c \in Columns :
              Up(k)[r * Width + c] = IF r = Height - 1 THEN Blank ELSE k[(r + 1) * Width + c]
  <1>1. ASSUME NEW r \in Lines, NEW c \in Columns
        PROVE  /\ Up(k)[r * Width + c] = IF r = Height - 1 THEN Blank ELSE k[(r + 1) * Width + c]
               /\ Up(k)[r * Width + c] \in Signs
    <2>1. PICK i \in Cells : i = r * Width + c
      BY AtPlace
    <2>2. i \div Width = r
      BY <2>1, AtPlace
    <2>3. r \in Int /\ 0 <= r /\ r < Height /\ Height \in Int /\ Width \in Nat \ {0} /\ c \in Int
      BY Sizes DEF Lines, Columns
    <2>4. i + Width = (r + 1) * Width + c
      <3>1. r * Width \in Int /\ (r + 1) * Width = r * Width + Width
        BY ONLY <2>3, Order
      <3>2. PICK p \in Int : p = r * Width
        BY <3>1
      <3>. QED  BY ONLY <2>1, <2>3, <3>1, <3>2
    <2>5. Up(k)[i] = IF r = Height - 1 THEN Blank ELSE k[i + Width]
      BY <2>2, <2>3 DEF Up
    <2>6. r # Height - 1 => k[i + Width] \in Signs
      <3>1. r # Height - 1 => r + 1 \in Lines
        BY <2>3 DEF Lines
      <3>2. r # Height - 1 => (r + 1) * Width + c \in Cells
        BY <3>1, AtPlace
      <3>. QED  BY <2>4, <3>2 DEF Texts
    <2>. QED  BY <2>1, <2>4, <2>5, <2>6 DEF Signs
  <1>2. ASSUME NEW i \in Cells PROVE Up(k)[i] \in Signs
    <2>1. PICK r \in Lines, c \in Columns : i = r * Width + c
      BY AtPlace
    <2>. QED  BY <1>1, <2>1
  <1>. QED  BY <1>1, <1>2 DEF Up, Texts

\* Adding an element at the end, and leaving out the first.
LEMMA Ends ==
  ASSUME NEW n \in Nat, NEW f
  PROVE  LET s == [r \in 1 .. n |-> f[r]]
             z == [r \in 1 .. n + 1 |-> f[r]]
         IN  /\ Len(s) = n /\ Append(s, f[n + 1]) = z /\ Len(z) = n + 1
             /\ Tail(z) = [r \in 1 .. n |-> f[r + 1]]
  OBVIOUS

\* The line below is fresh, and the oldest line goes when it has no row.
LEMMA FeedLine ==
  ASSUME ScreenAssumption, NEW k, NEW x, NEW y, Good(k, x, y)
  PROVE  \E m \in Texts, v \in Lines :
            /\ Below(k, y) = Scr(m, 0, v) /\ Good(m, 0, v)
            /\ View(m, 0, v) = T!LineFeed(View(k, x, y))
  <1>1. /\ k \in Texts /\ y \in Lines /\ y \in Int /\ 0 <= y /\ y < Height /\ Height \in Int
        /\ 0 \in Columns /\ Height >= 1 /\ y + 1 \in Nat
    BY Sizes DEF Good, Lines, Columns
  <1>2. ASSUME NEW m \in Texts, NEW v \in Lines, \A c \in Columns : m[v * Width + c] = Blank
        PROVE  Row(m, v + 1) = T!Fresh
    <2>1. (v + 1) - 1 = v
      BY DEF Lines
    <2>. QED  BY <1>2, <2>1 DEF Row, T!Fresh, T!Columns, Columns
  <1>. DEFINE all == Append(Text(k, y), T!Fresh)
  <1>3. Len(Text(k, y)) = y + 1 /\ all = [r \in 1 .. y + 2 |-> IF r = y + 2 THEN T!Fresh ELSE Row(k, r)]
        /\ Len(all) = y + 2
        /\ Tail(all) = [r \in 1 .. y + 1 |-> IF r + 1 = y + 2 THEN T!Fresh ELSE Row(k, r + 1)]
    <2>. DEFINE f == [r \in 1 .. y + 2 |-> IF r = y + 2 THEN T!Fresh ELSE Row(k, r)]
    <2>1. f[y + 2] = T!Fresh /\ (y + 1) + 1 = y + 2
      BY <1>1
    <2>2. Text(k, y) = [r \in 1 .. y + 1 |-> f[r]]
      BY <1>1 DEF Text
    <2>3. f = [r \in 1 .. y + 2 |-> f[r]]
      OBVIOUS
    <2>4. [r \in 1 .. y + 1 |-> f[r + 1]] =
             [r \in 1 .. y + 1 |-> IF r + 1 = y + 2 THEN T!Fresh ELSE Row(k, r + 1)]
      BY <1>1
    <2>. HIDE DEF f
    <2>5. /\ Len(Text(k, y)) = y + 1 /\ all = f /\ Len(f) = y + 2
          /\ Tail(f) = [r \in 1 .. y + 1 |-> f[r + 1]]
      BY <1>1, <2>1, <2>2, <2>3, Ends
    <2>. QED  BY <2>4, <2>5 DEF f
  <1>. HIDE DEF all
  <1>4. T!LineFeed(View(k, x, y)) =
           [lines |-> IF y + 2 > Height THEN Tail(all) ELSE all, col |-> 0]
    BY <1>3 DEF T!LineFeed, View, all
  <1>5. CASE y < Height - 1
    <2>1. y + 1 \in Lines
      BY <1>1, <1>5 DEF Lines
    <2>2. Good(k, 0, y + 1)
      <3>1. ASSUME NEW i \in Cells, i >= (y + 1 + 1) * Width PROVE k[i] = Blank
        <4>1. PICK r \in Lines, c \in Columns : i = r * Width + c
          BY AtPlace
        <4>2. r > y + 1
          BY <2>1, <3>1, <4>1, AtPlace
        <4>3. r > y
          BY <1>1, <4>2 DEF Lines
        <4>. QED  BY <1>1, <4>1, <4>3, AtPlace DEF Good
      <3>. QED  BY <1>1, <2>1, <3>1 DEF Good
    <2>3. ASSUME NEW c \in Columns PROVE k[(y + 1) * Width + c] = Blank
      <3>1. PICK r \in Lines : r = y + 1 /\ r > y
        BY <1>1, <2>1
      <3>2. r * Width + c \in Cells /\ r * Width + c >= (y + 1) * Width
        BY <1>1, <3>1, AtPlace
      <3>3. k[r * Width + c] = Blank
        BY <3>2 DEF Good
      <3>. QED  BY ONLY <3>1, <3>3
    <2>4. Row(k, y + 2) = T!Fresh
      <3>1. (y + 1) + 1 = y + 2
        BY <1>1
      <3>. QED  BY <1>1, <1>2, <2>1, <2>3, <3>1
    <2>5. Text(k, y + 1) = all
      <3>1. (y + 1) + 1 = y + 2
        BY <1>1
      <3>. QED  BY <1>3, <2>4, <3>1 DEF Text
    <2>6. ~(y + 2 > Height)
      BY <1>1, <1>5
    <2>7. View(k, 0, y + 1) = T!LineFeed(View(k, x, y))
      BY <1>4, <2>5, <2>6 DEF View
    <2>. QED  BY <1>1, <1>5, <2>1, <2>2, <2>7 DEF Below
  <1>6. CASE ~(y < Height - 1)
    <2>1. y = Height - 1 /\ y + 2 > Height /\ (Height - 1) + 1 = Height /\ y + 1 = Height
      BY <1>1, <1>6
    <2>2. PICK m \in Texts : m = Up(k)
      BY <1>1, UpCells
    <2>3. Good(m, 0, Height - 1)
      <3>1. ASSUME NEW i \in Cells, i >= ((Height - 1) + 1) * Width PROVE FALSE
        <4>1. PICK r \in Lines, c \in Columns : i = r * Width + c
          BY AtPlace
        <4>2. r > Height - 1
          BY <1>1, <2>1, <3>1, <4>1, AtPlace
        <4>. QED  BY <1>1, <4>2 DEF Lines
      <3>. QED  BY <1>1, <2>1, <3>1 DEF Good
    <2>4. Row(m, Height) = T!Fresh
      BY <1>1, <1>2, <2>1, <2>2, UpCells
    <2>5. ASSUME NEW r \in 1 .. y + 1, r + 1 # y + 2
          PROVE  Row(m, r) = Row(k, r + 1)
      <3>1. r - 1 \in Lines /\ r - 1 # Height - 1 /\ (r - 1) + 1 = r /\ (r + 1) - 1 = r
        BY <1>1, <2>1, <2>5 DEF Lines
      <3>2. \A c \in Columns : m[(r - 1) * Width + c] = k[r * Width + c]
        BY <1>1, <2>2, <3>1, UpCells
      <3>. QED  BY <3>1, <3>2 DEF Row
    <2>6. Text(m, y) = Tail(all)
      <3>1. ASSUME NEW r \in 1 .. y + 1
            PROVE  Row(m, r) = IF r + 1 = y + 2 THEN T!Fresh ELSE Row(k, r + 1)
        <4>1. r + 1 = y + 2 => r = Height
          BY <1>1, <2>1
        <4>. QED  BY <2>4, <2>5, <4>1
      <3>. QED  BY <1>3, <3>1 DEF Text
    <2>7. View(m, 0, y) = T!LineFeed(View(k, x, y))
      BY <1>4, <2>1, <2>6 DEF View
    <2>. QED  BY <1>1, <1>6, <2>1, <2>2, <2>3, <2>7 DEF Below
  <1>. QED  BY <1>5, <1>6

-----------------------------------------------------------------------------
(* What the operators do to the lines.                                     *)

\* The column the cursor goes to: the line is full when it is Width.
LEMMA Moves ==
  ASSUME ScreenAssumption, NEW k, NEW x, NEW y, Good(k, x, y), NEW s, NEW u \in Int,
         0 <= u, u <= Width,
         s = IF u < Width THEN Scr(k, u, y) ELSE Below(k, y)
  PROVE  /\ \E m, z, v : Good(m, z, v) /\ s = Scr(m, z, v)
         /\ Shows(s) = T!Goto(View(k, x, y), u)
  <1>1. CASE u < Width
    <2>1. u \in Columns /\ u # Width
      BY <1>1, Sizes DEF Columns
    <2>2. Good(k, u, y)
      BY <2>1 DEF Good
    <2>3. T!Goto(View(k, x, y), u) = View(k, u, y)
      <3>1. PICK t : t = View(k, x, y)
        OBVIOUS
      <3>2. PICK z : z = [t EXCEPT !.col = u]
        OBVIOUS
      <3>3. z = View(k, u, y)
        BY ONLY <3>1, <3>2 DEF View
      <3>. QED  BY ONLY <2>1, <3>1, <3>2, <3>3 DEF T!Goto
    <2>. QED  BY <1>1, <2>2, <2>3, ShowsView
  <1>2. CASE ~(u < Width)
    <2>1. u = Width
      BY <1>2, Sizes
    <2>2. PICK m \in Texts, v \in Lines :
             /\ Below(k, y) = Scr(m, 0, v) /\ Good(m, 0, v)
             /\ View(m, 0, v) = T!LineFeed(View(k, x, y))
      BY FeedLine
    <2>. QED  BY <1>2, <2>1, <2>2, ShowsView DEF T!Goto
  <1>. QED  BY <1>1, <1>2

\* A sign put in a cell is the sign at that column of the last line.
LEMMA PutView ==
  ASSUME ScreenAssumption, NEW k, NEW x, NEW y, Good(k, x, y), NEW c \in Signs
  PROVE  /\ Good(Put(k, x, y, c), x, y)
         /\ View(Put(k, x, y, c), x, y) =
              [View(k, x, y) EXCEPT !.lines[Len(View(k, x, y).lines)][View(k, x, y).col] = c]
  <1>1. k \in Texts /\ x \in Columns /\ y \in Lines /\ y \in Int /\ y + 1 \in Nat
    BY DEF Good, Lines
  <1>2. PICK m : m = Put(k, x, y, c)
    OBVIOUS
  <1>3. m \in Texts /\ \A q \in Lines, d \in Columns :
           m[q * Width + d] = IF q = y /\ d = x THEN c ELSE k[q * Width + d]
    <2>1. m \in Texts
      BY <1>1, <1>2 DEF Put, Texts
    <2>2. ASSUME NEW q \in Lines, NEW d \in Columns
          PROVE  m[q * Width + d] = IF q = y /\ d = x THEN c ELSE k[q * Width + d]
      <3>1. PICK i \in Cells : i = q * Width + d
        BY AtPlace
      <3>2. PICK p \in Cells : p = y * Width + x
        BY <1>1, AtPlace
      <3>3. i = p <=> q = y /\ d = x
        BY <1>1, <3>1, <3>2, AtPlace
      <3>4. m[i] = IF i = p THEN c ELSE k[i]
        BY <1>1, <1>2, <3>2 DEF Put, Texts
      <3>. QED  BY ONLY <3>1, <3>3, <3>4
    <2>. QED  BY <2>1, <2>2
  <1>4. Text(m, y) = [Text(k, y) EXCEPT ![y + 1] = Row(m, y + 1)] /\ Good(m, x, y)
    BY <1>1, <1>3, Edited
  <1>5. PICK z : z = Row(k, y + 1)
    OBVIOUS
  <1>6. Row(m, y + 1) = [z EXCEPT ![x] = c]
    <2>1. (y + 1) - 1 = y
      BY <1>1
    <2>2. z = [d \in Columns |-> k[y * Width + d]]
      BY ONLY <1>5, <2>1 DEF Row
    <2>3. Row(m, y + 1) = [d \in Columns |-> m[y * Width + d]]
      BY ONLY <2>1 DEF Row
    <2>4. \A d \in Columns : m[y * Width + d] = IF d = x THEN c ELSE k[y * Width + d]
      BY <1>1, <1>3
    <2>. QED  BY ONLY <1>1, <2>2, <2>3, <2>4
  <1>7. PICK l : l = Text(k, y)
    OBVIOUS
  <1>8. Len(l) = y + 1 /\ l[y + 1] = z
    <2>1. PICK n \in Nat : n = y + 1
      BY <1>1
    <2>2. n \in 1 .. n
      BY <1>1, <2>1 DEF Lines
    <2>3. l = [r \in 1 .. n |-> Row(k, r)]
      BY ONLY <1>7, <2>1 DEF Text
    <2>4. Len(l) = n /\ l[n] = Row(k, n)
      BY ONLY <2>1, <2>2, <2>3
    <2>. QED  BY ONLY <1>5, <2>1, <2>4
  <1>9. Text(m, y) = [l EXCEPT ![y + 1] = [z EXCEPT ![x] = c]]
    BY ONLY <1>4, <1>6, <1>7
  <1>10. PICK t : t = [lines |-> l, col |-> x]
    OBVIOUS
  <1>11. PICK w : w = [t EXCEPT !.lines[Len(t.lines)][t.col] = c]
    OBVIOUS
  <1>12. t.lines = l /\ t.col = x
    BY ONLY <1>10
  <1>13. w = [t EXCEPT !.lines = [l EXCEPT ![y + 1] = [z EXCEPT ![x] = c]]]
    BY ONLY <1>8, <1>11, <1>12
  <1>14. w = [lines |-> [l EXCEPT ![y + 1] = [z EXCEPT ![x] = c]], col |-> x]
    BY ONLY <1>10, <1>13
  <1>15. View(k, x, y) = t /\ View(m, x, y) = w
    BY ONLY <1>7, <1>9, <1>10, <1>14 DEF View
  <1>. QED  BY ONLY <1>2, <1>4, <1>11, <1>15

\* The screens between two operations.
GoodScreens == {s \in Screens : \E k, x, y : Good(k, x, y) /\ s = Scr(k, x, y)}

LEMMA IsGood ==
  ASSUME ScreenAssumption, NEW k, NEW x, NEW y, Good(k, x, y)
  PROVE  Scr(k, x, y) \in GoodScreens
  <1>1. y * Width + x \in Int
    <2>1. y \in Int /\ x \in Int /\ Width \in Int
      BY Sizes DEF Good, Lines, Columns
    <2>. QED  BY ONLY <2>1
  <1>2. PICK h \in Int : h = y * Width + x
    BY <1>1
  <1>3. R(k, x, y, h) \in Screens
    BY DEF Good, R, Screens, Texts, Lines, Columns
  <1>. QED  BY <1>2, <1>3 DEF GoodScreens, Scr

\* putch on a screen between two operations: each character does to the lines what
\* the terminal promises, and "cr" and "bs" keep the lines.
LEMMA PutchView ==
  ASSUME ScreenAssumption, NEW k, NEW x, NEW y, Good(k, x, y)
  PROVE  LET s == Scr(k, x, y)
             t == View(k, x, y)
         IN  /\ \A c \in Controls \cup Signs : putch(s, c) \in GoodScreens
             /\ Shows(putch(s, "ctl")) = t
             /\ Shows(putch(s, "cr")) = View(k, 0, y)
             /\ Shows(putch(s, "bs")) = View(k, IF x # 0 THEN x - 1 ELSE 0, y)
             /\ Shows(putch(s, "nl")) = T!LineFeed(t)
             /\ Shows(putch(s, "tab")) = T!Goto(t, Stop(x))
             /\ \A c \in Signs : Shows(putch(s, c)) = T!Typed(t, c)
  <1>. DEFINE s == Scr(k, x, y)
              t == View(k, x, y)
  <1>1. /\ k \in Texts /\ x \in Columns /\ y \in Lines /\ x \in Int /\ 0 <= x /\ x < Width
        /\ Width \in Int /\ 0 \in Columns
    BY Sizes DEF Good, Lines, Columns
  <1>2. PICK h : h = y * Width + x
    OBVIOUS
  <1>3. s = R(k, x, y, h)
    BY <1>2 DEF Scr
  <1>4. /\ putch(s, "bs") = Scr(k, IF x # 0 THEN x - 1 ELSE 0, y)
        /\ putch(s, "cr") = Scr(k, 0, y)
        /\ putch(s, "ctl") = Scr(k, x, y)
        /\ putch(s, "nl") = Below(k, y)
        /\ putch(s, "tab") = IF Stop(x) < Width THEN Scr(k, Stop(x), y) ELSE Below(k, y)
        /\ \A c \in Signs :
             putch(s, c) = IF x + 1 < Width THEN Scr(Put(k, x, y, c), x + 1, y)
                           ELSE Below(Put(k, x, y, c), y)
    BY <1>1, <1>3, PutCases
  <1>. HIDE DEF s
  <1>5. ASSUME NEW u \in Columns
        PROVE  Scr(k, u, y) \in GoodScreens /\ Shows(Scr(k, u, y)) = View(k, u, y)
    <2>1. Good(k, u, y)
      BY DEF Good
    <2>. QED  BY <2>1, IsGood, ShowsView
  <1>6. putch(s, "nl") \in GoodScreens /\ Shows(putch(s, "nl")) = T!LineFeed(t)
    <2>1. PICK m \in Texts, v \in Lines :
             /\ Below(k, y) = Scr(m, 0, v) /\ Good(m, 0, v)
             /\ View(m, 0, v) = T!LineFeed(View(k, x, y))
      BY FeedLine
    <2>. QED  BY <1>4, <2>1, IsGood, ShowsView
  <1>7. putch(s, "tab") \in GoodScreens /\ Shows(putch(s, "tab")) = T!Goto(t, Stop(x))
    <2>1. PICK u \in Int : u = Stop(x) /\ 0 <= u /\ u <= Width
      BY <1>1, NextStops
    <2>2. PICK r : r = putch(s, "tab")
      OBVIOUS
    <2>3. r = IF u < Width THEN Scr(k, u, y) ELSE Below(k, y)
      BY ONLY <1>4, <2>1, <2>2
    <2>4. (\E m, z, v : Good(m, z, v) /\ r = Scr(m, z, v)) /\ Shows(r) = T!Goto(View(k, x, y), u)
      BY ONLY ScreenAssumption, Good(k, x, y), <2>1, <2>3, Moves
    <2>. QED  BY <2>1, <2>2, <2>4, IsGood
  <1>8. ASSUME NEW c \in Signs
        PROVE  putch(s, c) \in GoodScreens /\ Shows(putch(s, c)) = T!Typed(t, c)
    <2>1. PICK m : m = Put(k, x, y, c)
      OBVIOUS
    <2>2. /\ Good(m, x, y)
          /\ View(m, x, y) = [t EXCEPT !.lines[Len(t.lines)][t.col] = c]
      BY <2>1, PutView
    <2>3. PICK r : r = putch(s, c)
      OBVIOUS
    <2>4. PICK u \in Int : u = x + 1 /\ 0 <= u /\ u <= Width
      BY <1>1
    <2>5. r = IF u < Width THEN Scr(m, u, y) ELSE Below(m, y)
      BY ONLY <1>4, <1>8, <2>1, <2>3, <2>4
    <2>6. (\E n, z, v : Good(n, z, v) /\ r = Scr(n, z, v)) /\ Shows(r) = T!Goto(View(m, x, y), u)
      BY ONLY ScreenAssumption, <2>2, <2>4, <2>5, Moves
    <2>7. t.col = x
      BY DEF View
    <2>8. T!Typed(t, c) = T!Goto([t EXCEPT !.lines[Len(t.lines)][t.col] = c], t.col + 1)
      BY ONLY TRUE DEF T!Typed
    <2>. QED  BY <2>2, <2>3, <2>4, <2>6, <2>7, <2>8, IsGood
  <1>9. (IF x # 0 THEN x - 1 ELSE 0) \in Columns
    BY <1>1 DEF Columns
  <1>10. \A c \in Controls : putch(s, c) \in GoodScreens
    BY <1>1, <1>4, <1>5, <1>6, <1>7, <1>9 DEF Controls
  <1>11. /\ Shows(putch(s, "ctl")) = t /\ Shows(putch(s, "cr")) = View(k, 0, y)
         /\ Shows(putch(s, "bs")) = View(k, IF x # 0 THEN x - 1 ELSE 0, y)
    BY <1>1, <1>4, <1>5, <1>9
  <1>. QED  BY <1>6, <1>7, <1>8, <1>10, <1>11 DEF s

\* The text without the signs of the cursor's row from col on.
Rub(k, x, y, col) ==
    [i \in Cells |-> IF i \div Width = y /\ i % Width \in col .. x - 1 THEN Blank ELSE k[i]]

LEMMA RubCells ==
  ASSUME ScreenAssumption, NEW k, NEW x, NEW y, Good(k, x, y), NEW col \in 0 .. x
  PROVE  /\ Rub(k, x, y, col) \in Texts /\ col \in Columns
         /\ \A q \in Lines, d \in Columns :
              Rub(k, x, y, col)[q * Width + d] =
                IF q = y /\ d \in col .. x - 1 THEN Blank ELSE k[q * Width + d]
  <1>1. ASSUME NEW q \in Lines, NEW d \in Columns, NEW i \in Cells, i = q * Width + d
        PROVE  i \div Width = q /\ i % Width = d
    <2>1. i \div Width = q
      BY <1>1, AtPlace
    <2>2. i \in Int /\ Width \in Nat \ {0} /\ q \in Int /\ d \in Int
      BY Sizes DEF Cells, Lines, Columns
    <2>3. i = Width * (i \div Width) + (i % Width) /\ i % Width \in Int
      BY ONLY <2>2, DivMod
    <2>4. PICK p \in Int : p = Width * q
      BY ONLY <2>2
    <2>5. q * Width = p
      BY ONLY <2>2, <2>4
    <2>. QED  BY ONLY <1>1, <2>1, <2>2, <2>3, <2>4, <2>5
  <1>2. \A q \in Lines, d \in Columns :
          Rub(k, x, y, col)[q * Width + d] =
            IF q = y /\ d \in col .. x - 1 THEN Blank ELSE k[q * Width + d]
    BY <1>1, AtPlace DEF Rub
  <1>3. Rub(k, x, y, col) \in Texts
    BY DEF Rub, Texts, Good, Signs
  <1>4. col \in Columns
    BY Sizes DEF Good, Columns
  <1>. QED  BY <1>2, <1>3, <1>4

\* It is the text with the end of the open line blank.
LEMMA RubView ==
  ASSUME ScreenAssumption, NEW k, NEW x, NEW y, Good(k, x, y), NEW col \in 0 .. x
  PROVE  LET t == View(k, x, y)
         IN  /\ Good(Rub(k, x, y, col), col, y)
             /\ View(Rub(k, x, y, col), col, y) =
                  [lines |-> [t.lines EXCEPT ![Len(t.lines)] =
                       [c \in T!Columns |-> IF c \in col .. t.col - 1 THEN Blank ELSE @[c]]],
                   col |-> col]
  <1>1. k \in Texts /\ x \in Columns /\ y \in Lines /\ y \in Int
    BY DEF Good, Lines
  <1>2. PICK m : m = Rub(k, x, y, col)
    OBVIOUS
  <1>3. m \in Texts /\ col \in Columns /\ \A q \in Lines, d \in Columns :
           m[q * Width + d] = IF q = y /\ d \in col .. x - 1 THEN Blank ELSE k[q * Width + d]
    BY <1>2, RubCells
  <1>4. Text(m, y) = [Text(k, y) EXCEPT ![y + 1] = Row(m, y + 1)] /\ Good(m, col, y)
    BY <1>1, <1>3, Edited
  <1>5. PICK z : z = Row(k, y + 1)
    OBVIOUS
  <1>6. Row(m, y + 1) = [c \in Columns |-> IF c \in col .. x - 1 THEN Blank ELSE z[c]]
    <2>1. (y + 1) - 1 = y
      BY <1>1
    <2>2. z = [d \in Columns |-> k[y * Width + d]]
      BY ONLY <1>5, <2>1 DEF Row
    <2>3. Row(m, y + 1) = [d \in Columns |-> m[y * Width + d]]
      BY ONLY <2>1 DEF Row
    <2>4. \A d \in Columns :
             m[y * Width + d] = IF d \in col .. x - 1 THEN Blank ELSE k[y * Width + d]
      BY <1>1, <1>3
    <2>. QED  BY ONLY <2>2, <2>3, <2>4
  <1>7. PICK l : l = Text(k, y)
    OBVIOUS
  <1>8. Len(l) = y + 1 /\ l[y + 1] = z
    <2>1. PICK n \in Nat : n = y + 1
      BY <1>1 DEF Lines
    <2>2. n \in 1 .. n
      BY <1>1, <2>1 DEF Lines
    <2>3. l = [r \in 1 .. n |-> Row(k, r)]
      BY ONLY <1>7, <2>1 DEF Text
    <2>4. Len(l) = n /\ l[n] = Row(k, n)
      BY ONLY <2>1, <2>2, <2>3
    <2>. QED  BY ONLY <1>5, <2>1, <2>4
  <1>9. PICK t : t = View(k, x, y)
    OBVIOUS
  <1>10. t.lines = l /\ t.col = x
    BY ONLY <1>7, <1>9 DEF View
  <1>11. [t.lines EXCEPT ![Len(t.lines)] =
            [c \in T!Columns |-> IF c \in col .. t.col - 1 THEN Blank ELSE @[c]]]
         = [l EXCEPT ![y + 1] = Row(m, y + 1)]
    BY ONLY <1>6, <1>8, <1>10 DEF T!Columns, Columns
  <1>12. View(m, col, y) = [lines |-> [l EXCEPT ![y + 1] = Row(m, y + 1)], col |-> col]
    BY ONLY <1>4, <1>7 DEF View
  <1>. QED  BY ONLY <1>2, <1>4, <1>9, <1>11, <1>12

\* suppr takes back one sign of what is left.
LEMMA SupprRub ==
  ASSUME ScreenAssumption, NEW k, NEW x, NEW y, Good(k, x, y)
  PROVE  /\ Scr(Rub(k, x, y, x), x, y) = Scr(k, x, y)
         /\ \A col \in 1 .. x :
              suppr(Scr(Rub(k, x, y, col), col, y)) = Scr(Rub(k, x, y, col - 1), col - 1, y)
  <1>1. /\ k \in Texts /\ x \in Columns /\ y \in Lines /\ x \in Int /\ 0 <= x /\ x < Width
        /\ Width \in Int
    BY Sizes DEF Good, Lines, Columns
  <1>2. Rub(k, x, y, x) = k
    BY <1>1 DEF Rub, Texts
  <1>3. ASSUME NEW col \in 1 .. x
        PROVE  suppr(Scr(Rub(k, x, y, col), col, y)) = Scr(Rub(k, x, y, col - 1), col - 1, y)
    <2>1. col \in 0 .. x /\ col - 1 \in 0 .. x /\ col # 0 /\ (col - 1) + 1 = col /\ col < Width
      BY <1>1
    <2>2. PICK v \in Int : v = col - 1
      OBVIOUS
    <2>3. PICK m \in Texts : m = Rub(k, x, y, col)
      BY <2>1, RubCells
    <2>4. PICK n \in Texts : n = Rub(k, x, y, v)
      BY <2>1, <2>2, RubCells
    <2>5. v \in Columns /\ v + 1 = col /\ Blank \in Signs
      BY <1>1, <2>1, <2>2, RubCells DEF Signs
    <2>6. Put(m, v, y, Blank) = n
      <3>1. ASSUME NEW i \in Cells PROVE Put(m, v, y, Blank)[i] = n[i]
        <4>1. PICK q \in Lines, d \in Columns : i = q * Width + d
          BY AtPlace
        <4>2. PICK p \in Cells : p = y * Width + v
          BY <1>1, <2>5, AtPlace
        <4>3. i = p <=> q = y /\ d = v
          BY <1>1, <2>5, <4>1, <4>2, AtPlace
        <4>4. Put(m, v, y, Blank)[i] = IF i = p THEN Blank ELSE m[i]
          BY <4>2 DEF Put, Texts
        <4>5. m[i] = IF q = y /\ d \in col .. x - 1 THEN Blank ELSE k[i]
          BY <2>1, <2>3, <4>1, RubCells
        <4>6. n[i] = IF q = y /\ d \in v .. x - 1 THEN Blank ELSE k[i]
          BY <2>1, <2>2, <2>4, <4>1, RubCells
        <4>7. d \in v .. x - 1 <=> d = v \/ d \in col .. x - 1
          BY <1>1, <2>2 DEF Columns
        <4>. QED  BY ONLY <4>3, <4>4, <4>5, <4>6, <4>7
      <3>2. Put(m, v, y, Blank) = [i \in Cells |-> Put(m, v, y, Blank)[i]]
        BY DEF Put, Texts
      <3>3. n = [i \in Cells |-> n[i]]
        BY DEF Texts
      <3>. QED  BY ONLY <3>1, <3>2, <3>3
    <2>7. PICK h : h = y * Width + col
      OBVIOUS
    <2>8. PICK s : s = R(m, col, y, h)
      OBVIOUS
    <2>9. PICK w : w = [s EXCEPT !.x = @ - 1]
      OBVIOUS
    <2>10. s.x = col /\ w = R(m, v, y, h)
      BY ONLY <2>2, <2>8, <2>9 DEF R
    <2>11. putch(w, Blank) = Scr(n, col, y)
      BY <1>1, <2>1, <2>5, <2>6, <2>10, PutCases
    <2>12. PICK g : g = y * Width + col
      OBVIOUS
    <2>13. PICK r : r = R(n, col, y, g)
      OBVIOUS
    <2>14. PICK u : u = [r EXCEPT !.x = @ - 1]
      OBVIOUS
    <2>15. u = R(n, v, y, g)
      BY ONLY <2>2, <2>13, <2>14 DEF R
    <2>16. putch(w, Blank) = r
      BY ONLY <2>11, <2>12, <2>13 DEF Scr
    <2>17. suppr(s) = move_csr(u)
      BY ONLY <2>1, <2>9, <2>10, <2>14, <2>16 DEF suppr
    <2>18. move_csr(R(n, v, y, g)) = Scr(n, v, y)
      BY <1>1, <2>5, Settle
    <2>. QED  BY ONLY <2>2, <2>3, <2>4, <2>7, <2>8, <2>15, <2>17, <2>18 DEF Scr
  <1>. QED  BY <1>2, <1>3

\* supprl takes back the line.
LEMMA SupprlRub ==
  ASSUME ScreenAssumption, NEW k, NEW x, NEW y, Good(k, x, y)
  PROVE  supprl(Scr(k, x, y)) = Scr(Rub(k, x, y, 0), 0, y)
  <1>. DEFINE s == Scr(k, x, y)
              Left(n) == Scr(Rub(k, x, y, x - n), x - n, y)
              Value(f) == f = [n \in 0 .. x |-> IF n = 0 THEN s ELSE suppr(f[n - 1])]
              g == [n \in 0 .. x |-> Left(n)]
              v == CHOOSE f : Value(f)
              S == {n \in 0 .. x : v[n] = Left(n)}
  <1>1. x \in Nat /\ s.x = x
    BY Sizes DEF Good, Columns, Scr, R
  <1>2. supprl(s) = v[x]
    BY <1>1 DEF supprl
  <1>3. Left(0) = s /\ \A n \in 1 .. x : suppr(Left(n - 1)) = Left(n)
    <2>1. x - 0 = x
      BY <1>1
    <2>2. ASSUME NEW n \in 1 .. x PROVE suppr(Left(n - 1)) = Left(n)
      <3>1. PICK col \in 1 .. x : col = x - (n - 1)
        BY <1>1
      <3>2. x - n = col - 1
        BY <1>1, <3>1
      <3>. QED  BY <3>1, <3>2, SupprRub
    <2>. QED  BY <2>1, <2>2, SupprRub
  <1>. HIDE DEF s, Left
  <1>4. Value(g)
    <2>1. ASSUME NEW n \in 0 .. x PROVE Left(n) = IF n = 0 THEN s ELSE suppr(g[n - 1])
      <3>1. CASE n = 0
        BY <1>3, <3>1
      <3>2. CASE n # 0
        <4>1. n \in 1 .. x /\ n - 1 \in 0 .. x
          BY <1>1, <3>2
        <4>. QED  BY <1>3, <3>2, <4>1
      <3>. QED  BY <3>1, <3>2
    <2>. QED  BY <2>1
  <1>5. Value(v)
    BY <1>4
  <1>. HIDE DEF v, g
  <1>6. 0 \in S /\ \A n \in 1 .. x : n - 1 \in S => n \in S
    BY <1>1, <1>3, <1>5
  <1>7. x \in S
    <2>. HIDE DEF S
    <2>1. \A n \in 0 .. x : n \in S
      BY <1>1, <1>6, Induct
    <2>. QED  BY <1>1, <2>1
  <1>8. v[x] = Left(x) /\ x - x = 0
    BY <1>1, <1>7
  <1>. QED  BY <1>2, <1>8 DEF s, Left

\* cls leaves one fresh line.
LEMMA ClsView ==
  ASSUME ScreenAssumption, NEW k, NEW x, NEW y, NEW h
  PROVE  /\ cls(R(k, x, y, h)) \in GoodScreens
         /\ Shows(cls(R(k, x, y, h))) = [lines |-> <<T!Fresh>>, col |-> 0]
  <1>1. /\ 0 \in Columns /\ 0 \in Lines /\ 0 + 1 = 1 /\ 0 * Width = 0 /\ Width \in Int
    BY Sizes DEF Columns, Lines
  <1>2. PICK b : b = [i \in Cells |-> Blank]
    OBVIOUS
  <1>3. b \in Texts /\ \A i \in Cells : b[i] = Blank
    BY <1>2 DEF Texts, Signs
  <1>4. Good(b, 0, 0)
    BY <1>1, <1>3 DEF Good
  <1>5. cls(R(k, x, y, h)) = Scr(b, 0, 0)
    <2>1. PICK s : s = R(k, x, y, h)
      OBVIOUS
    <2>2. PICK t : t = [s EXCEPT !.cell = b, !.x = 0, !.y = 0]
      OBVIOUS
    <2>3. t = R(b, 0, 0, h)
      BY ONLY <2>1, <2>2 DEF R
    <2>4. cls(s) = move_csr(t)
      BY ONLY <1>2, <2>2 DEF cls
    <2>5. move_csr(R(b, 0, 0, h)) = Scr(b, 0, 0)
      BY <1>1, <1>3, Settle
    <2>. QED  BY ONLY <2>1, <2>3, <2>4, <2>5
  <1>6. View(b, 0, 0) = [lines |-> <<T!Fresh>>, col |-> 0]
    <2>1. \A c \in Columns : 0 * Width + c \in Cells
      BY <1>1, AtPlace
    <2>2. Row(b, 1) = T!Fresh
      <3>1. 1 - 1 = 0
        OBVIOUS
      <3>2. Row(b, 1) = [c \in Columns |-> b[0 * Width + c]]
        BY ONLY <3>1 DEF Row
      <3>. QED  BY <1>3, <2>1, <3>2 DEF T!Fresh, T!Columns, Columns
    <2>3. PICK z : z = T!Fresh
      OBVIOUS
    <2>4. Text(b, 0) = [r \in 1 .. 1 |-> Row(b, r)]
      BY ONLY <1>1 DEF Text
    <2>5. Text(b, 0) = <<z>>
      <3>1. \A r \in 1 .. 1 : Row(b, r) = z
        BY <2>2, <2>3
      <3>2. Text(b, 0) = [r \in 1 .. 1 |-> z]
        BY ONLY <2>4, <3>1
      <3>. QED  BY ONLY <3>2
    <2>. QED  BY ONLY <2>3, <2>5 DEF View
  <1>. QED  BY <1>4, <1>5, <1>6, IsGood, ShowsView

-----------------------------------------------------------------------------
(* The steps.                                                              *)

\* A character does what the terminal does, or nothing that is seen.
LEMMA PutchStep ==
  ASSUME ScreenAssumption, scr \in GoodScreens, NEW c \in Controls \cup Signs,
         scr' = putch(scr, c)
  PROVE  scr' \in GoodScreens /\ (T!Next \/ Shows(scr)' = Shows(scr))
  <1>1. PICK k, x, y : Good(k, x, y) /\ scr = Scr(k, x, y)
    BY DEF GoodScreens
  <1>2. PICK t : t = View(k, x, y)
    OBVIOUS
  <1>3. Shows(scr) = t /\ t.col = x
    BY <1>1, <1>2, ShowsView DEF View
  <1>4. scr' \in GoodScreens /\ Shows(scr)' = Shows(putch(scr, c))
    BY <1>1, PutchView DEF Shows
  <1>5. /\ Shows(putch(scr, "ctl")) = t
        /\ Shows(putch(scr, "cr")) = View(k, 0, y)
        /\ Shows(putch(scr, "bs")) = View(k, IF x # 0 THEN x - 1 ELSE 0, y)
        /\ Shows(putch(scr, "nl")) = T!LineFeed(t)
        /\ Shows(putch(scr, "tab")) = T!Goto(t, Stop(x))
        /\ \A d \in Signs : Shows(putch(scr, d)) = T!Typed(t, d)
    BY <1>1, <1>2, PutchView
  <1>6. x \in Int /\ 0 <= x /\ x < Width /\ 0 \in T!Columns /\ x \in Columns
        /\ (IF x # 0 THEN x - 1 ELSE 0) \in {0, x - 1} \cap T!Columns
    BY <1>1, Sizes DEF Good, Columns, T!Columns
  <1>7. ASSUME NEW u PROVE View(k, u, y) = [t EXCEPT !.col = u]
    <2>1. PICK z : z = [t EXCEPT !.col = u]
      OBVIOUS
    <2>2. z = View(k, u, y)
      BY ONLY <1>2, <2>1 DEF View
    <2>. QED  BY ONLY <2>1, <2>2
  <1>8. CASE c = "ctl"
    BY <1>3, <1>4, <1>5, <1>8
  <1>9. CASE c = "cr" \/ c = "bs"
    <2>1. PICK u \in {0, x - 1} \cap T!Columns : Shows(scr)' = [t EXCEPT !.col = u]
      BY <1>4, <1>5, <1>6, <1>7, <1>9
    <2>2. T!Return
      BY <1>3, <2>1 DEF T!Return
    <2>. QED  BY <1>4, <2>2 DEF T!Next
  <1>10. CASE c = "nl"
    <2>1. T!NextLine
      BY <1>3, <1>4, <1>5, <1>10 DEF T!NextLine
    <2>. QED  BY <1>4, <2>1 DEF T!Next
  <1>11. CASE c = "tab"
    <2>1. PICK u \in x + 1 .. x + TabStop : u % TabStop = 0 /\ Shows(scr)' = T!Goto(t, u)
      BY <1>4, <1>5, <1>6, <1>11, NextStops
    <2>2. T!NextStop
      BY <1>3, <2>1 DEF T!NextStop
    <2>. QED  BY <1>4, <2>2 DEF T!Next
  <1>12. CASE c \in Signs
    <2>1. T!Type
      BY <1>3, <1>4, <1>5, <1>12 DEF T!Type
    <2>. QED  BY <1>4, <2>1 DEF T!Next
  <1>. QED  BY <1>8, <1>9, <1>10, <1>11, <1>12 DEF Controls

\* A key prints, takes back one sign or the line, or does nothing.
LEMMA KeyStep ==
  ASSUME ScreenAssumption, scr \in GoodScreens, NEW key \in Keys, scr' \in keyboard_handling(scr, key)
  PROVE  scr' \in GoodScreens /\ (T!Next \/ Shows(scr)' = Shows(scr))
  <1>1. PICK k, x, y : Good(k, x, y) /\ scr = Scr(k, x, y)
    BY DEF GoodScreens
  <1>2. PICK t : t = View(k, x, y)
    OBVIOUS
  <1>3. Shows(scr) = t /\ t.col = x /\ scr.x = x
    <2>1. scr.x = x
      BY <1>1 DEF Scr, R
    <2>. QED  BY <1>1, <1>2, <2>1, ShowsView DEF View
  <1>4. x \in Int /\ 0 <= x /\ x < Width /\ 0 \in T!Columns /\ x - 1 \in {-1} \cup T!Columns
    BY <1>1, Sizes DEF Good, Columns, T!Columns
  <1>5. ASSUME NEW c \in Controls \cup Signs, scr' = putch(scr, c)
        PROVE  scr' \in GoodScreens /\ (T!Next \/ Shows(scr)' = Shows(scr))
    BY <1>5, PutchStep
  <1>6. ASSUME NEW col \in 0 .. x, col \in {0, x - 1} \cap T!Columns,
               scr' = Scr(Rub(k, x, y, col), col, y)
        PROVE  scr' \in GoodScreens /\ (T!Next \/ Shows(scr)' = Shows(scr))
    <2>1. /\ Good(Rub(k, x, y, col), col, y)
          /\ View(Rub(k, x, y, col), col, y) =
               [lines |-> [t.lines EXCEPT ![Len(t.lines)] =
                    [c \in T!Columns |-> IF c \in col .. t.col - 1 THEN Blank ELSE @[c]]],
                col |-> col]
      BY <1>1, <1>2, RubView
    <2>2. scr' \in GoodScreens /\ Shows(scr)' = View(Rub(k, x, y, col), col, y)
      <3>1. Shows(scr)' = Shows(scr')
        BY DEF Shows
      <3>. QED  BY <1>6, <2>1, <3>1, IsGood, ShowsView
    <2>3. T!RubOut
      BY <1>3, <1>6, <2>1, <2>2 DEF T!RubOut
    <2>. QED  BY <2>2, <2>3 DEF T!Next
  <1>7. CASE key = "escape"
    <2>1. scr' = Scr(Rub(k, x, y, 0), 0, y)
      BY <1>1, <1>7, SupprlRub DEF keyboard_handling
    <2>. QED  BY <1>4, <1>6, <2>1
  <1>8. CASE key = "backspace"
    <2>1. scr' = suppr(scr)
      BY <1>8 DEF keyboard_handling
    <2>2. CASE x = 0
      <3>1. scr' = scr
        BY <1>3, <2>1, <2>2 DEF suppr
      <3>. QED  BY <3>1 DEF Shows
    <2>3. CASE x # 0
      <3>1. PICK col \in 1 .. x : col = x
        BY <1>4, <2>3
      <3>2. scr = Scr(Rub(k, x, y, col), col, y)
        BY <1>1, <3>1, SupprRub
      <3>3. scr' = Scr(Rub(k, x, y, x - 1), x - 1, y)
        BY <1>1, <2>1, <3>1, <3>2, SupprRub
      <3>. QED  BY <1>4, <1>6, <2>3, <3>3
    <2>. QED  BY <2>2, <2>3
  <1>9. CASE key = "ctrl"
    <2>1. "a" \in Signs /\ scr' = puts4(scr, "a")
      BY <1>9 DEF keyboard_handling, Signs
    <2>2. ASSUME NEW s \in GoodScreens
          PROVE  putch(s, "a") \in GoodScreens /\ Shows(putch(s, "a")) = T!Typed(Shows(s), "a")
      <3>1. PICK m, u, v : Good(m, u, v) /\ s = Scr(m, u, v)
        BY DEF GoodScreens
      <3>2. Shows(s) = View(m, u, v)
        BY <3>1, ShowsView
      <3>3. "a" \in Controls \cup Signs
        BY <2>1
      <3>. QED  BY <2>1, <3>1, <3>2, <3>3, PutchView
    <2>3. PICK s1 \in GoodScreens : s1 = putch(scr, "a") /\ Shows(s1) = T!Typed(t, "a")
      BY <1>3, <2>2
    <2>4. PICK s2 \in GoodScreens : s2 = putch(s1, "a") /\ Shows(s2) = T!Typed(T!Typed(t, "a"), "a")
      BY <2>2, <2>3
    <2>5. PICK s3 \in GoodScreens :
             s3 = putch(s2, "a") /\ Shows(s3) = T!Typed(T!Typed(T!Typed(t, "a"), "a"), "a")
      BY <2>2, <2>4
    <2>6. PICK s4 \in GoodScreens :
             /\ s4 = putch(s3, "a")
             /\ Shows(s4) = T!Typed(T!Typed(T!Typed(T!Typed(t, "a"), "a"), "a"), "a")
      BY <2>2, <2>5
    <2>7. scr' = s4
      BY <2>1, <2>3, <2>4, <2>5, <2>6 DEF puts4
    <2>8. Shows(scr)' = Shows(s4)
      BY <2>7 DEF Shows
    <2>9. T!Word
      BY <1>3, <2>1, <2>6, <2>8 DEF T!Word
    <2>. QED  BY <2>7, <2>9 DEF T!Next
  <1>10. CASE key = "ignored"
    <2>1. scr' = scr
      BY <1>10 DEF keyboard_handling
    <2>. QED  BY <2>1 DEF Shows
  <1>11. CASE key \in {"enter", "sign", "none", "past"}
    <2>1. PICK c \in Controls \cup Signs : scr' = putch(scr, c)
      BY <1>11 DEF keyboard_handling, Controls, Signs
    <2>. QED  BY <1>5, <2>1
  <1>. QED  BY <1>7, <1>8, <1>9, <1>10, <1>11 DEF Keys

\* The screen the boot stage starts with is a fresh terminal, and every step of it is
\* one of the terminal, or is not seen there.
LEMMA Refines ==
  ASSUME ScreenAssumption
  PROVE  /\ Init => scr \in GoodScreens /\ T!Init
         /\ scr \in GoodScreens /\ [Next]_scr => (scr \in GoodScreens)' /\ [T!Next]_(Shows(scr))
  <1>1. ASSUME Init PROVE scr \in GoodScreens /\ T!Init
    <2>1. PICK b : b = [i \in Cells |-> Blank]
      OBVIOUS
    <2>2. scr = cls(R(b, 0, 0, 0))
      BY <1>1, <2>1 DEF Init, init_video, R
    <2>. QED  BY <2>2, ClsView DEF T!Init
  <1>2. ASSUME scr \in GoodScreens, [Next]_scr
        PROVE  scr' \in GoodScreens /\ (T!Next \/ Shows(scr)' = Shows(scr))
    <2>1. CASE PrintChar
      BY <1>2, <2>1, PutchStep DEF PrintChar
    <2>2. CASE Key
      BY <1>2, <2>2, KeyStep DEF Key
    <2>3. CASE Clear
      <3>1. PICK k, x, y : scr = Scr(k, x, y)
        BY <1>2 DEF GoodScreens
      <3>2. PICK h : h = y * Width + x
        OBVIOUS
      <3>3. scr' = cls(R(k, x, y, h))
        BY <2>3, <3>1, <3>2 DEF Clear, Scr
      <3>4. scr' \in GoodScreens /\ Shows(scr') = [lines |-> <<T!Fresh>>, col |-> 0]
        BY <3>3, ClsView
      <3>5. T!Clear
        BY <3>4 DEF T!Clear, Shows
      <3>. QED  BY <3>4, <3>5 DEF T!Next
    <2>4. CASE UNCHANGED scr
      BY <1>2, <2>4 DEF Shows
    <2>. QED  BY <1>2, <2>1, <2>2, <2>3, <2>4 DEF Next
  <1>. QED  BY <1>1, <1>2

\* The invariant says that a screen between two operations is a good one.
LEMMA InvGood ==
  ASSUME ScreenAssumption
  PROVE  IInv <=> scr \in GoodScreens
  <1>1. ASSUME IInv PROVE scr \in GoodScreens
    <2>1. /\ Good(scr.cell, scr.x, scr.y) /\ scr \in Screens
          /\ scr.hw = scr.y * Width + scr.x /\ ~scr.off
      BY <1>1 DEF IInv, TypeOK, BelowBlank, Good, Texts, Columns, Lines
    <2>2. scr.off = FALSE
      BY <2>1 DEF Screens
    <2>3. scr = Scr(scr.cell, scr.x, scr.y)
      BY ONLY <2>1, <2>2 DEF Screens, Scr, R
    <2>. QED  BY <2>1, <2>3 DEF GoodScreens
  <1>2. ASSUME scr \in GoodScreens PROVE IInv
    <2>1. PICK k, x, y : Good(k, x, y) /\ scr = Scr(k, x, y)
      BY <1>2 DEF GoodScreens
    <2>2. PICK h : h = y * Width + x
      OBVIOUS
    <2>3. scr.cell = k /\ scr.x = x /\ scr.y = y /\ scr.hw = h /\ scr.off = FALSE
      BY ONLY <2>1, <2>2 DEF Scr, R
    <2>4. TypeOK /\ BelowBlank
      BY <2>1, <2>2, <2>3 DEF TypeOK, BelowBlank, Good, Texts, Columns, Lines
    <2>. QED  BY <1>2, <2>4 DEF IInv, GoodScreens
  <1>. QED  BY <1>1, <1>2

\* IInv holds in every state: in particular, the rows below the cursor are blank, which
\* is why the line that putch comes to is a new one.
THEOREM Invariance == ScreenAssumption => (Spec => []IInv)
  <1>. SUFFICES ASSUME ScreenAssumption PROVE Spec => []IInv
    OBVIOUS
  <1>1. Init => IInv
    BY Refines, InvGood
  <1>2. IInv /\ [Next]_scr => IInv'
    <2>1. ASSUME IInv, [Next]_scr PROVE (scr \in GoodScreens)'
      BY <2>1, Refines, InvGood
    <2>2. IInv' <=> (scr \in GoodScreens)'
      BY InvGood, PTL
    <2>. QED  BY <2>1, <2>2
  <1>. QED  BY <1>1, <1>2, PTL DEF Spec

\* The cursor stays on the screen, the hardware cursor goes with it, and putch, suppr
\* and scroll write no cell outside the buffer.
THEOREM TypeCorrect == ScreenAssumption => (Spec => []TypeOK)
  <1>. SUFFICES ASSUME ScreenAssumption PROVE Spec => []TypeOK
    OBVIOUS
  <1>1. IInv => TypeOK
    BY DEF IInv
  <1>. QED  BY <1>1, Invariance, PTL

\* The screen implements the terminal: whatever is printed and whichever keys come, its
\* rows down to the cursor's are the last lines typed.
THEOREM Implementation == ScreenAssumption => (Spec => ScreenImplements)
  <1>. SUFFICES ASSUME ScreenAssumption PROVE Spec => ScreenImplements
    OBVIOUS
  <1>1. Init => T!Init
    BY Refines
  <1>2. IInv /\ [Next]_scr => [T!Next]_(Shows(scr))
    BY Refines, InvGood
  <1>. QED  BY <1>1, <1>2, Invariance, PTL DEF Spec, ScreenImplements, T!Spec
=============================================================================
