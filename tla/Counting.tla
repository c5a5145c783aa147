------------------------------ MODULE Counting ------------------------------
(***************************************************************************)
(* What the proofs about searches and about loops over a text rest on: a   *)
(* search that can succeed has a first place where it does, and a value    *)
(* that is computed from the one before it exists for every length.        *)
(***************************************************************************)
EXTENDS Integers, Sequences, TLAPS, WellFoundedInduction

\* A set of numbers that is not empty has a first one: the first line of a text that
\* matches, the first frame that is free.
LEMMA Smallest ==
  ASSUME NEW S \in SUBSET Nat, S # {}
  PROVE  \E m \in S : \A k \in S : m <= k
  <1>. DEFINE R == {ss \in Nat \X Nat : ss[1] < ss[2]}
  <1>1. IsWellFoundedOn(R, Nat)
    BY NatLessThanWellFounded DEF OpToRel
  <1>. HIDE DEF R
  <1>2. PICK m \in S : \A k \in S : ~(<<k, m>> \in R)
    BY <1>1, WFMin
  <1>3. \A k \in S : ~(k < m)
    BY <1>2 DEF R
  <1>. QED  BY <1>3

\* A set that has 0, and with each number the next, has every number up to n: what
\* a loop preserves from turn to turn holds after n turns.
LEMMA Induct ==
  ASSUME NEW n \in Nat, NEW S, 0 \in S, \A i \in 1 .. n : i - 1 \in S => i \in S
  PROVE  \A i \in 0 .. n : i \in S
  <1>. DEFINE Bad == {i \in 0 .. n : i \notin S}
  <1>1. SUFFICES ASSUME NEW i \in 0 .. n, i \notin S PROVE FALSE
    OBVIOUS
  <1>2. PICK m \in Bad : \A k \in Bad : m <= k
    <2>1. i \in Bad /\ Bad \in SUBSET Nat
      BY <1>1
    <2>. HIDE DEF Bad
    <2>. QED  BY <2>1, Smallest
  <1>3. m \in 1 .. n /\ m - 1 \in 0 .. n
    BY <1>2
  <1>4. m - 1 \in S
    BY <1>2, <1>3
  <1>. QED  BY <1>2, <1>3, <1>4

\* f starts with b and goes on with the steps of g, n times.
Iterates(f, n, V, b, g) ==
    f \in [0 .. n -> V] /\ f[0] = b /\ \A i \in 1 .. n : f[i] = g[<<i, f[i - 1]>>]

\* A function whose value at i is made from the value at i - 1, as strtoul makes its
\* number from one digit more, exists for every length.
LEMMA Recur ==
  ASSUME NEW n \in Nat, NEW V, NEW b \in V, NEW g \in [(1 .. n) \X V -> V]
  PROVE  \E f : Iterates(f, n, V, b, g)
  <1>. DEFINE Upto(k, f) == f[0] = b /\ \A i \in 1 .. k : f[i] = g[<<i, f[i - 1]>>]
              S == {k \in 0 .. n : \E f \in [0 .. k -> V] : Upto(k, f)}
  <1>1. 0 \in S
    <2>. DEFINE h == [i \in 0 .. 0 |-> b]
    <2>1. h \in [0 .. 0 -> V] /\ h[0] = b
      OBVIOUS
    <2>2. \A i \in 1 .. 0 : h[i] = g[<<i, h[i - 1]>>]
      OBVIOUS
    <2>. HIDE DEF h
    <2>. QED  BY <2>1, <2>2
  <1>2. ASSUME NEW k \in 1 .. n, k - 1 \in S
        PROVE  k \in S
    <2>1. PICK f \in [0 .. k - 1 -> V] : Upto(k - 1, f)
      BY <1>2
    <2>. DEFINE h == [i \in 0 .. k |-> IF i = k THEN g[<<k, f[k - 1]>>] ELSE f[i]]
    <2>2. f[k - 1] \in V /\ g[<<k, f[k - 1]>>] \in V
      OBVIOUS
    <2>3. h \in [0 .. k -> V]
      BY <2>2
    <2>4. h[0] = b
      BY <2>1
    <2>5. ASSUME NEW i \in 1 .. k
          PROVE  h[i] = g[<<i, h[i - 1]>>]
      <3>1. i - 1 \in 0 .. k - 1 /\ h[i - 1] = f[i - 1]
        OBVIOUS
      <3>2. CASE i = k
        <4>1. h[k] = g[<<k, f[k - 1]>>]
          OBVIOUS
        <4>. QED  BY <3>1, <3>2, <4>1
      <3>3. CASE i # k
        <4>1. i \in 1 .. k - 1
          BY <3>3
        <4>2. f[i] = g[<<i, f[i - 1]>>] /\ h[i] = f[i]
          BY <2>1, <4>1
        <4>. QED  BY <3>1, <4>2
      <3>. QED  BY <3>2, <3>3
    <2>. HIDE DEF h
    <2>. QED  BY <2>3, <2>4, <2>5
  <1>3. n \in S
    <2>. HIDE DEF S
    <2>. QED  BY <1>1, <1>2, Induct
  <1>. QED  BY <1>3 DEF Iterates

\* A set that has a number when it has all the smaller ones has every number.
LEMMA Strong ==
  ASSUME NEW S, \A n \in Nat : (\A m \in 0 .. n - 1 : m \in S) => n \in S
  PROVE  \A n \in Nat : n \in S
  <1>. DEFINE Bad == {i \in Nat : i \notin S}
  <1>1. SUFFICES ASSUME NEW i \in Nat, i \notin S PROVE FALSE
    OBVIOUS
  <1>2. PICK m \in Bad : \A k \in Bad : m <= k
    <2>1. i \in Bad /\ Bad \in SUBSET Nat
      BY <1>1
    <2>. HIDE DEF Bad
    <2>. QED  BY <2>1, Smallest
  <1>3. \A k \in 0 .. m - 1 : k \in S
    BY <1>2
  <1>. QED  BY <1>2, <1>3

\* f starts with b, and its value at i is made from the one at p[i] by g.
Unwinds(f, V, b, p, g) ==
    f \in [Nat -> V] /\ f[0] = b /\ \A i \in Nat \ {0} : f[i] = g[<<i, f[p[i]]>>]

\* So does a function whose value at i is made from the value at a smaller number, as
\* the digits of a number are made from those of its tenth.
LEMMA RecurBack ==
  ASSUME NEW V, NEW b \in V, NEW p \in [Nat \ {0} -> Nat], \A i \in Nat \ {0} : p[i] < i,
         NEW g \in [(Nat \ {0}) \X V -> V]
  PROVE  \E f : Unwinds(f, V, b, p, g)
  <1>. DEFINE Upto(k, f) ==
                /\ f \in [0 .. k -> V] /\ f[0] = b
                /\ \A i \in 1 .. k : f[i] = g[<<i, f[p[i]]>>]
              S == {k \in Nat : \E f : Upto(k, f)}
              c == [k \in Nat |-> CHOOSE f : Upto(k, f)]
  <1>0. \A i \in Nat \ {0} : p[i] \in 0 .. i - 1
    OBVIOUS
  <1>1. ASSUME NEW n \in Nat, \A m \in 0 .. n - 1 : m \in S
        PROVE  n \in S
    <2>1. CASE n = 0
      <3>. DEFINE h == [i \in 0 .. 0 |-> b]
      <3>1. Upto(0, h)
        OBVIOUS
      <3>. QED  BY <2>1, <3>1
    <2>2. CASE n # 0
      <3>0. n - 1 \in S
        <4>1. n - 1 \in 0 .. n - 1
          BY <2>2
        <4>. HIDE DEF S
        <4>. QED  BY <1>1, <4>1
      <3>1. PICK f : Upto(n - 1, f)
        <4>. HIDE DEF Upto
        <4>. QED  BY <3>0
      <3>. DEFINE h == [i \in 0 .. n |-> IF i = n THEN g[<<n, f[p[n]]>>] ELSE f[i]]
      <3>2. p[n] \in 0 .. n - 1 /\ f[p[n]] \in V
        BY <1>0, <2>2, <3>1
      <3>3. g[<<n, f[p[n]]>>] \in V
        BY <2>2, <3>2
      <3>4. h \in [0 .. n -> V] /\ h[0] = b
        BY <2>2, <3>1, <3>3
      <3>5. ASSUME NEW i \in 1 .. n
            PROVE  h[i] = g[<<i, h[p[i]]>>]
        <4>1. p[i] \in 0 .. i - 1 /\ p[i] # n /\ h[p[i]] = f[p[i]]
          BY <1>0
        <4>2. CASE i = n
          <5>1. h[n] = g[<<n, f[p[n]]>>]
            OBVIOUS
          <5>. QED  BY <4>1, <4>2, <5>1
        <4>3. CASE i # n
          <5>1. i \in 1 .. n - 1 /\ h[i] = f[i]
            BY <4>3
          <5>2. f[i] = g[<<i, f[p[i]]>>]
            BY <3>1, <5>1
          <5>. QED  BY <4>1, <5>1, <5>2
        <4>. QED  BY <4>2, <4>3
      <3>. HIDE DEF h
      <3>6. Upto(n, h)
        BY <3>4, <3>5
      <3>. QED  BY <3>6
    <2>. QED  BY <2>1, <2>2
  <1>2. \A n \in Nat : n \in S
    <2>. HIDE DEF S
    <2>. QED  BY <1>1, Strong
  <1>3. \A k \in Nat : Upto(k, c[k])
    BY <1>2
  <1>. HIDE DEF c, S
  <1>4. ASSUME NEW k \in Nat, NEW m \in Nat, k <= m, NEW f, NEW h, Upto(k, f), Upto(m, h)
        PROVE  f[k] = h[k]
    <2>. DEFINE T == {i \in Nat : i <= k => f[i] = h[i]}
    <2>1. ASSUME NEW n \in Nat, \A j \in 0 .. n - 1 : j \in T
          PROVE  n \in T
      <3>1. SUFFICES ASSUME n <= k PROVE f[n] = h[n]
        OBVIOUS
      <3>2. CASE n = 0
        BY <1>4, <3>2
      <3>3. CASE n # 0
        <4>1. p[n] \in 0 .. n - 1
          BY <1>0, <3>3
        <4>2. f[p[n]] = h[p[n]]
          BY <2>1, <3>1, <4>1
        <4>3. f[n] = g[<<n, f[p[n]]>>] /\ h[n] = g[<<n, h[p[n]]>>]
          BY <1>4, <3>1, <3>3
        <4>. QED  BY <4>2, <4>3
      <3>. QED  BY <3>2, <3>3
    <2>2. \A n \in Nat : n \in T
      <3>. HIDE DEF T
      <3>. QED  BY <2>1, Strong
    <2>. QED  BY <2>2
  <1>. DEFINE F == [k \in Nat |-> c[k][k]]
  <1>5. F \in [Nat -> V] /\ F[0] = b
    BY <1>3
  <1>6. ASSUME NEW i \in Nat \ {0}
        PROVE  F[i] = g[<<i, F[p[i]]>>]
    <2>1. p[i] \in 0 .. i - 1 /\ p[i] \in Nat /\ i \in 1 .. i
      BY <1>0
    <2>2. c[i][i] = g[<<i, c[i][p[i]]>>]
      BY <1>3, <2>1
    <2>3. c[p[i]][p[i]] = c[i][p[i]]
      <3>1. Upto(p[i], c[p[i]]) /\ Upto(i, c[i]) /\ p[i] <= i
        BY <1>3, <2>1
      <3>. HIDE DEF Upto
      <3>. QED  BY <1>4, <2>1, <3>1
    <2>. QED  BY <2>1, <2>2, <2>3
  <1>. HIDE DEF F
  <1>. QED  BY <1>5, <1>6 DEF Unwinds

\* A quotient and its remainder, for a divisor that is not known.
LEMMA Dividing ==
  ASSUME NEW x \in Nat, NEW c \in Nat \ {0}
  PROVE  /\ x \div c \in Nat /\ x % c \in 0 .. c - 1
         /\ x = c * (x \div c) + (x % c)
         /\ c * (x \div c) \in Nat
  <1>1. x \div c \in Int /\ c * (x \div c) <= x /\ x < c * (x \div c) + c
    OBVIOUS
  <1>2. x % c \in 0 .. c - 1 /\ x = c * (x \div c) + (x % c)
    OBVIOUS
  <1>3. PICK q \in Int : q = x \div c
    BY <1>1
  <1>4. c * q \in Int /\ x < c * q + c
    BY <1>1, <1>3
  <1>5. q \in Nat
    <2>1. SUFFICES ASSUME q <= -1 PROVE FALSE
      OBVIOUS
    <2>2. \A y, z \in Int : y <= z => c * y <= c * z
      OBVIOUS
    <2>3. c * q <= c * (-1)
      BY <2>1, <2>2
    <2>. QED  BY <1>4, <2>3
  <1>6. c * q \in Nat
    BY <1>5
  <1>. QED  BY <1>2, <1>3, <1>5, <1>6

\* The quotient is the number between whose multiples the dividend lies.
LEMMA DivIs ==
  ASSUME NEW x \in Nat, NEW c \in Nat \ {0}, NEW q \in Int, c * q <= x, x < c * q + c
  PROVE  x \div c = q /\ x % c = x - c * q
  <1>1. PICK s \in Int : s = x - c * q
    OBVIOUS
  <1>2. x = c * q + s /\ 0 <= s /\ s < c
    BY <1>1
  <1>3. x \div c = q
    BY <1>2
  <1>4. x = c * (x \div c) + (x % c)
    BY Dividing
  <1>. QED  BY <1>2, <1>3, <1>4

\* Dividing twice is dividing by the product.
LEMMA DivDivides ==
  ASSUME NEW x \in Nat, NEW c \in Nat \ {0}, NEW d \in Nat \ {0}
  PROVE  (x \div c) \div d = x \div (d * c)
  OBVIOUS

-----------------------------------------------------------------------------
(* Sequences.                                                              *)

\* A function on the first numbers is a sequence.
LEMMA FunSeq ==
  ASSUME NEW C, NEW n \in Nat, NEW t \in [1 .. n -> C]
  PROVE  t \in Seq(C) /\ Len(t) = n
  OBVIOUS

\* A sequence is a function on the first numbers.
LEMMA SeqFun ==
  ASSUME NEW C, NEW s \in Seq(C), NEW n \in Nat, n = Len(s)
  PROVE  s \in [1 .. n -> C] /\ s = [i \in 1 .. n |-> s[i]]
  OBVIOUS

\* An empty text in front changes nothing.
LEMMA EmptyBefore ==
  ASSUME NEW C, NEW t \in Seq(C)
  PROVE  <<>> \o t = t
  OBVIOUS

\* The sequences of s one behind the other, as FlattenSeq has them.
Flattened(s) ==
    IF Len(s) = 0 THEN s
    ELSE LET flatten[i \in 1 .. Len(s)] == IF i = 1 THEN s[i] ELSE flatten[i - 1] \o s[i]
         IN  flatten[Len(s)]

\* A flattened sequence, if h is what is flattened step by step.
LEMMA FlatIs ==
  ASSUME NEW C, NEW n \in Nat, NEW s \in [1 .. n -> Seq(C)], NEW h \in [0 .. n -> Seq(C)],
         h[0] = <<>>, \A k \in 1 .. n : h[k] = h[k - 1] \o s[k]
  PROVE  Flattened(s) = h[n]
  <1>. DEFINE V == Seq(C)
              Value(f) == f = [i \in 1 .. n |-> IF i = 1 THEN s[i] ELSE f[i - 1] \o s[i]]
              v == CHOOSE f : Value(f)
              e == [k \in 1 .. n |-> h[k]]
              T == {k \in 0 .. n : k = 0 \/ v[k] = h[k]}
  <1>1. Len(s) = n /\ s \in Seq(V)
    BY FunSeq
  <1>2. Flattened(s) = IF n = 0 THEN s ELSE v[n]
    BY <1>1 DEF Flattened
  <1>3. n = 0 => s = <<>>
    BY <1>1
  <1>4. \A x \in V : <<>> \o x = x
    BY EmptyBefore
  <1>5. \A k \in 1 .. n : s[k] \in V
    OBVIOUS
  <1>. HIDE DEF V
  <1>6. \A i \in 1 .. n : i = 1 => h[i] = s[i]
    <2>. TAKE i \in 1 .. n
    <2>. HAVE i = 1
    <2>1. i - 1 = 0
      OBVIOUS
    <2>2. h[i] = <<>> \o s[i]
      BY <2>1
    <2>. QED  BY <1>4, <1>5, <2>2
  <1>7. Value(e)
    <2>1. ASSUME NEW i \in 1 .. n PROVE h[i] = IF i = 1 THEN s[i] ELSE e[i - 1] \o s[i]
      <3>1. CASE i = 1
        BY <1>6, <3>1
      <3>2. CASE i # 1
        <4>1. i - 1 \in 1 .. n
          BY <3>2
        <4>2. e[i - 1] = h[i - 1]
          BY <4>1
        <4>. QED  BY <3>2, <4>2
      <3>. QED  BY <3>1, <3>2
    <2>. QED  BY <2>1
  <1>8. Value(v)
    BY <1>7
  <1>. HIDE DEF v
  <1>9. 0 \in T
    OBVIOUS
  <1>10. ASSUME NEW i \in 1 .. n, i - 1 \in T PROVE i \in T
    <2>0. v[i] = IF i = 1 THEN s[i] ELSE v[i - 1] \o s[i]
      BY <1>8
    <2>1. CASE i = 1
      BY <1>6, <2>0, <2>1
    <2>2. CASE i # 1
      <3>1. i - 1 # 0 /\ i - 1 \in T
        BY <1>10, <2>2
      <3>2. v[i - 1] = h[i - 1]
        BY <3>1
      <3>3. v[i] = h[i]
        BY <2>0, <2>2, <3>2
      <3>. QED  BY <3>3
    <2>. QED  BY <2>1, <2>2
  <1>11. \A k \in 0 .. n : k \in T
    <2>. HIDE DEF T
    <2>. QED  BY <1>9, <1>10, Induct
  <1>12. n \in T
    BY <1>11
  <1>. QED  BY <1>2, <1>3, <1>12

\* What one sequence more adds.
LEMMA FlatStep ==
  ASSUME NEW C, NEW n \in Nat, NEW m \in [1 .. n + 1 -> Seq(C)]
  PROVE  /\ Flattened([i \in 1 .. n |-> m[i]]) \in Seq(C)
         /\ Flattened([i \in 1 .. n + 1 |-> m[i]])
              = Flattened([i \in 1 .. n |-> m[i]]) \o m[n + 1]
  <1>. DEFINE V == Seq(C)
              s == [i \in 1 .. n |-> m[i]]
              t == [i \in 1 .. n + 1 |-> m[i]]
              g == [x \in (1 .. n + 1) \X V |-> x[2] \o m[x[1]]]
  <1>1. n + 1 \in Nat /\ <<>> \in V /\ (\A i \in 1 .. n + 1 : m[i] \in V)
        /\ \A x, y \in V : x \o y \in V
    OBVIOUS
  <1>2. s \in [1 .. n -> V] /\ t \in [1 .. n + 1 -> V]
    BY <1>1
  <1>3. g \in [(1 .. n + 1) \X V -> V] /\ \A i \in 1 .. n + 1, x \in V : g[<<i, x>>] = x \o m[i]
    <2>. HIDE DEF V
    <2>. QED  BY <1>1
  <1>. HIDE DEF g, V
  <1>4. PICK f : Iterates(f, n + 1, V, <<>>, g)
    BY <1>1, <1>3, Recur
  <1>5. f \in [0 .. n + 1 -> V] /\ f[0] = <<>> /\ \A i \in 1 .. n + 1 : f[i] = f[i - 1] \o m[i]
    <2>1. f \in [0 .. n + 1 -> V] /\ f[0] = <<>> /\ \A i \in 1 .. n + 1 : f[i] = g[<<i, f[i - 1]>>]
      BY <1>4 DEF Iterates
    <2>2. ASSUME NEW i \in 1 .. n + 1 PROVE f[i] = f[i - 1] \o m[i]
      <3>1. f[i - 1] \in V
        BY <2>1
      <3>. QED  BY <1>3, <2>1, <3>1
    <2>. QED  BY <2>1, <2>2
  <1>6. Flattened(t) = f[n + 1]
    <2>1. \A i \in 1 .. n + 1 : f[i] = f[i - 1] \o t[i]
      BY <1>5
    <2>. HIDE DEF t
    <2>. QED  BY <1>1, <1>2, <1>5, <2>1, FlatIs DEF V
  <1>7. Flattened(s) = f[n]
    <2>. DEFINE e == [i \in 0 .. n |-> f[i]]
    <2>1. e \in [0 .. n -> V] /\ e[0] = <<>> /\ \A i \in 1 .. n : e[i] = e[i - 1] \o s[i]
      <3>1. e \in [0 .. n -> V] /\ e[0] = <<>>
        BY <1>5
      <3>2. ASSUME NEW i \in 1 .. n PROVE e[i] = e[i - 1] \o s[i]
        <4>1. i \in 1 .. n + 1 /\ i \in 0 .. n /\ i - 1 \in 0 .. n
          OBVIOUS
        <4>2. e[i] = f[i] /\ e[i - 1] = f[i - 1] /\ s[i] = m[i]
          BY <4>1
        <4>. QED  BY <1>5, <4>1, <4>2
      <3>. QED  BY <3>1, <3>2
    <2>2. e[n] = f[n]
      OBVIOUS
    <2>. HIDE DEF s, e
    <2>3. Flattened(s) = e[n]
      BY <1>2, <2>1, FlatIs DEF V
    <2>. QED  BY <2>2, <2>3
  <1>8. f[n] \in V /\ f[n + 1] = f[n] \o m[n + 1]
    <2>1. n + 1 \in 1 .. n + 1 /\ n + 1 - 1 = n /\ n \in 0 .. n + 1
      OBVIOUS
    <2>. QED  BY <1>5, <2>1
  <1>. QED  BY <1>6, <1>7, <1>8 DEF V

\* f grows by a sequence of s at a time.
Grows(f, s, n) == \A k \in 1 .. n : f[k] = f[k - 1] \o s[k]

\* What is in f at k is there at m.
Keeps(f, k, m) == Len(f[k]) <= Len(f[m]) /\ \A i \in 1 .. Len(f[k]) : f[m][i] = f[k][i]

\* A text that grows at its end keeps what it has.
LEMMA Prefixes ==
  ASSUME NEW C, NEW n \in Nat, NEW s \in [1 .. n -> Seq(C)], NEW f \in [0 .. n -> Seq(C)],
         Grows(f, s, n)
  PROVE  \A k \in 0 .. n : \A m \in k .. n : Keeps(f, k, m)
  <1>. USE DEF Keeps
  <1>1. SUFFICES ASSUME NEW k \in 0 .. n
                 PROVE  \A m \in k .. n : Keeps(f, k, m)
    OBVIOUS
  <1>. DEFINE P(m) == Len(f[k]) <= Len(f[m]) /\ \A i \in 1 .. Len(f[k]) : f[m][i] = f[k][i]
              T == {j \in 0 .. n - k : P(k + j)}
  <1>2. 0 \in T
    <2>1. k + 0 = k /\ Len(f[k]) \in Nat
      OBVIOUS
    <2>. QED  BY <2>1
  <1>3. ASSUME NEW j \in 1 .. n - k, j - 1 \in T PROVE j \in T
    <2>1. k + j \in 1 .. n /\ k + (j - 1) = (k + j) - 1 /\ (k + j) - 1 \in 0 .. n
      OBVIOUS
    <2>2. PICK a \in Seq(C), b \in Seq(C) : a = f[(k + j) - 1] /\ b = s[k + j] /\ f[k + j] = a \o b
      BY <2>1 DEF Grows
    <2>3. Len(a \o b) >= Len(a) /\ \A i \in 1 .. Len(a) : (a \o b)[i] = a[i]
      OBVIOUS
    <2>4. Len(f[k]) <= Len(a) /\ \A i \in 1 .. Len(f[k]) : a[i] = f[k][i]
      BY <1>3, <2>1, <2>2
    <2>5. PICK x : x = a \o b
      OBVIOUS
    <2>6. Len(f[k]) <= Len(x) /\ \A i \in 1 .. Len(f[k]) : x[i] = f[k][i]
      <3>1. Len(x) \in Nat /\ Len(a) \in Nat /\ Len(f[k]) \in Nat
        BY <2>5
      <3>2. Len(x) >= Len(a) /\ \A i \in 1 .. Len(a) : x[i] = a[i]
        BY <2>3, <2>5
      <3>. QED  BY ONLY <2>4, <3>1, <3>2
    <2>7. P(k + j)
      BY <2>2, <2>5, <2>6
    <2>. QED  BY <2>7
  <1>4. \A j \in 0 .. n - k : j \in T
    <2>1. n - k \in Nat
      OBVIOUS
    <2>. HIDE DEF T
    <2>. QED  BY <1>2, <1>3, <2>1, Induct
  <1>5. ASSUME NEW m \in k .. n PROVE P(m)
    <2>1. m - k \in 0 .. n - k /\ k + (m - k) = m
      OBVIOUS
    <2>. QED  BY <1>4, <2>1
  <1>. QED  BY <1>5

\* Two texts one behind the other.
LEMMA Behind ==
  ASSUME NEW C, NEW a \in Seq(C), NEW b \in Seq(C)
  PROVE  /\ a \o b \in Seq(C) /\ Len(a \o b) = Len(a) + Len(b)
         /\ \A i \in 1 .. Len(a) : (a \o b)[i] = a[i]
         /\ \A i \in 1 .. Len(b) : (a \o b)[Len(a) + i] = b[i]
  OBVIOUS

\* What is between two places of a text, cell by cell.
LEMMA Slice ==
  ASSUME NEW C, NEW t \in Seq(C), NEW n \in Nat, NEW x \in Seq(C), Len(x) = n,
         NEW a \in Nat \ {0}, NEW b \in Int, b = a + n - 1,
         \A j \in 1 .. n : t[a + j - 1] = x[j]
  PROVE  SubSeq(t, a, b) = x
  <1>1. (b - a) + 1 = n
    OBVIOUS
  <1>2. SubSeq(t, a, b) = [j \in 1 .. n |-> t[a + j - 1]]
    BY <1>1
  <1>3. x = [j \in 1 .. n |-> x[j]]
    BY SeqFun
  <1>. QED  BY <1>2, <1>3
====
