------------------------------- MODULE Format -------------------------------
(***************************************************************************)
(* Formatted output: the kernel's sprintf (print.c, convert.c), walked one *)
(* turn of its loop at a time, and the number printing of the 32-bit boot  *)
(* stage (scrn.c), with ints of Bits bits in place of 32 and the string    *)
(* literal that puthex writes to.  A text is a sequence of characters.     *)
(***************************************************************************)
EXTENDS Integers, Sequences, FiniteSets, SequencesExt

CONSTANTS
    Formats,   \* format strings of the kernel's sprintf
    Args,      \* its arguments: a number n, or the string s
    Bits,      \* width of an int and an uint32_t in the boot stage
    Values     \* numbers printed in the boot stage

Digit(d) ==
    <<"0", "1", "2", "3", "4", "5", "6", "7", "8", "9", "a", "b", "c", "d", "e", "f">>[d + 1]
DigitValue == [c \in {Digit(d) : d \in 0 .. 15} |-> CHOOSE d \in 0 .. 15 : Digit(d) = c]

VARIABLES
    format,      \* the kernel's format string
    at, used,    \* characters of it that are read, arguments that are taken
    buff,        \* what sprintf has written
    arr,         \* the literal of puthex, its first character first
    last         \* the last number printed in the boot stage: how, which, its text

vars == <<format, at, used, buff, arr, last>>

-----------------------------------------------------------------------------
(* The kernel.                                                             *)

\* The digits that dec and decX put in front of the end of the buffer.
Digits(base, x) ==
    LET digits[n \in Nat] ==
            IF n = 0 THEN <<>> ELSE Append(digits[n \div base], Digit(n % base))
    IN  digits[x]

\* A mutant: zero has no digit.
DecNone(x) == Digits(10, x)
dec(x) == IF x = 0 THEN <<"0">> ELSE Digits(10, x)
decX(x) == IF x = 0 THEN <<"0">> ELSE Digits(16, x)

\* The character i places on, or the end of the string.
Peek(i) == IF at + i <= Len(format) THEN format[at + i] ELSE "end"
\* A mutant: the closing brace is not looked for.
DirectiveOpen == Peek(1) = "{" /\ Peek(2) # "end"
Directive == Peek(1) = "{" /\ Peek(2) # "end" /\ Peek(3) = "}"
Converted(kind, arg) ==
    CASE kind = "d" -> dec(arg.n)
      [] kind = "x" -> <<"0", "x">> \o decX(arg.n)
      [] kind = "s" -> arg.s
      [] OTHER -> <<>>
Taking == {"d", "x", "s"}

\* A turn of sprintf's loop; a directive that is not known prints nothing.
sprintf ==
    /\ Peek(1) # "end"
    /\ IF Directive
       THEN /\ buff' = buff \o Converted(Peek(2), Args[used + 1])
            /\ used' = IF Peek(2) \in Taking THEN used + 1 ELSE used
            /\ at' = at + 3
       ELSE buff' = Append(buff, Peek(1)) /\ at' = at + 1 /\ UNCHANGED used
    /\ UNCHANGED <<format, arr, last>>

-----------------------------------------------------------------------------
(* The boot stage.                                                         *)

Pow(base, n) == LET pow[k \in Nat] == IF k = 0 THEN 1 ELSE base * pow[k - 1] IN pow[n]

Unsigned(v) == v % Pow(2, Bits)
\* What an int keeps of c.
Wrapped(c) == LET low == Unsigned(c) IN IF low < Pow(2, Bits - 1) THEN low ELSE low - Pow(2, Bits)
Least == -Pow(2, Bits - 1)
\* C division rounds to zero.
Quot(a, b) == IF a >= 0 THEN a \div b ELSE -((-a) \div b)
Absolute(v) == IF v < 0 THEN -v ELSE v

Places(x) == LET places[n \in Nat] == IF n = 0 THEN 0 ELSE places[n \div 10] + 1 IN places[x]

\* The kernel's sprintf is given an argument for every directive.
FormatAssumption ==
    /\ Bits \in Nat /\ Bits % 4 = 0 /\ Bits > 4 /\ Values \subseteq Least .. -Least - 1
    /\ Formats \subseteq Seq(STRING \ {"end"}) /\ Args \in Seq([n : Nat, s : Seq(STRING)])
    /\ \A f \in Formats : Cardinality({i \in 1 .. Len(f) : f[i] = "{"}) <= Len(Args)

\* The turns in which nb is divided and count multiplied by ten.  Negating the least
\* int is undefined: it stays negative (-O0), is divided once (-O1) or taken for its
\* size (-Ofast).
Turns(nb) == IF nb = Least THEN {0, 1, Places(-Least)} ELSE {Places(Absolute(nb))}
\* count behind n multiplications and the turn in which it is only divided.  When the
\* last multiplication overflows, which is undefined, it wraps, and no digit is printed
\* when it is negative (-O0), or it and the division cancel out (-Ofast).
Counts(n) ==
    IF Pow(10, n) < -Least THEN {Pow(10, n) \div 10}
    ELSE {Pow(10, n - 1), IF Wrapped(Pow(10, n)) > 0 THEN Wrapped(Pow(10, n)) \div 10 ELSE 0}

\* The characters (saved/count) + 48, cut to a byte; those that are no digit are shown as "?".
Shown(d) == IF d % 256 \in 0 .. 9 THEN Digit(d % 256) ELSE "?"
\* The digits of nb from the place of c on; saved[k] is what is left of nb behind k of
\* them, and count the power of ten of the next.
Spelled(nb, c) ==
    LET count(k) == c \div Pow(10, k - 1)
        saved[k \in 0 .. Places(c)] ==
            IF k = 0 THEN nb
            ELSE saved[k - 1] - Quot(saved[k - 1], count(k)) * count(k)
    IN  [k \in 1 .. Places(c) |-> Shown(Quot(saved[k - 1], count(k)))]
\* The texts of putint and sputint, for %d and %u: of a negative number, saved stays negative.
putint(nb) ==
    IF nb = 0 THEN {<<"0">>}
    ELSE {(IF nb < 0 THEN <<"-">> ELSE <<>>) \o Spelled(nb, c) : c \in UNION {Counts(n) : n \in Turns(nb)}}

\* The digits of a positive number over what the array holds, the lowest first;
\* the 0 byte that is printed before them is left out.
Zeros(n) == [k \in 1 .. n |-> "0"]
Filled(array, nb) ==
    [k \in 1 .. Len(array) |->
        IF nb >= Pow(16, k - 1) THEN Digit((nb \div Pow(16, k - 1)) % 16) ELSE array[k]]

Backwards(array) == Reverse(array)
\* sputhex has an array of its own; sputHex has twice the digits, and a parameter
\* that cuts its 64-bit argument.
sputhex(nb) == Backwards(Filled(Zeros(Bits \div 4), Unsigned(nb)))
sputHex(nb) == Backwards(Filled(Zeros(Bits \div 2), Unsigned(nb)))

BitOrder(k, n) == Pow(2, n - k)
\* putbin and sputbin start at 0b10000000, putBin and sputBin at the bit
\* 2^15 of 64.
putbin(nb) == [k \in 1 .. 8 |-> Digit((Unsigned(nb) \div BitOrder(k, 8)) % 2)]
putBin(nb) == [k \in 1 .. 16 |-> Digit(((nb % 2^16) \div BitOrder(k, 16)) % 2)]

Printed(how, v, text) == last' = [how |-> how, value |-> v, text |-> text]
Puthex(v) ==
    /\ arr' = Filled(arr, v)
    /\ Printed("puthex", v, Backwards(arr'))
    /\ UNCHANGED <<format, at, used, buff>>
PrintNumber(v) ==
    /\ \/ \E text \in putint(v) : Printed("putint", v, text)
       \/ Printed("sputhex", v, sputhex(v))
       \/ Printed("sputHex", v, sputHex(v))
       \/ Printed("putbin", v, putbin(v))
       \/ Printed("putBin", v, putBin(v))
    /\ UNCHANGED <<format, at, used, buff, arr>>

Init ==
    /\ format \in Formats /\ at = 0 /\ used = 0 /\ buff = <<>>
    /\ arr = Zeros(Bits \div 4)
    /\ last = [how |-> "putint", value |-> 0, text |-> <<"0">>]

\* The kernel and the boot stage print in machines of their own: the boot stage
\* prints when there is no format to walk.
Next == sprintf \/ (format = <<>> /\ \E v \in Values : Puthex(v) \/ PrintNumber(v))
Spec == Init /\ [][Next]_vars

-----------------------------------------------------------------------------
(* Properties.                                                             *)

\* What a text of digits is worth.
Worth(base, text) ==
    LET worth[k \in 0 .. Len(text)] ==
            IF k = 0 THEN 0 ELSE worth[k - 1] * base + DigitValue[text[k]]
    IN  worth[Len(text)]
Numeral(base, x, text) ==
    Worth(base, text) = x /\ Len(text) > 0 /\ (text[1] = "0" => Len(text) = 1)

\* The positions of a format at which a directive starts: a brace, a character and
\* a closing brace, none of them part of an earlier directive.
Starts ==
    CHOOSE D \in SUBSET (1 .. Len(format)) :
        \A i \in 1 .. Len(format) :
            i \in D <=> /\ i + 2 <= Len(format) /\ format[i] = "{" /\ format[i + 2] = "}"
                        /\ i - 1 \notin D /\ i - 2 \notin D
Before(i) == {j \in Starts : j < i /\ format[j + 1] \in Taking}
Meant(i) ==
    IF i \in Starts THEN Converted(format[i + 1], Args[Cardinality(Before(i)) + 1])
    ELSE IF i - 1 \in Starts \/ i - 2 \in Starts THEN <<>>
    ELSE <<format[i]>>

\* sprintf writes every character of the format and every argument in its place,
\* takes as many arguments as there are directives for one, and reads no further
\* than the end of the format, whatever braces the format has.
SprintfMeaning ==
    /\ at <= Len(format)
    /\ at = Len(format) =>
           /\ buff = FlattenSeq([i \in 1 .. Len(format) |-> Meant(i)])
           /\ used = Cardinality(Before(Len(format)))

\* The numbers of both printers are exact: dec and decX write the shortest numeral
\* of each argument that was taken, zero and the powers of the base included.  In
\* the boot stage %d prints the decimal of a number that is not negative and has fewer
\* digits than overflow count (up to nine of 32 bits); the screen's %x prints the
\* numeral of a positive number behind whatever digits longer numbers left in its literal;
\* %x and %X print the whole value on the serial line, and %b and %B the low eight
\* and sixteen bits, most significant first.  Nothing is said of %d of the other
\* numbers, nor of the screen's %x of zero and the negative ones, which shows what
\* is left there.
NumbersExact ==
    /\ \A k \in 1 .. used : Numeral(10, Args[k].n, dec(Args[k].n))
                           /\ Numeral(16, Args[k].n, decX(Args[k].n))
    /\ last.how = "putint" /\ last.value >= 0 /\ Pow(10, Places(last.value)) < -Least
           => Numeral(10, last.value, last.text)
    /\ last.how = "puthex" /\ last.value > 0
           => \E tail \in Suffixes(last.text) : Numeral(16, last.value, tail)
    /\ last.how \in {"sputhex", "sputHex"} => Worth(16, last.text) = Unsigned(last.value)
    /\ last.how = "putbin" => Worth(2, last.text) = Unsigned(last.value) % 2^8
    /\ last.how = "putBin" => Worth(2, last.text) = last.value % 2^16
=============================================================================
