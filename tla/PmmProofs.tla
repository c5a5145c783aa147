----------------------------- MODULE PmmProofs -----------------------------
(***************************************************************************)
(* Proofs about pmm.c for every memory map, page size and word size.       *)
(*                                                                         *)
(* Three numberings must agree: init_pmm marks the numbers 0..n-1 for the  *)
(* n frames taken before, get_frame turns a number into a frame by walking *)
(* the entries, free_frame turns a frame into a number through loc_datas.  *)
(* PInv says that loc is the running total of the lengths, so that Num is  *)
(* one to one, and that the bits set are those of the frames taken.        *)
(***************************************************************************)
EXTENDS Pmm, TLAPS

\* The number of frame f of entry k, as free_frame computes it.
Num(k, f) == loc[k] + (f - available[k].base)

SetUp == {"size", "first", "rest", "mark", "loc"}
Live == {"ready", "walk", "free"}

\* The usable entries are disjoint parts of memory.
EntryInv ==
    /\ prev_i # 0 /\ z # 0
    /\ \A k \in 1..Len(available) : Span(available[k]) \subseteq Frame
    /\ \A j, k \in 1..Len(available) :
          j # k => Span(available[j]) \cap Span(available[k]) = {}
    /\ pc = "size" =>
          /\ i <= Len(memmap)
          /\ \A j \in 1..Len(available), s \in 1..Len(memmap) :
                i < s => Span(available[j]) \cap Span(memmap[s]) = {}

\* loc_datas numbers the frames of the entries one after the other.
LocInv ==
    /\ pc \in SetUp \ {"loc"} => loc = <<>>
    /\ \A k \in 1..Len(loc) : k = 1 => loc[k] = 0
    /\ \A j, k \in 1..Len(loc) : k = j + 1 => loc[k] = loc[j] + available[j].len
    /\ \A j, k \in 1..Len(loc) : j < k => loc[j] + available[j].len <= loc[k]
    /\ pc = "loc" =>
          /\ loc = <<>> => i = 0
          /\ \A j \in 1..Len(loc) : loc[j] + available[j].len <= i
          /\ \A j \in 1..Len(loc) : j = Len(loc) => i = loc[j] + available[j].len
    /\ pc \in Live => Len(loc) = Len(available)

\* The frames taken before the bitmap are the first ones of the first entry.
BootInv ==
    /\ in_c = without
    /\ \A f \in Frame : f \in boot <=>
          without > 0 /\ available[1].base <= f /\ f < available[1].base + without
    /\ without > 0 =>
          Len(available) > 0 /\ without < available[1].len /\ first_frame = available[1].base
    /\ pc \in {"size", "first"} => without = 0
    /\ pc = "first" => i = 0
    /\ pc = "rest" => without = i + 1 /\ i <= nframes \div PageSize
    /\ pc \in {"mark", "loc"} \cup Live => without = (nframes \div PageSize) + 1

\* A frame handed out with the bitmap has one owner and lies in an entry.
HeldInv ==
    /\ \A f \in Frame : held[f] <= 1
    /\ \A f \in Frame : held[f] > 0 => f \notin boot
    /\ \A f \in Frame : held[f] > 0 => \E k \in 1..Len(available) : f \in Span(available[k])
    /\ pc \in SetUp => \A f \in Frame : held[f] = 0

\* The bits that are set are those of the frames taken and, until free_frame
\* has reached its entry, of the frame being freed.
UsedInv ==
    /\ pc \in {"size", "first", "rest"} => used = {}
    /\ pc = "mark" => used = 0..(i - 1) /\ i <= without
    /\ pc = "loc" => used = 0..(without - 1)
    /\ pc \in Live =>
          /\ \A n \in 0..(without - 1) : n \in used
          /\ \A k \in 1..Len(available) : \A f \in Span(available[k]) :
                held[f] > 0 => Num(k, f) \in used
          /\ \A n \in used :
                \/ n < without
                \/ \E k \in 1..Len(available) : \E f \in Span(available[k]) :
                      (held[f] > 0 \/ (pc = "free" /\ f = addr)) /\ n = Num(k, f)
    /\ pc = "walk" =>
          /\ CUR_FRAME_N \notin used
          /\ z <= Len(available) => loc[z] + cur_frame_n = CUR_FRAME_N
    /\ pc = "free" =>
          /\ addr \in Frame /\ addr \notin boot /\ held[addr] = 0
          /\ \A k \in 1..Len(available) :
                addr \in Span(available[k]) => (z <= k <=> Num(k, addr) \in used)

\* S holds the lengths of the first entries, added up.
Totals(S) ==
    /\ S \in [0..Len(available) -> Nat] /\ S[0] = 0
    /\ \A k \in 1..Len(available) : S[k] = S[k - 1] + available[k].len

\* set_memory_map, init_pmm and the walk of get_frame add the lengths up in the
\* same order, so that a number below nframes is met before the entries end.
CountsBy(S) ==
    /\ nframes = S[Len(available)]
    /\ pc = "loc" => i = S[Len(loc)]
    /\ pc = "walk" =>
          /\ z \in 1..(Len(available) + 1) /\ CUR_FRAME_N = cur_frame_n + S[z - 1]
          /\ CUR_FRAME_N < nframes
SumInv == (\E S : Totals(S) /\ CountsBy(S)) /\ PanicOnlyWhenFull

PInv == TypeOK /\ EntryInv /\ LocInv /\ SumInv /\ (InFirstEntry => BootInv /\ HeldInv /\ UsedInv)

-----------------------------------------------------------------------------
(* Entries, frames and the arithmetic of the bitmap.                       *)

\* An entry spans the frames from its base up to its end.
LEMMA SpanFacts ==
  ASSUME NEW e \in Entries
  PROVE  /\ e.base \in Nat /\ e.len \in Nat /\ e.len > 0
         /\ \A f : f \in Span(e) <=> f \in Int /\ e.base <= f /\ f < e.base + e.len
  BY DEF Entries, Span

\* The entries of a memory map are entries, disjoint, and made of frames.
LEMMA MapFacts ==
  ASSUME NEW m \in Memmaps
  PROVE  /\ m \in Seq(Entries) /\ Len(m) \in Nat
         /\ \A k \in 1..Len(m) : m[k] \in Entries /\ Span(m[k]) \subseteq Frame
         /\ \A j, k \in 1..Len(m) : j # k => Span(m[j]) \cap Span(m[k]) = {}
  <1>1. m \in Seq(Entries)
    BY MemmapAssumption
  <1>2. Len(m) \in Nat /\ DOMAIN m = 1..Len(m) /\ \A k \in 1..Len(m) : m[k] \in Entries
    BY <1>1
  <1>3. \A k \in 1..Len(m) : Span(m[k]) \subseteq Frame
    BY <1>2 DEF Frame
  <1>. QED  BY <1>1, <1>2, <1>3, MemmapAssumption

\* Frames are natural numbers.
LEMMA FrameNat == Frame \subseteq Nat
  <1>1. SUFFICES ASSUME NEW m \in Memmaps, NEW k \in DOMAIN m, NEW f \in Span(m[k])
                 PROVE  f \in Nat
    BY DEF Frame
  <1>2. m[k] \in Entries
    BY MapFacts
  <1>. QED  BY <1>2, SpanFacts

\* The bitmap, a bit per frame, needs no more frames than arch.c takes for it.
LEMMA BitmapFits ==
  ASSUME NEW n \in Nat, NEW m \in Nat, n <= m
  PROVE  /\ n \div (8 * PageSize) \in Nat
         /\ m \div PageSize \in Nat
         /\ n \div (8 * PageSize) <= m \div PageSize
  <1>. DEFINE q == n \div (8 * PageSize)
              r == m \div PageSize
  <1>1. PageSize \in Nat /\ PageSize > 0
    BY SizeAssumption
  <1>2. q \in Nat /\ (8 * PageSize) * q <= n
    BY <1>1
  <1>3. r \in Nat /\ m < PageSize * (r + 1)
    BY <1>1
  <1>4. PageSize * q <= (8 * PageSize) * q
    BY <1>1, <1>2
  <1>5. ASSUME q > r PROVE FALSE
    <2>1. PageSize * (r + 1) <= PageSize * q
      BY <1>1, <1>2, <1>3, <1>5
    <2>. QED  BY <2>1, <1>1, <1>2, <1>3, <1>4
  <1>. QED  BY <1>2, <1>3, <1>5

\* What the type says about the usable entries.
LEMMA AvailFacts ==
  ASSUME TypeOK
  PROVE  /\ Len(available) \in Nat /\ DOMAIN available = 1..Len(available)
         /\ \A k \in 1..Len(available) : available[k] \in Entries
         /\ Len(loc) \in Nat /\ DOMAIN loc = 1..Len(loc) /\ Len(loc) <= Len(available)
         /\ \A k \in 1..Len(loc) : loc[k] \in Nat
  <1>1. available \in Seq(Entries)
    BY DEF TypeOK
  <1>2. loc \in Seq(Nat) /\ Len(loc) <= Len(available)
    BY DEF TypeOK
  <1>. QED  BY <1>1, <1>2

\* The frame before the bitmap comes from the first entry it fits in.
LEMMA BootTakeFacts ==
  ASSUME TypeOK, EntryInv, NEW j \in DOMAIN available, BootTake(j)
  PROVE  /\ Offset(j) \in Nat /\ available[j].base + Offset(j) \in Span(available[j])
         /\ available[j].base + Offset(j) \in Frame
         /\ prev_i' = j /\ j >= prev_i
         /\ in_c' = Offset(j) + 1 /\ without' = without + 1
         /\ boot' = boot \cup {available[j].base + Offset(j)}
         /\ Offset(j) < available[j].len - 1
         /\ prev_i' = 1 => prev_i = 1 /\ Offset(j) = in_c
  <1>1. j \in 1..Len(available) /\ available[j] \in Entries /\ Len(available) \in Nat
    BY AvailFacts
  <1>2. prev_i \in Nat /\ prev_i > 0 /\ in_c \in Nat
    BY DEF TypeOK, EntryInv
  <1>3. j >= prev_i /\ Offset(j) < available[j].len - 1
    BY <1>1, <1>2 DEF BootTake, Fits
  <1>4. Offset(j) \in Nat
    BY <1>2 DEF Offset
  <1>5. available[j].base + Offset(j) \in Span(available[j])
    BY <1>1, <1>3, <1>4, SpanFacts
  <1>6. available[j].base + Offset(j) \in Frame
    BY <1>1, <1>5 DEF EntryInv
  <1>7. prev_i' = 1 => prev_i = 1 /\ Offset(j) = in_c
    BY <1>1, <1>2, <1>3 DEF BootTake, Offset
  <1>. QED  BY <1>1, <1>2, <1>3, <1>4, <1>5, <1>6, <1>7 DEF BootTake

\* get_frame only moves on to later entries.
LEMMA FirstKept ==
  ASSUME TypeOK, EntryInv, [Next]_vars, InFirstEntry'
  PROVE  InFirstEntry
  <1>. USE DEF InFirstEntry
  <1>1. CASE FirstFrame
    BY <1>1, BootTakeFacts DEF FirstFrame, bootVars
  <1>2. CASE RestFrames
    BY <1>2, BootTakeFacts DEF RestFrames, bootVars
  <1>3. CASE UNCHANGED prev_i
    BY <1>3
  <1>. QED
    BY <1>1, <1>2, <1>3 DEF Next, vars, bootVars, SizeStep, MarkStep, LocStep, Scan, Walk,
       FreeCall, FreeStep, Halted

\* flip_frame keeps a set of numbers.
LEMMA FlipType ==
  ASSUME used \subseteq Nat, NEW n \in Nat
  PROVE  flip_frame(n) \subseteq Nat
  BY DEF flip_frame

-----------------------------------------------------------------------------
(* The type, and what does not depend on where the bitmap is.              *)

\* Every step keeps the types.
LEMMA TypeStep ==
  ASSUME TypeOK, EntryInv, [Next]_vars
  PROVE  TypeOK'
  <1>a. /\ Len(available) \in Nat /\ DOMAIN available = 1..Len(available)
        /\ \A k \in 1..Len(available) : available[k] \in Entries
        /\ Len(loc) \in Nat /\ Len(loc) <= Len(available)
        /\ \A k \in 1..Len(loc) : loc[k] \in Nat
    BY AvailFacts
  <1>1. CASE SizeStep
    <2>1. CASE i < Len(memmap)
      <3>1. memmap[i + 1] \in Entries
        BY <2>1, MapFacts DEF TypeOK
      <3>2. /\ Append(available, memmap[i + 1]) \in Seq(Entries)
            /\ Len(Append(available, memmap[i + 1])) = Len(available) + 1
        BY <3>1 DEF TypeOK
      <3>3. i \in Nat /\ nframes \in Nat /\ memmap[i + 1].len \in Nat
            /\ Len(memmap) \in Nat
        BY <3>1, SpanFacts, MapFacts DEF TypeOK
      <3>4. /\ i' \in Nat /\ nframes' \in Nat /\ pc' = pc
            /\ available' \in Seq(Entries) /\ Len(loc) <= Len(available')
        <4>1. i' = i + 1 /\ pc' = pc
          BY <1>1, <2>1, <3>3 DEF SizeStep
        <4>2. CASE memmap[i + 1].type = 1
          <5>1. available' = Append(available, memmap[i + 1])
                /\ nframes' = nframes + memmap[i + 1].len
            BY <1>1, <2>1, <3>3, <4>2 DEF SizeStep
          <5>. QED  BY <1>a, <3>2, <3>3, <4>1, <5>1, SMTT(60)
        <4>3. CASE memmap[i + 1].type # 1
          BY <1>1, <1>a, <2>1, <3>3, <4>1, <4>3 DEF SizeStep, TypeOK
        <4>. QED  BY <4>2, <4>3
      <3>. QED  BY <1>1, <3>4 DEF SizeStep, TypeOK, bootVars, callVars
    <2>. QED  BY <1>1, <2>1 DEF SizeStep, TypeOK, bootVars, callVars
  <1>2. CASE FirstFrame
    <2>1. ASSUME NEW j \in DOMAIN available, BootTake(j),
                 first_frame' = available[j].base + Offset(j), pc' = "rest"
          PROVE  TypeOK'
      <3>1. available[j] \in Entries
        BY <1>a
      <3>2. first_frame' \in Nat
        BY <2>1, <3>1, SpanFacts, BootTakeFacts
      <3>3. prev_i' \in Nat /\ in_c' \in Nat /\ without' \in Nat /\ boot' \subseteq Frame
        BY <2>1, <1>a, BootTakeFacts, SMTT(60) DEF TypeOK
      <3>. QED  BY <1>2, <2>1, <3>2, <3>3 DEF FirstFrame, TypeOK, callVars
    <2>. QED  BY <1>2, <2>1 DEF FirstFrame, TypeOK, bootVars, callVars
  <1>3. CASE RestFrames
    <2>1. ASSUME NEW j \in DOMAIN available, BootTake(j), UNCHANGED <<pc, first_frame>>,
                 i' = i + 1
          PROVE  TypeOK'
      <3>3. prev_i' \in Nat /\ in_c' \in Nat /\ without' \in Nat /\ boot' \subseteq Frame
        BY <2>1, <1>a, BootTakeFacts DEF TypeOK
      <3>. QED  BY <1>3, <2>1, <3>3 DEF RestFrames, TypeOK, callVars
    <2>. QED  BY <1>3, <2>1, SMTT(60) DEF RestFrames, TypeOK, bootVars, callVars
  <1>4. CASE MarkStep
    <2>1. used' \subseteq Nat
      BY <1>4, FlipType DEF MarkStep, TypeOK
    <2>. QED  BY <1>4, <2>1 DEF MarkStep, TypeOK, bootVars, callVars
  <1>5. CASE LocStep
    <2>1. CASE Len(loc) < Len(available)
      <3>1. available[Len(loc) + 1].len \in Nat
        BY <1>a, <2>1, SpanFacts
      <3>2. Append(loc, i) \in Seq(Nat) /\ Len(Append(loc, i)) = Len(loc) + 1
        BY DEF TypeOK
      <3>3. /\ i' \in Nat /\ pc' = pc
            /\ loc' \in Seq(Nat) /\ Len(loc') <= Len(available)
        <4>1. i' = i + available[Len(loc) + 1].len /\ pc' = pc /\ loc' = Append(loc, i)
          BY <1>5, <1>a, <2>1 DEF LocStep
        <4>. QED  BY <1>a, <2>1, <3>1, <3>2, <4>1 DEF TypeOK
      <3>. QED  BY <1>5, <3>3 DEF LocStep, TypeOK, bootVars, callVars
    <2>. QED  BY <1>5, <2>1 DEF LocStep, TypeOK, bootVars, callVars
  <1>6. CASE Scan
    <2>1. Searched \subseteq Nat
      BY DEF Searched
    <2>. QED  BY <1>6, <2>1 DEF Scan, TypeOK, bootVars
  <1>7. CASE Walk
    <2>1. CASE z <= Len(available) /\ cur_frame_n <= available[z].len - 1
      <3>. DEFINE a == available[z].base + cur_frame_n
      <3>1. z \in 1..Len(available) /\ available[z] \in Entries /\ cur_frame_n \in Nat
        BY <1>a, <2>1 DEF TypeOK, EntryInv
      <3>2. a \in Span(available[z])
        BY <2>1, <3>1, SpanFacts
      <3>2a. a \in Frame
        BY <3>1, <3>2 DEF EntryInv
      <3>3. [held EXCEPT ![a] = @ + 1] \in [Frame -> Nat]
        BY <3>2a DEF TypeOK
      <3>4. flip_frame(CUR_FRAME_N) \ BitsIn(a) \subseteq Nat
        BY FlipType DEF TypeOK
      <3>. HIDE DEF a
      <3>5. pc' = "ready" /\ used' \subseteq Nat /\ held' \in [Frame -> Nat]
            /\ UNCHANGED <<z, cur_frame_n>>
        BY <1>7, <2>1, <3>1, <3>3, <3>4, SpanFacts DEF Walk, a
      <3>. QED  BY <1>7, <3>5 DEF Walk, TypeOK, bootVars
    <2>2. CASE z <= Len(available) /\ cur_frame_n > available[z].len - 1
      <3>1. z \in 1..Len(available) /\ available[z] \in Entries /\ cur_frame_n \in Nat
        BY <1>a, <2>2 DEF TypeOK, EntryInv
      <3>2. cur_frame_n - available[z].len \in Nat
        BY <2>2, <3>1, SpanFacts
      <3>3. cur_frame_n' \in Nat /\ z' \in Nat /\ UNCHANGED <<pc, used, held>>
        BY <1>7, <1>a, <2>2, <3>1, <3>2, SpanFacts DEF Walk
      <3>. QED  BY <1>7, <3>3 DEF Walk, TypeOK, bootVars
    <2>3. CASE z > Len(available)
      <3>1. pc' = "panic" /\ UNCHANGED <<used, held, z, cur_frame_n>>
        BY <1>7, <1>a, <2>3 DEF Walk, TypeOK
      <3>. QED  BY <1>7, <3>1 DEF Walk, TypeOK, bootVars
    <2>. QED  BY <1>7, <2>1, <2>2, <2>3 DEF Walk
  <1>8. CASE FreeCall
    BY <1>8, FrameNat DEF FreeCall, TypeOK, bootVars
  <1>9. CASE FreeStep
    <2>1. ASSUME z <= Len(loc), addr \in Span(available[z])
          PROVE  loc[z] + (addr - available[z].base) \in Nat
      <3>1. z \in 1..Len(loc) /\ z \in 1..Len(available)
        BY <1>a, <2>1 DEF TypeOK, EntryInv
      <3>2. available[z] \in Entries /\ loc[z] \in Nat
        BY <1>a, <3>1
      <3>. QED  BY <2>1, <3>2, SpanFacts
    <2>2. used' \subseteq Nat
      BY <1>9, <2>1, FlipType DEF FreeStep, TypeOK
    <2>. QED  BY <1>9, <2>2 DEF FreeStep, TypeOK, bootVars
  <1>10. CASE Halted \/ UNCHANGED vars
    BY <1>10 DEF Halted, TypeOK, vars, bootVars, callVars
  <1>. QED
    BY <1>1, <1>2, <1>3, <1>4, <1>5, <1>6, <1>7, <1>8, <1>9, <1>10 DEF Next

\* A usable entry is appended to available.
LEMMA AppendFacts ==
  ASSUME TypeOK, NEW e \in Entries, available' = Append(available, e)
  PROVE  /\ Len(available') = Len(available) + 1
         /\ available'[Len(available) + 1] = e
         /\ \A k \in 1..Len(available) : available'[k] = available[k]
  BY DEF TypeOK

\* Every step keeps the usable entries disjoint.
LEMMA EntryStep ==
  ASSUME TypeOK, EntryInv, [Next]_vars
  PROVE  EntryInv'
  <1>a. Len(available) \in Nat /\ DOMAIN available = 1..Len(available)
    BY AvailFacts
  <1>b. i \in Nat /\ z \in Nat /\ prev_i \in Nat
    BY DEF TypeOK
  <1>c. /\ Len(memmap) \in Nat
        /\ \A k \in 1..Len(memmap) : memmap[k] \in Entries /\ Span(memmap[k]) \subseteq Frame
        /\ \A j, k \in 1..Len(memmap) : j # k => Span(memmap[j]) \cap Span(memmap[k]) = {}
    <2>1. memmap \in Memmaps
      BY DEF TypeOK
    <2>. QED  BY <2>1, MapFacts
  <1>d. prev_i # 0 /\ z # 0
    BY DEF EntryInv
  <1>1. CASE SizeStep
    <2>. USE <1>a, <1>b, <1>c
    <2>1. prev_i' = prev_i /\ z' = z /\ memmap' = memmap
      BY <1>1 DEF SizeStep, bootVars, callVars
    <2>2. CASE i < Len(memmap) /\ memmap[i + 1].type = 1
      <3>1. /\ available' = Append(available, memmap[i + 1]) /\ i' = i + 1
            /\ i + 1 \in 1..Len(memmap) /\ pc = "size"
        BY <1>1, <2>2 DEF SizeStep
      <3>2. /\ Len(available') = Len(available) + 1
            /\ available'[Len(available) + 1] = memmap[i + 1]
            /\ \A k \in 1..Len(available) : available'[k] = available[k]
        BY <3>1, AppendFacts
      <3>3. \A k \in 1..Len(available') : k \in 1..Len(available) \/ k = Len(available) + 1
        BY <3>2
      <3>4. /\ \A k \in 1..Len(available) : Span(available[k]) \subseteq Frame
            /\ \A j, k \in 1..Len(available) :
                  j # k => Span(available[j]) \cap Span(available[k]) = {}
            /\ \A j \in 1..Len(available), s \in 1..Len(memmap) :
                  i < s => Span(available[j]) \cap Span(memmap[s]) = {}
        BY <3>1 DEF EntryInv
      <3>5. \A k \in 1..Len(available') : Span(available'[k]) \subseteq Frame
        BY <3>1, <3>2, <3>3, <3>4
      <3>6. \A j, k \in 1..Len(available') :
               j # k => Span(available'[j]) \cap Span(available'[k]) = {}
        BY <3>1, <3>2, <3>3, <3>4
      <3>7. \A j \in 1..Len(available'), s \in 1..Len(memmap) :
               i' < s => Span(available'[j]) \cap Span(memmap[s]) = {}
        <4>1. SUFFICES ASSUME NEW j \in 1..Len(available'), NEW s \in 1..Len(memmap), i' < s
                       PROVE  Span(available'[j]) \cap Span(memmap[s]) = {}
          OBVIOUS
        <4>2. CASE j \in 1..Len(available)
          <5>1. i < s /\ available'[j] = available[j]
            BY <3>1, <3>2, <4>1, <4>2
          <5>. QED  BY <3>4, <4>2, <5>1
        <4>3. CASE j = Len(available) + 1
          <5>1. i + 1 # s /\ available'[j] = memmap[i + 1]
            BY <3>1, <3>2, <4>1, <4>3
          <5>. QED  BY <3>1, <4>1, <5>1
        <4>. QED  BY <3>3, <4>2, <4>3
      <3>. QED  BY <2>1, <3>1, <3>5, <3>6, <3>7 DEF EntryInv, Span
    <2>3. CASE i < Len(memmap) /\ memmap[i + 1].type # 1
      <3>1. available' = available /\ i' = i + 1 /\ pc' = pc /\ i' <= Len(memmap)
        BY <1>1, <2>3 DEF SizeStep
      <3>2. \A j \in 1..Len(available), s \in 1..Len(memmap) :
               i' < s => Span(available[j]) \cap Span(memmap[s]) = {}
        <4>1. SUFFICES ASSUME NEW j \in 1..Len(available), NEW s \in 1..Len(memmap), i' < s
                       PROVE  Span(available[j]) \cap Span(memmap[s]) = {}
          OBVIOUS
        <4>2. i < s
          BY <3>1, <4>1
        <4>3. pc = "size"
          BY <1>1 DEF SizeStep
        <4>. QED  BY <4>1, <4>2, <4>3 DEF EntryInv
      <3>. QED  BY <2>1, <3>1, <3>2 DEF EntryInv, Span
    <2>4. CASE i = Len(memmap)
      BY <1>1, <2>1, <2>4 DEF SizeStep, EntryInv, Span
    <2>. QED  BY <1>1, <2>2, <2>3, <2>4 DEF SizeStep
  <1>2. ASSUME UNCHANGED available, pc' # "size", prev_i' # 0, z' # 0
        PROVE  EntryInv'
    BY <1>2 DEF EntryInv, Span
  <1>3. CASE FirstFrame
    <2>1. prev_i' # 0
      BY <1>3, <1>a, BootTakeFacts DEF FirstFrame, bootVars, EntryInv
    <2>. QED  BY <1>2, <1>3, <2>1 DEF FirstFrame, callVars, EntryInv
  <1>4. CASE RestFrames
    <2>1. prev_i' # 0
      BY <1>4, <1>a, BootTakeFacts DEF RestFrames, bootVars, EntryInv
    <2>. QED  BY <1>2, <1>4, <2>1 DEF RestFrames, callVars, EntryInv
  <1>5. CASE MarkStep \/ LocStep
    <2>1. UNCHANGED <<available, prev_i, z>> /\ pc' # "size"
      BY <1>5 DEF MarkStep, LocStep, bootVars, callVars
    <2>. QED  BY <1>2, <1>d, <2>1
  <1>5a. CASE Scan
    <2>1. UNCHANGED <<available, prev_i>> /\ z' \in {z, 1} /\ pc' # "size"
      BY <1>5a DEF Scan, bootVars
    <2>. QED  BY <1>2, <1>d, <2>1
  <1>6. CASE Walk
    <2>1. UNCHANGED <<available, prev_i>> /\ z' \in {z, z + 1} /\ pc' # "size"
      BY <1>6 DEF Walk, bootVars
    <2>. QED  BY <1>2, <1>b, <1>d, <2>1
  <1>7. CASE FreeCall
    <2>1. UNCHANGED <<available, prev_i>> /\ z' = 1 /\ pc' # "size"
      BY <1>7 DEF FreeCall, bootVars
    <2>. QED  BY <1>2, <1>d, <2>1
  <1>7a. CASE FreeStep
    <2>1. UNCHANGED <<available, prev_i>> /\ z' \in {z, z + 1} /\ pc' # "size"
      BY <1>7a DEF FreeStep, bootVars
    <2>. QED  BY <1>2, <1>b, <1>d, <2>1
  <1>8. CASE Halted \/ UNCHANGED vars
    BY <1>8 DEF Halted, vars, bootVars, callVars, EntryInv, Span
  <1>. QED  BY <1>1, <1>3, <1>4, <1>5, <1>5a, <1>6, <1>7, <1>7a, <1>8 DEF Next

\* loc_datas gets an entry that starts where the last one ends.
LEMMA LocInvStep ==
  ASSUME TypeOK, EntryInv, LocInv, [Next]_vars
  PROVE  LocInv'
  <1>a. /\ Len(available) \in Nat /\ Len(loc) \in Nat /\ Len(loc) <= Len(available)
        /\ \A k \in 1..Len(available) : available[k].len \in Nat
        /\ \A k \in 1..Len(loc) : loc[k] \in Nat
    BY AvailFacts, SpanFacts
  <1>b. i \in Nat /\ loc \in Seq(Nat)
    BY DEF TypeOK
  <1>1. CASE LocStep /\ Len(loc) < Len(available)
    <2>1. /\ loc' = Append(loc, i) /\ i' = i + available[Len(loc) + 1].len
          /\ pc = "loc" /\ pc' = "loc" /\ available' = available
      BY <1>1, <1>a DEF LocStep
    <2>2. /\ Len(loc') = Len(loc) + 1 /\ loc'[Len(loc) + 1] = i
          /\ \A k \in 1..Len(loc) : loc'[k] = loc[k]
          /\ \A k \in 1..Len(loc') : k \in 1..Len(loc) \/ k = Len(loc) + 1
          /\ loc' # <<>>
      BY <2>1, <1>a, <1>b
    <2>3. \A k \in 1..Len(loc') : k = 1 => loc'[k] = 0
      BY <2>1, <2>2, <1>a, <1>b DEF LocInv
    <2>4. \A j, k \in 1..Len(loc') : k = j + 1 => loc'[k] = loc'[j] + available[j].len
      BY <2>1, <2>2, <1>a DEF LocInv
    <2>5. \A j, k \in 1..Len(loc') : j < k => loc'[j] + available[j].len <= loc'[k]
      BY <2>1, <2>2, <1>a DEF LocInv
    <2>6. \A j \in 1..Len(loc') : loc'[j] + available[j].len <= i'
      <3>1. available[Len(loc) + 1].len \in Nat
        BY <1>a, <1>1
      <3>2. \A j \in 1..Len(loc) : loc[j] + available[j].len <= i
        BY <2>1 DEF LocInv
      <3>3. SUFFICES ASSUME NEW j \in 1..Len(loc')
                     PROVE  loc'[j] + available[j].len <= i'
        OBVIOUS
      <3>4. CASE j = Len(loc) + 1
        BY <2>1, <2>2, <1>b, <3>1, <3>4
      <3>5. CASE j \in 1..Len(loc)
        <4>1. loc[j] \in Nat /\ available[j].len \in Nat
          BY <1>a, <3>5
        <4>2. loc[j] + available[j].len <= i /\ loc'[j] = loc[j]
          BY <2>2, <3>2, <3>5
        <4>3. i \in Nat /\ i' = i + available[Len(loc) + 1].len
          BY <2>1, <1>b
        <4>. QED  BY <3>1, <4>1, <4>2, <4>3
      <3>. QED  BY <2>2, <3>4, <3>5
    <2>. QED  BY <2>1, <2>2, <2>3, <2>4, <2>5, <2>6 DEF LocInv, SetUp, Live
  <1>2. CASE LocStep /\ Len(loc) = Len(available)
    <2>1. UNCHANGED <<loc, available>> /\ pc' = "ready"
      BY <1>2, <1>a DEF LocStep
    <2>. QED  BY <1>2, <2>1 DEF LocInv, SetUp, Live
  <1>3. CASE SizeStep
    <2>1. loc' = <<>> /\ pc' \in {"size", "first"}
      BY <1>3 DEF SizeStep, LocInv, SetUp
    <2>. QED  BY <2>1 DEF LocInv, SetUp, Live
  <1>4. CASE FirstFrame \/ RestFrames
    <2>1. loc' = <<>> /\ pc' \in {"first", "rest", "mark", "panic"}
      <3>1. CASE FirstFrame
        BY <3>1 DEF FirstFrame, LocInv, SetUp
      <3>2. CASE RestFrames
        BY <3>2 DEF RestFrames, LocInv, SetUp
      <3>. QED  BY <1>4, <3>1, <3>2
    <2>. QED  BY <2>1 DEF LocInv, SetUp, Live
  <1>5. CASE MarkStep
    <2>1. loc' = <<>> /\ (pc' = "mark" \/ (pc' = "loc" /\ i' = 0))
      <3>1. loc = <<>>
        BY <1>5 DEF MarkStep, LocInv, SetUp
      <3>2. loc' = loc
        BY <1>5 DEF MarkStep
      <3>3. pc' = "mark" \/ (pc' = "loc" /\ i' = 0)
        BY <1>5 DEF MarkStep
      <3>. QED  BY <3>1, <3>2, <3>3
    <2>. QED  BY <2>1 DEF LocInv, SetUp, Live
  <1>6. CASE Scan \/ Walk \/ FreeCall \/ FreeStep
    <2>1. UNCHANGED <<loc, available>> /\ pc \in Live /\ pc' \in Live \cup {"panic"}
      <3>1. CASE Scan
        BY <3>1 DEF Scan, Live
      <3>2. CASE Walk
        BY <3>2 DEF Walk, Live
      <3>3. CASE FreeCall
        BY <3>3 DEF FreeCall, Live
      <3>4. CASE FreeStep
        BY <3>4 DEF FreeStep, Live
      <3>. QED  BY <1>6, <3>1, <3>2, <3>3, <3>4
    <2>. QED  BY <2>1 DEF LocInv, SetUp, Live
  <1>7. CASE Halted \/ UNCHANGED vars
    BY <1>7 DEF Halted, vars, LocInv
  <1>. QED  BY <1>1, <1>2, <1>3, <1>4, <1>5, <1>6, <1>7, <1>a DEF Next, LocStep

-----------------------------------------------------------------------------
(* The number of frames.                                                   *)

\* The bits get_frame looks at are those of frames there are.
LEMMA SearchedBelow ==
  ASSUME nframes \in Nat, NEW n \in Searched
  PROVE  n \in Nat /\ n < nframes
  <1>1. PICK q : q = nframes \div WordBits
    OBVIOUS
  <1>2. q \in Nat /\ q * WordBits <= nframes
    BY <1>1, SizeAssumption
  <1>3. q * WordBits \in Nat /\ n \in 0..(q * WordBits - 1)
    BY <1>1, <1>2, SizeAssumption DEF Searched
  <1>. QED  BY ONLY <1>2, <1>3, nframes \in Nat

LEMMA SumStep ==
  ASSUME TypeOK, EntryInv, LocInv, SumInv, [Next]_vars
  PROVE  SumInv'
  <1>a. /\ Len(available) \in Nat /\ Len(loc) \in Nat /\ Len(loc) <= Len(available)
        /\ \A k \in 1..Len(available) : available[k].len \in Nat
    BY AvailFacts, SpanFacts
  <1>b. /\ nframes \in Nat /\ i \in Nat /\ z \in Nat /\ z # 0 /\ cur_frame_n \in Nat
        /\ CUR_FRAME_N \in Nat
    BY DEF TypeOK, EntryInv
  <1>c. PICK S : Totals(S) /\ CountsBy(S)
    BY DEF SumInv
  <1>d. S \in [0..Len(available) -> Nat]
    BY <1>c DEF Totals
  <1>e. ASSUME UNCHANGED available PROVE Totals(S)'
    BY <1>c, <1>e DEF Totals
  <1>1. CASE SizeStep
    <2>1. pc' \in {"size", "first"} /\ loc' = <<>>
      BY <1>1 DEF SizeStep, LocInv, SetUp
    <2>2. CASE UNCHANGED <<available, nframes>>
      <3>1. CountsBy(S)'
        BY <1>c, <2>1, <2>2 DEF CountsBy
      <3>. QED  BY <1>e, <2>1, <2>2, <3>1 DEF SumInv, PanicOnlyWhenFull
    <2>3. CASE /\ i < Len(memmap) /\ available' = Append(available, memmap[i + 1])
               /\ nframes' = nframes + memmap[i + 1].len
      <3>1. memmap[i + 1] \in Entries
        <4>1. memmap \in Seq(Entries) /\ Len(memmap) \in Nat
          BY MapFacts DEF TypeOK
        <4>. QED  BY <1>b, <2>3, <4>1
      <3>2. PICK e \in Entries : e = memmap[i + 1]
        BY <3>1
      <3>3. available' = Append(available, e) /\ nframes' = nframes + e.len /\ e.len \in Nat
        BY <2>3, <3>2 DEF Entries
      <3>4. /\ Len(available') = Len(available) + 1
            /\ available'[Len(available) + 1] = e
            /\ \A k \in 1..Len(available) : available'[k] = available[k]
        BY <3>3, AppendFacts
      <3>5. PICK n : n = Len(available)
        OBVIOUS
      <3>6. PICK R : R = [k \in 0..(n + 1) |-> IF k = n + 1 THEN nframes + e.len ELSE S[k]]
        OBVIOUS
      <3>7. /\ n \in Nat /\ S \in [0..n -> Nat] /\ nframes = S[n] /\ S[0] = 0
            /\ \A k \in 1..n : S[k] = S[k - 1] + available[k].len
        BY <1>a, <1>c, <1>d, <3>5 DEF Totals, CountsBy
      <3>8. /\ R \in [0..(n + 1) -> Nat] /\ R[n + 1] = nframes + e.len
            /\ \A k \in 0..n : R[k] = S[k]
        BY <3>3, <3>6, <3>7, <1>b
      <3>9. \A k \in 1..(n + 1) : R[k] = R[k - 1] + available'[k].len
        <4>. TAKE k \in 1..(n + 1)
        <4>1. CASE k = n + 1
          BY <4>1, <3>4, <3>5, <3>7, <3>8
        <4>2. CASE k \in 1..n
          <5>1. k - 1 \in 0..n /\ k \in 0..n /\ available'[k] = available[k]
            BY <3>4, <3>5, <3>7, <4>2
          <5>. QED  BY <4>2, <5>1, <3>7, <3>8
        <4>. QED  BY <4>1, <4>2, <3>7
      <3>10. Len(available') = n + 1
        BY <3>4, <3>5
      <3>11. Totals(R)'
        BY <3>7, <3>8, <3>9, <3>10 DEF Totals
      <3>12. CountsBy(R)'
        BY <2>1, <3>3, <3>8, <3>10 DEF CountsBy
      <3>. QED  BY <2>1, <3>11, <3>12 DEF SumInv, PanicOnlyWhenFull
    <2>. QED  BY <1>1, <2>2, <2>3 DEF SizeStep
  <1>2. CASE FirstFrame \/ RestFrames
    <2>1. /\ pc' \in {"first", "rest", "mark", "panic"} /\ loc' = <<>>
          /\ UNCHANGED <<available, nframes>>
      <3>1. CASE FirstFrame
        BY <3>1 DEF FirstFrame, LocInv, SetUp
      <3>2. CASE RestFrames
        BY <3>2 DEF RestFrames, LocInv, SetUp
      <3>. QED  BY <1>2, <3>1, <3>2
    <2>2. CountsBy(S)'
      BY <1>c, <2>1 DEF CountsBy
    <2>. QED  BY <1>e, <2>1, <2>2 DEF SumInv, PanicOnlyWhenFull
  <1>3. CASE MarkStep
    <2>1. /\ pc' = "mark" \/ (pc' = "loc" /\ i' = 0)
          /\ loc' = loc /\ loc = <<>>
          /\ UNCHANGED <<available, nframes>>
      <3>1. loc = <<>>
        BY <1>3 DEF MarkStep, LocInv, SetUp
      <3>2. pc' = "mark" \/ (pc' = "loc" /\ i' = 0)
        BY <1>3 DEF MarkStep
      <3>. QED  BY <1>3, <3>1, <3>2 DEF MarkStep
    <2>2. S[0] = 0 /\ Len(loc') = 0
      BY <1>c, <2>1 DEF Totals
    <2>3. CountsBy(S)'
      BY <1>c, <2>1, <2>2 DEF CountsBy
    <2>. QED  BY <1>e, <2>1, <2>3 DEF SumInv, PanicOnlyWhenFull
  <1>4. CASE LocStep
    <2>1. pc = "loc" /\ UNCHANGED <<available, nframes>> /\ i = S[Len(loc)]
      BY <1>4, <1>c DEF LocStep, CountsBy
    <2>2. CASE /\ Len(loc) < Len(available) /\ loc' = Append(loc, i) /\ pc' = "loc"
               /\ i' = i + available[Len(loc) + 1].len
      <3>1. Len(loc') = Len(loc) + 1
        BY <2>2 DEF TypeOK
      <3>2. i' = S[Len(loc) + 1]
        BY <1>a, <1>c, <2>1, <2>2 DEF Totals
      <3>3. CountsBy(S)'
        BY <1>c, <2>1, <2>2, <3>1, <3>2 DEF CountsBy
      <3>. QED  BY <1>e, <2>1, <2>2, <3>3 DEF SumInv, PanicOnlyWhenFull
    <2>3. CASE pc' = "ready"
      <3>1. CountsBy(S)'
        BY <1>c, <2>1, <2>3 DEF CountsBy
      <3>. QED  BY <1>e, <2>1, <2>3, <3>1 DEF SumInv, PanicOnlyWhenFull
    <2>. QED  BY <1>4, <2>1, <2>2, <2>3 DEF LocStep
  <1>5. CASE Scan
    <2>1. UNCHANGED <<available, nframes, used>> /\ pc' \in {"walk", "panic"}
      BY <1>5 DEF Scan
    <2>2. CASE pc' = "walk"
      <3>1. /\ CUR_FRAME_N' \in Searched /\ cur_frame_n' = CUR_FRAME_N' /\ z' = 1
        BY <1>5, <2>2 DEF Scan
      <3>2. CUR_FRAME_N' \in Nat /\ CUR_FRAME_N' < nframes
        BY <1>b, <3>1, SearchedBelow
      <3>3. S[0] = 0 /\ nframes = S[Len(available)]
        BY <1>c DEF Totals, CountsBy
      <3>4. CountsBy(S)'
        BY <1>a, <2>1, <2>2, <3>1, <3>2, <3>3 DEF CountsBy
      <3>. QED  BY <1>e, <2>1, <2>2, <3>4 DEF SumInv, PanicOnlyWhenFull
    <2>3. CASE pc' = "panic"
      <3>1. Searched \subseteq used
        BY <1>5, <2>3 DEF Scan
      <3>2. Searched' \subseteq used'
        BY <2>1, <3>1 DEF Searched
      <3>3. CountsBy(S)'
        BY <1>c, <2>1, <2>3 DEF CountsBy
      <3>. QED  BY <1>e, <2>1, <3>2, <3>3 DEF SumInv, PanicOnlyWhenFull
    <2>. QED  BY <2>1, <2>2, <2>3
  <1>6. CASE Walk
    <2>1. pc = "walk" /\ UNCHANGED <<available, nframes, CUR_FRAME_N>>
      BY <1>6 DEF Walk
    <2>2. /\ z \in 1..(Len(available) + 1) /\ CUR_FRAME_N = cur_frame_n + S[z - 1]
          /\ CUR_FRAME_N < nframes /\ nframes = S[Len(available)]
      BY <1>c, <2>1 DEF CountsBy
    <2>3. z <= Len(available)
      <3>1. SUFFICES ASSUME z = Len(available) + 1 PROVE FALSE
        BY <1>a, <2>2
      <3>2. S[z - 1] = nframes
        BY <1>a, <2>2, <3>1
      <3>. QED  BY <1>b, <2>2, <3>2
    <2>4. CASE pc' = "ready"
      <3>1. CountsBy(S)'
        BY <2>1, <2>2, <2>4 DEF CountsBy
      <3>. QED  BY <1>e, <2>1, <2>4, <3>1 DEF SumInv, PanicOnlyWhenFull
    <2>5. CASE /\ cur_frame_n > available[z].len - 1 /\ pc' = pc
               /\ cur_frame_n' = cur_frame_n - available[z].len /\ z' = z + 1
      <3>1. z \in 1..Len(available) /\ available[z].len \in Nat
        BY <1>a, <2>2, <2>3
      <3>2. S[z] = S[z - 1] + available[z].len /\ S[z - 1] \in Nat
        BY <1>a, <1>c, <1>d, <3>1 DEF Totals
      <3>3. /\ z' \in 1..(Len(available) + 1) /\ z' - 1 = z
            /\ CUR_FRAME_N = cur_frame_n' + S[z]
        <4>1. z' \in 1..(Len(available) + 1) /\ z' - 1 = z
          BY <1>a, <1>b, <2>5, <3>1
        <4>2. PICK n : n = available[z].len
          OBVIOUS
        <4>3. PICK p : p = S[z - 1]
          OBVIOUS
        <4>4. /\ n \in Nat /\ p \in Nat /\ S[z] = p + n /\ CUR_FRAME_N = cur_frame_n + p
              /\ cur_frame_n' = cur_frame_n - n
          BY ONLY <2>2, <2>5, <3>1, <3>2, <4>2, <4>3
        <4>5. CUR_FRAME_N = cur_frame_n' + S[z]
          BY ONLY <1>b, <4>4
        <4>. QED  BY <4>1, <4>5
      <3>4. CountsBy(S)'
        BY <2>1, <2>2, <2>5, <3>3 DEF CountsBy
      <3>. QED  BY <1>e, <2>1, <2>5, <3>4 DEF SumInv, PanicOnlyWhenFull
    <2>. QED  BY <1>6, <1>a, <1>b, <2>1, <2>3, <2>4, <2>5 DEF Walk
  <1>7. CASE FreeCall \/ FreeStep
    <2>1. UNCHANGED <<available, nframes>> /\ pc' \in {"ready", "free"}
      BY <1>7 DEF FreeCall, FreeStep
    <2>2. CountsBy(S)'
      BY <1>c, <2>1 DEF CountsBy
    <2>. QED  BY <1>e, <2>1, <2>2 DEF SumInv, PanicOnlyWhenFull
  <1>8. CASE Halted \/ UNCHANGED vars
    <2>1. UNCHANGED vars
      BY <1>8 DEF Halted
    <2>2. Totals(S)' /\ CountsBy(S)'
      BY <1>c, <1>e, <2>1 DEF CountsBy, vars, callVars
    <2>3. PanicOnlyWhenFull'
      BY <2>1 DEF SumInv, PanicOnlyWhenFull, Searched, vars
    <2>. QED  BY <2>2, <2>3 DEF SumInv
  <1>. QED  BY <1>1, <1>2, <1>3, <1>4, <1>5, <1>6, <1>7, <1>8 DEF Next

-----------------------------------------------------------------------------
(* The numbering.                                                          *)

\* What an entry and its number are, as one fact.
LEMMA NumType ==
  ASSUME TypeOK, LocInv, pc \in Live, NEW k \in 1..Len(available), NEW f \in Span(available[k])
  PROVE  /\ k \in 1..Len(loc) /\ loc[k] \in Nat /\ f \in Int
         /\ available[k].base \in Nat /\ available[k].len \in Nat
         /\ available[k].base <= f /\ f < available[k].base + available[k].len
         /\ Num(k, f) \in Nat /\ loc[k] <= Num(k, f) /\ Num(k, f) < loc[k] + available[k].len
         /\ Num(k, f) = loc[k] + (f - available[k].base)
  <1>1. Len(loc) = Len(available)
    BY DEF LocInv
  <1>2. available[k] \in Entries /\ k \in 1..Len(loc) /\ loc[k] \in Nat
    BY <1>1, AvailFacts
  <1>3. /\ available[k].base \in Nat /\ available[k].len \in Nat /\ f \in Int
        /\ available[k].base <= f /\ f < available[k].base + available[k].len
    BY <1>2, SpanFacts
  <1>4. Num(k, f) = loc[k] + (f - available[k].base)
    BY DEF Num
  <1>. QED  BY <1>2, <1>3, <1>4, SMTT(60)

\* Two frames never have the same number.
LEMMA NumInjective ==
  ASSUME TypeOK, LocInv, pc \in Live,
         NEW j \in 1..Len(available), NEW k \in 1..Len(available),
         NEW f \in Span(available[j]), NEW g \in Span(available[k]), Num(j, f) = Num(k, g)
  PROVE  j = k /\ f = g
  <1>1. ASSUME NEW x \in 1..Len(available), NEW y \in 1..Len(available), x < y,
               NEW p \in Span(available[x]), NEW q \in Span(available[y])
        PROVE  Num(x, p) < Num(y, q)
    <2>1. /\ x \in 1..Len(loc) /\ loc[x] \in Nat /\ available[x].len \in Nat
          /\ Num(x, p) \in Nat /\ Num(x, p) < loc[x] + available[x].len
      BY NumType
    <2>2. /\ y \in 1..Len(loc) /\ loc[y] \in Nat
          /\ Num(y, q) \in Nat /\ loc[y] <= Num(y, q)
      BY NumType
    <2>3. loc[x] + available[x].len <= loc[y]
      BY <1>1, <2>1, <2>2 DEF LocInv
    <2>. QED  BY <2>1, <2>2, <2>3, SMTT(60)
  <1>2. Num(j, f) \in Nat
    BY NumType
  <1>3. j = k
    BY <1>1, <1>2
  <1>4. /\ loc[k] \in Nat /\ available[k].base \in Nat /\ f \in Int /\ g \in Int
        /\ Num(k, f) = loc[k] + (f - available[k].base)
        /\ Num(k, g) = loc[k] + (g - available[k].base)
    BY <1>3, NumType
  <1>. QED  BY <1>3, <1>4

\* The frames taken before the bitmap have the numbers init_pmm marks.
LEMMA BootNum ==
  ASSUME TypeOK, EntryInv, LocInv, BootInv, pc \in Live,
         NEW k \in 1..Len(available), NEW f \in Span(available[k])
  PROVE  f \in boot <=> Num(k, f) < without
  <1>1. /\ k \in 1..Len(loc) /\ loc[k] \in Nat /\ f \in Int
        /\ available[k].base \in Nat /\ available[k].len \in Nat
        /\ available[k].base <= f
        /\ Num(k, f) \in Nat /\ loc[k] <= Num(k, f)
        /\ Num(k, f) = loc[k] + (f - available[k].base)
    BY NumType
  <1>2. without \in Nat /\ f \in Frame
    BY DEF TypeOK, EntryInv
  <1>3. f \in boot <=> without > 0 /\ available[1].base <= f /\ f < available[1].base + without
    BY <1>2 DEF BootInv
  <1>4. CASE without = 0
    BY <1>1, <1>3, <1>4
  <1>5. CASE without > 0 /\ k = 1
    <2>1. loc[k] = 0
      BY <1>1, <1>5 DEF LocInv
    <2>. QED  BY <1>1, <1>2, <1>3, <1>5, <2>1
  <1>6. CASE without > 0 /\ k # 1
    <2>1. /\ Len(available) \in Nat /\ Len(available) > 0 /\ without < available[1].len
          /\ available[1] \in Entries /\ 1 \in 1..Len(available)
      BY <1>6, AvailFacts DEF BootInv
    <2>2. /\ available[1].base \in Nat /\ available[1].len \in Nat
          /\ \A g : g \in Span(available[1]) <=>
                g \in Int /\ available[1].base <= g /\ g < available[1].base + available[1].len
      BY <2>1, SpanFacts
    <2>3. f \notin Span(available[1])
      BY <1>6, <2>1 DEF EntryInv
    <2>4. f \notin boot
      <3>1. ~(available[1].base <= f /\ f < available[1].base + available[1].len)
        BY <1>1, <2>2, <2>3
      <3>. QED  BY <1>1, <1>2, <1>3, <2>1, <2>2, <3>1
    <2>5. 1 \in 1..Len(loc) /\ loc[1] \in Nat /\ 1 < k
      BY <1>1, <1>6, <2>1, AvailFacts
    <2>6. loc[1] + available[1].len <= loc[k]
      BY <1>1, <2>5 DEF LocInv
    <2>7. without <= Num(k, f)
      BY <1>1, <1>2, <2>1, <2>2, <2>5, <2>6, SMTT(60)
    <2>. QED  BY <1>1, <1>2, <2>4, <2>7
  <1>. QED  BY <1>2, <1>4, <1>5, <1>6

\* The frame get_frame finds is nobody's, and not part of the bitmap.
LEMMA WalkTake ==
  ASSUME TypeOK, EntryInv, LocInv, BootInv, HeldInv, UsedInv, pc = "walk",
         z <= Len(available), cur_frame_n <= available[z].len - 1,
         NEW a, a = available[z].base + cur_frame_n
  PROVE  /\ z \in 1..Len(available) /\ a \in Span(available[z]) /\ a \in Frame
         /\ Num(z, a) = CUR_FRAME_N /\ CUR_FRAME_N \notin used
         /\ held[a] = 0 /\ a \notin boot
         /\ flip_frame(CUR_FRAME_N) \ BitsIn(a) = used \cup {CUR_FRAME_N}
  <1>1. /\ z \in 1..Len(available) /\ available[z] \in Entries
        /\ cur_frame_n \in Nat /\ CUR_FRAME_N \in Nat /\ without \in Nat /\ nframes \in Nat
        /\ used \subseteq Nat /\ first_frame \in Nat /\ held \in [Frame -> Nat]
    BY AvailFacts DEF TypeOK, EntryInv
  <1>2. a \in Span(available[z])
    BY <1>1, SpanFacts
  <1>3. a \in Frame
    BY <1>1, <1>2 DEF EntryInv
  <1>4. CUR_FRAME_N \notin used /\ loc[z] + cur_frame_n = CUR_FRAME_N
    BY DEF UsedInv
  <1>5. pc \in Live
    BY DEF Live
  <1>6. Num(z, a) = CUR_FRAME_N
    BY <1>1, <1>2, <1>4, <1>5, NumType
  <1>7. held[a] = 0
    BY <1>1, <1>2, <1>3, <1>4, <1>5, <1>6 DEF UsedInv
  <1>8. CUR_FRAME_N >= without
    BY <1>1, <1>4, <1>5 DEF UsedInv
  <1>9. a \notin boot
    BY <1>1, <1>2, <1>5, <1>6, <1>8, BootNum
  <1>10. ASSUME NEW n \in BitsIn(a) PROVE FALSE
    <2>1. n \in Nat /\ n <= nframes /\ first_frame + n \div (8 * PageSize) = a
      BY <1>1, <1>10 DEF BitsIn
    <2>2. /\ n \div (8 * PageSize) \in Nat /\ nframes \div PageSize \in Nat
          /\ n \div (8 * PageSize) <= nframes \div PageSize
      BY <1>1, <2>1, BitmapFits
    <2>3. without = (nframes \div PageSize) + 1 /\ without > 0
      BY <1>5, <2>2 DEF BootInv
    <2>4. first_frame = available[1].base
      BY <2>3 DEF BootInv
    <2>5. first_frame <= a /\ a < first_frame + without
      BY <1>1, <2>1, <2>2, <2>3, SMTT(60)
    <2>6. a \in boot
      BY <1>3, <2>3, <2>4, <2>5 DEF BootInv
    <2>. QED  BY <1>9, <2>6
  <1>11. flip_frame(CUR_FRAME_N) \ BitsIn(a) = used \cup {CUR_FRAME_N}
    BY <1>4, <1>10 DEF flip_frame
  <1>. QED  BY <1>1, <1>2, <1>3, <1>4, <1>6, <1>7, <1>9, <1>11

-----------------------------------------------------------------------------
(* What holds while the first entry holds every frame taken before.        *)

\* The frame get_frame takes before the bitmap is the next of the first entry.
LEMMA BootNext ==
  ASSUME TypeOK, EntryInv, BootInv, NEW j \in DOMAIN available, BootTake(j), InFirstEntry'
  PROVE  /\ j = 1 /\ Offset(j) = without /\ Len(available) > 0
         /\ in_c' = without + 1 /\ without' = without + 1 /\ without + 1 < available[1].len
         /\ boot' = boot \cup {available[1].base + without}
         /\ available[1].base + without \in Frame /\ available[1].base + without \notin boot
         /\ available[1].base \in Nat /\ available[1].len \in Nat
  <1>1. j = 1 /\ Offset(j) = in_c
    BY BootTakeFacts DEF InFirstEntry
  <1>2. in_c = without /\ without \in Nat
    BY DEF BootInv, TypeOK
  <1>3. Len(available) > 0 /\ available[1].base \in Nat /\ available[1].len \in Nat
    BY <1>1, AvailFacts, SpanFacts
  <1>4. available[1].base + without \in Frame /\ without < available[1].len - 1
    BY <1>1, <1>2, BootTakeFacts
  <1>5. available[1].base + without \notin boot
    BY <1>2, <1>3, <1>4 DEF BootInv
  <1>. QED  BY <1>1, <1>2, <1>3, <1>4, <1>5, BootTakeFacts

\* The frames taken before the bitmap stay the first ones of the first entry.
LEMMA BootStep ==
  ASSUME TypeOK, EntryInv, BootInv, [Next]_vars, InFirstEntry'
  PROVE  BootInv'
  <1>a. /\ without \in Nat /\ i \in Nat /\ nframes \in Nat
        /\ nframes \div PageSize \in Nat
    <2>1. without \in Nat /\ i \in Nat /\ nframes \in Nat
      BY DEF TypeOK
    <2>. QED  BY <2>1, BitmapFits
  <1>1. ASSUME NEW j \in DOMAIN available, BootTake(j), first_frame' = available[1].base,
               available' = available, pc' = "rest",
               without' = i' + 1, i' <= nframes' \div PageSize
        PROVE  BootInv'
    <2>. DEFINE b == available[1].base
    <2>1. /\ Len(available) > 0 /\ in_c' = without' /\ without' = without + 1
          /\ without' < available[1].len /\ boot' = boot \cup {b + without}
          /\ b + without \in Frame /\ b \in Nat
      BY <1>1, BootNext
    <2>2. ASSUME NEW f \in Frame
          PROVE  f \in boot' <=> b <= f /\ f < b + without'
      <3>1. f \in boot <=> without > 0 /\ b <= f /\ f < b + without
        BY DEF BootInv
      <3>2. f \in Nat
        BY FrameNat
      <3>. QED  BY <1>a, <2>1, <3>1, <3>2, SMTT(60)
    <2>3. without' > 0
      BY <1>a, <2>1
    <2>. QED  BY <1>1, <2>1, <2>2, <2>3 DEF BootInv, Live
  <1>2. ASSUME UNCHANGED bootVars, UNCHANGED <<available, nframes>>,
               pc' \notin {"size", "first", "rest"},
               pc' \in {"mark", "loc"} \cup Live => without = (nframes \div PageSize) + 1
        PROVE  BootInv'
    BY <1>2 DEF BootInv, bootVars
  <1>3. CASE SizeStep
    <2>1. pc = "size" /\ UNCHANGED bootVars /\ (pc' = "size" \/ (pc' = "first" /\ i' = 0))
      BY <1>3 DEF SizeStep
    <2>. QED  BY <2>1 DEF BootInv, bootVars, Live
  <1>4. CASE FirstFrame
    <2>1. ASSUME NEW j \in DOMAIN available, BootTake(j), pc' = "rest",
                 first_frame' = available[j].base + Offset(j)
          PROVE  BootInv'
      <3>1. without = 0 /\ i = 0 /\ UNCHANGED <<available, nframes, i>>
        BY <1>4 DEF FirstFrame, BootInv
      <3>2. j = 1 /\ Offset(j) = 0 /\ without' = 1 /\ available[1].base \in Nat
        BY <2>1, <3>1, BootNext
      <3>. QED  BY <1>1, <1>a, <2>1, <3>1, <3>2
    <2>2. ASSUME NoneFits, pc' = "panic", UNCHANGED bootVars
          PROVE  BootInv'
      BY <1>2, <1>4, <2>2 DEF FirstFrame, Live
    <2>. QED  BY <1>4, <2>1, <2>2 DEF FirstFrame
  <1>5. CASE RestFrames
    <2>1. ASSUME NEW j \in DOMAIN available, BootTake(j), i < nframes \div PageSize,
                 i' = i + 1, UNCHANGED <<pc, first_frame>>
          PROVE  BootInv'
      <3>1. without = i + 1 /\ pc = "rest" /\ UNCHANGED <<available, nframes>>
        BY <1>5 DEF RestFrames, BootInv
      <3>2. without' = without + 1 /\ first_frame = available[1].base
        BY <1>a, <2>1, <3>1, BootNext DEF BootInv
      <3>. QED  BY <1>1, <1>a, <2>1, <3>1, <3>2
    <2>2. ASSUME pc' = "panic", UNCHANGED bootVars
          PROVE  BootInv'
      BY <1>2, <1>5, <2>2 DEF RestFrames, Live
    <2>3. ASSUME i = nframes \div PageSize, pc' = "mark", UNCHANGED bootVars
          PROVE  BootInv'
      BY <1>2, <1>5, <2>3 DEF RestFrames, BootInv
    <2>. QED  BY <1>5, <2>1, <2>2, <2>3 DEF RestFrames
  <1>6. CASE MarkStep
    BY <1>2, <1>6 DEF MarkStep, BootInv
  <1>7. CASE LocStep
    BY <1>2, <1>7 DEF LocStep, BootInv, Live
  <1>8. CASE Scan \/ Walk \/ FreeCall \/ FreeStep
    <2>1. /\ UNCHANGED bootVars /\ UNCHANGED <<available, nframes>>
          /\ pc \in Live /\ pc' \in Live \cup {"panic"}
      <3>1. CASE Scan
        BY <3>1 DEF Scan, Live
      <3>2. CASE Walk
        BY <3>2 DEF Walk, Live
      <3>3. CASE FreeCall
        BY <3>3 DEF FreeCall, Live
      <3>4. CASE FreeStep
        BY <3>4 DEF FreeStep, Live
      <3>. QED  BY <1>8, <3>1, <3>2, <3>3, <3>4
    <2>. QED  BY <1>2, <2>1 DEF BootInv, Live
  <1>9. CASE Halted \/ UNCHANGED vars
    BY <1>9 DEF Halted, vars, bootVars, BootInv
  <1>. QED  BY <1>3, <1>4, <1>5, <1>6, <1>7, <1>8, <1>9 DEF Next

\* Every step leaves a frame at most one owner.
LEMMA HeldStep ==
  ASSUME TypeOK, EntryInv, LocInv, BootInv, HeldInv, UsedInv, [Next]_vars
  PROVE  HeldInv'
  <1>a. held \in [Frame -> Nat]
    BY DEF TypeOK
  <1>1. ASSUME \A f \in Frame : held[f] = 0, UNCHANGED held
        PROVE  HeldInv'
    BY <1>1 DEF HeldInv
  <1>2. CASE SizeStep \/ FirstFrame \/ RestFrames
    <2>1. pc \in SetUp /\ UNCHANGED held
      BY <1>2 DEF SizeStep, FirstFrame, RestFrames, SetUp
    <2>. QED  BY <1>1, <2>1 DEF HeldInv
  <1>3. CASE MarkStep \/ LocStep
    <2>1. pc \in SetUp /\ UNCHANGED held
      BY <1>3 DEF MarkStep, LocStep, SetUp
    <2>. QED  BY <1>1, <2>1 DEF HeldInv
  <1>4. ASSUME UNCHANGED <<held, boot, available>>, pc' \notin SetUp
        PROVE  HeldInv'
    BY <1>4 DEF HeldInv, Span
  <1>5. CASE Scan
    <2>1. UNCHANGED <<held, boot, available>> /\ pc' \notin SetUp
      BY <1>5 DEF Scan, bootVars, SetUp
    <2>. QED  BY <1>4, <2>1
  <1>6. CASE Walk
    <2>a. pc = "walk" /\ UNCHANGED <<boot, available>>
      BY <1>6 DEF Walk, bootVars
    <2>1. CASE z <= Len(available) /\ cur_frame_n <= available[z].len - 1
      <3>. DEFINE a == available[z].base + cur_frame_n
      <3>1. /\ z \in 1..Len(available) /\ a \in Span(available[z]) /\ a \in Frame
            /\ held[a] = 0 /\ a \notin boot
        BY <2>a, <2>1, WalkTake
      <3>2. held' = [held EXCEPT ![a] = @ + 1] /\ pc' = "ready"
        <4>1. /\ z \in Nat /\ Len(available) \in Nat
              /\ cur_frame_n \in Nat /\ available[z].len \in Nat
          BY <3>1, AvailFacts, SpanFacts DEF TypeOK
        <4>. QED  BY <1>6, <2>1, <4>1 DEF Walk
      <3>. HIDE DEF a
      <3>3. \A f \in Frame : held'[f] = IF f = a THEN 1 ELSE held[f]
        BY <1>a, <3>1, <3>2
      <3>4. \A f \in Frame : held'[f] <= 1
        BY <3>3 DEF HeldInv
      <3>5. \A f \in Frame : held'[f] > 0 => f \notin boot
        BY <3>1, <3>3 DEF HeldInv
      <3>6. \A f \in Frame : held'[f] > 0 => \E k \in 1..Len(available) : f \in Span(available[k])
        BY <3>1, <3>3 DEF HeldInv
      <3>. QED  BY <2>a, <3>2, <3>4, <3>5, <3>6 DEF HeldInv, SetUp, Span
    <2>2. CASE ~(z <= Len(available) /\ cur_frame_n <= available[z].len - 1)
      <3>1. UNCHANGED held /\ pc' \notin SetUp
        BY <1>6, <2>a, <2>2 DEF Walk, SetUp
      <3>. QED  BY <1>4, <2>a, <3>1
    <2>. QED  BY <2>1, <2>2
  <1>7. CASE FreeCall
    <2>1. PICK f \in Frame : held[f] > 0 /\ held' = [held EXCEPT ![f] = @ - 1]
      BY <1>7 DEF FreeCall
    <2>2. \A g \in Frame : held'[g] = IF g = f THEN held[f] - 1 ELSE held[g]
      BY <1>a, <2>1
    <2>3. \A g \in Frame : held'[g] <= held[g] /\ held'[g] \in Nat /\ held[g] \in Nat
      BY <1>a, <2>1, <2>2
    <2>4. UNCHANGED <<boot, available>> /\ pc' = "free"
      BY <1>7 DEF FreeCall, bootVars
    <2>. QED  BY <2>3, <2>4 DEF HeldInv, SetUp, Span
  <1>8. CASE FreeStep
    <2>1. UNCHANGED <<held, boot, available>> /\ pc' \notin SetUp
      BY <1>8 DEF FreeStep, bootVars, SetUp
    <2>. QED  BY <1>4, <2>1
  <1>9. CASE Halted \/ UNCHANGED vars
    BY <1>9 DEF Halted, vars, bootVars, HeldInv, Span
  <1>. QED  BY <1>2, <1>3, <1>5, <1>6, <1>7, <1>8, <1>9 DEF Next

\* Setting up: the marks of init_pmm are the numbers below i, then all.
LEMMA UsedSetUp ==
  ASSUME TypeOK, EntryInv, BootInv, HeldInv, UsedInv,
         SizeStep \/ FirstFrame \/ RestFrames \/ MarkStep \/ LocStep
  PROVE  UsedInv'
  <1>a. without \in Nat /\ i \in Nat
    BY DEF TypeOK
  <1>1. CASE SizeStep \/ FirstFrame
    <2>1. used' = {} /\ pc' \in {"size", "first", "rest", "panic"}
      BY <1>1 DEF SizeStep, FirstFrame, UsedInv
    <2>. QED  BY <2>1 DEF UsedInv, Live
  <1>2. CASE RestFrames
    <2>1. used' = {} /\ (pc' \in {"rest", "panic"} \/ (pc' = "mark" /\ i' = 0))
      BY <1>2 DEF RestFrames, UsedInv
    <2>2. pc' = "mark" => without' = without
      BY <1>2 DEF RestFrames, bootVars
    <2>. QED  BY <1>a, <2>1, <2>2 DEF UsedInv, Live
  <1>3. CASE MarkStep
    <2>1. used = 0..(i - 1) /\ i <= without /\ without' = without
      BY <1>3 DEF MarkStep, UsedInv, bootVars
    <2>2. CASE i < without
      <3>1. used' = flip_frame(i) /\ i' = i + 1 /\ pc' = "mark"
        BY <1>3, <1>a, <2>2 DEF MarkStep
      <3>2. i \notin used /\ 0..i = 0..(i - 1) \cup {i}
        BY <1>a, <2>1
      <3>3. used' = 0..(i' - 1) /\ i' <= without
        <4>1. used' = 0..i
          BY <2>1, <3>1, <3>2 DEF flip_frame
        <4>2. i' - 1 = i /\ i' <= without
          BY <1>a, <2>2, <3>1
        <4>. QED  BY <4>1, <4>2
      <3>. QED  BY <2>1, <3>1, <3>3 DEF UsedInv, Live
    <2>3. CASE i = without
      <3>1. used' = used /\ pc' = "loc"
        BY <1>3, <1>a, <2>3 DEF MarkStep
      <3>. QED  BY <2>1, <2>3, <3>1 DEF UsedInv, Live
    <2>. QED  BY <1>a, <2>1, <2>2, <2>3
  <1>4. CASE LocStep
    <2>1. /\ used' = 0..(without' - 1) /\ pc' \in {"loc", "ready"}
          /\ \A f \in Frame : held'[f] = 0
          /\ without' = without /\ available' = available
      BY <1>4 DEF LocStep, UsedInv, HeldInv, bootVars, SetUp
    <2>2. \A k \in 1..Len(available) : Span(available[k]) \subseteq Frame
      BY DEF EntryInv
    <2>3. \A k \in 1..Len(available') : \A f \in Span(available'[k]) : ~(held'[f] > 0)
      BY <2>1, <2>2
    <2>4. \A n \in used' : n < without'
      BY <1>a, <2>1
    <2>. QED  BY <2>1, <2>3, <2>4 DEF UsedInv, Live, Span
  <1>. QED  BY <1>1, <1>2, <1>3, <1>4

\* What UsedInv says while the allocator is in use, in named parts.
LEMMA LiveFacts ==
  ASSUME UsedInv, pc \in Live
  PROVE  /\ \A n \in 0..(without - 1) : n \in used
         /\ \A k \in 1..Len(available) : \A f \in Span(available[k]) :
               held[f] > 0 => Num(k, f) \in used
         /\ \A n \in used :
               \/ n < without
               \/ \E k \in 1..Len(available) : \E f \in Span(available[k]) :
                     (held[f] > 0 \/ (pc = "free" /\ f = addr)) /\ n = Num(k, f)
  BY DEF UsedInv

\* get_frame sets the bit of the frame it hands out and no other.
LEMMA UsedGet ==
  ASSUME TypeOK, EntryInv, LocInv, BootInv, HeldInv, UsedInv, Scan \/ Walk
  PROVE  UsedInv'
  <1>a. /\ pc \in Live /\ pc # "free" /\ Len(loc) = Len(available)
        /\ UNCHANGED <<boot, without, available, loc>>
    BY DEF Scan, Walk, Live, LocInv, bootVars
  <1>b. held \in [Frame -> Nat] /\ without \in Nat
    BY DEF TypeOK
  <1>c. ASSUME NEW k, NEW f PROVE Num(k, f)' = Num(k, f)
    BY <1>a DEF Num
  <1>d. \A k \in 1..Len(available) : Span(available[k]) \subseteq Frame
    BY DEF EntryInv
  <1>1. ASSUME UNCHANGED <<used, held>>, pc' \in {"walk", "panic"},
               pc' = "walk" => /\ CUR_FRAME_N' \notin used
                               /\ z' <= Len(available) => loc[z'] + cur_frame_n' = CUR_FRAME_N'
        PROVE  UsedInv'
    <2>1. /\ \A n \in 0..(without - 1) : n \in used
          /\ \A k \in 1..Len(available) : \A f \in Span(available[k]) :
                held[f] > 0 => Num(k, f) \in used
          /\ \A n \in used :
                \/ n < without
                \/ \E k \in 1..Len(available) : \E f \in Span(available[k]) :
                      held[f] > 0 /\ n = Num(k, f)
      BY <1>a, LiveFacts
    <2>. QED  BY <1>1, <1>a, <2>1 DEF UsedInv, Num, Span
  <1>2. CASE Scan
    <2>1. ASSUME Searched \subseteq used PROVE UsedInv'
      BY <1>1, <1>2, <2>1 DEF Scan
    <2>2. ASSUME NEW n \in Searched \ used, CUR_FRAME_N' = n, cur_frame_n' = n, z' = 1,
                 pc' = "walk"
          PROVE  UsedInv'
      <3>1. n \in Nat /\ Len(available) \in Nat
        BY AvailFacts DEF Searched
      <3>2. 1 <= Len(available) => loc[1] = 0
        BY <1>a, <3>1 DEF LocInv
      <3>3. z' <= Len(available) => loc[z'] + cur_frame_n' = CUR_FRAME_N'
        BY <2>2, <3>1, <3>2
      <3>4. UNCHANGED <<used, held>>
        BY <1>2 DEF Scan
      <3>. QED  BY <1>1, <2>2, <3>3, <3>4
    <2>. QED  BY <1>2, <2>1, <2>2 DEF Scan
  <1>3. CASE Walk
    <2>a. /\ pc = "walk" /\ z \in Nat /\ z > 0 /\ Len(available) \in Nat
          /\ cur_frame_n \in Nat /\ CUR_FRAME_N' = CUR_FRAME_N
          /\ z <= Len(available) =>
                available[z].len \in Nat /\ loc[z] \in Nat /\ z \in 1..Len(available)
      BY <1>3, <1>a, AvailFacts, SpanFacts DEF Walk, TypeOK, EntryInv
    <2>1. CASE z <= Len(available) /\ cur_frame_n <= available[z].len - 1
      <3>. DEFINE a == available[z].base + cur_frame_n
      <3>1. /\ z \in 1..Len(available) /\ a \in Span(available[z]) /\ a \in Frame
            /\ Num(z, a) = CUR_FRAME_N /\ CUR_FRAME_N \notin used
            /\ held[a] = 0
            /\ flip_frame(CUR_FRAME_N) \ BitsIn(a) = used \cup {CUR_FRAME_N}
        BY <2>a, <2>1, WalkTake
      <3>2. /\ held' = [held EXCEPT ![a] = @ + 1] /\ pc' = "ready"
            /\ used' = flip_frame(CUR_FRAME_N) \ BitsIn(a)
        BY <1>3, <2>a, <2>1 DEF Walk
      <3>. HIDE DEF a
      <3>3. \A f \in Frame : held'[f] = IF f = a THEN 1 ELSE held[f]
        BY <1>b, <3>1, <3>2
      <3>4. used' = used \cup {CUR_FRAME_N}
        BY <3>1, <3>2
      <3>5. \A n \in 0..(without - 1) : n \in used'
        BY <1>a, <3>4, LiveFacts
      <3>6. ASSUME NEW k \in 1..Len(available), NEW f \in Span(available[k]), held'[f] > 0
            PROVE  Num(k, f) \in used'
        <4>1. CASE f = a
          <5>1. k = z
            BY <3>1, <4>1 DEF EntryInv
          <5>. QED  BY <3>1, <3>4, <4>1, <5>1
        <4>2. CASE f # a
          <5>1. f \in Frame
            BY <1>d
          <5>2. held[f] > 0
            BY <3>3, <3>6, <4>2, <5>1
          <5>. QED  BY <1>a, <3>4, <5>2, LiveFacts
        <4>. QED  BY <4>1, <4>2
      <3>7. ASSUME NEW n \in used', ~(n < without)
            PROVE  \E k \in 1..Len(available) : \E f \in Span(available[k]) :
                      held'[f] > 0 /\ n = Num(k, f)
        <4>1. CASE n = CUR_FRAME_N
          BY <3>1, <3>3, <4>1
        <4>2. CASE n \in used
          <5>. PICK k \in 1..Len(available) :
                  \E f \in Span(available[k]) : held[f] > 0 /\ n = Num(k, f)
            BY <1>a, <3>7, <4>2, LiveFacts
          <5>1. PICK f \in Span(available[k]) : held[f] > 0 /\ n = Num(k, f)
            OBVIOUS
          <5>2. held'[f] > 0
            BY <1>d, <3>3, <5>1
          <5>. QED  BY <5>1, <5>2
        <4>. QED  BY <3>4, <4>1, <4>2
      <3>. QED  BY <1>a, <3>2, <3>5, <3>6, <3>7 DEF UsedInv, Num, Span
    <2>2. CASE z <= Len(available) /\ ~(cur_frame_n <= available[z].len - 1)
      <3>1. /\ cur_frame_n' = cur_frame_n - available[z].len /\ z' = z + 1 /\ pc' = "walk"
            /\ UNCHANGED <<used, held>>
        BY <1>3, <2>a, <2>2 DEF Walk
      <3>2. loc[z] + cur_frame_n = CUR_FRAME_N /\ CUR_FRAME_N \notin used
        BY <2>a, <2>2 DEF UsedInv
      <3>3. z' <= Len(available) => loc[z'] = loc[z] + available[z].len
        BY <1>a, <2>a, <2>2, <3>1 DEF LocInv
      <3>4. z' <= Len(available) => loc[z'] + cur_frame_n' = CUR_FRAME_N'
        BY <2>a, <2>2, <3>1, <3>2, <3>3, SMTT(60)
      <3>. QED  BY <1>1, <2>a, <3>1, <3>2, <3>4
    <2>3. CASE z > Len(available)
      BY <1>1, <1>3, <2>a, <2>3 DEF Walk
    <2>. QED  BY <2>a, <2>1, <2>2, <2>3
  <1>. QED  BY <1>2, <1>3

\* free_frame clears the bit of the frame it is given and no other.
LEMMA UsedFree ==
  ASSUME TypeOK, EntryInv, LocInv, BootInv, HeldInv, UsedInv, FreeCall \/ FreeStep
  PROVE  UsedInv'
  <1>a. /\ pc \in Live /\ Len(loc) = Len(available)
        /\ UNCHANGED <<boot, without, available, loc>>
    BY DEF FreeCall, FreeStep, Live, LocInv, bootVars
  <1>b. held \in [Frame -> Nat] /\ without \in Nat /\ z \in Nat /\ Len(available) \in Nat
    BY AvailFacts DEF TypeOK
  <1>c. \A k \in 1..Len(available) : Span(available[k]) \subseteq Frame
    BY DEF EntryInv
  <1>1. CASE FreeCall
    <2>1. /\ pc = "ready" /\ pc' = "free" /\ z' = 1 /\ used' = used
          /\ addr' \in Frame /\ held[addr'] > 0
          /\ held' = [held EXCEPT ![addr'] = @ - 1]
      BY <1>1 DEF FreeCall
    <2>2. held[addr'] = 1
      BY <1>b, <2>1 DEF HeldInv
    <2>3. \A f \in Frame : held'[f] = IF f = addr' THEN 0 ELSE held[f]
      BY <1>b, <2>1, <2>2
    <2>4. \A n \in 0..(without - 1) : n \in used'
      BY <1>a, <2>1, LiveFacts
    <2>5. ASSUME NEW k \in 1..Len(available), NEW f \in Span(available[k]), held'[f] > 0
          PROVE  Num(k, f) \in used'
      <3>1. f \in Frame /\ held[f] > 0
        BY <1>c, <2>3, <2>5
      <3>. QED  BY <1>a, <2>1, <3>1, LiveFacts
    <2>6. ASSUME NEW n \in used', ~(n < without)
          PROVE  \E k \in 1..Len(available) : \E f \in Span(available[k]) :
                    (held'[f] > 0 \/ f = addr') /\ n = Num(k, f)
      <3>. PICK k \in 1..Len(available) :
              \E f \in Span(available[k]) : held[f] > 0 /\ n = Num(k, f)
        BY <1>a, <2>1, <2>6, LiveFacts
      <3>1. PICK f \in Span(available[k]) : held[f] > 0 /\ n = Num(k, f)
        OBVIOUS
      <3>2. held'[f] > 0 \/ f = addr'
        BY <1>c, <2>3, <3>1
      <3>. QED  BY <3>1, <3>2
    <2>7. addr' \notin boot /\ held'[addr'] = 0
      BY <2>1, <2>3 DEF HeldInv
    <2>8. ASSUME NEW k \in 1..Len(available), addr' \in Span(available[k])
          PROVE  z' <= k /\ Num(k, addr') \in used'
      BY <1>a, <2>1, <2>8, LiveFacts
    <2>. QED  BY <1>a, <2>1, <2>4, <2>5, <2>6, <2>7, <2>8 DEF UsedInv, Num, Span
  <1>2. CASE FreeStep
    <2>a. /\ pc = "free" /\ UNCHANGED <<held, addr>>
          /\ addr \in Frame /\ addr \notin boot /\ held[addr] = 0
          /\ \A k \in 1..Len(available) :
                addr \in Span(available[k]) => (z <= k <=> Num(k, addr) \in used)
          /\ z # 0
      BY <1>2 DEF FreeStep, UsedInv, EntryInv
    <2>1. CASE z > Len(loc)
      <3>1. used' = used /\ pc' = "ready"
        BY <1>2, <1>a, <1>b, <2>1 DEF FreeStep
      <3>2. ASSUME NEW n \in used, ~(n < without)
            PROVE  \E k \in 1..Len(available) : \E f \in Span(available[k]) :
                      held[f] > 0 /\ n = Num(k, f)
        <4>. PICK k \in 1..Len(available) :
                \E f \in Span(available[k]) : (held[f] > 0 \/ f = addr) /\ n = Num(k, f)
          BY <1>a, <3>2, LiveFacts
        <4>1. PICK f \in Span(available[k]) : (held[f] > 0 \/ f = addr) /\ n = Num(k, f)
          OBVIOUS
        <4>2. f # addr
          BY <1>a, <1>b, <2>a, <2>1, <4>1
        <4>. QED  BY <4>1, <4>2
      <3>. QED  BY <1>a, <2>a, <3>1, <3>2, LiveFacts DEF UsedInv, Num, Span
    <2>2. CASE z <= Len(loc) /\ addr \notin Span(available[z])
      <3>1. used' = used /\ pc' = "free" /\ z' = z + 1
        BY <1>2, <1>a, <1>b, <2>a, <2>2 DEF FreeStep
      <3>2. ASSUME NEW k \in 1..Len(available), addr \in Span(available[k])
            PROVE  z' <= k <=> Num(k, addr) \in used'
        <4>1. k # z
          BY <2>2, <3>2
        <4>. QED  BY <1>b, <2>a, <3>1, <3>2, <4>1
      <3>. QED  BY <1>a, <2>a, <3>1, <3>2, LiveFacts DEF UsedInv, Num, Span
    <2>3. CASE z <= Len(loc) /\ addr \in Span(available[z])
      <3>. DEFINE m == Num(z, addr)
      <3>1. z \in 1..Len(available)
        BY <1>a, <1>b, <2>a, <2>3
      <3>2. m \in used /\ m \in Nat /\ ~(m < without)
        BY <1>a, <1>b, <2>a, <2>3, <3>1, NumType, BootNum
      <3>3. used' = flip_frame(m) /\ pc' = "free" /\ z' = z + 1
        BY <1>2, <1>a, <1>b, <2>a, <2>3 DEF FreeStep, Num
      <3>4. used' = used \ {m}
        BY <3>2, <3>3 DEF flip_frame
      <3>5. ASSUME NEW k \in 1..Len(available), NEW f \in Span(available[k]), Num(k, f) = m
            PROVE  k = z /\ f = addr
        BY <1>a, <2>3, <3>1, <3>5, NumInjective
      <3>. HIDE DEF m
      <3>6. \A n \in 0..(without - 1) : n \in used'
        BY <1>a, <1>b, <3>2, <3>4, LiveFacts
      <3>7. ASSUME NEW k \in 1..Len(available), NEW f \in Span(available[k]), held[f] > 0
            PROVE  Num(k, f) \in used'
        <4>1. f # addr
          BY <2>a, <3>7
        <4>. QED  BY <1>a, <3>4, <3>5, <3>7, <4>1, LiveFacts
      <3>8. ASSUME NEW n \in used', ~(n < without)
            PROVE  \E k \in 1..Len(available) : \E f \in Span(available[k]) :
                      (held[f] > 0 \/ f = addr) /\ n = Num(k, f)
        BY <1>a, <3>4, <3>8, LiveFacts
      <3>9. ASSUME NEW k \in 1..Len(available), addr \in Span(available[k])
            PROVE  z' <= k <=> Num(k, addr) \in used'
        <4>1. k = z
          BY <2>3, <3>1, <3>9 DEF EntryInv
        <4>. QED  BY <1>b, <3>3, <3>4, <4>1 DEF m
      <3>. QED  BY <1>a, <2>a, <3>3, <3>6, <3>7, <3>8, <3>9 DEF UsedInv, Num, Span
    <2>. QED  BY <1>a, <1>b, <2>1, <2>2, <2>3
  <1>. QED  BY <1>1, <1>2

-----------------------------------------------------------------------------
(* The theorems.                                                           *)

\* PInv holds at boot.
LEMMA InitPInv == Init => PInv
  <1>. SUFFICES ASSUME Init PROVE PInv
    OBVIOUS
  <1>1. Len(available) = 0 /\ Len(loc) = 0
    BY DEF Init
  <1>2. TypeOK
    BY <1>1 DEF Init, TypeOK
  <1>3. EntryInv
    <2>1. Len(memmap) \in Nat
      BY MapFacts DEF Init
    <2>. QED  BY <1>1, <2>1 DEF Init, EntryInv
  <1>4. LocInv
    BY <1>1 DEF Init, LocInv, SetUp, Live
  <1>5. BootInv
    BY <1>1 DEF Init, BootInv, Live
  <1>6. HeldInv /\ UsedInv
    BY DEF Init, HeldInv, UsedInv, SetUp, Live
  <1>7. SumInv
    <2>1. PICK S : S = [k \in 0..0 |-> 0]
      OBVIOUS
    <2>2. Totals(S) /\ CountsBy(S)
      BY <1>1, <2>1 DEF Init, Totals, CountsBy
    <2>. QED  BY <2>2 DEF Init, SumInv, PanicOnlyWhenFull
  <1>. QED  BY <1>2, <1>3, <1>4, <1>5, <1>6, <1>7 DEF PInv

\* PInv is inductive.
LEMMA NextPInv == PInv /\ [Next]_vars => PInv'
  <1>. SUFFICES ASSUME PInv, [Next]_vars PROVE PInv'
    OBVIOUS
  <1>1. TypeOK /\ EntryInv /\ LocInv /\ TypeOK' /\ EntryInv' /\ LocInv' /\ SumInv'
    BY TypeStep, EntryStep, LocInvStep, SumStep DEF PInv
  <1>2. ASSUME InFirstEntry' PROVE BootInv' /\ HeldInv' /\ UsedInv'
    <2>1. BootInv /\ HeldInv /\ UsedInv
      BY <1>1, <1>2, FirstKept DEF PInv
    <2>2. UsedInv'
      <3>1. CASE SizeStep \/ FirstFrame \/ RestFrames \/ MarkStep \/ LocStep
        BY <1>1, <2>1, <3>1, UsedSetUp
      <3>2. CASE Scan \/ Walk
        BY <1>1, <2>1, <3>2, UsedGet
      <3>3. CASE FreeCall \/ FreeStep
        BY <1>1, <2>1, <3>3, UsedFree
      <3>4. CASE Halted \/ UNCHANGED vars
        BY <2>1, <3>4 DEF Halted, vars, bootVars, callVars, UsedInv, Num, Span
      <3>. QED  BY <3>1, <3>2, <3>3, <3>4 DEF Next
    <2>. QED  BY <1>1, <1>2, <2>1, <2>2, BootStep, HeldStep
  <1>. QED  BY <1>1, <1>2 DEF PInv

\* PInv is an invariant of the memory manager.
THEOREM PmmInvariance == Spec => []PInv
  BY InitPInv, NextPInv, PTL DEF Spec

\* Every variable of pmm.c keeps its type: cur_frame_n, which get_frame lowers
\* entry by entry, never becomes negative.
THEOREM PmmTypeCorrect == Spec => []TypeOK
  <1>1. PInv => TypeOK
    BY DEF PInv
  <1>. QED  BY PmmInvariance, <1>1, PTL

\* No frame has two owners while the first usable entry holds every frame that
\* was taken before the bitmap.
THEOREM FramesExclusive == Spec => []Exclusive
  <1>1. PInv => Exclusive
    BY DEF PInv, HeldInv, TypeOK, Exclusive, Claims
  <1>. QED  BY PmmInvariance, <1>1, PTL

\* With the bitmap, get_frame panics only when no bit that it looks at is clear:
\* the entries never end before the frame of a clear bit is found, whatever the
\* lengths of the entries are.
THEOREM PanicsWhenFull == Spec => []PanicOnlyWhenFull
  <1>1. PInv => PanicOnlyWhenFull
    BY DEF PInv, SumInv
  <1>. QED  BY PmmInvariance, <1>1, PTL

\* Between calls a bit is set exactly when the frame of that number is taken.
THEOREM BitmapIsExact == Spec => []BitmapExact
  <1>1. PInv => BitmapExact
    <2>1. SUFFICES ASSUME PInv, pc = "ready", InFirstEntry
                   PROVE  used = 0..(without - 1) \cup
                             UNION {{loc[k] + (f - available[k].base) :
                                        f \in {g \in Span(available[k]) : held[g] > 0}}
                                    : k \in DOMAIN available}
      BY DEF BitmapExact
    <2>2. /\ TypeOK /\ UsedInv /\ pc \in Live /\ DOMAIN available = 1..Len(available)
          /\ used \subseteq Nat /\ without \in Nat
      BY <2>1, AvailFacts DEF PInv, Live, TypeOK
    <2>3. /\ \A n \in 0..(without - 1) : n \in used
          /\ \A k \in DOMAIN available : \A f \in Span(available[k]) :
                held[f] > 0 => loc[k] + (f - available[k].base) \in used
          /\ \A n \in used :
                \/ n < without
                \/ \E k \in DOMAIN available : \E f \in Span(available[k]) :
                      held[f] > 0 /\ n = loc[k] + (f - available[k].base)
      BY <2>1, <2>2, LiveFacts DEF Num
    <2>4. \A n \in used : n < without => n \in 0..(without - 1)
      BY <2>2
    <2>. QED  BY <2>3, <2>4
  <1>. QED  BY PmmInvariance, <1>1, PTL

\* A step of pmm.c is a step of the abstract allocator, or changes no claim.
LEMMA StepRefines ==
  ASSUME PInv, PInv', InFirstEntry, InFirstEntry', [Next]_vars
  PROVE  FA!Next \/ UNCHANGED [f \in Frame |-> Claims(f)]
  <1>a. /\ TypeOK /\ EntryInv /\ LocInv /\ BootInv /\ HeldInv /\ UsedInv /\ HeldInv'
        /\ held \in [Frame -> Nat] /\ DOMAIN available = 1..Len(available)
    BY AvailFacts DEF PInv, TypeOK
  <1>. DEFINE cl == [f \in Frame |-> Claims(f)]
              cl2 == [f \in Frame |-> held'[f] + (IF f \in boot' THEN 1 ELSE 0)]
  <1>b. cl' = cl2
    BY DEF Claims
  <1>1. ASSUME UNCHANGED <<held, boot>> PROVE cl' = cl
    BY <1>1 DEF Claims
  <1>2. ASSUME NEW a \in Frame, Claims(a) = 0, cl2 = [cl EXCEPT ![a] = 1]
        PROVE  FA!Next
    BY <1>2, <1>b DEF FA!Next, FA!Grant
  <1>3. ASSUME NEW a \in Frame, Claims(a) = 1, cl2 = [cl EXCEPT ![a] = 0]
        PROVE  FA!Next
    BY <1>3, <1>b DEF FA!Next, FA!Return
  <1>4. ASSUME NEW j \in DOMAIN available, BootTake(j), UNCHANGED held,
               \A f \in Frame : held[f] = 0
        PROVE  FA!Next
    <2>. DEFINE a == available[1].base + without
    <2>1. boot' = boot \cup {a} /\ a \in Frame /\ a \notin boot
      BY <1>a, <1>4, BootNext
    <2>. HIDE DEF a
    <2>2. Claims(a) = 0
      BY <1>4, <2>1 DEF Claims
    <2>3. \A f \in Frame : held'[f] + (IF f \in boot' THEN 1 ELSE 0)
                             = IF f = a THEN 1 ELSE Claims(f)
      BY <1>4, <2>1 DEF Claims
    <2>4. cl2 = [cl EXCEPT ![a] = 1]
      BY <2>3
    <2>. QED  BY <1>2, <2>1, <2>2, <2>4
  <1>5. CASE FirstFrame \/ RestFrames
    <2>1. UNCHANGED held /\ \A f \in Frame : held[f] = 0
      BY <1>5, <1>a DEF FirstFrame, RestFrames, HeldInv, SetUp
    <2>2. CASE \E j \in DOMAIN available : BootTake(j)
      BY <1>4, <2>1, <2>2
    <2>3. CASE ~ \E j \in DOMAIN available : BootTake(j)
      <3>1. UNCHANGED boot
        BY <1>5, <2>3 DEF FirstFrame, RestFrames, bootVars
      <3>. QED  BY <1>1, <2>1, <3>1
    <2>. QED  BY <2>2, <2>3
  <1>6. CASE Walk
    <2>a. pc = "walk" /\ UNCHANGED boot
      BY <1>6 DEF Walk, bootVars
    <2>1. CASE z <= Len(available) /\ cur_frame_n <= available[z].len - 1
      <3>. DEFINE a == available[z].base + cur_frame_n
      <3>1. a \in Frame /\ held[a] = 0 /\ a \notin boot /\ z \in 1..Len(available)
        BY <1>a, <2>a, <2>1, WalkTake
      <3>2. held' = [held EXCEPT ![a] = @ + 1]
        <4>1. /\ z \in Nat /\ Len(available) \in Nat
              /\ cur_frame_n \in Nat /\ available[z].len \in Nat
          BY <1>a, <3>1, AvailFacts, SpanFacts DEF TypeOK
        <4>. QED  BY <1>6, <2>1, <4>1 DEF Walk
      <3>. HIDE DEF a
      <3>3. Claims(a) = 0
        BY <3>1 DEF Claims
      <3>4. \A f \in Frame : held'[f] + (IF f \in boot' THEN 1 ELSE 0)
                               = IF f = a THEN 1 ELSE Claims(f)
        BY <1>a, <2>a, <3>1, <3>2 DEF Claims
      <3>5. cl2 = [cl EXCEPT ![a] = 1]
        BY <3>4
      <3>. QED  BY <1>2, <3>1, <3>3, <3>5
    <2>2. CASE ~(z <= Len(available) /\ cur_frame_n <= available[z].len - 1)
      <3>1. UNCHANGED held
        BY <1>6, <2>2 DEF Walk
      <3>. QED  BY <1>1, <2>a, <3>1
    <2>. QED  BY <2>1, <2>2
  <1>7. CASE FreeCall
    <2>1. PICK f \in Frame : held[f] > 0 /\ held' = [held EXCEPT ![f] = @ - 1]
      BY <1>7 DEF FreeCall
    <2>2. held[f] = 1 /\ f \notin boot /\ UNCHANGED boot
      BY <1>a, <1>7, <2>1 DEF HeldInv, FreeCall, bootVars
    <2>3. Claims(f) = 1
      BY <2>2 DEF Claims
    <2>4. \A g \in Frame : held'[g] + (IF g \in boot' THEN 1 ELSE 0)
                             = IF g = f THEN 0 ELSE Claims(g)
      BY <1>a, <2>1, <2>2 DEF Claims
    <2>5. cl2 = [cl EXCEPT ![f] = 0]
      BY <2>4
    <2>. QED  BY <1>3, <2>3, <2>5
  <1>8. CASE SizeStep \/ MarkStep \/ LocStep
    BY <1>1, <1>8 DEF SizeStep, MarkStep, LocStep, bootVars
  <1>9. CASE Scan \/ FreeStep
    BY <1>1, <1>9 DEF Scan, FreeStep, bootVars
  <1>10. CASE Halted \/ UNCHANGED vars
    BY <1>1, <1>10 DEF Halted, vars, bootVars
  <1>. QED  BY <1>5, <1>6, <1>7, <1>8, <1>9, <1>10 DEF Next

\* get_frame and free_frame implement the allocator that gives a frame to one
\* owner at a time, on every machine whose first usable entry holds the frames
\* taken before the bitmap.
THEOREM PmmRefines == Spec /\ []InFirstEntry => Implements
  <1>1. Init => FA!Init
    BY DEF Init, FA!Init, Claims
  <1>2. PInv /\ PInv' /\ InFirstEntry /\ InFirstEntry' /\ [Next]_vars
           => [FA!Next]_([f \in Frame |-> Claims(f)])
    BY StepRefines
  <1>. QED  BY PmmInvariance, <1>1, <1>2, PTL DEF Spec, Implements, FA!Spec
=============================================================================
