----------------------------- MODULE VmmProofs -----------------------------
(***************************************************************************)
(* Proofs, for every size of the tables, every number of frames and every  *)
(* script, of what module Vmm promises of the tree of tables, of the ranges *)
(* that its calls map and free, and of the addresses that its searches find. *)
(***************************************************************************)
EXTENDS Vmm, Counting

-----------------------------------------------------------------------------
(* The inductive invariant.                                                *)

IsSequence(s) == s \in Seq({s[k] : k \in 1 .. Len(s)})

\* The calls still to make, and the variables of the current one.
CallInv ==
    /\ IsSequence(todo)
    /\ \A k \in 1 .. Len(todo) :
        todo[k].addr \in 0 .. Word - 1 /\ todo[k].size \in 0 .. Word - 1
    /\ pc \in Loops => todo # <<>>
    /\ DOMAIN w = {"page", "off", "size", "flags", "temp", "addr"}
    /\ w.page \in Int /\ w.off \in Int /\ w.size \in Int /\ w.addr \in Int

\* An entry is named by its level and its number in it.
NodesInv ==
    \A n \in DOMAIN pt : n[1] \in 1 .. 4 /\ n[2] \in Int /\ n = <<n[1], n[2]>>

TreeInv == CallInv /\ NodesInv /\ TreeOK

\* A core is inside kmmap only while it walks there.
LockInv ==
    /\ lock \subseteq {"kmmap", "space_alloc"}
    /\ "kmmap" \in lock => pc \in {"kmmap", "kernel_half", "panic"}

\* kmmap has mapped the pages from its first one to the one before the current
\* one, and the bytes still to map end where the range ends.
MappedInv ==
    /\ pc \in {"empty", "size", "physical"} => Cur.op \in {"map_physical", "kmmap_physical"}
    /\ pc = "available" => pt = pre /\ Cur.op = "space_alloc"
    /\ pc = "kmmap" =>
        /\ \/ Cur.op = "kmmap" /\ w.addr = Cur.addr
           \/ Cur.op = "space_alloc" /\ w.addr # 0
        /\ w.page * PageSize + w.off + w.size = Low(w.addr) + Cur.size
        /\ \/ w.page = PageOf(w.addr) /\ w.off = w.addr % PageSize
           \/ w.page > PageOf(w.addr) /\ w.off = 0 /\ w.size > 0
        /\ Adds(PageOf(w.addr) .. w.page - 1)

\* kmunmap has freed the whole pages before the current one, and the bytes still
\* to free end where the range ends.
UnmappedInv ==
    pc = "unmap" =>
        /\ Cur.op = "kmunmap" /\ w.addr = Cur.addr
        /\ Cur.size >= (-Cur.addr) % PageSize =>
            /\ w.size >= PageSize
            /\ IF w.off = 0
               THEN /\ w.page * PageSize + w.size = Low(Cur.addr) + Cur.size
                    /\ Low(Cur.addr) <= w.page * PageSize
               ELSE /\ (w.page + 1) * PageSize + w.size = Low(Cur.addr) + Cur.size
                    /\ w.page = PageOf(Cur.addr) /\ w.off = Cur.addr % PageSize
            /\ Leaves(pt) =
                 Leaves(pre) \ {p \in 0 .. w.page - 1 : Low(Cur.addr) <= p * PageSize}

\* Limine's entry stays, and no page of the kernel half is mapped.
KernelInv ==
    /\ <<4, Kernel>> \in DOMAIN pt
    /\ \A n \in DOMAIN pt : n[1] = 1 => n[2] < Kernel * Reach(4)

\* None of these pages was in use when the call began; a walk that comes to the
\* kernel half does not return.
WereFree(S) == \A p \in S : p < Kernel * Reach(4) => p \notin Leaves(pre)

\* A page is the first one of each entry that is missing on the way to it.
Aligned(p) == \A k \in Absent(p) : p % Reach(k) = 0

Fits == Cur.size \in 1 .. (N - 1) * PageSize

\* search_available stays in the first table, and the pages it has counted lie
\* before the current one; those counted before the index wrapped have no number.
SoughtInv ==
    /\ pc = "available" /\ Fits =>
        /\ w.page \in 0 .. N - 1 /\ w.temp <= PageNum
        /\ w.page = 1 \/ <<2, 0>> \in DOMAIN pt
        /\ \A p \in w.page - (PageNum - w.temp) .. w.page - 1 : 0 <= p => p \notin Leaves(pre)
    /\ pc = "kmmap" /\ Cur.op = "space_alloc" /\ Fits =>
        WereFree(PagesOf(Low(w.addr), Cur.size))

\* get_size has added up the pages from the address to the current one.  Where its
\* index has wrapped it stands on a page in use, and the search goes on behind the
\* table; a range that comes to the kernel half stays there.
SizeInv ==
    LET a == PageOf(w.addr)
        b == a + w.size \div PageSize
    IN  /\ w.addr = a * PageSize /\ w.size = (w.size \div PageSize) * PageSize
        /\ Devices <= a /\ WereFree(a .. b - 1)
        /\ \/ b <= Kernel * Reach(4) /\ Aligned(b) /\ (w.page = b \/ Absent(w.page) = {})
           \/ b >= Kernel * Reach(4) /\ w.page >= Kernel * Reach(4)

\* kmmap_physical behind a search: its range was free, and the pages before the current
\* one are mapped.
PlacedInv ==
    /\ w.page * PageSize + w.off + w.size = Low(w.addr) + Cur.size
    /\ \/ w.page = PageOf(w.addr) /\ w.off = w.addr % PageSize
       \/ w.page > PageOf(w.addr) /\ w.off = 0 /\ w.size > 0
    /\ Adds(PageOf(w.addr) .. w.page - 1)
    /\ WereFree(PagesOf(Low(w.addr), Cur.size))

DeviceInv ==
    /\ pc \in {"empty", "size"} => Cur.op = "map_physical" /\ pt = pre
    /\ pc = "empty" /\ Packed(pre) => Devices <= w.page /\ Aligned(w.page)
    /\ pc = "size" /\ Packed(pre) => SizeInv
    /\ pc = "physical" /\ Cur.op = "map_physical" /\ Packed(pre) => PlacedInv

SearchInv == KernelInv /\ SoughtInv /\ DeviceInv /\ SearchesFree

IInv ==
    /\ TreeInv /\ TypeOK /\ IsSequence(res) /\ LockInv
    /\ MappedInv /\ UnmappedInv
    /\ KmmapMaps /\ AllocMaps /\ UnmapsRange
-----------------------------------------------------------------------------
(* Numbers, entries and sequences.                                         *)

\* The constants of the address space are whole numbers.
LEMMA Constants ==
  /\ N \in Nat \ {0, 1, 2, 3} /\ PageSize \in Nat \ {0, 1}
  /\ Reach(1) = 1 /\ Reach(2) = N /\ Reach(3) = N * N /\ Reach(4) = N * N * N
  /\ \A k \in 1 .. 4 : Reach(k) \in Nat \ {0}
  /\ Pages \in Nat \ {0} /\ Word \in Nat \ {0} /\ Kernel \in Nat
  /\ StackPage \in Nat
  <1>1. N \in Nat \ {0, 1, 2, 3} /\ PageSize \in Nat \ {0, 1} /\ StackPage \in Nat
    BY VmmAssumption
  <1>2. Reach(1) = 1 /\ Reach(2) = N /\ Reach(3) = N * N /\ Reach(4) = N * N * N
    BY DEF Reach
  <1>3. \A a, b \in Nat \ {0} : a * b \in Nat \ {0}
    OBVIOUS
  <1>4. N * N \in Nat \ {0}
    BY <1>1, <1>3
  <1>5. N * N * N \in Nat \ {0}
    BY <1>1, <1>3, <1>4
  <1>6. Pages \in Nat \ {0}
    BY <1>1, <1>2, <1>3, <1>5 DEF Pages
  <1>7. Word \in Nat \ {0}
    <2>1. 2 * PageSize \in Nat \ {0}
      BY <1>1
    <2>. QED  BY <2>1, <1>6, <1>3 DEF Word
  <1>. QED
    BY <1>1, <1>2, <1>4, <1>5, <1>6, <1>7 DEF Kernel

\* Pages and their first bytes are in the same order.
LEMMA PageOrder ==
  /\ \A x, y \in Int : x <= y <=> x * PageSize <= y * PageSize
  /\ \A x, y \in Int : x < y <=> x * PageSize < y * PageSize
  /\ \A x, y \in Int : (x + y) * PageSize = x * PageSize + y * PageSize
  /\ \A x \in Int : x * PageSize \in Int
  <1>1. \A m \in Nat \ {0} : \A x, y \in Int : x < y => x * m < y * m
    OBVIOUS
  <1>2. \A m \in Nat \ {0} : \A x, y \in Int : x <= y => x * m <= y * m
    OBVIOUS
  <1>3. \A m \in Nat \ {0} : \A x, y \in Int :
          (x + y) * m = x * m + y * m /\ x * m \in Int /\ y * m \in Int
    OBVIOUS
  <1>4. PageSize \in Nat \ {0}
    BY VmmAssumption
  <1>5. \A x, y \in Int : x <= y => x * PageSize <= y * PageSize
    BY <1>2, <1>4
  <1>6. \A x, y \in Int : x < y => x * PageSize < y * PageSize
    BY <1>1, <1>4
  <1>7. \A x, y \in Int :
          (x + y) * PageSize = x * PageSize + y * PageSize /\ x * PageSize \in Int
          /\ y * PageSize \in Int
    BY <1>3, <1>4
  <1>8. \A x, y \in Int : x * PageSize <= y * PageSize => x <= y
    <2>. SUFFICES ASSUME NEW x \in Int, NEW y \in Int, x * PageSize <= y * PageSize
                  PROVE  x <= y
      OBVIOUS
    <2>1. y < x => y * PageSize < x * PageSize
      BY <1>6
    <2>. QED  BY <2>1, <1>7
  <1>9. \A x, y \in Int : x * PageSize < y * PageSize => x < y
    <2>. SUFFICES ASSUME NEW x \in Int, NEW y \in Int, x * PageSize < y * PageSize
                  PROVE  x < y
      OBVIOUS
    <2>1. y <= x => y * PageSize <= x * PageSize
      BY <1>5
    <2>. QED  BY <2>1, <1>7
  <1>. QED  BY <1>5, <1>6, <1>7, <1>8, <1>9

\* The kernel half begins behind the first page and before the last one.
LEMMA KernelHalf ==
  /\ Kernel * Reach(4) \in Nat \ {0} /\ Kernel * Reach(4) < Pages
  /\ Devices \in 0 .. Pages - 1 /\ FirstPage \in 0 .. Pages - 1
  <1>1. N \in Nat \ {0, 1, 2, 3} /\ Reach(4) \in Nat \ {0} /\ Kernel = N - 1
    BY Constants DEF Kernel
  <1>2. \A r \in Nat \ {0} : (N - 1) * r \in Nat \ {0} /\ (N - 1) * r < N * r /\ 3 * r < N * r
    <2>. SUFFICES ASSUME NEW r \in Nat \ {0}
                  PROVE  (N - 1) * r \in Nat \ {0} /\ (N - 1) * r < N * r /\ 3 * r < N * r
      OBVIOUS
    <2>1. \A x, y \in Nat : x < y => x * r < y * r /\ x * r \in Nat /\ y * r \in Nat
      OBVIOUS
    <2>2. 0 * r = 0
      OBVIOUS
    <2>. QED  BY <1>1, <2>1, <2>2
  <1>3. Kernel * Reach(4) \in Nat \ {0} /\ Kernel * Reach(4) < Pages /\ 3 * Reach(4) < Pages
    BY <1>1, <1>2 DEF Pages
  <1>. QED  BY <1>1, <1>3, Constants DEF Devices, FirstPage

\* The first byte of a page is a word.
LEMMA PageWord ==
  ASSUME NEW p \in 0 .. Pages - 1
  PROVE  p * PageSize \in 0 .. Word - 1
  <1>1. Pages \in Nat \ {0} /\ PageSize \in Nat \ {0} /\ p \in Int /\ 0 <= p /\ p < Pages
    BY Constants
  <1>2. 0 * PageSize <= p * PageSize /\ p * PageSize < Pages * PageSize /\ p * PageSize \in Int
    BY <1>1, PageOrder
  <1>3. Word = Pages * PageSize + Pages * PageSize /\ Pages * PageSize \in Nat /\ 0 * PageSize = 0
    BY <1>1 DEF Word
  <1>. QED  BY <1>2, <1>3

\* The table of a table, read in two steps.
LEMMA DivDiv ==
  ASSUME NEW p \in Int, NEW a \in Nat \ {0}, NEW b \in Nat \ {0}
  PROVE  (p \div a) \div b = p \div (a * b)
  <1>. DEFINE q == p \div a
  <1>. DEFINE r == q \div b
  <1>1. q \in Int /\ a * q <= p /\ p < a * q + a
    OBVIOUS
  <1>2. r \in Int /\ b * r <= q /\ q < b * r + b
    <2>1. q \in Int
      BY <1>1
    <2>. HIDE DEF q
    <2>. QED  BY <2>1
  <1>. HIDE DEF q, r
  <1>3. a * (b * r) <= a * q /\ a * (q + 1) <= a * (b * r + b)
    <2>1. \A x, y \in Int : x <= y => a * x <= a * y
      OBVIOUS
    <2>2. q + 1 <= b * r + b /\ q + 1 \in Int /\ b * r \in Int /\ b * r + b \in Int
      BY <1>1, <1>2
    <2>. QED  BY <2>1, <2>2, <1>1, <1>2
  <1>4. a * b \in Nat \ {0} /\ a * (b * r) = (a * b) * r /\ a * (b * r + b) = (a * b) * r + a * b
        /\ a * (q + 1) = a * q + a /\ (a * b) * r \in Int /\ a * q \in Int
    BY <1>1, <1>2
  <1>5. (a * b) * r <= p /\ p < (a * b) * r + a * b
    BY <1>1, <1>3, <1>4
  <1>6. \A m \in Nat \ {0} : \A n \in Int : m * n <= p /\ p < m * n + m => p \div m = n
    <2>. SUFFICES ASSUME NEW m \in Nat \ {0}, NEW n \in Int, m * n <= p, p < m * n + m
                  PROVE  p \div m = n
      OBVIOUS
    <2>1. PICK s \in Int : s = p - m * n
      OBVIOUS
    <2>2. p = m * n + s /\ 0 <= s /\ s < m
      BY <2>1
    <2>. QED  BY <2>2
  <1>7. p \div (a * b) = r
    BY <1>4, <1>5, <1>6, <1>2
  <1>. QED  BY <1>7 DEF r, q

\* The number of a node's table is the node's number over N.
LEMMA ParentNode ==
  ASSUME NEW p \in Int, NEW k \in 1 .. 3
  PROVE  Node(k, p)[1] = k /\ Node(k, p)[2] \in Int
         /\ <<Node(k, p)[1] + 1, Node(k, p)[2] \div N>> = Node(k + 1, p)
  <1>1. N \in Nat \ {0} /\ Reach(k) \in Nat \ {0}
    BY Constants
  <1>2. Reach(k) * N = Reach(k + 1)
    <2>1. CASE k = 1
      BY <2>1, Constants
    <2>2. CASE k = 2
      BY <2>2, Constants
    <2>3. CASE k = 3
      BY <2>3, Constants
    <2>. QED  BY <2>1, <2>2, <2>3
  <1>3. (p \div Reach(k)) \div N = p \div Reach(k + 1)
    BY <1>1, <1>2, DivDiv
  <1>4. p \div Reach(k) \in Int
    BY <1>1
  <1>. QED  BY <1>3, <1>4 DEF Node

\* A node has its level and a number.
LEMMA NodeShape ==
  ASSUME NEW p \in Int, NEW k \in 1 .. 4
  PROVE  /\ Node(k, p)[1] = k /\ Node(k, p)[2] \in Int
         /\ Node(k, p) = <<Node(k, p)[1], Node(k, p)[2]>>
         /\ Node(k, p)[2] = p \div Reach(k)
  BY Constants DEF Node

\* The highest of some levels.
LEMMA HighestLevel ==
  ASSUME NEW S \in SUBSET (1 .. 4), S # {}
  PROVE  Highest(S) \in S /\ \A j \in S : j <= Highest(S)
  <1>1. \E k \in S : \A j \in S : j <= k
    <2>1. CASE 4 \in S
      BY <2>1
    <2>2. CASE 4 \notin S /\ 3 \in S
      BY <2>2
    <2>3. CASE 4 \notin S /\ 3 \notin S /\ 2 \in S
      BY <2>3
    <2>4. CASE 4 \notin S /\ 3 \notin S /\ 2 \notin S
      <3>1. PICK k \in S : TRUE
        OBVIOUS
      <3>2. \A j \in S : j = 1
        BY <2>4
      <3>. QED  BY <3>1, <3>2
    <2>. QED  BY <2>1, <2>2, <2>3, <2>4
  <1>. QED  BY <1>1 DEF Highest

\* get_frame hands out a frame that no entry holds, when there is one.
LEMMA FreshFrame ==
  ASSUME Free # {}
  PROVE  get_frame \in Frame /\ \A n \in DOMAIN pt : pt[n].frame # get_frame
  <1>1. Free \in SUBSET Nat
    BY DEF Free, Frame
  <1>2. \E f \in Free : \A g \in Free : f <= g
    BY <1>1, Smallest
  <1>3. get_frame \in Free
    BY <1>2 DEF get_frame
  <1>. QED  BY <1>3 DEF Free

\* A sequence is one of its own elements.
LEMMA OwnElements ==
  ASSUME NEW S, NEW t \in Seq(S)
  PROVE  IsSequence(t)
  <1>. DEFINE R == {t[k] : k \in 1 .. Len(t)}
  <1>1. Len(t) \in Nat /\ t \in [1 .. Len(t) -> S]
    OBVIOUS
  <1>2. t \in [1 .. Len(t) -> R]
    BY <1>1
  <1>. HIDE DEF R
  <1>3. t \in Seq(R)
    BY <1>1, <1>2
  <1>. QED  BY <1>3 DEF R, IsSequence

\* A sequence stays one when its head is taken or an element is appended.
LEMMA Shorter ==
  ASSUME NEW s, IsSequence(s), s # <<>>
  PROVE  /\ IsSequence(Tail(s)) /\ Len(s) \in Nat /\ Len(s) >= 1 /\ Head(s) = s[1]
         /\ Len(Tail(s)) = Len(s) - 1
         /\ \A k \in 1 .. Len(Tail(s)) : k + 1 \in 1 .. Len(s) /\ Tail(s)[k] = s[k + 1]
  <1>. DEFINE S == {s[k] : k \in 1 .. Len(s)}
  <1>1. s \in Seq(S)
    BY DEF IsSequence
  <1>. HIDE DEF S
  <1>2. Tail(s) \in Seq(S) /\ Len(s) \in Nat /\ Len(s) >= 1 /\ Head(s) = s[1]
        /\ Len(Tail(s)) = Len(s) - 1
    BY <1>1
  <1>3. \A k \in 1 .. Len(Tail(s)) : k + 1 \in 1 .. Len(s) /\ Tail(s)[k] = s[k + 1]
    BY <1>1, <1>2
  <1>. QED  BY <1>2, <1>3, OwnElements

\* A sequence that grows by an element.
LEMMA Longer ==
  ASSUME NEW s, IsSequence(s), NEW x
  PROVE  /\ IsSequence(Append(s, x)) /\ Len(s) \in Nat
         /\ Len(Append(s, x)) = Len(s) + 1 /\ Append(s, x)[Len(s) + 1] = x
         /\ Append(s, x) # <<>>
  <1>. DEFINE S == {s[k] : k \in 1 .. Len(s)} \cup {x}
  <1>1. s \in Seq(S)
    BY DEF IsSequence
  <1>. HIDE DEF S
  <1>0. x \in S
    BY DEF S
  <1>2. Append(s, x) \in Seq(S) /\ Len(s) \in Nat
        /\ Len(Append(s, x)) = Len(s) + 1 /\ Append(s, x)[Len(s) + 1] = x
    BY <1>1, <1>0
  <1>3. Append(s, x) # <<>>
    BY <1>2
  <1>. QED  BY <1>2, <1>3, OwnElements

-----------------------------------------------------------------------------
(* The calls and their variables.                                          *)

\* The loops, and the places of the core that are none.
LEMMA LoopNames ==
  /\ {"kmmap", "physical", "available", "empty", "size", "unmap"} = Loops
  /\ \A x \in {"idle", "user", "panic", "fault", "kernel_half"} : x \notin Loops
  BY DEF Loops

\* The current call is the first of the script, with an address and a size.
LEMMA CurrentCall ==
  ASSUME CallInv, todo # <<>>
  PROVE  Cur = todo[1] /\ Cur.addr \in 0 .. Word - 1 /\ Cur.size \in 0 .. Word - 1
  BY Shorter DEF CallInv, Cur

\* A return leaves the calls still to make.
LEMMA ReturnCall ==
  ASSUME CallInv, todo # <<>>, NEW v, Return(v), UNCHANGED w
  PROVE  CallInv'
  <1>1. IsSequence(Tail(todo)) /\ Len(Tail(todo)) = Len(todo) - 1
        /\ \A k \in 1 .. Len(Tail(todo)) : k + 1 \in 1 .. Len(todo)
                                          /\ Tail(todo)[k] = todo[k + 1]
    BY Shorter DEF CallInv
  <1>2. todo' = Tail(todo) /\ pc' \notin Loops
    BY LoopNames DEF Return
  <1>3. \A k \in 1 .. Len(todo') : todo'[k].addr \in 0 .. Word - 1
                                  /\ todo'[k].size \in 0 .. Word - 1
    BY <1>1, <1>2 DEF CallInv
  <1>4. IsSequence(todo)'
    BY <1>1, <1>2 DEF IsSequence
  <1>. QED  BY <1>2, <1>3, <1>4 DEF CallInv, Loops

\* The start of a walk.
LEMMA StartWalk ==
  ASSUME NEW a \in Int, NEW b \in Int, NEW f
  PROVE  /\ DOMAIN Walk(a, b, f) = {"page", "off", "size", "flags", "temp", "addr"}
         /\ Walk(a, b, f).page = PageOf(a) /\ Walk(a, b, f).off = a % PageSize
         /\ Walk(a, b, f).size = b /\ Walk(a, b, f).addr = a
         /\ PageOf(a) \in 0 .. Pages - 1 /\ a % PageSize \in 0 .. PageSize - 1
  BY Constants DEF Walk, PageOf

\* A call that begins a walk.
LEMMA WalkCall ==
  ASSUME CallInv, todo # <<>>, todo' = todo,
         NEW a \in Int, NEW b \in Int, NEW f, w' = Walk(a, b, f)
  PROVE  CallInv'
  <1>1. IsSequence(todo)'
    BY DEF CallInv, IsSequence
  <1>2. w'.page \in Int /\ w'.off \in Int /\ w'.size \in Int /\ w'.addr \in Int
    BY StartWalk, Constants
  <1>3. DOMAIN w' = {"page", "off", "size", "flags", "temp", "addr"}
    BY StartWalk
  <1>. QED  BY <1>1, <1>2, <1>3 DEF CallInv

\* A turn of a loop.
LEMMA TurnCall ==
  ASSUME CallInv, todo # <<>>, todo' = todo, DOMAIN w' = DOMAIN w,
         w'.page \in Int, w'.off \in Int, w'.size \in Int, w'.addr \in Int
  PROVE  CallInv'
  <1>1. IsSequence(todo)'
    BY DEF CallInv, IsSequence
  <1>. QED  BY <1>1 DEF CallInv

\* A loop that ends without a return.
LEMMA StopCall ==
  ASSUME CallInv, UNCHANGED <<todo, w>>, pc' \notin Loops
  PROVE  CallInv'
  <1>1. IsSequence(todo)'
    BY DEF CallInv, IsSequence
  <1>. QED  BY <1>1 DEF CallInv, Loops

\* The next index of a level makes a page number.
LEMMA BumpPage ==
  ASSUME NEW p \in Int, NEW k \in 1 .. 4
  PROVE  Bump(p, k) \in Int
  <1>1. Reach(k) \in Nat \ {0} /\ N \in Nat \ {0}
    BY Constants
  <1>2. (p \div Reach(k)) % N \in Int
    BY <1>1
  <1>3. ((((p \div Reach(k)) % N) + 1) % N) - ((p \div Reach(k)) % N) \in Int
    BY <1>1, <1>2
  <1>4. \A x, y \in Int : x * y \in Int
    OBVIOUS
  <1>. QED  BY <1>1, <1>3, <1>4 DEF Bump

\* Every step keeps the calls and the variables whole.
LEMMA CallStep ==
  ASSUME CallInv, Next
  PROVE  CallInv'
  <1>. USE LoopNames
  <1>0. PageSize \in Nat \ {0, 1} /\ N \in Nat \ {0} /\ Word \in Nat \ {0}
    BY Constants
  <1>1. ASSUME CallKmmap \/ CallMapPhysical \/ CallKmmapPhysical \/ CallSpaceAlloc
        PROVE  CallInv'
    <2>1. todo # <<>> /\ todo' = todo
      BY <1>1 DEF CallKmmap, CallMapPhysical, CallKmmapPhysical, CallSpaceAlloc, Begin
    <2>2. Cur.addr \in Int /\ Cur.size \in Int
      BY <2>1, CurrentCall
    <2>3. CASE CallKmmap \/ CallKmmapPhysical
      <3>1. w' = Walk(Cur.addr, Cur.size, Cur.flags)
        BY <2>3 DEF CallKmmap, CallKmmapPhysical
      <3>. QED  BY <2>1, <2>2, <3>1, WalkCall
    <2>4. CASE CallMapPhysical
      <3>1. w' = Walk(Devices * PageSize, 0, Cur.flags) /\ Devices * PageSize \in Int
        BY <2>4, Constants DEF CallMapPhysical, Devices
      <3>. QED  BY <2>1, <3>1, WalkCall
    <2>5. CASE CallSpaceAlloc
      <3>1. PICK x : w' = [Walk(FirstPage * PageSize, Cur.size, {}) EXCEPT !.temp = x]
        BY <2>5 DEF CallSpaceAlloc
      <3>2. FirstPage * PageSize \in Int
        BY <1>0 DEF FirstPage
      <3>3. DOMAIN w' = DOMAIN w /\ w'.page \in Int /\ w'.off \in Int /\ w'.size \in Int
            /\ w'.addr \in Int
        <4>. DEFINE u == Walk(FirstPage * PageSize, Cur.size, {})
        <4>1. DOMAIN u = {"page", "off", "size", "flags", "temp", "addr"} /\ u.size \in Int
              /\ u.addr \in Int /\ u.page = PageOf(FirstPage * PageSize)
              /\ u.off = FirstPage * PageSize % PageSize
          BY <2>2, <3>2, StartWalk
        <4>2. u.page \in Int /\ u.off \in Int
          <5>1. PageOf(FirstPage * PageSize) \in Int /\ FirstPage * PageSize % PageSize \in Int
            BY <3>2, Constants DEF PageOf
          <5>. QED  BY <4>1, <5>1
        <4>3. DOMAIN u = DOMAIN w
          BY <4>1 DEF CallInv
        <4>. HIDE DEF u
        <4>. QED  BY <4>1, <4>2, <4>3, <3>1 DEF u
      <3>. QED  BY <2>1, <3>3, TurnCall
    <2>. QED  BY <1>1, <2>3, <2>4, <2>5
  <1>2. CASE CallKmunmap
    <2>1. todo # <<>> /\ Cur.addr \in Int /\ Cur.size \in Int
      BY <1>2, CurrentCall DEF CallKmunmap, Begin
    <2>. DEFINE off == Cur.addr % PageSize
    <2>. DEFINE size == UnmapSize(off, Cur.size)
    <2>2. size \in Int
      <3>1. off \in Int /\ Cur.size \in Int
        BY <2>1, <1>0
      <3>. HIDE DEF off
      <3>2. Cur.size - (PageSize - off) \in Int
        BY <3>1, <1>0
      <3>. QED  BY <3>1, <3>2, <1>0 DEF UnmapSize
    <2>3. (Return(0) /\ UNCHANGED w) \/ (w' = Walk(Cur.addr, size, {}) /\ UNCHANGED todo)
      BY <1>2 DEF CallKmunmap
    <2>. HIDE DEF size
    <2>. QED  BY <2>1, <2>2, <2>3, ReturnCall, WalkCall
  <1>3. CASE CheckProtocol
    <2>1. todo # <<>> /\ UNCHANGED w
          /\ (Return(0) \/ (pc' = "panic" /\ UNCHANGED todo))
      BY <1>3 DEF CheckProtocol, Begin
    <2>. QED  BY <2>1, ReturnCall, StopCall
  <1>4. CASE Sysret \/ EnterKernelHalf \/ OutOfFrames
    <2>1. UNCHANGED <<todo, w>> /\ pc' \in {"user", "kernel_half", "panic"}
      BY <1>4 DEF Sysret, EnterKernelHalf, OutOfFrames
    <2>. QED  BY <2>1, StopCall
  <1>5. CASE AddTable
    <2>1. pc \in Loops /\ UNCHANGED <<todo, w>>
      BY <1>5 DEF AddTable
    <2>. QED  BY <2>1, TurnCall DEF CallInv
  <1>6. ASSUME NextPage, todo' = todo, todo # <<>>
        PROVE  CallInv'
    <2>1. DOMAIN w' = DOMAIN w /\ w'.page = w.page + 1 /\ w'.off = 0
          /\ w'.size = w.size - SpaceLeft /\ w'.addr = w.addr
      BY <1>6 DEF NextPage, CallInv
    <2>2. w'.page \in Int /\ w'.off \in Int /\ w'.size \in Int /\ w'.addr \in Int
      BY <2>1, <1>0 DEF CallInv, SpaceLeft
    <2>. QED  BY <1>6, <2>1, <2>2, TurnCall
  <1>7. CASE KmmapPage \/ PhysicalPage
    <2>1. pc \in Loops
      BY <1>7 DEF KmmapPage, PhysicalPage
    <2>2. todo # <<>>
      BY <2>1 DEF CallInv
    <2>3. (Return(w.addr) /\ UNCHANGED w) \/ (NextPage /\ UNCHANGED todo)
      BY <1>7 DEF KmmapPage, PhysicalPage
    <2>. QED  BY <2>2, <2>3, <1>6, ReturnCall
  <1>8. ASSUME NEW k \in 1 .. 4, pc \in Loops, todo' = todo, DOMAIN w' = DOMAIN w,
               w'.page = Bump(w.page, k), w'.off = w.off, w'.size \in Int, w'.addr = w.addr
        PROVE  CallInv'
    <2>1. todo # <<>> /\ Bump(w.page, k) \in Int
      BY <1>8, BumpPage DEF CallInv
    <2>. QED  BY <1>8, <2>1, TurnCall DEF CallInv
  <1>9. CASE AvailableUsed \/ AvailableCount
    <2>1. pc \in Loops /\ todo' = todo
      BY <1>9 DEF AvailableUsed, AvailableCount
    <2>2. PICK y : w' = [w EXCEPT !.page = Bump(@, 1), !.temp = y]
      BY <1>9 DEF AvailableUsed, AvailableCount
    <2>3. DOMAIN w' = DOMAIN w /\ w'.page = Bump(w.page, 1) /\ w'.off = w.off
          /\ w'.size \in Int /\ w'.addr = w.addr
      BY <2>2 DEF CallInv
    <2>. QED  BY <2>1, <2>3, <1>8
  <1>10. CASE AvailableFound
    <2>1. pc \in Loops
      BY <1>10 DEF AvailableFound
    <2>2. todo # <<>>
      BY <2>1 DEF CallInv
    <2>3. Cur.size \in Int /\ w.page \in Int
      BY <2>2, CurrentCall DEF CallInv
    <2>4. PageNum \in Int
      BY <2>3, <1>0 DEF PageNum
    <2>. DEFINE addr == IF Absent(w.page) = {1}
                        THEN (w.page - (PageNum - 1)) * PageSize % Word
                        ELSE w.page * PageSize
    <2>5. addr \in Int
      <3>1. (w.page - (PageNum - 1)) * PageSize \in Int /\ w.page * PageSize \in Int
        BY <2>3, <2>4, <1>0
      <3>. QED  BY <3>1, <1>0
    <2>6. \/ Return(0) /\ UNCHANGED w
          \/ todo' = todo /\ w' = Walk(addr, Cur.size, convert_to_arch_flags(Cur.flags))
      BY <1>10 DEF AvailableFound
    <2>. HIDE DEF addr
    <2>. QED  BY <2>2, <2>3, <2>5, <2>6, ReturnCall, WalkCall
  <1>11. CASE SearchEmpty
    <2>1. pc \in Loops /\ todo' = todo
      BY <1>11 DEF SearchEmpty
    <2>2. todo # <<>> /\ w.page * PageSize \in Int
      BY <2>1, <1>0 DEF CallInv
    <2>3. CASE Absent(w.page) = {}
      <3>1. w' = [w EXCEPT !.page = Bump(@, 1)]
        BY <1>11, <2>3 DEF SearchEmpty
      <3>2. DOMAIN w' = DOMAIN w /\ w'.page = Bump(w.page, 1) /\ w'.off = w.off
            /\ w'.size \in Int /\ w'.addr = w.addr
        BY <3>1 DEF CallInv
      <3>. QED  BY <2>1, <3>2, <1>8
    <2>4. CASE Absent(w.page) # {}
      <3>1. w' = [w EXCEPT !.addr = w.page * PageSize, !.size = 0]
        BY <1>11, <2>4 DEF SearchEmpty
      <3>2. DOMAIN w' = DOMAIN w /\ w'.page = w.page /\ w'.off = w.off
            /\ w'.size = 0 /\ w'.addr = w.page * PageSize
        BY <3>1 DEF CallInv
      <3>. QED  BY <2>1, <2>2, <3>2, TurnCall DEF CallInv
    <2>. QED  BY <2>3, <2>4
  <1>12. CASE GetSize
    <2>1. pc \in Loops /\ todo' = todo
      BY <1>12 DEF GetSize
    <2>2. todo # <<>>
      BY <2>1 DEF CallInv
    <2>3. Cur.size \in Int /\ w.addr \in Int /\ w.size \in Int
      BY <2>2, CurrentCall DEF CallInv
    <2>4. CASE Absent(w.page) = {}
      <3>1. w' = Walk((w.addr + w.size) % Word, 0, Cur.flags)
        BY <1>12, <2>4 DEF GetSize
      <3>2. (w.addr + w.size) % Word \in Int
        BY <2>3, <1>0
      <3>. QED  BY <2>1, <2>2, <3>1, <3>2, WalkCall
    <2>5. CASE Absent(w.page) # {}
      <3>. DEFINE k == Highest(Absent(w.page))
      <3>. DEFINE size == w.size + Reach(k) * PageSize
      <3>1. k \in 1 .. 4
        BY <2>5, HighestLevel DEF Absent
      <3>2. Reach(k) \in Nat
        BY <3>1, Constants
      <3>3. size \in Int
        BY <3>2, <2>3, <1>0
      <3>4. \/ w' = Walk(w.addr, Cur.size, Cur.flags)
            \/ w' = [w EXCEPT !.page = Bump(@, k), !.size = size]
        BY <1>12, <2>5 DEF GetSize
      <3>. HIDE DEF k, size
      <3>5. ASSUME w' = [w EXCEPT !.page = Bump(@, k), !.size = size]
            PROVE  DOMAIN w' = DOMAIN w /\ w'.page = Bump(w.page, k) /\ w'.off = w.off
                   /\ w'.size = size /\ w'.addr = w.addr
        BY <3>5 DEF CallInv
      <3>. QED  BY <2>1, <2>2, <2>3, <3>1, <3>3, <3>4, <3>5, <1>8, WalkCall
    <2>. QED  BY <2>4, <2>5
  <1>13. ASSUME NEW size \in Int, UnmapNext(size), pc \in Loops
         PROVE  CallInv'
    <2>1. todo # <<>>
      BY <1>13 DEF CallInv
    <2>2. \/ pc' = "fault" /\ UNCHANGED <<todo, w>>
          \/ todo' = todo /\ w' = [w EXCEPT !.page = @ + 1, !.off = 0, !.size = size]
      BY <1>13 DEF UnmapNext
    <2>3. ASSUME w' = [w EXCEPT !.page = @ + 1, !.off = 0, !.size = size]
          PROVE  DOMAIN w' = DOMAIN w /\ w'.page = w.page + 1 /\ w'.off = 0
                 /\ w'.size = size /\ w'.addr = w.addr
      BY <2>3 DEF CallInv
    <2>4. w.page + 1 \in Int /\ w.addr \in Int
      BY DEF CallInv
    <2>. QED  BY <2>1, <2>2, <2>3, <2>4, <1>13, StopCall, TurnCall
  <1>14. CASE UnmapPartial
    <2>1. UnmapNext(w.size) /\ pc \in Loops /\ w.size \in Int
      BY <1>14 DEF UnmapPartial, CallInv
    <2>. QED  BY <2>1, <1>13
  <1>15. CASE UnmapPage
    <2>1. pc \in Loops
      BY <1>15 DEF UnmapPage
    <2>. DEFINE size == (w.size - PageSize) % Word
    <2>2. size \in Int /\ todo # <<>>
      BY <2>1, <1>0 DEF CallInv
    <2>3. \/ pc' = "fault" /\ UNCHANGED <<todo, w>>
          \/ Return(0) /\ UNCHANGED w
          \/ UnmapNext(size)
      BY <1>15 DEF UnmapPage
    <2>. HIDE DEF size
    <2>. QED  BY <2>1, <2>2, <2>3, <1>13, StopCall, ReturnCall
  <1>16. CASE UNCHANGED vars
    BY <1>16 DEF vars, CallInv, IsSequence
  <1>. QED
    BY <1>1, <1>2, <1>3, <1>4, <1>5, <1>7, <1>9, <1>10, <1>11, <1>12, <1>14, <1>15, <1>16
    DEF Next, Move, Spin, Rest

-----------------------------------------------------------------------------
(* The tree.                                                               *)

\* A new entry of a table that is there, of a frame that is free or of a device.
LEMMA PutTree ==
  ASSUME NodesInv, TreeOK, NEW p \in Int, NEW k \in 1 .. 4, NEW e,
         k < 4 => Has(k + 1, p),
         e.frame = Device \/ \A n \in DOMAIN pt : pt[n].frame # e.frame,
         pt' = Put(Node(k, p), e)
  PROVE  NodesInv' /\ TreeOK'
  <1>. DEFINE node == Node(k, p)
  <1>1. node[1] = k /\ node[2] \in Int /\ node = <<node[1], node[2]>>
    BY NodeShape
  <1>2. k < 4 => <<node[1] + 1, node[2] \div N>> \in DOMAIN pt
    <2>1. k < 4 => k \in 1 .. 3
      OBVIOUS
    <2>. QED  BY <2>1, ParentNode DEF Has
  <1>3. DOMAIN pt' = DOMAIN pt \cup {node} /\ pt'[node] = e
        /\ \A n \in DOMAIN pt : n # node => pt'[n] = pt[n]
    BY DEF Put
  <1>. HIDE DEF node
  <1>4. NodesInv'
    BY <1>1, <1>3 DEF NodesInv
  <1>5. \A n \in DOMAIN pt' : n[1] < 4 => <<n[1] + 1, n[2] \div N>> \in DOMAIN pt'
    BY <1>1, <1>2, <1>3 DEF TreeOK
  <1>6. \A m, n \in DOMAIN pt' :
          m # n /\ pt'[m].frame = pt'[n].frame => pt'[m].frame = Device
    <2>1. \A m, n \in DOMAIN pt :
            m # n /\ pt[m].frame = pt[n].frame => pt[m].frame = Device
      BY DEF TreeOK
    <2>. QED  BY <1>3, <2>1
  <1>. QED  BY <1>4, <1>5, <1>6 DEF TreeOK

\* The entry of a page goes: nothing hangs from it.
LEMMA CutTree ==
  ASSUME NodesInv, TreeOK, NEW p \in Int,
         pt' = [n \in DOMAIN pt \ {Node(1, p)} |-> pt[n]]
  PROVE  NodesInv' /\ TreeOK'
  <1>1. Node(1, p)[1] = 1
    BY NodeShape
  <1>2. DOMAIN pt' = DOMAIN pt \ {Node(1, p)} /\ \A n \in DOMAIN pt' : pt'[n] = pt[n]
    OBVIOUS
  <1>3. NodesInv'
    BY <1>2 DEF NodesInv
  <1>4. \A n \in DOMAIN pt' : n[1] < 4 => <<n[1] + 1, n[2] \div N>> \in DOMAIN pt'
    <2>. SUFFICES ASSUME NEW n \in DOMAIN pt', n[1] < 4
                  PROVE  <<n[1] + 1, n[2] \div N>> \in DOMAIN pt'
      OBVIOUS
    <2>1. n[1] \in 1 .. 4 /\ <<n[1] + 1, n[2] \div N>> \in DOMAIN pt
      BY <1>2 DEF NodesInv, TreeOK
    <2>2. <<n[1] + 1, n[2] \div N>>[1] # 1
      BY <2>1
    <2>. QED  BY <1>1, <1>2, <2>1, <2>2
  <1>5. \A m, n \in DOMAIN pt' :
          m # n /\ pt'[m].frame = pt'[n].frame => pt'[m].frame = Device
    BY <1>2 DEF TreeOK
  <1>. QED  BY <1>3, <1>4, <1>5 DEF TreeOK

\* The initial tree: one entry, of the first level.
LEMMA TreeInit ==
  ASSUME Init
  PROVE  TreeInv
  <1>0. PageSize \in Nat \ {0, 1} /\ Kernel \in Nat
    BY Constants
  <1>1. DOMAIN pt = {<<4, Kernel>>}
    BY DEF Init
  <1>2. NodesInv /\ TreeOK
    BY <1>0, <1>1 DEF NodesInv, TreeOK
  <1>3. PICK s \in Scripts : todo = <<KmmapCall(ContextPage * PageSize, 1, {W})>> \o s
    BY DEF Init
  <1>. DEFINE first == KmmapCall(ContextPage * PageSize, 1, {W})
  <1>4. first.addr \in 0 .. Word - 1 /\ first.size \in 0 .. Word - 1
    <2>1. ContextPage \in 0 .. Pages - 1
      BY KernelHalf, Constants DEF ContextPage
    <2>2. ContextPage * PageSize \in 0 .. Word - 1
      BY <2>1, PageWord
    <2>3. Word >= 2 /\ Word \in Nat
      <3>1. 1 * PageSize \in 0 .. Word - 1
        BY KernelHalf, PageWord DEF FirstPage
      <3>. QED  BY <3>1, <1>0, Constants
    <2>. QED  BY <2>2, <2>3 DEF KmmapCall
  <1>. DEFINE S == {s[k] : k \in 1 .. Len(s)}
  <1>5. s \in Seq(S)
    BY VmmAssumption
  <1>6. \A c \in S : c.addr \in 0 .. Word - 1 /\ c.size \in 0 .. Word - 1
    BY VmmAssumption
  <1>. HIDE DEF first, S
  <1>7. todo \in Seq(S \cup {first})
    <2>1. s \in Seq(S \cup {first}) /\ <<first>> \in Seq(S \cup {first})
      BY <1>5
    <2>. QED  BY <1>3, <2>1 DEF first
  <1>8. IsSequence(todo)
    BY <1>7, OwnElements
  <1>9. \A k \in 1 .. Len(todo) : todo[k].addr \in 0 .. Word - 1 /\ todo[k].size \in 0 .. Word - 1
    BY <1>4, <1>6, <1>7
  <1>10. pc \notin Loops /\ w = Walk(0, 0, {})
    BY LoopNames DEF Init
  <1>11. PageOf(0) \in Int /\ 0 % PageSize \in Int
    BY Constants DEF PageOf
  <1>12. DOMAIN w = {"page", "off", "size", "flags", "temp", "addr"}
         /\ w.page \in Int /\ w.off \in Int /\ w.size \in Int /\ w.addr \in Int
    BY <1>10, <1>11, StartWalk
  <1>. QED  BY <1>2, <1>8, <1>9, <1>10, <1>12 DEF TreeInv, CallInv

\* AddTable makes the highest table that is missing, under one that is there; it is
\* never a page.
LEMMA NewTable ==
  ASSUME AddTable
  PROVE  \E k \in 1 .. 4 : /\ k # 1 /\ Node(k, w.page) \notin DOMAIN pt
                           /\ k < 4 => Has(k + 1, w.page)
                           /\ pt' = Put(Node(k, w.page), Entry(get_frame))
  <1>. DEFINE k == Highest(Absent(w.page))
  <1>1. k \in Absent(w.page) /\ \A j \in Absent(w.page) : j <= k
    BY HighestLevel DEF AddTable, Absent
  <1>2. k \in 1 .. 4 /\ Node(k, w.page) \notin DOMAIN pt
    BY <1>1 DEF Absent, Has
  <1>3. k # 1
    <2>1. PICK j \in Absent(w.page) : j # 1
      BY DEF AddTable
    <2>2. j \in 1 .. 4 /\ j <= k
      BY <1>1, <2>1 DEF Absent
    <2>. QED  BY <1>2, <2>1, <2>2
  <1>4. pt' = Put(Node(k, w.page), Entry(get_frame))
    BY DEF AddTable
  <1>. HIDE DEF k
  <1>5. k < 4 => Has(k + 1, w.page)
    BY <1>1, <1>2 DEF Absent
  <1>. QED  BY <1>2, <1>3, <1>4, <1>5

\* Every step keeps the tree.
LEMMA TreeStep ==
  ASSUME TreeInv, Next
  PROVE  TreeInv'
  <1>0. CallInv' /\ w.page \in Int
    BY CallStep DEF TreeInv, CallInv
  <1>1. ASSUME UNCHANGED pt
        PROVE  NodesInv' /\ TreeOK'
    BY <1>1 DEF TreeInv, NodesInv, TreeOK
  <1>2. CASE AddTable
    <2>1. PICK k \in 1 .. 4 : /\ k # 1 /\ Node(k, w.page) \notin DOMAIN pt
                              /\ k < 4 => Has(k + 1, w.page)
                              /\ pt' = Put(Node(k, w.page), Entry(get_frame))
      BY <1>2, NewTable
    <2>2. \A n \in DOMAIN pt : pt[n].frame # Entry(get_frame).frame
      BY <1>2, FreshFrame DEF Entry, AddTable
    <2>. QED  BY <1>0, <2>1, <2>2, PutTree DEF TreeInv
  <1>3. CASE KmmapPage
    <2>1. Has(2, w.page)
      BY <1>3 DEF KmmapPage, Absent
    <2>2. CASE Has(1, w.page)
      <3>0. pt' = IF Has(1, w.page) THEN pt ELSE Put(Node(1, w.page), Entry(get_frame))
        BY <1>3 DEF KmmapPage
      <3>1. pt' = pt
        BY <2>2, <3>0
      <3>. QED  BY <1>0, <1>1, <3>1 DEF TreeInv
    <2>3. CASE ~Has(1, w.page)
      <3>1. pt' = Put(Node(1, w.page), Entry(get_frame)) /\ Free # {}
        BY <1>3, <2>3 DEF KmmapPage
      <3>2. \A n \in DOMAIN pt : pt[n].frame # Entry(get_frame).frame
        BY <3>1, FreshFrame DEF Entry
      <3>. QED  BY <1>0, <2>1, <3>1, <3>2, PutTree DEF TreeInv
    <2>. QED  BY <2>2, <2>3
  <1>4. CASE PhysicalPage
    <2>1. Has(2, w.page) /\ pt' = Put(Node(1, w.page), Entry(Device))
      BY <1>4 DEF PhysicalPage, Absent
    <2>2. Entry(Device).frame = Device
      BY DEF Entry
    <2>. QED  BY <1>0, <2>1, <2>2, PutTree DEF TreeInv
  <1>5. CASE UnmapPage
    <2>1. UNCHANGED pt \/ pt' = [n \in DOMAIN pt \ {Node(1, w.page)} |-> pt[n]]
      BY <1>5 DEF UnmapPage
    <2>. QED  BY <1>0, <1>1, <2>1, CutTree DEF TreeInv
  <1>6. ASSUME ~AddTable, ~KmmapPage, ~PhysicalPage, ~UnmapPage
        PROVE  UNCHANGED pt
    BY <1>6 DEF Next, Move, Spin, Rest, vars, CallKmmap, CallSpaceAlloc, CallMapPhysical,
       CallKmmapPhysical, CallKmunmap, CheckProtocol, Sysret, EnterKernelHalf, OutOfFrames,
       AvailableUsed, AvailableCount, AvailableFound, SearchEmpty, GetSize, UnmapPartial
  <1>. QED  BY <1>0, <1>1, <1>2, <1>3, <1>4, <1>5, <1>6 DEF TreeInv

-----------------------------------------------------------------------------
(* The ranges of the variables.                                            *)

\* The pages make whole tables of every level.
LEMMA WholeTables ==
  ASSUME NEW k \in 1 .. 4
  PROVE  \E t \in Nat \ {0} : Pages = (N * t) * Reach(k)
  <1>1. N \in Nat \ {0} /\ Pages = N * Reach(4)
    BY Constants DEF Pages
  <1>2. N * N \in Nat \ {0}
    BY <1>1
  <1>3. N * (N * N) \in Nat \ {0} /\ N * N * N = N * (N * N)
    BY <1>1, <1>2
  <1>4. CASE k = 1
    <2>1. Pages = (N * (N * (N * N))) * Reach(k)
      BY <1>1, <1>2, <1>3, <1>4, Constants
    <2>. QED  BY <1>3, <2>1
  <1>5. CASE k = 2
    <2>1. \A x \in Nat \ {0} : N * (N * x) = (N * x) * N
      BY <1>1
    <2>2. Pages = (N * (N * N)) * Reach(k)
      BY <1>1, <1>2, <1>3, <1>5, <2>1, Constants
    <2>. QED  BY <1>2, <2>2
  <1>6. CASE k = 3
    <2>1. \A x \in Nat \ {0} : N * (N * x) = (N * N) * x
      BY <1>1
    <2>2. Pages = (N * N) * Reach(k)
      BY <1>1, <1>2, <1>3, <1>6, <2>1, Constants
    <2>. QED  BY <1>1, <2>2
  <1>7. CASE k = 4
    <2>1. Pages = (N * 1) * Reach(k)
      BY <1>1, <1>7
    <2>. QED  BY <2>1
  <1>. QED  BY <1>4, <1>5, <1>6, <1>7

\* A page lies under an entry of each level that the tables have.
LEMMA EntryRange ==
  ASSUME NEW m \in Nat \ {0}, NEW a \in Nat \ {0}, NEW p \in 0 .. m * a - 1
  PROVE  p \div a \in 0 .. m - 1 /\ (m * a) \div a = m
  <1>. DEFINE q == p \div a
  <1>1. q \in Int /\ a * q <= p /\ p < a * q + a
    <2>1. p \in Int
      OBVIOUS
    <2>. QED  BY <2>1
  <1>2. m * a = a * m /\ a * m \in Nat /\ a * q \in Int
    BY <1>1
  <1>. HIDE DEF q
  <1>3. a * (q + 1) = a * q + a /\ a * 0 = 0
    BY <1>1
  <1>4. \A x, y \in Int : a * x < a * y => x < y
    <2>1. \A x, y \in Int : y <= x => a * y <= a * x
      OBVIOUS
    <2>. SUFFICES ASSUME NEW x \in Int, NEW y \in Int, a * x < a * y
                  PROVE  x < y
      OBVIOUS
    <2>2. a * x \in Int /\ a * y \in Int
      OBVIOUS
    <2>. QED  BY <2>1, <2>2
  <1>5. q < m
    BY <1>1, <1>2, <1>4
  <1>6. 0 < q + 1
    <2>1. a * 0 < a * (q + 1)
      BY <1>1, <1>2, <1>3
    <2>. QED  BY <1>1, <1>4, <2>1
  <1>7. (m * a) \div a = m
    <2>1. \A z \in Int : z = a * m => z \div a = m
      OBVIOUS
    <2>. QED  BY <1>2, <2>1
  <1>. QED  BY <1>1, <1>5, <1>6, <1>7 DEF q

\* The number of a node lies in the range of its level.
LEMMA NodeRange ==
  ASSUME NEW p \in 0 .. Pages - 1, NEW k \in 1 .. 4
  PROVE  Node(k, p)[2] \in 0 .. Pages \div Reach(Node(k, p)[1]) - 1
  <1>1. PICK t \in Nat \ {0} : Pages = (N * t) * Reach(k)
    BY WholeTables
  <1>2. N * t \in Nat \ {0} /\ Reach(k) \in Nat \ {0} /\ p \in Int
    <2>1. N \in Nat \ {0}
      BY Constants
    <2>. QED  BY <2>1, Constants
  <1>3. p \div Reach(k) \in 0 .. N * t - 1 /\ Pages \div Reach(k) = N * t
    BY <1>1, <1>2, EntryRange
  <1>. QED  BY <1>2, <1>3, NodeShape

\* The next index of a table, the first one after the last, is an index.
LEMMA BumpRange ==
  ASSUME NEW p \in 0 .. Pages - 1, NEW k \in 1 .. 4
  PROVE  Bump(p, k) \in 0 .. Pages - 1
  <1>1. PICK t \in Nat \ {0} : Pages = (N * t) * Reach(k)
    BY WholeTables
  <1>. DEFINE R == Reach(k)
  <1>. DEFINE m == N * t
  <1>. DEFINE q == p \div R
  <1>. DEFINE u == q \div N
  <1>. DEFINE d == q % N
  <1>2. N \in Nat \ {0, 1} /\ R \in Nat \ {0} /\ p \in Int
    BY Constants
  <1>3. m \in Nat \ {0}
    BY <1>2
  <1>4. q \in 0 .. m - 1
    BY <1>1, <1>2, <1>3, EntryRange
  <1>5. R * q <= p /\ p < R * q + R
    <2>. HIDE DEF R
    <2>. QED  BY <1>2
  <1>6. Bump(p, k) = p + (((d + 1) % N) - d) * R
    BY DEF Bump
  <1>7. Pages = m * R
    BY <1>1
  <1>. HIDE DEF R, q
  <1>8. u \in Int /\ d \in 0 .. N - 1 /\ q = N * u + d
    BY <1>2, <1>3, <1>4
  <1>. HIDE DEF u, d
  <1>9. N * u < N * t
    BY <1>8, <1>4, <1>2, <1>3
  <1>. HIDE DEF m
  <1>10. u < t
    <2>1. \A x, y \in Int : y <= x => N * y <= N * x
      BY <1>2
    <2>2. t \in Int /\ N * u \in Int /\ N * t \in Int
      BY <1>2, <1>8
    <2>. QED  BY <1>8, <1>9, <2>1, <2>2
  <1>11. N * u + N <= m
    <2>1. \A x, y \in Int : y <= x => N * y <= N * x
      BY <1>2
    <2>2. N * (u + 1) <= N * t
      BY <1>8, <1>10, <2>1
    <2>3. N * (u + 1) = N * u + N
      BY <1>2, <1>8
    <2>. QED  BY <2>2, <2>3 DEF m
  <1>12. \A x, y \in Int : x <= y => R * x <= R * y
    BY <1>2
  <1>13. R * q \in Int /\ m * R = R * m /\ R * m \in Int
    BY <1>2, <1>3, <1>4
  <1>14. CASE d = N - 1
    <2>1. (d + 1) % N = 0
      <3>1. \A x \in Int : x = N => x % N = 0
        BY <1>2
      <3>. QED  BY <1>2, <1>14, <3>1
    <2>2. N - 1 <= q
      <3>1. 0 <= u
        <4>1. u < 0 => N * u <= N * (-1)
          <5>1. \A x, y \in Int : y <= x => N * y <= N * x
            BY <1>2
          <5>. QED  BY <1>8, <5>1
        <4>2. N * (-1) = -N
          BY <1>2
        <4>3. N * u \in Int
          BY <1>2, <1>8
        <4>. QED  BY <1>2, <1>4, <1>8, <4>1, <4>2, <4>3
      <3>2. N * 0 <= N * u /\ N * 0 = 0 /\ N * u \in Int
        <4>1. \A x, y \in Int : y <= x => N * y <= N * x
          BY <1>2
        <4>. QED  BY <1>2, <1>8, <3>1, <4>1
      <3>. QED  BY <1>2, <1>8, <1>14, <3>2
    <2>3. R * (N - 1) <= R * q /\ R * (N - 1) \in Nat
      BY <1>2, <1>4, <1>12, <2>2
    <2>4. (0 - d) * R = -(R * (N - 1))
      BY <1>2, <1>14
    <2>5. Bump(p, k) = p - R * (N - 1)
      BY <1>2, <1>6, <2>1, <2>3, <2>4
    <2>6. R * (N - 1) \in Int /\ 0 <= R * (N - 1) /\ R * (N - 1) <= p
      BY <1>2, <1>5, <1>13, <2>3
    <2>7. Pages \in Nat
      BY Constants
    <2>. QED  BY <1>2, <2>5, <2>6, <2>7
  <1>15. CASE d # N - 1
    <2>1. (d + 1) % N = d + 1
      <3>1. \A x \in 0 .. N - 1 : x % N = x
        BY <1>2
      <3>. QED  BY <1>2, <1>8, <1>15, <3>1
    <2>2. ((d + 1) - d) * R = R
      BY <1>2, <1>8
    <2>3. Bump(p, k) = p + R
      BY <1>6, <2>1, <2>2
    <2>4. q + 2 <= m
      <3>1. N * u \in Int
        BY <1>2, <1>8
      <3>. QED  BY <1>2, <1>3, <1>4, <1>8, <1>11, <1>15, <3>1
    <2>5. R * (q + 2) <= R * m /\ R * (q + 2) = R * q + R + R
      BY <1>2, <1>3, <1>4, <1>12, <2>4
    <2>. QED  BY <1>2, <1>5, <1>7, <1>13, <2>3, <2>5
  <1>. QED  BY <1>14, <1>15, <1>8

WalkRange ==
  /\ w.page \in 0 .. Pages - 1 /\ w.off \in 0 .. PageSize - 1
  /\ w.size \in 0 .. Word - 1 /\ w.addr \in 0 .. Word - 1 /\ w.temp \in Nat

\* A walk starts inside the ranges.
LEMMA StartRange ==
  ASSUME NEW a \in 0 .. Word - 1, NEW b \in 0 .. Word - 1, NEW f, w' = Walk(a, b, f)
  PROVE  WalkRange'
  <1>1. a \in Int /\ b \in Int
    BY Constants
  <1>2. Walk(a, b, f).temp = 0
    BY DEF Walk
  <1>3. /\ w'.page = PageOf(a) /\ w'.off = a % PageSize /\ w'.size = b /\ w'.addr = a
        /\ PageOf(a) \in 0 .. Pages - 1 /\ a % PageSize \in 0 .. PageSize - 1
    BY <1>1, StartWalk
  <1>. QED  BY <1>2, <1>3 DEF WalkRange

\* Every step keeps the variables inside their ranges.
LEMMA RangeStep ==
  ASSUME CallInv, WalkRange, Next
  PROVE  WalkRange'
  <1>. USE LoopNames
  <1>0. PageSize \in Nat \ {0, 1} /\ Word \in Nat \ {0} /\ Pages \in Nat \ {0}
        /\ 0 \in 0 .. Word - 1
    BY Constants
  <1>1. ASSUME UNCHANGED w
        PROVE  WalkRange'
    BY <1>1 DEF WalkRange
  <1>2. todo # <<>> => Cur.addr \in 0 .. Word - 1 /\ Cur.size \in 0 .. Word - 1
    BY CurrentCall
  <1>3. ASSUME todo # <<>>
        PROVE  PageNum \in Nat
    <2>1. Cur.size + PageSize - 1 \in Nat
      BY <1>0, <1>2, <1>3
    <2>2. \A x \in Nat : x \div PageSize \in Nat
      BY <1>0
    <2>. QED  BY <2>1, <2>2 DEF PageNum
  <1>4. CASE CallKmmap \/ CallKmmapPhysical \/ CallMapPhysical
    <2>1. todo # <<>>
      BY <1>4 DEF CallKmmap, CallKmmapPhysical, CallMapPhysical, Begin
    <2>2. \/ w' = Walk(Cur.addr, Cur.size, Cur.flags)
          \/ w' = Walk(Devices * PageSize, 0, Cur.flags)
      BY <1>4 DEF CallKmmap, CallKmmapPhysical, CallMapPhysical
    <2>3. Devices * PageSize \in 0 .. Word - 1
      BY KernelHalf, PageWord
    <2>. QED  BY <1>0, <1>2, <2>1, <2>2, <2>3, StartRange
  <1>5. CASE CallSpaceAlloc
    <2>1. todo # <<>>
      BY <1>5 DEF CallSpaceAlloc, Begin
    <2>. DEFINE u == Walk(FirstPage * PageSize, Cur.size, {})
    <2>2. w' = [u EXCEPT !.temp = PageNum]
      BY <1>5 DEF CallSpaceAlloc, PageNum
    <2>3. FirstPage * PageSize \in 0 .. Word - 1
      BY KernelHalf, PageWord
    <2>4. FirstPage * PageSize \in Int /\ Cur.size \in Int
      BY <1>0, <1>2, <2>1, <2>3
    <2>5. /\ DOMAIN u = {"page", "off", "size", "flags", "temp", "addr"}
          /\ u.page = PageOf(FirstPage * PageSize) /\ u.off = FirstPage * PageSize % PageSize
          /\ u.size = Cur.size /\ u.addr = FirstPage * PageSize
          /\ PageOf(FirstPage * PageSize) \in 0 .. Pages - 1
          /\ FirstPage * PageSize % PageSize \in 0 .. PageSize - 1
      BY <2>4, StartWalk
    <2>. HIDE DEF u
    <2>6. w'.page = u.page /\ w'.off = u.off /\ w'.size = u.size /\ w'.addr = u.addr
          /\ w'.temp = PageNum
      BY <2>2, <2>5
    <2>. QED  BY <1>2, <1>3, <2>1, <2>3, <2>5, <2>6 DEF WalkRange
  <1>6. CASE CallKmunmap
    <2>1. todo # <<>>
      BY <1>6 DEF CallKmunmap, Begin
    <2>. DEFINE off == Cur.addr % PageSize
    <2>. DEFINE size == UnmapSize(off, Cur.size)
    <2>2. size \in 0 .. Word - 1
      <3>1. off \in Int /\ Cur.size \in Int
        BY <1>0, <1>2, <2>1
      <3>. HIDE DEF off
      <3>2. (Cur.size - (PageSize - off)) % Word \in 0 .. Word - 1
        <4>1. Cur.size - (PageSize - off) \in Int
          BY <1>0, <3>1
        <4>. QED  BY <1>0, <4>1
      <3>. QED  BY <1>2, <2>1, <3>2 DEF UnmapSize
    <2>3. UNCHANGED w \/ w' = Walk(Cur.addr, size, {})
      BY <1>6 DEF CallKmunmap
    <2>. HIDE DEF size
    <2>. QED  BY <1>1, <1>2, <2>1, <2>2, <2>3, StartRange
  <1>7. ASSUME w.page < Kernel * Reach(4), NEW size \in 0 .. Word - 1,
               DOMAIN w' = DOMAIN w, w'.page = w.page + 1, w'.off = 0, w'.size = size,
               w'.addr = w.addr, w'.temp = w.temp
        PROVE  WalkRange'
    BY <1>0, <1>7, KernelHalf DEF WalkRange
  <1>8. CASE KmmapPage \/ PhysicalPage
    <2>1. UNCHANGED w \/ (NextPage /\ ~LastPage /\ w.page < Kernel * Reach(4))
      BY <1>8 DEF KmmapPage, PhysicalPage
    <2>2. ASSUME NextPage, ~LastPage, w.page < Kernel * Reach(4)
          PROVE  WalkRange'
      <3>1. DOMAIN w' = DOMAIN w /\ w'.page = w.page + 1 /\ w'.off = 0
            /\ w'.size = w.size - SpaceLeft /\ w'.addr = w.addr /\ w'.temp = w.temp
        BY <2>2 DEF NextPage, CallInv
      <3>2. w.size - SpaceLeft \in 0 .. Word - 1
        BY <1>0, <2>2 DEF LastPage, SpaceLeft, WalkRange
      <3>. QED  BY <1>7, <2>2, <3>1, <3>2
    <2>. QED  BY <1>1, <2>1, <2>2
  <1>9. ASSUME NEW k \in 1 .. 4, DOMAIN w' = DOMAIN w, w'.page = Bump(w.page, k),
               w'.off = w.off, w'.size \in 0 .. Word - 1, w'.addr = w.addr, w'.temp \in Nat
        PROVE  WalkRange'
    BY <1>9, BumpRange DEF WalkRange
  <1>10. CASE AvailableUsed
    <2>1. w' = [w EXCEPT !.page = Bump(@, 1), !.temp = PageNum] /\ pc \in Loops
      BY <1>10 DEF AvailableUsed
    <2>2. PageNum \in Nat
      BY <1>3, <2>1 DEF CallInv
    <2>3. DOMAIN w' = DOMAIN w /\ w'.page = Bump(w.page, 1) /\ w'.off = w.off
          /\ w'.size = w.size /\ w'.addr = w.addr /\ w'.temp = PageNum
      BY <2>1 DEF CallInv
    <2>. QED  BY <1>9, <2>2, <2>3 DEF WalkRange
  <1>11. CASE AvailableCount
    <2>1. w' = [w EXCEPT !.page = Bump(@, 1), !.temp = @ - 1] /\ w.temp # 0
      BY <1>11 DEF AvailableCount
    <2>3. DOMAIN w' = DOMAIN w /\ w'.page = Bump(w.page, 1) /\ w'.off = w.off
          /\ w'.size = w.size /\ w'.addr = w.addr /\ w'.temp = w.temp - 1
      BY <2>1 DEF CallInv
    <2>4. w.temp - 1 \in Nat
      BY <2>1 DEF WalkRange
    <2>. QED  BY <1>9, <2>3, <2>4 DEF WalkRange
  <1>12. CASE AvailableFound
    <2>1. todo # <<>>
      BY <1>12 DEF AvailableFound, CallInv
    <2>2. PageNum \in Nat /\ w.page \in 0 .. Pages - 1
      BY <1>3, <2>1 DEF WalkRange
    <2>. DEFINE addr == IF Absent(w.page) = {1}
                        THEN (w.page - (PageNum - 1)) * PageSize % Word
                        ELSE w.page * PageSize
    <2>3. addr \in 0 .. Word - 1
      <3>1. (w.page - (PageNum - 1)) * PageSize % Word \in 0 .. Word - 1
        <4>1. w.page - (PageNum - 1) \in Int
          BY <1>0, <2>2
        <4>2. (w.page - (PageNum - 1)) * PageSize \in Int
          BY <4>1, PageOrder
        <4>. QED  BY <1>0, <4>2
      <3>2. w.page * PageSize \in 0 .. Word - 1
        BY <2>2, PageWord
      <3>. QED  BY <3>1, <3>2
    <2>4. UNCHANGED w \/ w' = Walk(addr, Cur.size, convert_to_arch_flags(Cur.flags))
      BY <1>12 DEF AvailableFound
    <2>. HIDE DEF addr
    <2>. QED  BY <1>1, <1>2, <2>1, <2>3, <2>4, StartRange
  <1>13. CASE SearchEmpty
    <2>1. CASE Absent(w.page) = {}
      <3>1. w' = [w EXCEPT !.page = Bump(@, 1)]
        BY <1>13, <2>1 DEF SearchEmpty
      <3>2. DOMAIN w' = DOMAIN w /\ w'.page = Bump(w.page, 1) /\ w'.off = w.off
            /\ w'.size = w.size /\ w'.addr = w.addr /\ w'.temp = w.temp
        BY <3>1 DEF CallInv
      <3>. QED  BY <1>9, <3>2 DEF WalkRange
    <2>2. CASE Absent(w.page) # {}
      <3>1. w' = [w EXCEPT !.addr = w.page * PageSize, !.size = 0]
        BY <1>13, <2>2 DEF SearchEmpty
      <3>2. w'.page = w.page /\ w'.off = w.off /\ w'.temp = w.temp
            /\ w'.size = 0 /\ w'.addr = w.page * PageSize
        BY <3>1 DEF CallInv
      <3>3. w.page * PageSize \in 0 .. Word - 1
        BY PageWord DEF WalkRange
      <3>. QED  BY <1>0, <3>2, <3>3 DEF WalkRange
    <2>. QED  BY <2>1, <2>2
  <1>14. CASE GetSize
    <2>1. todo # <<>>
      BY <1>14 DEF GetSize, CallInv
    <2>2. CASE Absent(w.page) = {}
      <3>1. w' = Walk((w.addr + w.size) % Word, 0, Cur.flags)
        BY <1>14, <2>2 DEF GetSize
      <3>2. (w.addr + w.size) % Word \in 0 .. Word - 1
        BY <1>0 DEF WalkRange
      <3>. QED  BY <1>0, <3>1, <3>2, StartRange
    <2>3. CASE Absent(w.page) # {}
      <3>. DEFINE k == Highest(Absent(w.page))
      <3>. DEFINE size == w.size + Reach(k) * PageSize
      <3>1. k \in 1 .. 4
        BY <2>3, HighestLevel DEF Absent
      <3>2. size \in Nat
        <4>1. Reach(k) \in Nat
          BY <3>1, Constants
        <4>. HIDE DEF k
        <4>2. Reach(k) * PageSize \in Nat
          BY <1>0, <4>1
        <4>. QED  BY <1>0, <4>2 DEF WalkRange
      <3>3. \/ w' = Walk(w.addr, Cur.size, Cur.flags)
            \/ w' = [w EXCEPT !.page = Bump(@, k), !.size = size] /\ ~(size >= Cur.size)
        BY <1>14, <2>3 DEF GetSize
      <3>. HIDE DEF k, size
      <3>4. ASSUME w' = [w EXCEPT !.page = Bump(@, k), !.size = size]
            PROVE  DOMAIN w' = DOMAIN w /\ w'.page = Bump(w.page, k) /\ w'.off = w.off
                   /\ w'.size = size /\ w'.addr = w.addr /\ w'.temp = w.temp
        BY <3>4 DEF CallInv
      <3>5. ~(size >= Cur.size) => size \in 0 .. Word - 1
        BY <1>0, <1>2, <2>1, <3>2
      <3>. QED  BY <1>2, <1>9, <2>1, <3>1, <3>3, <3>4, <3>5, StartRange DEF WalkRange
    <2>. QED  BY <2>2, <2>3
  <1>15. ASSUME NEW size \in 0 .. Word - 1, UnmapNext(size), w.page < Kernel * Reach(4)
         PROVE  WalkRange'
    <2>1. UNCHANGED w \/ w' = [w EXCEPT !.page = @ + 1, !.off = 0, !.size = size]
      BY <1>15 DEF UnmapNext
    <2>2. ASSUME w' = [w EXCEPT !.page = @ + 1, !.off = 0, !.size = size]
          PROVE  DOMAIN w' = DOMAIN w /\ w'.page = w.page + 1 /\ w'.off = 0
                 /\ w'.size = size /\ w'.addr = w.addr /\ w'.temp = w.temp
      BY <2>2 DEF CallInv
    <2>. QED  BY <1>1, <1>7, <1>15, <2>1, <2>2
  <1>16. CASE UnmapPartial
    BY <1>15, <1>16 DEF UnmapPartial, WalkRange
  <1>17. CASE UnmapPage
    <2>. DEFINE size == (w.size - PageSize) % Word
    <2>1. size \in 0 .. Word - 1
      BY <1>0 DEF WalkRange
    <2>2. UNCHANGED w \/ (UnmapNext(size) /\ w.page < Kernel * Reach(4))
      BY <1>17 DEF UnmapPage
    <2>. HIDE DEF size
    <2>. QED  BY <1>1, <1>15, <2>1, <2>2
  <1>18. CASE CheckProtocol \/ Sysret \/ EnterKernelHalf \/ AddTable \/ OutOfFrames
              \/ Spin \/ Rest
    BY <1>1, <1>18 DEF CheckProtocol, Sysret, EnterKernelHalf, AddTable, OutOfFrames,
       Spin, Rest, vars
  <1>. QED
    BY <1>4, <1>5, <1>6, <1>8, <1>10, <1>11, <1>12, <1>13, <1>14, <1>16, <1>17, <1>18
    DEF Next, Move

\* The entries, the locks and the loops.
LEMMA TypeStep ==
  ASSUME TreeInv, TypeOK, LockInv, Next
  PROVE  TypeOK' /\ LockInv'
  <1>0. CallInv /\ NodesInv
    BY DEF TreeInv
  <1>1. WalkRange /\ WalkRange'
    BY <1>0, RangeStep DEF TypeOK, WalkRange
  <1>. DEFINE Entries == \A n \in DOMAIN pt :
                 /\ n[1] \in 1 .. 4 /\ n[2] \in 0 .. Pages \div Reach(n[1]) - 1
                 /\ pt[n].frame \in Frame \cup {Device}
  <1>2. Entries
    BY DEF TypeOK
  <1>3. ASSUME NEW k \in 1 .. 4, NEW f \in Frame \cup {Device},
               pt' = Put(Node(k, w.page), Entry(f))
        PROVE  Entries'
    <2>. DEFINE node == Node(k, w.page)
    <2>1. w.page \in 0 .. Pages - 1 /\ w.page \in Int
      BY <1>1, Constants DEF WalkRange
    <2>2. node[1] \in 1 .. 4 /\ node[2] \in 0 .. Pages \div Reach(node[1]) - 1
      BY <2>1, NodeShape, NodeRange
    <2>3. Entry(f).frame = f
      BY DEF Entry
    <2>4. DOMAIN pt' = DOMAIN pt \cup {node} /\ pt'[node] = Entry(f)
          /\ \A n \in DOMAIN pt : n # node => pt'[n] = pt[n]
      BY <1>3 DEF Put
    <2>. HIDE DEF node
    <2>. QED  BY <1>2, <1>3, <2>2, <2>3, <2>4
  <1>4. Free # {} => get_frame \in Frame \cup {Device}
    BY FreshFrame
  <1>5. ASSUME UNCHANGED pt
        PROVE  Entries'
    BY <1>2, <1>5
  <1>6. CASE AddTable
    <2>1. Highest(Absent(w.page)) \in 1 .. 4
      BY <1>6, HighestLevel DEF AddTable, Absent
    <2>2. Entries'
      BY <1>3, <1>4, <1>6, <2>1 DEF AddTable
    <2>3. UNCHANGED <<lock, pc>>
      BY <1>6 DEF AddTable
    <2>. QED  BY <1>1, <2>2, <2>3 DEF TypeOK, LockInv, WalkRange
  <1>7. CASE KmmapPage
    <2>0. pt' = IF Has(1, w.page) THEN pt ELSE Put(Node(1, w.page), Entry(get_frame))
      BY <1>7 DEF KmmapPage
    <2>1. Has(1, w.page) \/ Free # {}
      BY <1>7 DEF KmmapPage
    <2>2. Entries'
      <3>1. CASE Has(1, w.page)
        BY <1>5, <2>0, <3>1
      <3>2. CASE ~Has(1, w.page)
        BY <1>3, <1>4, <2>0, <2>1, <3>2
      <3>. QED  BY <3>1, <3>2
    <2>3. \/ pc' = "idle" /\ lock' = lock \ Releases
          \/ UNCHANGED <<lock, pc>>
      BY <1>7 DEF KmmapPage, Return
    <2>4. LockInv' /\ pc' \in {"idle", "kmmap"}
      BY <1>7, <2>3 DEF LockInv, Releases, KmmapPage
    <2>. QED  BY <1>1, <2>2, <2>4 DEF TypeOK, WalkRange, LockInv, Loops
  <1>8. CASE PhysicalPage
    <2>1. pt' = Put(Node(1, w.page), Entry(Device))
      BY <1>8 DEF PhysicalPage
    <2>2. Entries'
      BY <1>3, <2>1
    <2>3. pc' \in {"idle", "physical"} /\ UNCHANGED lock /\ pc = "physical"
      BY <1>8 DEF PhysicalPage, Return
    <2>. QED  BY <1>1, <2>2, <2>3 DEF TypeOK, LockInv, WalkRange, Loops
  <1>9. CASE UnmapPage
    <2>1. UNCHANGED pt \/ pt' = [n \in DOMAIN pt \ {Node(1, w.page)} |-> pt[n]]
      BY <1>9 DEF UnmapPage
    <2>2. Entries'
      <3>1. CASE UNCHANGED pt
        BY <1>5, <3>1
      <3>2. CASE pt' = [n \in DOMAIN pt \ {Node(1, w.page)} |-> pt[n]]
        <4>1. DOMAIN pt' = DOMAIN pt \ {Node(1, w.page)} /\ \A n \in DOMAIN pt' : pt'[n] = pt[n]
          BY <3>2
        <4>. QED  BY <1>2, <4>1
      <3>. QED  BY <2>1, <3>1, <3>2
    <2>3. pc' \in {"idle", "unmap", "fault"} /\ UNCHANGED lock /\ pc = "unmap"
      BY <1>9 DEF UnmapPage, UnmapNext, Return
    <2>. QED  BY <1>1, <2>2, <2>3 DEF TypeOK, LockInv, WalkRange, Loops
  <1>10. ASSUME UNCHANGED pt, pc' \in Loops \cup {"idle", "user", "panic", "fault", "kernel_half"},
                LockInv'
         PROVE  TypeOK' /\ LockInv'
    <2>1. Entries'
      BY <1>5, <1>10
    <2>. QED  BY <1>1, <1>10, <2>1 DEF TypeOK, LockInv, WalkRange
  <1>11. CASE CallKmmap \/ CallSpaceAlloc \/ CallMapPhysical \/ CallKmmapPhysical \/ CallKmunmap
              \/ CheckProtocol \/ Sysret
    <2>1. UNCHANGED pt /\ pc = "idle"
      BY <1>11 DEF CallKmmap, CallSpaceAlloc, CallMapPhysical, CallKmmapPhysical, CallKmunmap,
                  CheckProtocol, Sysret, Begin
    <2>2. pc' \in Loops \cup {"idle", "user", "panic"}
      BY <1>11 DEF CallKmmap, CallSpaceAlloc, CallMapPhysical, CallKmmapPhysical, CallKmunmap,
                  CheckProtocol, Sysret, Return, Loops
    <2>3. \/ pc' = "kmmap" /\ lock' = lock \cup {"kmmap"}
          \/ lock' = lock \cup {"space_alloc"}
          \/ lock' = lock
      BY <1>11 DEF CallKmmap, CallSpaceAlloc, CallMapPhysical, CallKmmapPhysical, CallKmunmap,
                  CheckProtocol, Sysret
    <2>. QED  BY <1>10, <2>1, <2>2, <2>3 DEF LockInv
  <1>12. CASE EnterKernelHalf \/ OutOfFrames
    <2>1. UNCHANGED <<pt, lock>> /\ pc' \in {"kernel_half", "panic"}
      BY <1>12 DEF EnterKernelHalf, OutOfFrames
    <2>. QED  BY <1>10, <2>1 DEF LockInv
  <1>13. CASE AvailableUsed \/ AvailableCount \/ AvailableFound \/ SearchEmpty \/ GetSize
              \/ UnmapPartial
    <2>1. UNCHANGED pt /\ pc \in {"available", "empty", "size", "unmap"}
      BY <1>13 DEF AvailableUsed, AvailableCount, AvailableFound, SearchEmpty, GetSize, UnmapPartial
    <2>2. pc' \in Loops \cup {"idle", "fault"}
      <3>1. CASE AvailableUsed \/ AvailableCount
        BY <3>1 DEF AvailableUsed, AvailableCount, Loops
      <3>2. CASE AvailableFound
        BY <3>2 DEF AvailableFound, Loops, Return
      <3>3. CASE SearchEmpty
        BY <3>3 DEF SearchEmpty, Loops
      <3>4. CASE GetSize
        BY <3>4 DEF GetSize, Loops
      <3>5. CASE UnmapPartial
        BY <3>5 DEF UnmapPartial, UnmapNext, Loops
      <3>. QED  BY <1>13, <3>1, <3>2, <3>3, <3>4, <3>5
    <2>3. lock' = lock \/ (pc' = "kmmap" /\ lock' = lock \cup {"kmmap"})
      BY <1>13 DEF AvailableUsed, AvailableCount, AvailableFound, SearchEmpty, GetSize, UnmapPartial
    <2>. QED  BY <1>10, <2>1, <2>2, <2>3 DEF LockInv
  <1>14. CASE UNCHANGED vars
    BY <1>14 DEF vars, TypeOK, LockInv
  <1>. QED
    BY <1>6, <1>7, <1>8, <1>9, <1>11, <1>12, <1>13, <1>14 DEF Next, Move, Spin, Rest

-----------------------------------------------------------------------------
(* The pages of a range of bytes.                                          *)

\* The page of a byte.
LEMMA ByteOfPage ==
  ASSUME NEW p \in Int, NEW x \in Int, p * PageSize <= x, x < (p + 1) * PageSize
  PROVE  x \div PageSize = p
  <1>1. PageSize \in Nat \ {0}
    BY Constants
  <1>2. (p + 1) * PageSize = p * PageSize + PageSize /\ p * PageSize \in Int
    <2>1. (p + 1) * PageSize = p * PageSize + 1 * PageSize
      BY PageOrder
    <2>. QED  BY <1>1, <2>1, PageOrder
  <1>3. \A m \in Nat \ {0} : \A y, r \in Int : y = m * p + r /\ 0 <= r /\ r < m => y \div m = p
    OBVIOUS
  <1>4. PICK r \in Int : r = x - p * PageSize
    BY <1>2
  <1>5. PageSize * p = p * PageSize
    BY <1>1
  <1>6. x = PageSize * p + r /\ 0 <= r /\ r < PageSize
    BY <1>1, <1>2, <1>4, <1>5
  <1>. QED  BY <1>1, <1>3, <1>6

\* The address that the indices and the offset of a word make.
LEMMA LowByte ==
  ASSUME NEW a \in Int
  PROVE  /\ PageOf(a) \in 0 .. Pages - 1 /\ a % PageSize \in 0 .. PageSize - 1
         /\ PageOf(a) \in Int /\ a % PageSize \in Int /\ Low(a) \in Int
         /\ PageOf(a) * PageSize \in Int
         /\ Low(a) = PageOf(a) * PageSize + (a % PageSize)
         /\ (PageOf(a) + 1) * PageSize = PageOf(a) * PageSize + PageSize
         /\ PageOf(a) * PageSize <= Low(a) /\ Low(a) < PageOf(a) * PageSize + PageSize
         /\ Low(a) \div PageSize = PageOf(a)
  <1>1. PageSize \in Nat \ {0} /\ Pages \in Nat \ {0}
    BY Constants
  <1>2. PageOf(a) \in 0 .. Pages - 1 /\ a % PageSize \in 0 .. PageSize - 1
    BY <1>1, StartWalk
  <1>3. PageOf(a) \in Int /\ a % PageSize \in Int
    BY <1>1, <1>2
  <1>4. PageOf(a) * PageSize \in Int
        /\ (PageOf(a) + 1) * PageSize = PageOf(a) * PageSize + 1 * PageSize
    BY <1>3, PageOrder
  <1>5. (PageOf(a) + 1) * PageSize = PageOf(a) * PageSize + PageSize
    BY <1>1, <1>4
  <1>6. Low(a) \in Int /\ PageOf(a) * PageSize <= Low(a)
        /\ Low(a) < PageOf(a) * PageSize + PageSize
    BY <1>1, <1>2, <1>3, <1>4 DEF Low
  <1>7. Low(a) \div PageSize = PageOf(a)
    BY <1>3, <1>5, <1>6, ByteOfPage
  <1>. QED  BY <1>2, <1>3, <1>4, <1>5, <1>6, <1>7 DEF Low

\* A new entry of a page adds the page, one of a table adds none.
LEMMA PutLeaves ==
  ASSUME NEW p \in Int, NEW k \in 1 .. 4, NEW e, pt' = Put(Node(k, p), e)
  PROVE  /\ Leaves(pt') = Leaves(pt) \cup (IF k = 1 THEN {p} ELSE {})
         /\ Node(k, p) \notin DOMAIN pt => \A n \in DOMAIN pt : n \in DOMAIN pt' /\ pt'[n] = pt[n]
  <1>. DEFINE node == Node(k, p)
  <1>1. node[1] = k /\ (k = 1 => node[2] = p)
    <2>1. Reach(1) = 1 /\ p \div 1 = p
      BY Constants
    <2>. QED  BY <2>1, NodeShape
  <1>2. DOMAIN pt' = DOMAIN pt \cup {node} /\ \A n \in DOMAIN pt : n # node => pt'[n] = pt[n]
    BY DEF Put
  <1>. HIDE DEF node
  <1>3. Leaves(pt') = Leaves(pt) \cup (IF k = 1 THEN {p} ELSE {})
    <2>1. CASE k = 1
      <3>1. Leaves(pt') \subseteq Leaves(pt) \cup {p}
        BY <1>1, <1>2, <2>1 DEF Leaves
      <3>2. Leaves(pt) \subseteq Leaves(pt')
        BY <1>2 DEF Leaves
      <3>3. p \in Leaves(pt')
        <4>1. node \in {m \in DOMAIN pt' : m[1] = 1}
          BY <1>1, <1>2, <2>1
        <4>. QED  BY <1>1, <2>1, <4>1 DEF Leaves
      <3>. QED  BY <2>1, <3>1, <3>2, <3>3
    <2>2. CASE k # 1
      <3>1. {m \in DOMAIN pt' : m[1] = 1} = {m \in DOMAIN pt : m[1] = 1}
        BY <1>1, <1>2, <2>2
      <3>. QED  BY <2>2, <3>1 DEF Leaves
    <2>. QED  BY <2>1, <2>2
  <1>. QED  BY <1>2, <1>3 DEF node

\* A page whose entry goes is the only one that goes.
LEMMA CutLeaves ==
  ASSUME NodesInv, NEW p \in Int, pt' = [n \in DOMAIN pt \ {Node(1, p)} |-> pt[n]]
  PROVE  Leaves(pt') = Leaves(pt) \ {p}
  <1>. DEFINE node == Node(1, p)
  <1>1. node[1] = 1 /\ node[2] = p /\ node = <<1, p>>
    <2>1. Reach(1) = 1 /\ p \div 1 = p
      BY Constants
    <2>. QED  BY <2>1 DEF Node
  <1>2. DOMAIN pt' = DOMAIN pt \ {node}
    OBVIOUS
  <1>. HIDE DEF node
  <1>3. \A m \in DOMAIN pt : m[1] = 1 /\ m[2] = p => m = node
    BY <1>1 DEF NodesInv
  <1>4. Leaves(pt') \subseteq Leaves(pt) \ {p}
    <2>. SUFFICES ASSUME NEW m \in DOMAIN pt', m[1] = 1
                  PROVE  m[2] \in Leaves(pt) /\ m[2] # p
      BY DEF Leaves
    <2>. QED  BY <1>2, <1>3 DEF Leaves
  <1>5. Leaves(pt) \ {p} \subseteq Leaves(pt')
    <2>. SUFFICES ASSUME NEW m \in DOMAIN pt, m[1] = 1, m[2] # p
                  PROVE  m[2] \in Leaves(pt')
      BY DEF Leaves
    <2>1. m \in {x \in DOMAIN pt' : x[1] = 1}
      BY <1>1, <1>2
    <2>. QED  BY <2>1 DEF Leaves
  <1>. QED  BY <1>4, <1>5

\* A page that has an entry is a leaf.
LEMMA HasLeaf ==
  ASSUME NEW p \in Int, Has(1, p)
  PROVE  p \in Leaves(pt)
  <1>1. Node(1, p)[1] = 1 /\ Node(1, p)[2] = p
    <2>1. Reach(1) = 1 /\ p \div 1 = p
      BY Constants
    <2>. QED  BY <2>1 DEF Node
  <1>2. Node(1, p) \in {m \in DOMAIN pt : m[1] = 1}
    BY <1>1 DEF Has
  <1>. QED  BY <1>1, <1>2 DEF Leaves

-----------------------------------------------------------------------------
(* What has returned.                                                      *)

DoneInv == KmmapMaps /\ AllocMaps /\ UnmapsRange

\* Nothing is claimed while a call is on its way.
LEMMA Underway ==
  ASSUME pc # "idle"
  PROVE  DoneInv
  BY DEF DoneInv, KmmapMaps, AllocMaps, UnmapsRange, Done

\* The result of the call that returns.
LEMMA ReturnDone ==
  ASSUME IsSequence(res), NEW v, Return(v)
  PROVE  /\ IsSequence(res)'
         /\ Call' = Cur /\ Ret' = v
         /\ \A op : Done(op)' <=> Cur.op = op
  <1>1. /\ IsSequence(res') /\ Len(res') = Len(res) + 1 /\ Len(res) \in Nat
        /\ res'[Len(res) + 1] = [call |-> Cur, ret |-> v] /\ res' # <<>>
    BY Longer DEF Return
  <1>2. res'[Len(res')] = [call |-> Cur, ret |-> v]
    BY <1>1
  <1>3. pc' = "idle"
    BY DEF Return
  <1>. QED  BY <1>1, <1>2, <1>3 DEF Call, Ret, Done, IsSequence

\* The last page of a range of bytes.
LEMMA LastOfRange ==
  ASSUME NEW a \in Int, NEW size \in Nat, NEW p \in Int, NEW off \in Nat, NEW left \in Nat,
         p * PageSize + off + left = Low(a) + size,
         \/ p = PageOf(a) /\ off = a % PageSize
         \/ p > PageOf(a) /\ off = 0 /\ left > 0,
         off + left <= PageSize
  PROVE  PagesOf(Low(a), size) = PageOf(a) .. p
  <1>1. PageSize \in Nat \ {0} /\ p * PageSize \in Int
    BY Constants, PageOrder
  <1>2. (p + 1) * PageSize = p * PageSize + PageSize
    <2>1. (p + 1) * PageSize = p * PageSize + 1 * PageSize
      BY PageOrder
    <2>. QED  BY <1>1, <2>1
  <1>3. PICK b \in Int : b = PageOf(a)
    BY LowByte
  <1>4. PICK l \in Int : l = Low(a)
    BY LowByte
  <1>5. PICK first \in Int : first = b * PageSize
    BY PageOrder
  <1>6. PICK this \in Int : this = p * PageSize
    BY <1>1
  <1>7. first <= l /\ l < first + PageSize /\ l \div PageSize = b /\ l = first + (a % PageSize)
    BY <1>3, <1>4, <1>5, LowByte
  <1>8. p > b => first + PageSize <= this
    <2>1. (b + 1) * PageSize = b * PageSize + 1 * PageSize
      BY PageOrder
    <2>2. b + 1 <= p => (b + 1) * PageSize <= p * PageSize
      BY PageOrder
    <2>. QED  BY <1>1, <1>5, <1>6, <2>1, <2>2
  <1>9. this + off + left = l + size
    BY <1>4, <1>6
  <1>10. \/ p = b /\ this = first
         \/ p > b /\ off = 0 /\ left > 0
    BY <1>3, <1>5, <1>6
  <1>11. CASE size = 0
    <2>1. p = b
      BY <1>1, <1>7, <1>8, <1>9, <1>10, <1>11
    <2>. QED  BY <1>3, <1>4, <1>7, <1>11, <2>1 DEF PagesOf
  <1>12. CASE size # 0
    <2>1. PICK x \in Int : x = l + size - 1
      OBVIOUS
    <2>2. this <= x /\ x < this + PageSize
      BY <1>1, <1>7, <1>8, <1>9, <1>10, <1>12, <2>1
    <2>3. x \div PageSize = p
      BY <1>2, <1>6, <2>2, ByteOfPage
    <2>. QED  BY <1>3, <1>4, <1>7, <1>12, <2>1, <2>3 DEF PagesOf
  <1>. QED  BY <1>11, <1>12

\* A page that kmmap maps, and the end of its walk.
LEMMA KmmapPageStep ==
  ASSUME IInv, KmmapPage
  PROVE  IsSequence(res)' /\ MappedInv' /\ UnmappedInv' /\ DoneInv'
  <1>1. PICK p \in 0 .. Pages - 1 : p = w.page
    BY DEF IInv, TypeOK
  <1>2. PICK off \in 0 .. PageSize - 1 : off = w.off
    BY DEF IInv, TypeOK
  <1>3. PICK left \in 0 .. Word - 1 : left = w.size
    BY DEF IInv, TypeOK
  <1>4. PICK a \in 0 .. Word - 1 : a = w.addr
    BY DEF IInv, TypeOK
  <1>5. /\ PageSize \in Nat \ {0} /\ p \in Int /\ off \in Nat /\ left \in Nat /\ a \in Int
    BY Constants
  <1>6. pc = "kmmap" /\ todo # <<>> /\ DOMAIN w = {"page", "off", "size", "flags", "temp", "addr"}
    BY LoopNames DEF KmmapPage, IInv, TreeInv, CallInv
  <1>7. PICK size \in Nat : size = Cur.size
    <2>1. Cur.size \in 0 .. Word - 1
      BY <1>6, CurrentCall DEF IInv, TreeInv
    <2>. QED  BY <2>1, Constants
  <1>8. /\ \/ Cur.op = "kmmap" /\ a = Cur.addr
           \/ Cur.op = "space_alloc" /\ a # 0
        /\ p * PageSize + off + left = Low(a) + size
        /\ \/ p = PageOf(a) /\ off = a % PageSize
           \/ p > PageOf(a) /\ off = 0 /\ left > 0
        /\ Adds(PageOf(a) .. p - 1)
    <2>1. MappedInv
      BY DEF IInv
    <2>2. /\ \/ Cur.op = "kmmap" /\ w.addr = Cur.addr
             \/ Cur.op = "space_alloc" /\ w.addr # 0
          /\ w.page * PageSize + w.off + w.size = Low(w.addr) + Cur.size
          /\ \/ w.page = PageOf(w.addr) /\ w.off = w.addr % PageSize
             \/ w.page > PageOf(w.addr) /\ w.off = 0 /\ w.size > 0
          /\ Adds(PageOf(w.addr) .. w.page - 1)
      BY <1>6, <2>1 DEF MappedInv
    <2>. QED  BY <1>1, <1>2, <1>3, <1>4, <1>7, <2>2
  <1>9. PageOf(a) \in Int /\ PageOf(a) <= p
    <2>1. PageOf(a) \in Int
      BY <1>5, LowByte
    <2>. QED  BY <1>5, <1>8, <2>1
  <1>10. pre' = pre /\ pt' = IF Has(1, w.page) THEN pt ELSE Put(Node(1, w.page), Entry(get_frame))
    BY DEF KmmapPage
  <1>11. Leaves(pt') = Leaves(pt) \cup {p} /\ \A n \in DOMAIN pt : n \in DOMAIN pt' /\ pt'[n] = pt[n]
    <2>1. CASE Has(1, w.page)
      BY <1>1, <1>5, <1>10, <2>1, HasLeaf
    <2>2. CASE ~Has(1, w.page)
      <3>1. Node(1, p) \notin DOMAIN pt /\ pt' = Put(Node(1, p), Entry(get_frame))
        BY <1>1, <1>10, <2>2 DEF Has
      <3>. HIDE DEF Entry
      <3>. QED  BY <1>5, <3>1, PutLeaves
    <2>. QED  BY <2>1, <2>2
  <1>12. (PageOf(a) .. p - 1) \cup {p} = PageOf(a) .. p
    BY <1>5, <1>9
  <1>13. PICK b \in Int : b = PageOf(a)
    BY <1>9
  <1>14. Adds(b .. p)'
    <2>1. Leaves(pt') = Leaves(pre) \cup (b .. p)
      BY <1>8, <1>11, <1>12, <1>13 DEF Adds
    <2>2. \A n \in DOMAIN pre : n \in DOMAIN pt' /\ pt'[n] = pre[n]
      BY <1>8, <1>11 DEF Adds
    <2>. QED  BY <1>10, <2>1, <2>2 DEF Adds
  <1>15. CASE LastPage
    <2>1. Return(w.addr) /\ lock' = lock \ Releases
      BY <1>15 DEF KmmapPage
    <2>2. /\ IsSequence(res)' /\ Call' = Cur /\ Ret' = a
          /\ \A op : Done(op)' <=> Cur.op = op
      BY <1>4, <2>1, ReturnDone DEF IInv
    <2>3. off + left <= PageSize
      BY <1>2, <1>3, <1>5, <1>15 DEF LastPage, SpaceLeft
    <2>4. PagesOf(Low(a), size) = b .. p
      BY <1>5, <1>8, <1>13, <2>3, LastOfRange
    <2>5. KmmapMaps'
      <3>. SUFFICES ASSUME Cur.op = "kmmap"
                    PROVE  Adds(PagesOf(Low(Call.addr), Call.size))' /\ lock' \subseteq {"space_alloc"}
        BY <2>2 DEF KmmapMaps
      <3>1. a = Cur.addr
        BY <1>8
      <3>2. lock' \subseteq {"space_alloc"}
        BY <2>1 DEF IInv, LockInv, Releases
      <3>3. PagesOf(Low(Call.addr), Call.size)' = b .. p
        BY <1>7, <2>2, <2>4, <3>1
      <3>. QED  BY <1>14, <3>2, <3>3 DEF Adds
    <2>6. AllocMaps'
      <3>. SUFFICES ASSUME Cur.op = "space_alloc"
                    PROVE  Adds(PagesOf(Low(Ret), Call.size))' /\ lock' = {}
        BY <2>2 DEF AllocMaps
      <3>2. lock' = {}
        BY <2>1 DEF IInv, LockInv, Releases
      <3>3. PagesOf(Low(Ret), Call.size)' = b .. p
        BY <1>7, <2>2, <2>4
      <3>. QED  BY <1>14, <3>2, <3>3 DEF Adds
    <2>7. UnmapsRange'
      BY <1>8, <2>2 DEF UnmapsRange
    <2>8. pc' = "idle"
      BY <2>1 DEF Return
    <2>. QED  BY <2>2, <2>5, <2>6, <2>7, <2>8 DEF DoneInv, MappedInv, UnmappedInv
  <1>16. CASE ~LastPage
    <2>1. NextPage /\ UNCHANGED <<lock, todo, pc, res>>
      BY <1>16 DEF KmmapPage
    <2>2. w'.page = p + 1 /\ w'.off = 0 /\ w'.size = left - (PageSize - off) /\ w'.addr = a
      BY <1>1, <1>2, <1>3, <1>4, <1>6, <2>1 DEF NextPage, SpaceLeft
    <2>3. left - (PageSize - off) > 0
      BY <1>2, <1>3, <1>5, <1>16 DEF LastPage, SpaceLeft
    <2>4. (p + 1) * PageSize = p * PageSize + PageSize /\ p * PageSize \in Int
      <3>1. (p + 1) * PageSize = p * PageSize + 1 * PageSize
        BY <1>5, PageOrder
      <3>. QED  BY <1>5, <3>1, PageOrder
    <2>5. (p + 1) * PageSize + 0 + (left - (PageSize - off)) = Low(a) + size
      BY <1>5, <1>8, <2>4
    <2>6. Cur' = Cur
      BY <2>1 DEF Cur
    <2>7. p + 1 > b /\ (p + 1) - 1 = p
      BY <1>5, <1>9, <1>13
    <2>8. MappedInv'
      <3>1. (Cur.op = "kmmap" /\ w.addr = Cur.addr)' \/ (Cur.op = "space_alloc" /\ w.addr # 0)'
        BY <1>8, <2>2, <2>6
      <3>2. (w.page * PageSize + w.off + w.size = Low(w.addr) + Cur.size)'
        BY <1>7, <2>2, <2>5, <2>6
      <3>3. (w.page > PageOf(w.addr) /\ w.off = 0 /\ w.size > 0)'
        BY <1>13, <2>2, <2>3, <2>7
      <3>4. Adds(PageOf(w.addr) .. w.page - 1)'
        BY <1>13, <1>14, <2>2, <2>7 DEF Adds
      <3>5. pc' = "kmmap"
        BY <1>6, <2>1
      <3>. QED  BY <3>1, <3>2, <3>3, <3>4, <3>5 DEF MappedInv
    <2>9. pc' = "kmmap" /\ IsSequence(res)'
      BY <1>6, <2>1 DEF IInv, IsSequence
    <2>. QED  BY <2>8, <2>9, Underway DEF UnmappedInv, DoneInv, KmmapMaps, AllocMaps, UnmapsRange, Done
  <1>. QED  BY <1>15, <1>16

-----------------------------------------------------------------------------
(* kmunmap.                                                                *)

\* A number with a remainder below the divisor.
LEMMA Remainder ==
  ASSUME NEW m \in Nat \ {0}, NEW y \in Int, NEW z \in 0 .. m - 1, NEW x \in Int, x = m * y + z
  PROVE  x % m = z
  OBVIOUS

\* The bytes from an address to the end of its page.
LEMMA ToPageEnd ==
  ASSUME NEW a \in Int
  PROVE  (-a) % PageSize = IF a % PageSize = 0 THEN 0 ELSE PageSize - (a % PageSize)
  <1>1. PageSize \in Nat \ {0}
    BY Constants
  <1>2. PICK q \in Int : q = a \div PageSize
    BY <1>1
  <1>3. PICK r \in 0 .. PageSize - 1 : r = a % PageSize
    BY <1>1
  <1>4. a = PageSize * q + r
    BY <1>1, <1>2, <1>3
  <1>5. CASE r = 0
    <2>1. -a = PageSize * (-q) + 0 /\ -q \in Int /\ -a \in Int
      BY <1>1, <1>4, <1>5
    <2>2. 0 \in 0 .. PageSize - 1
      BY <1>1
    <2>3. PICK x \in Int : x = -a
      BY <2>1
    <2>4. PICK y \in Int : y = -q
      BY <2>1
    <2>5. x = PageSize * y + 0
      BY <2>1, <2>3, <2>4
    <2>6. x % PageSize = 0
      BY ONLY <1>1, <2>2, <2>5, Remainder
    <2>. QED  BY <1>3, <1>5, <2>3, <2>6
  <1>6. CASE r # 0
    <2>0. PICK s \in 0 .. PageSize - 1 : s = PageSize - r
      BY <1>1, <1>6
    <2>1. -a = PageSize * (-q - 1) + s /\ -q - 1 \in Int /\ -a \in Int
      BY <1>1, <1>4, <2>0
    <2>2. PICK x \in Int : x = -a
      BY <2>1
    <2>3. PICK y \in Int : y = -q - 1
      BY <2>1
    <2>4. x = PageSize * y + s
      BY <2>1, <2>2, <2>3
    <2>5. x % PageSize = s
      BY ONLY <1>1, <2>4, Remainder
    <2>. QED  BY <1>3, <1>6, <2>0, <2>2, <2>5
  <1>. QED  BY <1>5, <1>6

\* A range that ends behind the page p and before the end of the next one.
LEMMA InsideRange ==
  ASSUME NEW p \in 0 .. Pages - 1, NEW left \in Nat, NEW low \in Int, NEW size \in Int,
         p * PageSize + left = low + size, low <= p * PageSize,
         PageSize <= left, left < PageSize + PageSize
  PROVE  Inside(low, size) = {q \in 0 .. p - 1 : low <= q * PageSize} \cup {p}
  <1>1. PageSize \in Nat \ {0} /\ p \in Int /\ Pages \in Nat
    BY Constants
  <1>2. PICK this \in Int : this = p * PageSize
    BY <1>1, PageOrder
  <1>3. \A q \in Int : (q + 1) * PageSize <= low + size <=> q <= p
    <2>. SUFFICES ASSUME NEW q \in Int
                  PROVE  (q + 1) * PageSize <= low + size <=> q <= p
      OBVIOUS
    <2>0. q + 1 \in Int
      OBVIOUS
    <2>1. PICK end \in Int : end = (q + 1) * PageSize
      BY <2>0, PageOrder
    <2>2. (p + 1) * PageSize = this + PageSize /\ (p + 2) * PageSize = this + PageSize + PageSize
      <3>1. (p + 1) * PageSize = p * PageSize + 1 * PageSize
        BY <1>1, PageOrder
      <3>2. (p + 2) * PageSize = p * PageSize + 2 * PageSize
        BY <1>1, PageOrder
      <3>. QED  BY <1>1, <1>2, <3>1, <3>2
    <2>3. q <= p => end <= this + PageSize
      <3>1. q <= p => (q + 1) * PageSize <= (p + 1) * PageSize
        <4>1. q + 1 \in Int /\ p + 1 \in Int /\ (q <= p => q + 1 <= p + 1)
          BY <1>1
        <4>. QED  BY <4>1, PageOrder
      <3>. QED  BY <2>1, <2>2, <3>1
    <2>4. p < q => this + PageSize + PageSize <= end
      <3>1. p < q => (p + 2) * PageSize <= (q + 1) * PageSize
        <4>1. q + 1 \in Int /\ p + 2 \in Int /\ (p < q => p + 2 <= q + 1)
          BY <1>1
        <4>. QED  BY <4>1, PageOrder
      <3>. QED  BY <2>1, <2>2, <3>1
    <2>5. this + left = low + size
      BY <1>2
    <2>. QED  BY <1>1, <2>1, <2>3, <2>4, <2>5
  <1>4. Inside(low, size) = {q \in 0 .. Pages - 1 : low <= q * PageSize /\ q <= p}
    BY <1>1, <1>3 DEF Inside
  <1>. QED  BY <1>1, <1>4

\* A range that begins behind the page before p and ends before the end of p.
LEMMA InsideNone ==
  ASSUME NEW p \in Int, NEW left \in Nat, NEW low \in Int, NEW size \in Int,
         p * PageSize + left = low + size, p * PageSize < low + PageSize, left < PageSize
  PROVE  Inside(low, size) = {}
  <1>1. PageSize \in Nat \ {0} /\ Pages \in Nat
    BY Constants
  <1>2. PICK this \in Int : this = p * PageSize
    BY PageOrder
  <1>3. ASSUME NEW q \in Int, low <= q * PageSize, (q + 1) * PageSize <= low + size
        PROVE  FALSE
    <2>1. PICK begin \in Int : begin = q * PageSize
      BY PageOrder
    <2>2. (q + 1) * PageSize = begin + PageSize
      <3>1. (q + 1) * PageSize = q * PageSize + 1 * PageSize
        BY PageOrder
      <3>. QED  BY <1>1, <2>1, <3>1
    <2>3. this < begin + PageSize
      BY <1>1, <1>2, <1>3, <2>1
    <2>4. p * PageSize < (q + 1) * PageSize
      BY <1>2, <2>2, <2>3
    <2>5. p < q + 1
      BY <2>4, PageOrder
    <2>6. p * PageSize <= q * PageSize
      BY <2>5, PageOrder
    <2>7. this <= begin /\ begin + PageSize <= this + left
      BY <1>2, <1>3, <2>1, <2>2, <2>6
    <2>. QED  BY <1>1, <2>7
  <1>4. \A q \in 0 .. Pages - 1 :
          ~(low <= q * PageSize /\ (q + 1) * PageSize <= low + size)
    <2>. SUFFICES ASSUME NEW q \in 0 .. Pages - 1,
                         low <= q * PageSize, (q + 1) * PageSize <= low + size
                  PROVE  FALSE
      OBVIOUS
    <2>1. q \in Int
      BY <1>1
    <2>. QED  BY <1>3, <2>1
  <1>. QED  BY <1>4 DEF Inside

\* What a step of kmunmap is about.
LEMMA UnmapFacts ==
  ASSUME IInv, pc = "unmap"
  PROVE  /\ todo # <<>> /\ Cur.op = "kmunmap" /\ w.addr = Cur.addr
         /\ Cur.addr \in Int /\ Cur.size \in Nat
         /\ w.page \in 0 .. Pages - 1 /\ w.page \in Int /\ w.off \in Nat /\ w.size \in 0 .. Word - 1
         /\ w.size \in Nat
         /\ DOMAIN w = {"page", "off", "size", "flags", "temp", "addr"}
  <1>1. todo # <<>> /\ DOMAIN w = {"page", "off", "size", "flags", "temp", "addr"}
    BY LoopNames DEF IInv, TreeInv, CallInv
  <1>2. Cur.addr \in 0 .. Word - 1 /\ Cur.size \in 0 .. Word - 1
    BY <1>1, CurrentCall DEF IInv, TreeInv
  <1>3. Cur.op = "kmunmap" /\ w.addr = Cur.addr
    BY DEF IInv, UnmappedInv
  <1>4. w.page \in 0 .. Pages - 1 /\ w.off \in 0 .. PageSize - 1 /\ w.size \in 0 .. Word - 1
    BY DEF IInv, TypeOK
  <1>. QED  BY <1>1, <1>2, <1>3, <1>4, Constants

\* The steps after which nothing is claimed.
LEMMA Elsewhere ==
  ASSUME IsSequence(res), UNCHANGED res, pc' \in {"user", "panic", "fault", "kernel_half"}
  PROVE  IsSequence(res)' /\ MappedInv' /\ UnmappedInv' /\ DoneInv'
  BY DEF IsSequence, MappedInv, UnmappedInv, DoneInv, KmmapMaps, AllocMaps, UnmapsRange, Done

\* The turn of kmunmap from a page to the next one.
LEMMA UnmapTurn ==
  ASSUME IInv, pc = "unmap", NEW size \in Nat, UnmapNext(size), UNCHANGED pre,
         Cur.size >= (-Cur.addr) % PageSize =>
            /\ size >= PageSize
            /\ (w.page + 1) * PageSize + size = Low(Cur.addr) + Cur.size
            /\ Low(Cur.addr) <= (w.page + 1) * PageSize
            /\ Leaves(pt') = Leaves(pre) \ {p \in 0 .. w.page : Low(Cur.addr) <= p * PageSize}
  PROVE  IsSequence(res)' /\ MappedInv' /\ UnmappedInv' /\ DoneInv'
  <1>1. CASE (w.page + 1) % N = 0
    <2>1. pc' = "fault" /\ UNCHANGED res
      BY <1>1 DEF UnmapNext
    <2>. QED  BY <2>1, Elsewhere DEF IInv
  <1>2. CASE (w.page + 1) % N # 0
    <2>1. w' = [w EXCEPT !.page = @ + 1, !.off = 0, !.size = size] /\ UNCHANGED <<todo, pc, res>>
      BY <1>2 DEF UnmapNext
    <2>2. w'.page = w.page + 1 /\ w'.off = 0 /\ w'.size = size /\ w'.addr = w.addr
      BY <2>1, UnmapFacts
    <2>3. Cur' = Cur /\ pc' = "unmap" /\ w.page + 1 - 1 = w.page
      BY <2>1, UnmapFacts DEF Cur
    <2>4. Cur.op = "kmunmap" /\ w.addr = Cur.addr
      BY UnmapFacts
    <2>5. UnmappedInv'
      <3>1. (Cur.op = "kmunmap" /\ w.addr = Cur.addr)'
        BY <2>2, <2>3, <2>4
      <3>2. ASSUME Cur.size >= (-Cur.addr) % PageSize
            PROVE  /\ (w.size >= PageSize)' /\ (w.off = 0)'
                   /\ (w.page * PageSize + w.size = Low(Cur.addr) + Cur.size)'
                   /\ (Low(Cur.addr) <= w.page * PageSize)'
                   /\ (Leaves(pt) = Leaves(pre)
                         \ {p \in 0 .. w.page - 1 : Low(Cur.addr) <= p * PageSize})'
        <4>1. /\ size >= PageSize
              /\ (w.page + 1) * PageSize + size = Low(Cur.addr) + Cur.size
              /\ Low(Cur.addr) <= (w.page + 1) * PageSize
              /\ Leaves(pt') = Leaves(pre) \ {p \in 0 .. w.page : Low(Cur.addr) <= p * PageSize}
          BY <3>2
        <4>2. (w.size >= PageSize)' /\ (w.off = 0)'
          BY <2>2, <4>1
        <4>3. (w.page * PageSize + w.size = Low(Cur.addr) + Cur.size)'
          BY <2>2, <2>3, <4>1
        <4>4. (Low(Cur.addr) <= w.page * PageSize)'
          BY <2>2, <2>3, <4>1
        <4>5. (Leaves(pt) = Leaves(pre)
                  \ {p \in 0 .. w.page - 1 : Low(Cur.addr) <= p * PageSize})'
          <5>1. PICK last : last = w.page
            OBVIOUS
          <5>2. PICK low : low = Low(Cur.addr)
            OBVIOUS
          <5>3. Leaves(pt') = Leaves(pre) \ {p \in 0 .. last : low <= p * PageSize}
            BY <4>1, <5>1, <5>2
          <5>4. w'.page - 1 = last
            BY <2>2, <5>1, UnmapFacts
          <5>6. Low(Cur'.addr) = low
            BY <2>3, <5>2
          <5>5. pre' = pre
            OBVIOUS
          <5>. QED  BY <5>3, <5>4, <5>5, <5>6
        <4>. QED  BY <4>2, <4>3, <4>4, <4>5
      <3>3. (Cur.size >= (-Cur.addr) % PageSize)' => Cur.size >= (-Cur.addr) % PageSize
        BY <2>3
      <3>. QED  BY <2>3, <3>1, <3>2, <3>3 DEF UnmappedInv
    <2>6. IsSequence(res)'
      BY <2>1 DEF IInv, IsSequence
    <2>. QED
      BY <2>3, <2>5, <2>6 DEF MappedInv, DoneInv, KmmapMaps, AllocMaps, UnmapsRange, Done
  <1>. QED  BY <1>1, <1>2

\* A whole page that is freed.
LEMMA UnmapPageStep ==
  ASSUME IInv, UnmapPage
  PROVE  IsSequence(res)' /\ MappedInv' /\ UnmappedInv' /\ DoneInv'
  <1>1. pc = "unmap" /\ w.off = 0 /\ pre' = pre
    BY DEF UnmapPage
  <1>2. CASE Absent(w.page) \ {1} # {}
    <2>1. pc' = "fault" /\ UNCHANGED res
      BY <1>2 DEF UnmapPage
    <2>. QED  BY <2>1, Elsewhere DEF IInv
  <1>3. CASE Absent(w.page) \ {1} = {}
    <2>1. PICK p \in 0 .. Pages - 1 : p = w.page
      BY <1>1, UnmapFacts
    <2>2. PICK left \in 0 .. Word - 1 : left = w.size
      BY <1>1, UnmapFacts
    <2>3. PICK a \in Int : a = Cur.addr
      BY <1>1, UnmapFacts
    <2>4. PICK total \in Nat : total = Cur.size
      BY <1>1, UnmapFacts
    <2>5. PICK low \in Int : low = Low(a)
      BY LowByte
    <2>6. /\ PageSize \in Nat \ {0} /\ Word \in Nat \ {0} /\ p \in Int /\ 0 <= p /\ left \in Nat
      BY Constants
    <2>7. PICK this \in Int : this = p * PageSize
      BY <2>6, PageOrder
    <2>8. (p + 1) * PageSize = this + PageSize
      <3>1. (p + 1) * PageSize = p * PageSize + 1 * PageSize
        BY <2>6, PageOrder
      <3>. QED  BY <2>6, <2>7, <3>1
    <2>9. PICK size \in 0 .. Word - 1 : size = (left - PageSize) % Word
      BY <2>6
    <2>10. Leaves(pt') = Leaves(pt) \ {p}
      <3>1. pt' = [n \in DOMAIN pt \ {Node(1, p)} |-> pt[n]]
        BY <1>3, <2>1 DEF UnmapPage
      <3>. QED  BY <2>6, <3>1, CutLeaves DEF IInv, TreeInv
    <2>11. IF size < PageSize THEN Return(0) ELSE UnmapNext(size)
      BY <1>3, <2>2, <2>9 DEF UnmapPage
    <2>12. ASSUME total >= (-a) % PageSize
           PROVE  /\ left >= PageSize /\ this + left = low + total /\ low <= this
                  /\ size = left - PageSize
                  /\ Leaves(pt') = Leaves(pre) \ ({q \in 0 .. p - 1 : low <= q * PageSize} \cup {p})
      <3>1. UnmappedInv
        BY DEF IInv
      <3>2. /\ w.size >= PageSize /\ w.page * PageSize + w.size = Low(Cur.addr) + Cur.size
            /\ Low(Cur.addr) <= w.page * PageSize
            /\ Leaves(pt) =
                 Leaves(pre) \ {q \in 0 .. w.page - 1 : Low(Cur.addr) <= q * PageSize}
        BY <1>1, <2>3, <2>4, <2>12, <3>1 DEF UnmappedInv
      <3>3. left >= PageSize /\ this + left = low + total /\ low <= this
        BY <2>1, <2>2, <2>3, <2>4, <2>5, <2>7, <3>2
      <3>4. Leaves(pt) = Leaves(pre) \ {q \in 0 .. p - 1 : low <= q * PageSize}
        BY <2>1, <2>3, <2>5, <3>2
      <3>5. size = left - PageSize
        <4>1. left - PageSize \in 0 .. Word - 1
          BY <2>6, <3>3
        <4>2. \A x \in 0 .. Word - 1 : x % Word = x
          BY <2>6
        <4>. QED  BY <2>9, <4>1, <4>2
      <3>. QED  BY <2>10, <3>3, <3>4, <3>5
    <2>13. CASE size < PageSize
      <3>1. Return(0)
        BY <2>11, <2>13
      <3>2. /\ IsSequence(res)' /\ Call' = Cur /\ pc' = "idle"
            /\ \A op : Done(op)' <=> Cur.op = op
        BY <3>1, ReturnDone DEF IInv, Return
      <3>3. Cur.op = "kmunmap"
        BY <1>1, UnmapFacts
      <3>4. ASSUME total >= (-a) % PageSize
            PROVE  Leaves(pt') = Leaves(pre) \ Inside(low, total)
        <4>1. left < PageSize + PageSize
          BY <2>6, <2>12, <2>13, <3>4
        <4>2. Inside(low, total) = {q \in 0 .. p - 1 : low <= q * PageSize} \cup {p}
          BY <2>6, <2>7, <2>12, <3>4, <4>1, InsideRange, SMTT(20)
        <4>. QED  BY <2>12, <3>4, <4>2
      <3>5. UnmapsRange'
        <4>1. Call'.size = total /\ Call'.addr = a /\ Low(Call'.addr) = low
          BY <2>3, <2>4, <2>5, <3>2
        <4>. QED  BY <1>1, <3>4, <4>1 DEF UnmapsRange
      <3>. QED
        BY <3>2, <3>3, <3>5 DEF MappedInv, UnmappedInv, DoneInv, KmmapMaps, AllocMaps
    <2>14. CASE ~(size < PageSize)
      <3>1. UnmapNext(size) /\ size \in Nat
        BY <2>6, <2>11, <2>14
      <3>2. ASSUME total >= (-a) % PageSize
            PROVE  /\ size >= PageSize
                   /\ (p + 1) * PageSize + size = low + total
                   /\ low <= (p + 1) * PageSize
                   /\ Leaves(pt') = Leaves(pre) \ {q \in 0 .. p : low <= q * PageSize}
        <4>1. {q \in 0 .. p : low <= q * PageSize} = {q \in 0 .. p - 1 : low <= q * PageSize} \cup {p}
          BY <2>6, <2>7, <2>12, <3>2
        <4>2. size >= PageSize
          BY <2>6, <2>14
        <4>. QED  BY <2>6, <2>8, <2>12, <3>2, <4>1, <4>2
      <3>3. Cur.size >= (-Cur.addr) % PageSize =>
              /\ size >= PageSize
              /\ (w.page + 1) * PageSize + size = Low(Cur.addr) + Cur.size
              /\ Low(Cur.addr) <= (w.page + 1) * PageSize
              /\ Leaves(pt') = Leaves(pre) \ {q \in 0 .. w.page : Low(Cur.addr) <= q * PageSize}
        BY <2>1, <2>3, <2>4, <2>5, <3>2
      <3>. QED  BY <1>1, <3>1, <3>3, UnmapTurn
    <2>. QED  BY <2>13, <2>14
  <1>. QED  BY <1>2, <1>3

\* The first page when the range does not begin with it.
LEMMA UnmapPartialStep ==
  ASSUME IInv, UnmapPartial
  PROVE  IsSequence(res)' /\ MappedInv' /\ UnmappedInv' /\ DoneInv'
  <1>1. pc = "unmap" /\ w.off # 0 /\ UNCHANGED <<pt, pre>> /\ UnmapNext(w.size)
    BY DEF UnmapPartial
  <1>2. PICK p \in 0 .. Pages - 1 : p = w.page
    BY <1>1, UnmapFacts
  <1>3. PICK left \in Nat : left = w.size
    BY <1>1, UnmapFacts
  <1>4. PICK a \in Int : a = Cur.addr
    BY <1>1, UnmapFacts
  <1>5. PICK low \in Int : low = Low(a)
    BY LowByte
  <1>6. PageSize \in Nat \ {0} /\ p \in Int /\ 0 <= p
    BY Constants
  <1>7. ASSUME Cur.size >= (-Cur.addr) % PageSize
        PROVE  /\ left >= PageSize
               /\ (p + 1) * PageSize + left = low + Cur.size
               /\ low <= (p + 1) * PageSize
               /\ Leaves(pt') = Leaves(pre) \ {q \in 0 .. p : low <= q * PageSize}
    <2>1. UnmappedInv
      BY DEF IInv
    <2>2. /\ w.size >= PageSize /\ (w.page + 1) * PageSize + w.size = Low(Cur.addr) + Cur.size
          /\ w.page = PageOf(Cur.addr) /\ w.off = Cur.addr % PageSize
          /\ Leaves(pt) =
               Leaves(pre) \ {q \in 0 .. w.page - 1 : Low(Cur.addr) <= q * PageSize}
      BY <1>1, <1>7, <2>1 DEF UnmappedInv
    <2>3. left >= PageSize /\ (p + 1) * PageSize + left = low + Cur.size
      BY <1>2, <1>3, <1>4, <1>5, <2>2
    <2>4. Leaves(pt) = Leaves(pre) \ {q \in 0 .. p - 1 : low <= q * PageSize}
      BY <1>2, <1>4, <1>5, <2>2
    <2>5. p = PageOf(a) /\ a % PageSize # 0
      BY <1>1, <1>2, <1>4, <2>2
    <2>6. low <= (p + 1) * PageSize /\ p * PageSize < low
      <3>1. /\ PageOf(a) * PageSize \in Int /\ Low(a) = PageOf(a) * PageSize + (a % PageSize)
            /\ (PageOf(a) + 1) * PageSize = PageOf(a) * PageSize + PageSize
            /\ a % PageSize \in 0 .. PageSize - 1
        BY LowByte
      <3>2. /\ p * PageSize \in Int /\ low = p * PageSize + (a % PageSize)
            /\ (p + 1) * PageSize = p * PageSize + PageSize
        BY <1>5, <2>5, <3>1
      <3>3. PICK this \in Int : this = p * PageSize
        BY <3>2
      <3>4. PICK off \in 0 .. PageSize - 1 : off = a % PageSize
        BY <3>1
      <3>5. low = this + off /\ (p + 1) * PageSize = this + PageSize /\ off # 0
        BY <2>5, <3>2, <3>3, <3>4
      <3>. QED  BY <1>6, <3>3, <3>5
    <2>7. {q \in 0 .. p : low <= q * PageSize} = {q \in 0 .. p - 1 : low <= q * PageSize}
      <3>1. ~(low <= p * PageSize)
        <4>1. p * PageSize \in Int
          BY <1>6, PageOrder
        <4>. QED  BY <2>6, <4>1
      <3>. QED  BY <1>6, <3>1
    <2>. QED  BY <1>1, <2>3, <2>4, <2>6, <2>7
  <1>8. Cur.size >= (-Cur.addr) % PageSize =>
          /\ w.size >= PageSize
          /\ (w.page + 1) * PageSize + w.size = Low(Cur.addr) + Cur.size
          /\ Low(Cur.addr) <= (w.page + 1) * PageSize
          /\ Leaves(pt') = Leaves(pre) \ {q \in 0 .. w.page : Low(Cur.addr) <= q * PageSize}
    BY <1>2, <1>3, <1>4, <1>5, <1>7
  <1>9. w.size \in Nat
    BY <1>3
  <1>. QED  BY <1>1, <1>8, <1>9, UnmapTurn

\* The start of kmunmap, or its early return.
LEMMA CallKmunmapStep ==
  ASSUME IInv, CallKmunmap
  PROVE  IsSequence(res)' /\ MappedInv' /\ UnmappedInv' /\ DoneInv'
  <1>1. todo # <<>> /\ Cur.op = "kmunmap" /\ pre' = pt /\ pt' = pt
    BY DEF CallKmunmap, Begin
  <1>2. Cur.addr \in 0 .. Word - 1 /\ Cur.size \in 0 .. Word - 1
    BY <1>1, CurrentCall DEF IInv, TreeInv
  <1>3. PageSize \in Nat \ {0} /\ Word \in Nat \ {0}
    BY Constants
  <1>4. PICK a \in Int : a = Cur.addr
    BY <1>2, <1>3
  <1>5. PICK total \in Nat : total = Cur.size
    BY <1>2, <1>3
  <1>6. PICK off \in 0 .. PageSize - 1 : off = a % PageSize
    BY LowByte
  <1>7. PICK p \in 0 .. Pages - 1 : p = PageOf(a)
    BY LowByte
  <1>8. p \in Int /\ 0 <= p
    BY Constants
  <1>9. PICK low \in Int : low = Low(a)
    BY LowByte
  <1>10. PICK this \in Int : this = p * PageSize
    BY <1>8, PageOrder
  <1>11. low = this + off /\ (p + 1) * PageSize = this + PageSize
    BY <1>6, <1>7, <1>9, <1>10, LowByte
  <1>12. PICK size : size = UnmapSize(off, total)
    OBVIOUS
  <1>13. ASSUME total >= (-a) % PageSize
         PROVE  IF off = 0 THEN size = total /\ this + size = low + total
                ELSE /\ size = total - (PageSize - off) /\ size >= 0
                     /\ this + PageSize + size = low + total
    <2>1. CASE off = 0
      BY <1>11, <1>12, <2>1 DEF UnmapSize
    <2>2. CASE off # 0
      <3>1. total >= PageSize - off
        BY <1>6, <1>13, <2>2, ToPageEnd
      <3>2. total - (PageSize - off) \in 0 .. Word - 1
        BY <1>2, <1>3, <1>5, <3>1
      <3>3. \A x \in 0 .. Word - 1 : x % Word = x
        BY <1>3
      <3>4. size = total - (PageSize - off)
        BY <1>12, <2>2, <3>2, <3>3 DEF UnmapSize
      <3>. QED  BY <1>3, <1>11, <2>2, <3>1, <3>4
    <2>. QED  BY <2>1, <2>2
  <1>14. IF size <= PageSize - 1 \/ size <= off
         THEN Return(0)
         ELSE pc' = "unmap" /\ w' = Walk(a, size, {}) /\ UNCHANGED <<todo, res>>
    BY <1>4, <1>5, <1>6, <1>12 DEF CallKmunmap
  <1>15. CASE size <= PageSize - 1 \/ size <= off
    <2>1. /\ IsSequence(res)' /\ Call' = Cur /\ pc' = "idle"
          /\ \A op : Done(op)' <=> Cur.op = op
      BY <1>14, <1>15, ReturnDone DEF IInv, Return
    <2>2. ASSUME total >= (-a) % PageSize
          PROVE  Inside(low, total) = {}
      <3>1. CASE off = 0
        <4>1. total < PageSize
          BY <1>3, <1>13, <1>15, <2>2, <3>1
        <4>2. p * PageSize + total = low + total /\ p * PageSize < low + PageSize
          BY <1>3, <1>10, <1>11, <3>1
        <4>. QED  BY <1>8, <4>1, <4>2, InsideNone
      <3>2. CASE off # 0
        <4>1. PICK left \in Nat : left = total - (PageSize - off)
          BY <1>3, <1>13, <2>2, <3>2
        <4>2. left < PageSize
          BY <1>3, <1>13, <1>15, <2>2, <3>2, <4>1
        <4>3. (p + 1) * PageSize + left = low + total /\ (p + 1) * PageSize < low + PageSize
          BY <1>3, <1>11, <3>2, <4>1
        <4>4. p + 1 \in Int
          BY <1>8
        <4>. QED  BY <4>1, <4>2, <4>3, <4>4, InsideNone
      <3>. QED  BY <3>1, <3>2
    <2>3. UnmapsRange'
      <3>1. Call'.size = total /\ Call'.addr = a /\ Low(Call'.addr) = low
        BY <1>4, <1>5, <1>9, <2>1
      <3>2. pt' = pre'
        BY <1>1
      <3>. QED  BY <2>2, <3>1, <3>2 DEF UnmapsRange
    <2>. QED
      BY <1>1, <2>1, <2>3 DEF MappedInv, UnmappedInv, DoneInv, KmmapMaps, AllocMaps
  <1>16. CASE ~(size <= PageSize - 1 \/ size <= off)
    <2>1. pc' = "unmap" /\ w' = Walk(a, size, {}) /\ UNCHANGED <<todo, res>>
      BY <1>14, <1>16
    <2>2. Cur' = Cur
      BY <2>1 DEF Cur
    <2>3. w'.page = p /\ w'.off = off /\ w'.size = size /\ w'.addr = a
      BY <1>6, <1>7, <2>1 DEF Walk
    <2>4. ASSUME total >= (-a) % PageSize
          PROVE  /\ size >= PageSize
                 /\ IF off = 0 THEN p * PageSize + size = low + total /\ low <= p * PageSize
                    ELSE (p + 1) * PageSize + size = low + total
                 /\ {q \in 0 .. p - 1 : low <= q * PageSize} = {}
      <3>1. \A q \in 0 .. p - 1 : ~(low <= q * PageSize)
        <4>. SUFFICES ASSUME NEW q \in 0 .. p - 1
                      PROVE  ~(low <= q * PageSize)
          OBVIOUS
        <4>1. q \in Int /\ q < p
          BY <1>8
        <4>2. q * PageSize < p * PageSize
          BY <1>8, <4>1, PageOrder
        <4>3. PICK begin \in Int : begin = q * PageSize
          BY <4>1, PageOrder
        <4>. QED  BY <1>3, <1>6, <1>10, <1>11, <4>2, <4>3
      <3>2. size \in Int
        BY <1>3, <1>13, <2>4
      <3>3. size >= PageSize
        BY <1>3, <1>16, <3>2
      <3>4. IF off = 0 THEN p * PageSize + size = low + total /\ low <= p * PageSize
            ELSE (p + 1) * PageSize + size = low + total
        BY <1>10, <1>11, <1>13, <2>4
      <3>. QED  BY <3>1, <3>3, <3>4
    <2>5. UnmappedInv'
      <3>1. (Cur.op = "kmunmap" /\ w.addr = Cur.addr)'
        BY <1>1, <1>4, <2>2, <2>3
      <3>2. ASSUME (Cur.size >= (-Cur.addr) % PageSize)'
            PROVE  (/\ w.size >= PageSize
                    /\ IF w.off = 0
                       THEN /\ w.page * PageSize + w.size = Low(Cur.addr) + Cur.size
                            /\ Low(Cur.addr) <= w.page * PageSize
                       ELSE /\ (w.page + 1) * PageSize + w.size = Low(Cur.addr) + Cur.size
                            /\ w.page = PageOf(Cur.addr) /\ w.off = Cur.addr % PageSize)'
        BY <1>4, <1>5, <1>6, <1>7, <1>9, <2>2, <2>3, <2>4, <3>2
      <3>3. ASSUME (Cur.size >= (-Cur.addr) % PageSize)'
            PROVE  (Leaves(pt) = Leaves(pre)
                      \ {q \in 0 .. w.page - 1 : Low(Cur.addr) <= q * PageSize})'
        <4>1. {q \in 0 .. w'.page - 1 : Low(Cur'.addr) <= q * PageSize} = {}
          BY <1>4, <1>5, <1>9, <2>2, <2>3, <2>4, <3>3
        <4>2. pt' = pre'
          BY <1>1
        <4>. QED  BY <4>1, <4>2
      <3>. QED  BY <2>1, <3>1, <3>2, <3>3 DEF UnmappedInv
    <2>6. IsSequence(res)'
      BY <2>1 DEF IInv, IsSequence
    <2>. QED
      BY <2>1, <2>5, <2>6 DEF MappedInv, DoneInv, KmmapMaps, AllocMaps, UnmapsRange, Done
  <1>. QED  BY <1>15, <1>16

-----------------------------------------------------------------------------
(* The other steps.                                                        *)

\* The start of kmmap's walk at an address, nothing mapped yet.
LEMMA StartMapped ==
  ASSUME IInv, NEW a \in Int, NEW f, pc' = "kmmap", w' = Walk(a, Cur.size, f), todo' = todo,
         pt' = pre', UNCHANGED res, Cur.size \in Nat,
         \/ Cur.op = "kmmap" /\ a = Cur.addr
         \/ Cur.op = "space_alloc" /\ a # 0
  PROVE  IsSequence(res)' /\ MappedInv' /\ UnmappedInv' /\ DoneInv'
  <1>1. w'.page = PageOf(a) /\ w'.off = a % PageSize /\ w'.size = Cur.size /\ w'.addr = a
    BY DEF Walk
  <1>2. Cur' = Cur
    BY DEF Cur
  <1>3. PICK b \in Int : b = PageOf(a)
    BY LowByte
  <1>4. PICK size \in Nat : size = Cur.size
    OBVIOUS
  <1>5. b * PageSize + (a % PageSize) + size = Low(a) + size
    BY <1>3, LowByte
  <1>6. (w.page * PageSize + w.off + w.size = Low(w.addr) + Cur.size)'
    BY <1>1, <1>2, <1>3, <1>4, <1>5
  <1>7. Adds(PageOf(w.addr) .. w.page - 1)'
    <2>1. b .. b - 1 = {}
      OBVIOUS
    <2>2. PageOf(w'.addr) .. w'.page - 1 = {}
      BY <1>1, <1>3, <2>1
    <2>3. Leaves(pt') = Leaves(pre') \cup {} /\ \A n \in DOMAIN pre' : n \in DOMAIN pt' /\ pt'[n] = pre'[n]
      OBVIOUS
    <2>. QED  BY <2>2, <2>3 DEF Adds
  <1>8. (\/ Cur.op = "kmmap" /\ w.addr = Cur.addr
         \/ Cur.op = "space_alloc" /\ w.addr # 0)'
    BY <1>1, <1>2
  <1>9. (w.page = PageOf(w.addr) /\ w.off = w.addr % PageSize)'
    BY <1>1
  <1>10. MappedInv'
    BY <1>6, <1>7, <1>8, <1>9 DEF MappedInv
  <1>11. IsSequence(res)'
    BY DEF IInv, IsSequence
  <1>. QED
    BY <1>10, <1>11 DEF UnmappedInv, DoneInv, KmmapMaps, AllocMaps, UnmapsRange, Done

\* A return that maps nothing.
LEMMA ReturnNothing ==
  ASSUME IInv, NEW v, Return(v),
         \/ Cur.op \in {"check", "map_physical", "kmmap_physical"}
         \/ Cur.op = "space_alloc" /\ v = 0
  PROVE  IsSequence(res)' /\ MappedInv' /\ UnmappedInv' /\ DoneInv'
  <1>1. /\ IsSequence(res)' /\ Ret' = v /\ pc' = "idle"
        /\ \A op : Done(op)' <=> Cur.op = op
    BY ReturnDone DEF IInv, Return
  <1>. QED
    BY <1>1 DEF MappedInv, UnmappedInv, DoneInv, KmmapMaps, AllocMaps, UnmapsRange

\* The turns of the searches and of kmmap_physical.
LEMMA Searching ==
  ASSUME IInv, UNCHANGED <<todo, res>>, pc' \in {"available", "empty", "size", "physical"},
         pc' = "available" => pt' = pre' /\ Cur.op = "space_alloc",
         pc' # "available" => Cur.op \in {"map_physical", "kmmap_physical"}
  PROVE  IsSequence(res)' /\ MappedInv' /\ UnmappedInv' /\ DoneInv'
  <1>1. Cur' = Cur
    BY DEF Cur
  <1>2. MappedInv'
    BY <1>1 DEF MappedInv
  <1>3. IsSequence(res)'
    BY DEF IInv, IsSequence
  <1>. QED
    BY <1>2, <1>3 DEF UnmappedInv, DoneInv, KmmapMaps, AllocMaps, UnmapsRange, Done

\* A table on the way to a page of kmmap: no page is mapped by it.
LEMMA AddTableStep ==
  ASSUME IInv, AddTable
  PROVE  IsSequence(res)' /\ MappedInv' /\ UnmappedInv' /\ DoneInv'
  <1>1. pc \in {"kmmap", "physical"} /\ UNCHANGED <<lock, todo, pc, w, pre, res>>
    BY DEF AddTable
  <1>2. Cur' = Cur /\ IsSequence(res)'
    BY <1>1 DEF Cur, IInv, IsSequence
  <1>3. CASE pc = "physical"
    <2>1. Cur.op \in {"map_physical", "kmmap_physical"}
      BY <1>3 DEF IInv, MappedInv
    <2>. QED  BY <1>1, <1>3, <2>1, Searching
  <1>4. CASE pc = "kmmap"
    <2>1. PICK k \in 1 .. 4 : /\ k # 1 /\ Node(k, w.page) \notin DOMAIN pt
                              /\ k < 4 => Has(k + 1, w.page)
                              /\ pt' = Put(Node(k, w.page), Entry(get_frame))
      BY NewTable
    <2>2. w.page \in Int
      BY DEF IInv, TreeInv, CallInv
    <2>3. Leaves(pt') = Leaves(pt) /\ \A n \in DOMAIN pt : n \in DOMAIN pt' /\ pt'[n] = pt[n]
      BY <2>1, <2>2, PutLeaves
    <2>4. MappedInv
      BY DEF IInv
    <2>5. Adds(PageOf(w.addr) .. w.page - 1)
      BY <1>4, <2>4 DEF MappedInv
    <2>6. Adds(PageOf(w.addr) .. w.page - 1)'
      BY <1>1, <2>3, <2>5 DEF Adds
    <2>7. MappedInv'
      <3>1. (/\ \/ Cur.op = "kmmap" /\ w.addr = Cur.addr
                \/ Cur.op = "space_alloc" /\ w.addr # 0
             /\ w.page * PageSize + w.off + w.size = Low(w.addr) + Cur.size
             /\ \/ w.page = PageOf(w.addr) /\ w.off = w.addr % PageSize
                \/ w.page > PageOf(w.addr) /\ w.off = 0 /\ w.size > 0)'
        BY <1>1, <1>2, <1>4, <2>4 DEF MappedInv
      <3>. QED  BY <1>1, <1>4, <2>6, <3>1 DEF MappedInv
    <2>. QED
      BY <1>1, <1>2, <1>4, <2>7 DEF UnmappedInv, DoneInv, KmmapMaps, AllocMaps, UnmapsRange, Done
  <1>. QED  BY <1>1, <1>3, <1>4

\* Every step keeps what kmmap, space_alloc and kmunmap have done so far.
LEMMA RangesStep ==
  ASSUME IInv, Next
  PROVE  IsSequence(res)' /\ MappedInv' /\ UnmappedInv' /\ DoneInv'
  <1>1. CASE CallKmmap
    <2>1. /\ todo # <<>> /\ Cur.op = "kmmap" /\ pc' = "kmmap" /\ pt' = pre' /\ todo' = todo
          /\ res' = res /\ w' = Walk(Cur.addr, Cur.size, Cur.flags)
      BY <1>1 DEF CallKmmap, Begin
    <2>2. Cur.addr \in Int /\ Cur.size \in Nat
      <3>1. Cur.addr \in 0 .. Word - 1 /\ Cur.size \in 0 .. Word - 1
        BY <2>1, CurrentCall DEF IInv, TreeInv
      <3>. QED  BY <3>1, Constants
    <2>. QED  BY <2>1, <2>2, StartMapped
  <1>2. CASE CallSpaceAlloc
    <2>1. UNCHANGED <<todo, res>> /\ pc' = "available" /\ pt' = pre' /\ Cur.op = "space_alloc"
      BY <1>2 DEF CallSpaceAlloc, Begin
    <2>. QED  BY <2>1, Searching
  <1>3. CASE CallMapPhysical \/ CallKmmapPhysical
    <2>1. UNCHANGED <<todo, res>> /\ pc' \in {"empty", "physical"}
          /\ Cur.op \in {"map_physical", "kmmap_physical"}
      BY <1>3 DEF CallMapPhysical, CallKmmapPhysical, Begin
    <2>. QED  BY <2>1, Searching
  <1>4. CASE CheckProtocol
    <2>1. Cur.op = "check" /\ (Return(0) \/ (pc' = "panic" /\ UNCHANGED res))
      BY <1>4 DEF CheckProtocol, Begin
    <2>. QED  BY <2>1, ReturnNothing, Elsewhere DEF IInv
  <1>5. CASE Sysret \/ EnterKernelHalf \/ OutOfFrames
    <2>1. UNCHANGED res /\ pc' \in {"user", "kernel_half", "panic"}
      BY <1>5 DEF Sysret, EnterKernelHalf, OutOfFrames
    <2>. QED  BY <2>1, Elsewhere DEF IInv
  <1>6. CASE PhysicalPage
    <2>1. pc = "physical" /\ (Return(w.addr) \/ UNCHANGED <<todo, pc, res>>)
      BY <1>6 DEF PhysicalPage
    <2>2. Cur.op \in {"map_physical", "kmmap_physical"}
      BY <2>1 DEF IInv, MappedInv
    <2>. QED  BY <2>1, <2>2, ReturnNothing, Searching
  <1>7. CASE AvailableUsed \/ AvailableCount
    <2>1. UNCHANGED <<pt, pre, todo, res>> /\ pc = "available" /\ pc' = "available"
      BY <1>7 DEF AvailableUsed, AvailableCount
    <2>2. pt = pre /\ Cur.op = "space_alloc"
      BY <2>1 DEF IInv, MappedInv
    <2>. QED  BY <2>1, <2>2, Searching
  <1>8. CASE AvailableFound
    <2>1. UNCHANGED <<pt, pre>> /\ pc = "available"
      BY <1>8 DEF AvailableFound
    <2>2. pt = pre /\ Cur.op = "space_alloc" /\ todo # <<>>
      BY <2>1, LoopNames DEF IInv, MappedInv, TreeInv, CallInv
    <2>3. Cur.size \in 0 .. Word - 1 /\ w.page \in 0 .. Pages - 1
      BY <2>2, CurrentCall DEF IInv, TreeInv, TypeOK
    <2>4. PageSize \in Nat \ {0} /\ Word \in Nat \ {0} /\ Cur.size \in Nat /\ w.page \in Int
      BY <2>3, Constants
    <2>. DEFINE addr == IF Absent(w.page) = {1}
                        THEN (w.page - (PageNum - 1)) * PageSize % Word
                        ELSE w.page * PageSize
    <2>5. addr \in Int
      <3>1. PageNum \in Int
        BY <2>4 DEF PageNum
      <3>2. w.page - (PageNum - 1) \in Int
        BY <2>4, <3>1
      <3>3. (w.page - (PageNum - 1)) * PageSize \in Int /\ w.page * PageSize \in Int
        BY <2>4, <3>2, PageOrder
      <3>. QED  BY <2>4, <3>3
    <2>6. \/ addr = 0 /\ Return(0)
          \/ /\ addr # 0 /\ pc' = "kmmap" /\ UNCHANGED <<todo, res>>
             /\ w' = Walk(addr, Cur.size, convert_to_arch_flags(Cur.flags))
      BY <1>8 DEF AvailableFound
    <2>. HIDE DEF addr
    <2>. QED  BY <2>1, <2>2, <2>4, <2>5, <2>6, ReturnNothing, StartMapped
  <1>9. CASE SearchEmpty \/ GetSize
    <2>1. pc \in {"empty", "size"} /\ UNCHANGED <<todo, res>>
      BY <1>9 DEF SearchEmpty, GetSize
    <2>2. pc' \in {"empty", "size", "physical"}
      <3>1. CASE SearchEmpty
        BY <3>1 DEF SearchEmpty
      <3>2. CASE GetSize
        BY <3>2 DEF GetSize
      <3>. QED  BY <1>9, <3>1, <3>2
    <2>3. Cur.op \in {"map_physical", "kmmap_physical"}
      BY <2>1 DEF IInv, MappedInv
    <2>. QED  BY <2>1, <2>2, <2>3, Searching
  <1>10. CASE UNCHANGED vars
    BY <1>10 DEF vars, IInv, IsSequence, MappedInv, UnmappedInv, DoneInv, KmmapMaps, AllocMaps,
       UnmapsRange, Adds, Done, Call, Ret, Cur
  <1>. QED
    BY <1>1, <1>2, <1>3, <1>4, <1>5, <1>6, <1>7, <1>8, <1>9, <1>10, AddTableStep,
       KmmapPageStep, CallKmunmapStep, UnmapPartialStep, UnmapPageStep
    DEF Next, Move, Spin, Rest

\* The initial address space: the page directory, and no call made.
LEMMA RangesInit ==
  ASSUME Init
  PROVE  IInv
  <1>0. PageSize \in Nat \ {0} /\ Word \in Nat \ {0} /\ Pages \in Nat \ {0} /\ N \in Nat \ {0, 1}
    BY Constants
  <1>1. TreeInv
    BY TreeInit
  <1>2. /\ pc = "idle" /\ res = <<>> /\ lock = {} /\ w = Walk(0, 0, {})
        /\ DOMAIN pt = {<<4, Kernel>>} /\ pt[<<4, Kernel>>].frame = 1
    BY DEF Init
  <1>3. 0 \in 0 .. Word - 1 /\ 0 \in Int
    BY <1>0
  <1>4. /\ w.page \in 0 .. Pages - 1 /\ w.off \in 0 .. PageSize - 1
        /\ w.size \in 0 .. Word - 1 /\ w.addr \in 0 .. Word - 1 /\ w.temp \in Nat
    <2>1. w.page = PageOf(0) /\ w.off = 0 % PageSize /\ w.size = 0 /\ w.addr = 0 /\ w.temp = 0
      BY <1>2 DEF Walk
    <2>2. PageOf(0) \in 0 .. Pages - 1 /\ 0 % PageSize \in 0 .. PageSize - 1
      BY <1>3, LowByte
    <2>. QED  BY <1>3, <2>1, <2>2
  <1>5. Kernel \in 0 .. Pages \div Reach(4) - 1
    <2>1. (N * Reach(4)) \div Reach(4) = N
      <3>1. Reach(4) \in Nat \ {0} /\ 0 \in 0 .. N * Reach(4) - 1
        <4>1. \A x, y \in Nat \ {0} : x * y \in Nat \ {0}
          OBVIOUS
        <4>2. Reach(4) \in Nat \ {0} /\ N * Reach(4) \in Nat \ {0}
          BY <1>0, <4>1, Constants
        <4>. QED  BY <4>2
      <3>. QED  BY <1>0, <3>1, EntryRange
    <2>. QED  BY <1>0, <2>1 DEF Pages, Kernel
  <1>6. 1 \in Frame
    BY VmmAssumption DEF Frame
  <1>7. TypeOK
    BY <1>2, <1>4, <1>5, <1>6 DEF TypeOK
  <1>8. IsSequence(res)
    <2>1. <<>> \in Seq({})
      OBVIOUS
    <2>. QED  BY <1>2, <2>1, OwnElements
  <1>. QED
    BY <1>1, <1>2, <1>7, <1>8 DEF IInv, LockInv, MappedInv, UnmappedInv, KmmapMaps, AllocMaps,
       UnmapsRange, Done

-----------------------------------------------------------------------------
(* The searches: entries and tables.                                       *)

\* The pages under an entry are whole entries of each lower level.
LEMMA ReachParts ==
  ASSUME NEW k \in 1 .. 4, NEW j \in 1 .. k
  PROVE  \E c \in Nat \ {0} : Reach(k) = c * Reach(j)
  <1>1. /\ N \in Nat \ {0} /\ N * N \in Nat \ {0} /\ N * N * N \in Nat \ {0}
        /\ N * N * N = (N * N) * N /\ N * N * N = N * (N * N)
    <2>1. N \in Nat \ {0}
      BY Constants
    <2>2. \A a, b \in Nat \ {0} : a * b \in Nat \ {0}
      OBVIOUS
    <2>3. N * N \in Nat \ {0}
      BY <2>1, <2>2
    <2>4. (N * N) * N \in Nat \ {0}
      BY <2>1, <2>2, <2>3
    <2>. QED  BY <2>1, <2>3, <2>4
  <1>2. Reach(1) = 1 /\ Reach(2) = N /\ Reach(3) = N * N /\ Reach(4) = N * N * N
    BY Constants
  <1>3. CASE j = k
    <2>1. Reach(k) \in Nat /\ Reach(k) = 1 * Reach(j)
      BY <1>3, Constants
    <2>. QED  BY <2>1
  <1>4. CASE j = 1
    <2>1. Reach(k) \in Nat \ {0} /\ Reach(k) = Reach(k) * Reach(j)
      BY <1>2, <1>4, Constants
    <2>. QED  BY <2>1
  <1>5. CASE j = 2 /\ k = 3
    BY <1>1, <1>2, <1>5
  <1>6. CASE j = 2 /\ k = 4
    <2>1. Reach(k) = (N * N) * Reach(j)
      BY <1>1, <1>2, <1>6
    <2>. QED  BY <1>1, <2>1
  <1>7. CASE j = 3 /\ k = 4
    <2>1. Reach(k) = N * Reach(j)
      BY <1>1, <1>2, <1>7
    <2>. QED  BY <1>1, <2>1
  <1>8. \/ j = k \/ j = 1 \/ (j = 2 /\ k = 3) \/ (j = 2 /\ k = 4) \/ (j = 3 /\ k = 4)
    OBVIOUS
  <1>. QED  BY <1>3, <1>4, <1>5, <1>6, <1>7, <1>8

\* Two pages under one entry are under one entry of each higher level.
LEMMA SameEntry ==
  ASSUME NEW p \in Int, NEW q \in Int, NEW j \in 1 .. 4, NEW k \in j .. 4,
         p \div Reach(j) = q \div Reach(j)
  PROVE  p \div Reach(k) = q \div Reach(k) /\ Node(k, p) = Node(k, q)
  <1>1. k \in 1 .. 4 /\ j \in 1 .. k
    OBVIOUS
  <1>2. PICK c \in Nat \ {0} : Reach(k) = c * Reach(j)
    BY <1>1, ReachParts
  <1>3. Reach(j) \in Nat \ {0} /\ c * Reach(j) = Reach(j) * c
    BY Constants
  <1>4. (p \div Reach(j)) \div c = p \div Reach(k) /\ (q \div Reach(j)) \div c = q \div Reach(k)
    BY <1>2, <1>3, DivDiv
  <1>. QED  BY <1>4 DEF Node

\* The entries above one that is there are there.
LEMMA Above ==
  ASSUME TreeOK, NEW p \in Int, NEW j \in 1 .. 4, NEW k \in j .. 4, Has(j, p)
  PROVE  Has(k, p)
  <1>1. \A i \in 1 .. 3 : Has(i, p) => Has(i + 1, p)
    <2>. SUFFICES ASSUME NEW i \in 1 .. 3, Has(i, p)
                  PROVE  Has(i + 1, p)
      OBVIOUS
    <2>1. Node(i, p) \in DOMAIN pt /\ Node(i, p)[1] = i
          /\ <<Node(i, p)[1] + 1, Node(i, p)[2] \div N>> = Node(i + 1, p)
      BY ParentNode DEF Has
    <2>2. \A n \in DOMAIN pt : n[1] < 4 => <<n[1] + 1, n[2] \div N>> \in DOMAIN pt
      BY DEF TreeOK
    <2>3. Node(i, p)[1] < 4
      BY <2>1
    <2>4. Node(i + 1, p) \in DOMAIN pt
      BY <2>1, <2>2, <2>3
    <2>. QED  BY <2>4 DEF Has
  <1>2. (Has(1, p) => Has(2, p)) /\ (Has(2, p) => Has(3, p)) /\ (Has(3, p) => Has(4, p))
    <2>1. Has(1, p) => Has(1 + 1, p)
      BY <1>1
    <2>2. Has(2, p) => Has(2 + 1, p)
      BY <1>1
    <2>3. Has(3, p) => Has(3 + 1, p)
      BY <1>1
    <2>. QED  BY <2>1, <2>2, <2>3
  <1>3. \/ j = k \/ (j = 1 /\ k \in {2, 3, 4}) \/ (j = 2 /\ k \in {3, 4}) \/ (j = 3 /\ k = 4)
    OBVIOUS
  <1>. QED  BY <1>2, <1>3

\* A page in use has its entry and the entries above it.
LEMMA LeafPath ==
  ASSUME TreeOK, NodesInv, NEW p \in Leaves(pt)
  PROVE  p \in Int /\ Has(1, p) /\ Absent(p) = {}
  <1>1. PICK n \in DOMAIN pt : n[1] = 1 /\ n[2] = p
    BY DEF Leaves
  <1>2. p \in Int /\ n = <<1, p>>
    BY <1>1 DEF NodesInv
  <1>3. Has(1, p)
    <2>1. Reach(1) = 1 /\ p \div 1 = p
      BY <1>2, Constants
    <2>. QED  BY <1>1, <1>2, <2>1 DEF Has, Node
  <1>4. \A k \in 1 .. 4 : Has(k, p)
    BY <1>2, <1>3, Above
  <1>. QED  BY <1>2, <1>3, <1>4 DEF Absent

\* An entry that is missing has no page in use under it.
LEMMA NoLeaf ==
  ASSUME TreeOK, NodesInv, NEW p \in Int, NEW k \in 1 .. 4, ~Has(k, p),
         NEW x \in Int, x \div Reach(k) = p \div Reach(k)
  PROVE  x \notin Leaves(pt)
  <1>1. Node(k, x) = Node(k, p)
    BY DEF Node
  <1>2. ~Has(k, x)
    BY <1>1 DEF Has
  <1>3. x \in Leaves(pt) => k \in Absent(x)
    BY <1>2 DEF Absent
  <1>. QED  BY <1>3, LeafPath

\* A product has no remainder, and a number without one is a product.
LEMMA Multiple ==
  ASSUME NEW x \in Nat, NEW m \in Nat \ {0}
  PROVE  /\ x \div m \in Nat /\ m * (x \div m) \in Nat
         /\ m * (x \div m) <= x /\ x < m * (x \div m) + m
         /\ x % m = 0 <=> x = m * (x \div m)
         /\ \A n \in Int : x = m * n => x % m = 0 /\ x \div m = n
  <1>. DEFINE q == x \div m
  <1>1. q \in Nat /\ x % m \in 0 .. m - 1 /\ x = m * q + (x % m) /\ m * q \in Nat
    BY Dividing
  <1>2. \A n \in Int : x = m * n => x % m = 0 /\ x \div m = n
    <2>. SUFFICES ASSUME NEW n \in Int, x = m * n
                  PROVE  x % m = 0 /\ x \div m = n
      OBVIOUS
    <2>1. m * n <= x /\ x < m * n + m /\ m * n \in Int
      OBVIOUS
    <2>2. x \div m = n /\ x % m = x - m * n
      BY <2>1, DivIs
    <2>. QED  BY <2>1, <2>2
  <1>. HIDE DEF q
  <1>3. x % m \in Int
    BY <1>1
  <1>4. m * q <= x /\ x < m * q + m /\ (x % m = 0 <=> x = m * q)
    BY <1>1, <1>3
  <1>. QED  BY <1>1, <1>2, <1>4 DEF q

\* A whole number of entries.
LEMMA Quotient ==
  ASSUME NEW x \in Nat, NEW m \in Nat \ {0}, x % m = 0
  PROVE  \E q \in Nat : q = x \div m /\ x = m * q
  <1>1. x \div m \in Nat /\ x = m * (x \div m)
    BY Multiple
  <1>. QED  BY <1>1

\* The pages under the entry that begins at a page.
LEMMA EntryPages ==
  ASSUME NEW p \in Nat, NEW k \in 1 .. 4, p % Reach(k) = 0, NEW x \in p .. p + Reach(k) - 1
  PROVE  x \div Reach(k) = p \div Reach(k)
  <1>1. PICK m \in Nat \ {0} : m = Reach(k)
    BY Constants
  <1>2. PICK q \in Nat : q = p \div m /\ p = m * q
    <2>1. p % m = 0
      BY <1>1
    <2>. QED  BY <2>1, Quotient
  <1>3. x \in Nat /\ m * q <= x /\ x < m * q + m
    BY <1>1, <1>2
  <1>4. q \in Int
    OBVIOUS
  <1>5. x \div m = q
    BY <1>3, <1>4, DivIs, Zenon
  <1>. QED  BY <1>1, <1>2, <1>5

\* An entry's table has N entries of the level below.
LEMMA ReachUp ==
  ASSUME NEW k \in 1 .. 3
  PROVE  /\ Reach(k + 1) = Reach(k) * N
         /\ \A p \in Int : (p \div Reach(k)) \div N = p \div Reach(k + 1)
  <1>1. N \in Nat \ {0} /\ Reach(k) \in Nat \ {0}
    BY Constants
  <1>2. Reach(k) * N = Reach(k + 1)
    <2>1. CASE k = 1
      BY <2>1, Constants
    <2>2. CASE k = 2
      BY <2>2, Constants
    <2>3. CASE k = 3
      BY <2>3, Constants
    <2>. QED  BY <2>1, <2>2, <2>3
  <1>. QED  BY <1>1, <1>2, DivDiv

\* The index goes to the next entry of its table, or from the last one to the first.
LEMMA BumpCases ==
  ASSUME NEW p \in Nat, NEW k \in 1 .. 4, NEW q \in Nat, q = p \div Reach(k)
  PROVE  \/ q % N # N - 1 /\ Bump(p, k) = p + Reach(k) /\ Bump(p, k) \div Reach(k) = q + 1
         \/ /\ q % N = N - 1 /\ Bump(p, k) = p - Reach(k) * (N - 1)
            /\ Bump(p, k) \div Reach(k) = q - (N - 1) /\ Bump(p, k) \in Nat
            /\ q - (N - 1) = N * (q \div N)
  <1>1. PICK m \in Nat \ {0} : m = Reach(k)
    BY Constants
  <1>2. N \in Nat \ {0, 1}
    BY Constants
  <1>3. /\ m * q \in Nat /\ m * q <= p /\ p < m * q + m
    BY <1>1, Multiple
  <1>4. PICK u \in Nat, d \in 0 .. N - 1 : u = q \div N /\ d = q % N /\ q = N * u + d /\ N * u \in Nat
    BY <1>2, Dividing
  <1>5. Bump(p, k) = p + (((d + 1) % N) - d) * m
    BY <1>1, <1>4 DEF Bump
  <1>6. CASE d # N - 1
    <2>1. (d + 1) % N = d + 1
      <3>1. \A x \in 0 .. N - 1 : x % N = x
        BY <1>2
      <3>. QED  BY <1>2, <1>6, <3>1
    <2>2. ((d + 1) - d) * m = m
      OBVIOUS
    <2>3. Bump(p, k) = p + m
      BY <1>5, <2>1, <2>2
    <2>4. m * (q + 1) = m * q + m
      OBVIOUS
    <2>5. m * (q + 1) <= p + m /\ p + m < m * (q + 1) + m /\ p + m \in Nat /\ q + 1 \in Int
      BY <1>3, <2>4
    <2>6. (p + m) \div m = q + 1
      BY <2>5, DivIs, Zenon
    <2>. QED  BY <1>1, <1>4, <1>6, <2>3, <2>6
  <1>7. CASE d = N - 1
    <2>1. (d + 1) % N = 0
      <3>1. \A x \in Int : x = N => x % N = 0
        BY <1>2
      <3>. QED  BY <1>2, <1>7, <3>1
    <2>2. (0 - d) * m = -(m * (N - 1)) /\ m * (N - 1) \in Nat
      BY <1>2, <1>7
    <2>3. Bump(p, k) = p - m * (N - 1)
      BY <1>5, <2>1, <2>2
    <2>4. PICK z \in Nat : z = N * u
      BY <1>4
    <2>5. q = z + (N - 1) /\ q - (N - 1) = z
      BY <1>2, <1>4, <1>7, <2>4
    <2>6. m * q = m * z + m * (N - 1) /\ m * z \in Nat /\ z \in Int
      <3>1. \A a, b \in Nat : m * (a + b) = m * a + m * b /\ m * a \in Nat
        OBVIOUS
      <3>2. N - 1 \in Nat
        BY <1>2
      <3>. QED  BY <2>5, <3>1, <3>2
    <2>7. PICK y \in Nat : y = p - m * (N - 1) /\ m * z <= y /\ y < m * z + m
      BY <1>3, <2>2, <2>6
    <2>8. y \div m = z
      BY <2>6, <2>7, DivIs, Zenon
    <2>. QED  BY <1>1, <1>4, <1>7, <2>3, <2>4, <2>5, <2>7, <2>8
  <1>. QED  BY <1>6, <1>7

\* The index stays in its table.
LEMMA BumpTable ==
  ASSUME NEW p \in Nat, NEW k \in 1 .. 3
  PROVE  /\ Bump(p, k) \in Nat
         /\ \A j \in k + 1 .. 4 : /\ Bump(p, k) \div Reach(j) = p \div Reach(j)
                                  /\ Node(j, Bump(p, k)) = Node(j, p)
  <1>1. PICK q \in Nat : q = p \div Reach(k)
    BY Constants, Multiple
  <1>2. N \in Nat \ {0} /\ Reach(k) \in Nat
    BY Constants
  <1>3. PICK b \in Nat : b = Bump(p, k)
    <2>1. k \in 1 .. 4
      OBVIOUS
    <2>2. p + Reach(k) \in Nat
      BY <1>2
    <2>3. Bump(p, k) = p + Reach(k) \/ Bump(p, k) \in Nat
      BY <1>1, <2>1, BumpCases
    <2>. QED  BY <2>2, <2>3
  <1>4. (b \div Reach(k)) \div N = q \div N
    <2>1. PICK u \in Nat, d \in 0 .. N - 1 : u = q \div N /\ d = q % N /\ q = N * u + d /\ N * u \in Nat
      BY <1>2, Dividing
    <2>2. \/ d # N - 1 /\ b \div Reach(k) = q + 1
          \/ b \div Reach(k) = N * u
      <3>1. k \in 1 .. 4
        OBVIOUS
      <3>. QED  BY <1>1, <1>3, <2>1, <3>1, BumpCases
    <2>3. PICK z \in Nat : z = N * u
      BY <2>1
    <2>4. PICK y \in Nat : y = b \div Reach(k) /\ z <= y /\ y < z + N
      BY <1>2, <2>1, <2>2, <2>3
    <2>5. y \div N = u
      BY <1>2, <2>3, <2>4, DivIs
    <2>. QED  BY <2>1, <2>4, <2>5
  <1>5. b \div Reach(k + 1) = p \div Reach(k + 1)
    <2>1. (b \div Reach(k)) \div N = b \div Reach(k + 1) /\ (p \div Reach(k)) \div N = p \div Reach(k + 1)
      BY <1>3, ReachUp
    <2>. QED  BY <1>1, <1>4, <2>1
  <1>6. k + 1 \in 1 .. 4
    OBVIOUS
  <1>7. \A j \in k + 1 .. 4 : b \div Reach(j) = p \div Reach(j) /\ Node(j, b) = Node(j, p)
    BY <1>3, <1>5, <1>6, SameEntry
  <1>. QED  BY <1>3, <1>7

\* Behind a missing entry the next page is again the first one of what is missing.
LEMMA NextAligned ==
  ASSUME NEW p \in Nat, NEW k \in Absent(p), \A j \in Absent(p) : j <= k, p % Reach(k) = 0
  PROVE  Aligned(p + Reach(k))
  <1>0. k \in 1 .. 4
    BY DEF Absent
  <1>1. PICK m \in Nat \ {0} : m = Reach(k)
    BY <1>0, Constants
  <1>2. PICK q \in Nat : q = p \div m /\ p = m * q
    <2>1. p % m = 0
      BY <1>1
    <2>. QED  BY <2>1, Quotient
  <1>3. PICK b \in Nat : b = p + m
    OBVIOUS
  <1>4. b = m * (q + 1)
    BY <1>2, <1>3
  <1>. SUFFICES ASSUME NEW j \in Absent(b)
                PROVE  b % Reach(j) = 0
    BY <1>1, <1>3 DEF Aligned
  <1>5. j \in 1 .. 4 /\ ~Has(j, b)
    BY DEF Absent
  <1>6. PICK r \in Nat \ {0} : r = Reach(j)
    BY <1>5, Constants
  <1>7. CASE j <= k
    <2>1. PICK c \in Nat \ {0} : m = c * r
      <3>1. j \in 1 .. k
        BY <1>0, <1>5, <1>7
      <3>2. \E c \in Nat \ {0} : Reach(k) = c * Reach(j)
        BY <1>0, <3>1, ReachParts
      <3>. QED  BY <1>1, <1>6, <3>2
    <2>2. \A x, y, z \in Nat : (x * y) * z = y * (x * z) /\ x * z \in Int
      OBVIOUS
    <2>3. (c * r) * (q + 1) = r * (c * (q + 1)) /\ c * (q + 1) \in Int
      <3>1. q + 1 \in Nat /\ c \in Nat /\ r \in Nat
        OBVIOUS
      <3>. QED  BY <2>2, <3>1
    <2>4. b % r = 0
      <3>1. \A n \in Int : b = r * n => b % r = 0
        BY Multiple
      <3>2. b = r * (c * (q + 1)) /\ c * (q + 1) \in Int
        BY <1>4, <2>1, <2>3
      <3>. QED  BY <3>1, <3>2
    <2>. QED  BY <1>6, <2>4
  <1>8. CASE k < j
    <2>1. Has(j, p)
      BY <1>0, <1>5, <1>8 DEF Absent
    <2>2. p \div r # b \div r
      BY <1>5, <1>6, <2>1 DEF Has, Node
    <2>3. PICK c \in Nat \ {0} : r = c * m
      <3>1. k \in 1 .. j
        BY <1>0, <1>5, <1>8
      <3>2. \E c \in Nat \ {0} : Reach(j) = c * Reach(k)
        BY <1>5, <3>1, ReachParts
      <3>. QED  BY <1>1, <1>6, <3>2
    <2>4. PICK t \in Nat : t = b \div r /\ r * t <= b /\ b < r * t + r
      BY <1>6, Multiple
    <2>5. PICK s \in Nat : s = c * t
      OBVIOUS
    <2>6. r * t = m * s
      <3>1. \A x, y, z \in Nat : (x * y) * z = y * (x * z)
        OBVIOUS
      <3>. QED  BY <2>3, <2>5, <3>1
    <2>7. s <= q + 1
      <3>1. m * s <= m * (q + 1)
        BY <1>4, <2>4, <2>6
      <3>2. \A x, y \in Nat : x < y => m * x < m * y
        OBVIOUS
      <3>3. q + 1 < s => m * (q + 1) < m * s
        BY <3>2
      <3>4. m * s \in Nat /\ m * (q + 1) \in Nat
        OBVIOUS
      <3>. QED  BY <3>1, <3>3, <3>4
    <2>8. s # q
      <3>. SUFFICES ASSUME s = q
                    PROVE  FALSE
        OBVIOUS
      <3>1. r * t <= p /\ p < r * t + r
        BY <1>2, <1>3, <2>4, <2>6
      <3>2. t \in Int
        OBVIOUS
      <3>3. p \div r = t
        BY <3>1, <3>2, DivIs, Zenon
      <3>. QED  BY <2>2, <2>4, <3>3
    <2>9. ~(s < q)
      <3>. SUFFICES ASSUME s < q
                    PROVE  FALSE
        OBVIOUS
      <3>1. m * s <= m * q /\ m * s \in Nat
        <4>1. \A x, y \in Nat : x < y => m * x <= m * y
          OBVIOUS
        <4>. QED  BY <4>1
      <3>2. r * t <= p /\ p < r * t + r
        BY <1>2, <1>3, <2>4, <2>6, <3>1
      <3>3. t \in Int
        OBVIOUS
      <3>4. p \div r = t
        BY <3>2, <3>3, DivIs, Zenon
      <3>. QED  BY <2>2, <2>4, <3>4
    <2>10. b = r * t
      <3>1. s = q + 1
        BY <2>7, <2>8, <2>9
      <3>. QED  BY <1>4, <2>6, <3>1
    <2>11. b % r = 0
      <3>1. t \in Int
        OBVIOUS
      <3>. QED  BY <2>10, <3>1, Multiple
    <2>. QED  BY <1>6, <2>11
  <1>. QED  BY <1>0, <1>5, <1>7, <1>8

\* Where the devices and the kernel half begin, in entries of level 4.
LEMMA Halves ==
  ASSUME NEW p \in Nat
  PROVE  /\ Devices <= p <=> 1 <= p \div Reach(4)
         /\ p < Kernel * Reach(4) <=> p \div Reach(4) < Kernel
         /\ p < Pages => p \div Reach(4) <= Kernel
         /\ p \div Reach(4) \in Nat
  <1>1. PICK m \in Nat \ {0} : m = Reach(4)
    BY Constants
  <1>2. PICK q \in Nat : q = p \div m /\ m * q <= p /\ p < m * q + m
    BY <1>1, Multiple
  <1>3. PICK c \in Nat : c = Kernel /\ N = c + 1
    <2>1. Kernel \in Nat /\ N \in Nat /\ Kernel = N - 1
      BY Constants DEF Kernel
    <2>2. N = Kernel + 1
      BY <2>1
    <2>. QED  BY <2>1, <2>2
  <1>4. \A x, y \in Nat : x < y => m * x + m <= m * y
    <2>. SUFFICES ASSUME NEW x \in Nat, NEW y \in Nat, x < y
                  PROVE  m * x + m <= m * y
      OBVIOUS
    <2>1. \A a, b \in Nat : a <= b => m * a <= m * b
      OBVIOUS
    <2>2. m * (x + 1) <= m * y /\ m * (x + 1) = m * x + m
      BY <2>1
    <2>. QED  BY <2>2
  <1>5. \A x \in Nat : m * x = x * m /\ m * x \in Nat /\ (x + 1) * m = m * x + m
    OBVIOUS
  <1>6. m * 1 = m /\ m * 0 = 0
    OBVIOUS
  <1>7. m <= p <=> 1 <= q
    <2>1. 1 < q => m * 1 + m <= m * q
      BY <1>4
    <2>2. q < 1 => q = 0
      OBVIOUS
    <2>3. q = 1 => m <= p
      BY <1>2, <1>6
    <2>. QED  BY <1>2, <1>5, <1>6, <2>1, <2>2, <2>3
  <1>8. p < c * m <=> q < c
    <2>1. q < c => m * q + m <= m * c
      BY <1>4
    <2>2. c < q => m * c + m <= m * q
      BY <1>4
    <2>3. c = q => m * c <= p
      BY <1>2
    <2>. QED  BY <1>2, <1>5, <2>1, <2>2, <2>3
  <1>9. p < (c + 1) * m => q <= c
    <2>1. c < q => m * c + m <= m * q
      BY <1>4
    <2>. QED  BY <1>2, <1>5, <2>1
  <1>. QED  BY <1>1, <1>2, <1>3, <1>7, <1>8, <1>9 DEF Devices, Pages

\* An index that wraps comes to the first page of its table, which is in use.
LEMMA Wrapped ==
  ASSUME TreeOK, NodesInv, Packed(pt), NEW p \in Nat, Devices <= p, p < Kernel * Reach(4),
         NEW k \in 1 .. 3, ~Has(k, p), Has(k + 1, p), p % Reach(k) = 0,
         (p \div Reach(k)) % N = N - 1
  PROVE  Absent(Bump(p, k)) = {}
  <1>0. N \in Nat \ {0, 1} /\ k \in 1 .. 4 /\ k + 1 \in 1 .. 4
    BY Constants
  <1>1. PICK m \in Nat \ {0} : m = Reach(k)
    BY <1>0, Constants
  <1>2. PICK q \in Nat : q = p \div m /\ p = m * q
    <2>1. p % m = 0
      BY <1>1
    <2>. QED  BY <2>1, Quotient
  <1>3. PICK M \in Nat \ {0} : M = Reach(k + 1) /\ M = m * N
    BY <1>0, <1>1, Constants, ReachUp
  <1>4. PICK u \in Nat : u = p \div M /\ M * u \in Nat /\ M * u <= p /\ p < M * u + M
    BY <1>3, Multiple
  <1>5. u = q \div N
    BY <1>1, <1>2, <1>3, <1>4, ReachUp
  <1>6. /\ Bump(p, k) = p - m * (N - 1) /\ Bump(p, k) \in Nat
        /\ q - (N - 1) = N * u
    <2>1. q % N = N - 1
      BY <1>1, <1>2
    <2>0. q = p \div Reach(k) /\ k \in 1 .. 4 /\ p \in Nat /\ q \in Nat
      BY <1>0, <1>1, <1>2
    <2>2. \/ q % N # N - 1 /\ Bump(p, k) = p + Reach(k) /\ Bump(p, k) \div Reach(k) = q + 1
          \/ /\ q % N = N - 1 /\ Bump(p, k) = p - Reach(k) * (N - 1)
             /\ Bump(p, k) \div Reach(k) = q - (N - 1) /\ Bump(p, k) \in Nat
             /\ q - (N - 1) = N * (q \div N)
      BY ONLY <2>0, BumpCases
    <2>. QED  BY <1>1, <1>5, <2>1, <2>2
  <1>7. Bump(p, k) = M * u
    <2>1. PICK e \in Nat : e = N - 1
      BY <1>0
    <2>2. PICK z \in Nat : z = N * u
      BY <1>0
    <2>3. q = z + e
      BY <1>6, <2>1, <2>2
    <2>4. \A a, b \in Nat : m * (a + b) = m * a + m * b /\ m * a \in Nat /\ m * b \in Nat
      OBVIOUS
    <2>5. m * q = m * z + m * e /\ m * z \in Nat /\ m * e \in Nat
      BY <2>3, <2>4
    <2>6. \A a, b, c \in Nat : a * (b * c) = (a * b) * c
      OBVIOUS
    <2>7. m * z = M * u
      <3>1. m * (N * u) = (m * N) * u
        BY <1>0, <2>6
      <3>. QED  BY <1>3, <2>2, <3>1
    <2>. QED  BY <1>2, <1>6, <2>1, <2>5, <2>7
  <1>8. M * u = u * M
    OBVIOUS
  <1>9. u * M \in Devices .. Kernel * Reach(4) - 1
    <2>1. u * M < Kernel * Reach(4) /\ u * M \in Nat
      BY <1>4, <1>8, KernelHalf
    <2>2. Devices <= u * M
      <3>1. Bump(p, k) \in Nat /\ Bump(p, k) \div Reach(4) = p \div Reach(4)
        BY BumpTable
      <3>2. Devices <= p <=> 1 <= p \div Reach(4)
        BY Halves
      <3>3. Devices <= Bump(p, k) <=> 1 <= Bump(p, k) \div Reach(4)
        BY <3>1, Halves
      <3>. QED  BY <1>7, <1>8, <3>1, <3>2, <3>3
    <2>3. Devices \in Int /\ Kernel * Reach(4) \in Int
      BY KernelHalf
    <2>. QED  BY <2>1, <2>2, <2>3
  <1>10. PICK n \in DOMAIN pt : n[1] = k + 1 /\ n[2] = u
    <2>1. Node(k + 1, p) \in DOMAIN pt
      BY DEF Has
    <2>2. Node(k + 1, p)[1] = k + 1 /\ Node(k + 1, p)[2] = u
      BY <1>3, <1>4 DEF Node
    <2>. QED  BY <2>1, <2>2
  <1>11. \/ <<1, u * M>> \in DOMAIN pt
         \/ <<k, u * N + (N - 1)>> \in DOMAIN pt
    <2>1. n[1] > 1 /\ n[2] * Reach(n[1]) \in Devices .. Kernel * Reach(4) - 1
      BY <1>3, <1>9, <1>10
    <2>2. \/ <<1, n[2] * Reach(n[1])>> \in DOMAIN pt
          \/ <<n[1] - 1, n[2] * N + (N - 1)>> \in DOMAIN pt
      BY <2>1 DEF Packed
    <2>3. n[1] - 1 = k
      BY <1>10
    <2>. QED  BY <1>3, <1>10, <2>2, <2>3
  <1>12. u * N + (N - 1) = q
    <2>1. u * N = N * u
      BY <1>0
    <2>. QED  BY <1>0, <1>6, <2>1
  <1>13. <<k, q>> \notin DOMAIN pt
    BY <1>1, <1>2 DEF Has, Node
  <1>14. <<1, u * M>> \in DOMAIN pt
    BY <1>11, <1>12, <1>13
  <1>15. Bump(p, k) \in Leaves(pt)
    <2>1. <<1, u * M>> \in {x \in DOMAIN pt : x[1] = 1} /\ <<1, u * M>>[2] = u * M
      BY <1>14
    <2>. QED  BY <1>7, <1>8, <2>1 DEF Leaves
  <1>. QED  BY <1>15, LeafPath

\* A turn of get_size below the kernel half: the pages it adds were free, and it goes to
\* the page behind them or to one that is in use.
LEMMA Counted ==
  ASSUME TreeOK, NodesInv, Packed(pt), NEW p \in Nat, Devices <= p, p < Kernel * Reach(4),
         Aligned(p), Absent(p) # {}, NEW k, k = Highest(Absent(p))
  PROVE  /\ k \in 1 .. 4 /\ p + Reach(k) <= Kernel * Reach(4) /\ Aligned(p + Reach(k))
         /\ Bump(p, k) = p + Reach(k) \/ Absent(Bump(p, k)) = {}
         /\ \A x \in p .. p + Reach(k) - 1 : x \notin Leaves(pt)
  <1>1. k \in Absent(p) /\ (\A j \in Absent(p) : j <= k) /\ k \in 1 .. 4 /\ ~Has(k, p)
    BY HighestLevel DEF Absent
  <1>2. p % Reach(k) = 0
    BY <1>1 DEF Aligned
  <1>3. PICK m \in Nat \ {0} : m = Reach(k)
    BY <1>1, Constants
  <1>4. PICK q \in Nat : q = p \div m /\ p = m * q
    <2>1. p % m = 0
      BY <1>2, <1>3
    <2>. QED  BY <2>1, Quotient
  <1>5. PICK c \in Nat \ {0} : Reach(4) = c * m
    BY <1>1, <1>3, ReachParts
  <1>6. Kernel \in Nat /\ N \in Nat \ {0, 1} /\ Kernel = N - 1
    BY Constants DEF Kernel
  <1>7. p + m <= Kernel * Reach(4)
    <2>1. PICK z \in Nat : z = Kernel * c
      BY <1>6
    <2>2. Kernel * Reach(4) = m * z
      <3>1. \A a, b, d \in Nat : a * (b * d) = d * (a * b)
        OBVIOUS
      <3>. QED  BY <1>5, <1>6, <2>1, <3>1
    <2>3. q < z
      <3>1. \A x, y \in Nat : y <= x => m * y <= m * x
        OBVIOUS
      <3>2. z <= q => m * z <= m * q
        BY <3>1
      <3>3. m * q < m * z /\ m * q \in Nat /\ m * z \in Nat
        BY <1>4, <2>2
      <3>. QED  BY <3>2, <3>3
    <2>4. m * (q + 1) <= m * z /\ m * (q + 1) = m * q + m
      <3>1. \A x, y \in Nat : x <= y => m * x <= m * y
        OBVIOUS
      <3>2. q + 1 <= z /\ q + 1 \in Nat
        BY <2>3
      <3>3. m * (q + 1) = m * q + m
        OBVIOUS
      <3>. QED  BY <3>1, <3>2, <3>3
    <2>. QED  BY <1>4, <2>2, <2>4
  <1>8. \A x \in p .. p + Reach(k) - 1 : x \notin Leaves(pt)
    <2>. SUFFICES ASSUME NEW x \in p .. p + Reach(k) - 1
                  PROVE  x \notin Leaves(pt)
      OBVIOUS
    <2>1. x \div Reach(k) = p \div Reach(k)
      BY <1>1, <1>2, EntryPages
    <2>2. x \in Int
      BY <1>3
    <2>. QED  BY <1>1, <2>1, <2>2, NoLeaf
  <1>9. Aligned(p + Reach(k))
    BY <1>1, <1>2, NextAligned
  <1>10. Bump(p, k) = p + Reach(k) \/ Absent(Bump(p, k)) = {}
    <2>1. Bump(p, k) = p + Reach(k) \/ q % N = N - 1
      BY <1>1, <1>3, <1>4, BumpCases
    <2>2. CASE k = 4 /\ q % N = N - 1
      <3>1. q < Kernel
        BY <1>3, <1>4, <2>2, Halves
      <3>2. \A x \in 0 .. N - 1 : x % N = x
        BY <1>6
      <3>3. q % N = q
        BY <1>6, <3>1, <3>2
      <3>. QED  BY <1>6, <2>2, <3>1, <3>3
    <2>3. CASE k # 4 /\ q % N = N - 1
      <3>1. k \in 1 .. 3 /\ k + 1 \in 1 .. 4 /\ ~(k + 1 <= k)
        BY <1>1, <2>3
      <3>2. Has(k + 1, p)
        BY <1>1, <3>1 DEF Absent
      <3>3. (p \div Reach(k)) % N = N - 1
        BY <1>3, <1>4, <2>3
      <3>. QED  BY <1>1, <1>2, <3>1, <3>2, <3>3, Wrapped
    <2>. QED  BY <2>1, <2>2, <2>3
  <1>. QED  BY <1>1, <1>3, <1>7, <1>8, <1>9, <1>10

\* A search that has come to the kernel half stays there.
LEMMA KernelTurn ==
  ASSUME TreeOK, NodesInv, KernelInv, NEW p \in 0 .. Pages - 1, Kernel * Reach(4) <= p
  PROVE  /\ Absent(p) # {}
         /\ Highest(Absent(p)) \in 1 .. 4
         /\ Bump(p, Highest(Absent(p))) >= Kernel * Reach(4)
  <1>1. p \in Nat /\ p < Pages /\ Kernel \in Nat /\ Kernel * Reach(4) \in Nat
    BY Constants, KernelHalf
  <1>2. p \div Reach(4) = Kernel
    BY <1>1, Halves
  <1>3. p \notin Leaves(pt)
    BY <1>1 DEF KernelInv, Leaves
  <1>4. Absent(p) # {}
    <2>. SUFFICES ASSUME Absent(p) = {}
                  PROVE  FALSE
      OBVIOUS
    <2>1. Has(1, p)
      BY DEF Absent
    <2>. QED  BY <1>1, <1>3, <2>1, HasLeaf
  <1>5. Has(4, p)
    BY <1>2 DEF KernelInv, Has, Node
  <1>6. PICK k \in 1 .. 3 : k = Highest(Absent(p))
    <2>1. Highest(Absent(p)) \in Absent(p)
      BY <1>4, HighestLevel DEF Absent
    <2>2. Highest(Absent(p)) \in 1 .. 4 /\ Highest(Absent(p)) # 4
      BY <1>5, <2>1 DEF Absent
    <2>. QED  BY <2>2
  <1>7. Bump(p, k) \in Nat /\ Bump(p, k) \div Reach(4) = Kernel
    BY <1>1, <1>2, BumpTable
  <1>8. Kernel * Reach(4) <= Bump(p, k)
    BY <1>1, <1>7, Halves
  <1>. QED  BY <1>4, <1>6, <1>8

\* search_empty_space stays in the table of a page in use, where a page is missing
\* alone.
LEMMA EmptyTurn ==
  ASSUME NEW p \in Nat, Devices <= p, Absent(p) = {}
  PROVE  Devices <= Bump(p, 1) /\ Aligned(Bump(p, 1))
  <1>1. PICK b \in Nat : b = Bump(p, 1)
    BY BumpTable
  <1>2. \A j \in 2 .. 4 : b \div Reach(j) = p \div Reach(j) /\ Node(j, b) = Node(j, p)
    BY <1>1, BumpTable
  <1>3. Devices <= b
    BY <1>2, Halves
  <1>4. \A j \in Absent(b) : j = 1
    BY <1>2 DEF Absent, Has
  <1>5. b % Reach(1) = 0
    <2>1. b % 1 = 0
      OBVIOUS
    <2>. QED  BY <2>1, Constants
  <1>. QED  BY <1>1, <1>3, <1>4, <1>5 DEF Aligned

-----------------------------------------------------------------------------
(* The searches: steps.                                                    *)

\* No step maps a page of the kernel half or removes a table.
LEMMA KernelStep ==
  ASSUME IInv, KernelInv, Next
  PROVE  KernelInv'
  <1>1. w.page \in Int
    BY DEF IInv, TreeInv, CallInv
  <1>2. ASSUME NEW k \in 1 .. 4, NEW e, pt' = Put(Node(k, w.page), e),
               k = 1 => w.page < Kernel * Reach(4)
        PROVE  KernelInv'
    <2>. DEFINE node == Node(k, w.page)
    <2>1. node[1] = k /\ (k = 1 => node[2] = w.page)
      <3>1. Reach(1) = 1 /\ w.page \div 1 = w.page
        BY <1>1, Constants
      <3>. QED  BY <1>1, <3>1, NodeShape
    <2>2. DOMAIN pt' = DOMAIN pt \cup {node}
      BY <1>2 DEF Put
    <2>. HIDE DEF node
    <2>. QED  BY <1>2, <2>1, <2>2 DEF KernelInv
  <1>3. CASE AddTable
    <2>1. PICK k \in 1 .. 4 : /\ k # 1 /\ Node(k, w.page) \notin DOMAIN pt
                              /\ k < 4 => Has(k + 1, w.page)
                              /\ pt' = Put(Node(k, w.page), Entry(get_frame))
      BY <1>3, NewTable
    <2>. QED  BY <1>2, <2>1
  <1>4. CASE KmmapPage \/ PhysicalPage
    <2>1. \/ pt' = pt
          \/ pt' = Put(Node(1, w.page), Entry(get_frame))
          \/ pt' = Put(Node(1, w.page), Entry(Device))
      BY <1>4 DEF KmmapPage, PhysicalPage
    <2>2. w.page < Kernel * Reach(4)
      BY <1>4 DEF KmmapPage, PhysicalPage
    <2>3. 1 \in 1 .. 4
      OBVIOUS
    <2>4. pt' = pt => KernelInv'
      BY DEF KernelInv
    <2>. QED  BY <1>2, <2>1, <2>2, <2>3, <2>4
  <1>5. CASE UnmapPage
    <2>1. UNCHANGED pt \/ DOMAIN pt' = DOMAIN pt \ {Node(1, w.page)}
      BY <1>5 DEF UnmapPage
    <2>2. Node(1, w.page)[1] = 1 /\ <<4, Kernel>>[1] = 4
      BY DEF Node
    <2>3. Node(1, w.page) # <<4, Kernel>>
      BY <2>2
    <2>. QED  BY <2>1, <2>3 DEF KernelInv
  <1>6. CASE UNCHANGED pt
    BY <1>6 DEF KernelInv
  <1>. QED
    BY <1>3, <1>4, <1>5, <1>6 DEF Next, Move, Spin, Rest, vars, CallKmmap, CallSpaceAlloc,
       CallMapPhysical, CallKmmapPhysical, CallKmunmap, CheckProtocol, Sysret, EnterKernelHalf,
       OutOfFrames, AvailableUsed, AvailableCount, AvailableFound, SearchEmpty, GetSize,
       UnmapPartial

\* A whole number of pages in bytes.
LEMMA PageBytes ==
  ASSUME NEW x \in Nat
  PROVE  /\ x * PageSize \in Nat /\ (x * PageSize) \div PageSize = x
         /\ (x * PageSize) % PageSize = 0
         /\ x < Pages => PageOf(x * PageSize) = x /\ Low(x * PageSize) = x * PageSize
                         /\ x * PageSize \in 0 .. Word - 1
  <1>1. PageSize \in Nat \ {0} /\ Pages \in Nat \ {0}
    BY Constants
  <1>2. PICK y \in Nat : y = x * PageSize /\ y = PageSize * x
    BY <1>1
  <1>3. y \div PageSize = x /\ y % PageSize = 0
    <2>1. x \in Int
      OBVIOUS
    <2>2. \A n \in Int : y = PageSize * n => y % PageSize = 0 /\ y \div PageSize = n
      BY <1>1, Multiple
    <2>. QED  BY <1>2, <2>1, <2>2
  <1>4. x < Pages => x % Pages = x
    <2>1. \A m \in Nat \ {0} : \A z \in 0 .. m - 1 : z % m = z
      OBVIOUS
    <2>2. x < Pages => x \in 0 .. Pages - 1
      BY <1>1
    <2>. QED  BY <1>1, <2>1, <2>2
  <1>5. x < Pages => PageOf(y) = x
    BY <1>3, <1>4 DEF PageOf
  <1>6. x < Pages => Low(y) = y
    BY <1>2, <1>3, <1>5 DEF Low
  <1>7. x < Pages => y \in 0 .. Word - 1
    <2>1. x < Pages => x \in 0 .. Pages - 1
      BY <1>1
    <2>. QED  BY <1>2, <2>1, PageWord
  <1>. QED  BY <1>2, <1>3, <1>5, <1>6, <1>7

\* The first page of the devices is the first one of all its entries.
LEMMA DevicesAligned == Aligned(Devices)
  <1>. SUFFICES ASSUME NEW k \in Absent(Devices)
                PROVE  Devices % Reach(k) = 0
    BY DEF Aligned
  <1>1. k \in 1 .. 4
    BY DEF Absent
  <1>2. PICK c \in Nat \ {0} : Reach(4) = c * Reach(k)
    <2>1. 4 \in 1 .. 4
      OBVIOUS
    <2>. QED  BY <1>1, <2>1, ReachParts
  <1>3. PICK m \in Nat \ {0} : m = Reach(k)
    BY <1>1, Constants
  <1>4. Devices = m * c /\ Devices \in Nat /\ c \in Int
    BY <1>2, <1>3 DEF Devices
  <1>5. Devices % m = 0
    BY <1>4, Multiple
  <1>. QED  BY <1>3, <1>5

\* A turn of get_size.
LEMMA SizeTurn ==
  ASSUME IInv, KernelInv, pt = pre, Packed(pre), SizeInv, Absent(w.page) # {},
         NEW k, k = Highest(Absent(w.page)),
         NEW a, a = PageOf(w.addr), NEW b, b = a + w.size \div PageSize
  PROVE  /\ k \in 1 .. 4 /\ a \in Nat /\ b \in Nat /\ a <= b /\ Reach(k) \in Nat \ {0}
         /\ WereFree(a .. (b + Reach(k)) - 1)
         /\ \/ /\ b + Reach(k) <= Kernel * Reach(4) /\ Aligned(b + Reach(k))
               /\ Bump(w.page, k) = b + Reach(k) \/ Absent(Bump(w.page, k)) = {}
            \/ b + Reach(k) >= Kernel * Reach(4) /\ Bump(w.page, k) >= Kernel * Reach(4)
  <1>1. TreeOK /\ NodesInv /\ w.page \in 0 .. Pages - 1 /\ w.size \in 0 .. Word - 1
        /\ w.addr \in 0 .. Word - 1
    BY DEF IInv, TreeInv, TypeOK
  <1>2. w.page \in Nat /\ w.size \in Nat /\ w.addr \in Int /\ PageSize \in Nat \ {0}
        /\ Kernel * Reach(4) \in Nat
    BY <1>1, Constants, KernelHalf
  <1>3. k \in 1 .. 4 /\ Reach(k) \in Nat \ {0}
    <2>1. k \in Absent(w.page)
      BY HighestLevel DEF Absent
    <2>2. k \in 1 .. 4
      BY <2>1 DEF Absent
    <2>. QED  BY <2>2, Constants
  <1>4. a \in Nat /\ b \in Nat /\ a <= b
    <2>1. a \in 0 .. Pages - 1 /\ w.size \div PageSize \in Nat
      BY <1>2, LowByte, Multiple
    <2>2. a \in Nat
      BY <2>1, Constants
    <2>. QED  BY <2>1, <2>2
  <1>5. /\ Devices <= a /\ WereFree(a .. b - 1)
        /\ \/ b <= Kernel * Reach(4) /\ Aligned(b) /\ w.page = b
           \/ b >= Kernel * Reach(4) /\ w.page >= Kernel * Reach(4)
    BY DEF SizeInv
  <1>6. PICK r \in Nat \ {0} : r = Reach(k)
    BY <1>3
  <1>7. ASSUME \A x \in b .. (b + r) - 1 : x < Kernel * Reach(4) => x \notin Leaves(pre)
        PROVE  WereFree(a .. (b + r) - 1)
    <2>1. \A x \in a .. (b + r) - 1 : x \in a .. b - 1 \/ x \in b .. (b + r) - 1
      BY <1>4
    <2>. QED  BY <1>5, <1>7, <2>1 DEF WereFree
  <1>8. CASE w.page < Kernel * Reach(4)
    <2>1. w.page = b /\ Aligned(b)
      BY <1>2, <1>5, <1>8
    <2>2. Devices <= b
      BY <1>4, <1>5, KernelHalf
    <2>3. /\ b + Reach(k) <= Kernel * Reach(4) /\ Aligned(b + Reach(k))
          /\ Bump(b, k) = b + Reach(k) \/ Absent(Bump(b, k)) = {}
          /\ \A x \in b .. b + Reach(k) - 1 : x \notin Leaves(pt)
      BY <1>1, <1>4, <1>8, <2>1, <2>2, Counted
    <2>. QED  BY <1>3, <1>4, <1>6, <1>7, <2>1, <2>3
  <1>9. CASE ~(w.page < Kernel * Reach(4))
    <2>1. Bump(w.page, k) >= Kernel * Reach(4)
      BY <1>1, <1>2, <1>9, KernelTurn
    <2>2. b >= Kernel * Reach(4)
      BY <1>2, <1>4, <1>5, <1>9
    <2>3. b + r >= Kernel * Reach(4)
      BY <1>2, <1>4, <2>2
    <2>4. WereFree(a .. (b + r) - 1)
      <3>1. \A x \in b .. (b + r) - 1 : ~(x < Kernel * Reach(4))
        BY <1>2, <1>4, <2>2
      <3>. QED  BY <1>7, <3>1
    <2>. QED  BY <1>3, <1>4, <1>6, <2>1, <2>3, <2>4
  <1>. QED  BY <1>8, <1>9

\* The pages of a range that begins with a page.
LEMMA WithinPages ==
  ASSUME NEW a \in Nat, NEW size \in Nat, NEW n \in Nat \ {0}, size <= n * PageSize,
         NEW x \in PagesOf(a * PageSize, size)
  PROVE  x \in a .. (a + n) - 1
  <1>1. PageSize \in Nat \ {0} /\ a * PageSize \in Nat /\ (a * PageSize) \div PageSize = a
    BY Constants, PageBytes
  <1>2. PICK y \in Nat : y = IF size = 0 THEN a * PageSize ELSE a * PageSize + size - 1
    BY <1>1
  <1>3. x \in a .. y \div PageSize
    BY <1>1, <1>2 DEF PagesOf
  <1>4. (a + n) * PageSize = a * PageSize + n * PageSize /\ n * PageSize \in Nat \ {0}
    <2>1. (a + n) * PageSize = a * PageSize + n * PageSize
      BY PageOrder
    <2>2. 0 * PageSize < n * PageSize /\ n * PageSize \in Int /\ 0 * PageSize = 0
      BY <1>1, PageOrder
    <2>. QED  BY <2>1, <2>2
  <1>5. y < (a + n) * PageSize
    BY <1>1, <1>2, <1>4
  <1>6. PICK z \in Nat : z = y \div PageSize /\ z * PageSize <= y
    <2>1. y \div PageSize \in Nat /\ PageSize * (y \div PageSize) <= y
      BY <1>1, Multiple
    <2>2. \A i \in Nat : PageSize * i = i * PageSize
      BY <1>1
    <2>. QED  BY <2>1, <2>2
  <1>7. z < a + n
    <2>1. z * PageSize < (a + n) * PageSize
      <3>1. z * PageSize \in Nat /\ (a + n) * PageSize \in Nat
        BY <1>1, <1>4
      <3>. QED  BY <1>5, <1>6, <3>1
    <2>. QED  BY <2>1, PageOrder
  <1>. QED  BY <1>3, <1>6, <1>7

\* Nothing is said of a device's pages where no search and no walk for them is.
LEMMA DeviceElsewhere ==
  ASSUME pc' \notin {"empty", "size", "physical"}
  PROVE  DeviceInv'
  BY DEF DeviceInv

\* A search that goes on, or that has found an address.
LEMMA SearchEmptyStep ==
  ASSUME IInv, KernelInv, DeviceInv, SearchEmpty
  PROVE  DeviceInv'
  <1>1. pc = "empty" /\ UNCHANGED <<pt, lock, todo, pre, res>>
    BY DEF SearchEmpty
  <1>2. Cur' = Cur /\ Cur.op = "map_physical" /\ pt = pre /\ pt' = pre'
    BY <1>1 DEF DeviceInv, Cur
  <1>3. PICK p \in 0 .. Pages - 1 : p = w.page
    BY DEF IInv, TypeOK
  <1>4. p \in Nat /\ p < Pages /\ Kernel * Reach(4) \in Nat /\ Pages \in Nat
    BY Constants, KernelHalf
  <1>5. \A x : Aligned(x) => Aligned(x)'
    BY <1>1 DEF Aligned, Absent, Has
  <1>6. Packed(pre)' => Packed(pre)
    BY <1>1
  <1>7. ASSUME Packed(pre)
        PROVE  Devices <= p /\ Aligned(p)
    BY <1>1, <1>3, <1>7 DEF DeviceInv
  <1>8. DOMAIN w = {"page", "off", "size", "flags", "temp", "addr"}
    BY DEF IInv, TreeInv, CallInv
  <1>9. CASE Absent(w.page) = {}
    <2>1. pc' = "empty" /\ w' = [w EXCEPT !.page = Bump(@, 1)]
      BY <1>1, <1>9 DEF SearchEmpty
    <2>2. w'.page = Bump(p, 1)
      BY <1>3, <1>8, <2>1
    <2>3. ASSUME Packed(pre)
          PROVE  Devices <= w'.page /\ Aligned(w.page)'
      <3>1. PICK q : q = Bump(p, 1)
        OBVIOUS
      <3>2. Devices <= q /\ Aligned(q)
        BY <1>3, <1>4, <1>7, <1>9, <2>3, <3>1, EmptyTurn
      <3>3. Aligned(q)' /\ w'.page = q
        BY <1>5, <2>2, <3>1, <3>2
      <3>. QED  BY <3>2, <3>3 DEF Aligned
    <2>. QED  BY <1>2, <1>6, <2>1, <2>3 DEF DeviceInv
  <1>10. CASE Absent(w.page) # {}
    <2>1. pc' = "size" /\ w' = [w EXCEPT !.addr = w.page * PageSize, !.size = 0]
      BY <1>1, <1>10 DEF SearchEmpty
    <2>2. w'.page = p /\ w'.addr = p * PageSize /\ w'.size = 0
      BY <1>3, <1>8, <2>1
    <2>3. ASSUME Packed(pre)
          PROVE  SizeInv'
      <3>1. PageOf(w'.addr) = p /\ w'.size \div PageSize = 0 /\ 0 * PageSize = 0
        <4>1. PageOf(p * PageSize) = p /\ PageSize \in Nat \ {0}
          BY <1>4, PageBytes, Constants
        <4>. QED  BY <2>2, <4>1
      <3>2. p + 0 = p /\ p .. p - 1 = {}
        BY <1>4
      <3>3. Devices <= p /\ Aligned(p)'
        BY <1>5, <1>7, <2>3
      <3>4. p <= Kernel * Reach(4) \/ p >= Kernel * Reach(4)
        BY <1>4
      <3>5. WereFree(p .. p - 1)'
        BY <3>2 DEF WereFree
      <3>. QED  BY <2>2, <3>1, <3>2, <3>3, <3>4, <3>5 DEF SizeInv
    <2>. QED  BY <1>2, <1>6, <2>1, <2>3 DEF DeviceInv
  <1>. QED  BY <1>9, <1>10

\* get_size goes on, starts again behind a page in use, or has the size.
LEMMA GetSizeStep ==
  ASSUME IInv, KernelInv, DeviceInv, GetSize
  PROVE  DeviceInv'
  <1>1. pc = "size" /\ UNCHANGED <<pt, lock, todo, pre, res>>
    BY DEF GetSize
  <1>2. Cur' = Cur /\ Cur.op = "map_physical" /\ pt = pre /\ pt' = pre'
    BY <1>1 DEF DeviceInv, Cur
  <1>3. \A x : Aligned(x) => Aligned(x)'
    BY <1>1 DEF Aligned, Absent, Has
  <1>4. \A S : WereFree(S) => WereFree(S)'
    BY <1>1 DEF WereFree
  <1>5. \A x : Absent(x) = {} => Absent(x)' = {}
    BY <1>1 DEF Absent, Has
  <1>6. /\ DOMAIN w = {"page", "off", "size", "flags", "temp", "addr"} /\ todo # <<>>
        /\ w.page \in 0 .. Pages - 1 /\ w.size \in 0 .. Word - 1 /\ w.addr \in 0 .. Word - 1
    BY <1>1, LoopNames DEF IInv, TreeInv, CallInv, TypeOK
  <1>7. /\ PageSize \in Nat \ {0} /\ w.size \in Nat /\ w.addr \in Int /\ Pages \in Nat \ {0}
        /\ Kernel * Reach(4) \in Nat /\ Kernel * Reach(4) < Pages /\ w.page \in Nat
    BY <1>6, Constants, KernelHalf
  <1>8. PICK a \in Nat : a = PageOf(w.addr) /\ a < Pages
    <2>1. PageOf(w.addr) \in 0 .. Pages - 1
      BY <1>7, LowByte
    <2>. QED  BY <1>7, <2>1
  <1>9. PICK s \in Nat : s = w.size \div PageSize
    BY <1>7, Multiple
  <1>10. PICK b \in Nat : b = a + s
    OBVIOUS
  <1>11. PICK size \in Nat : size = Cur.size
    <2>1. Cur.size \in 0 .. Word - 1
      BY <1>6, CurrentCall DEF IInv, TreeInv
    <2>. QED  BY <2>1, Constants
  <1>12. ASSUME Packed(pre)
         PROVE  SizeInv /\ w.addr = a * PageSize /\ w.size = s * PageSize /\ Devices <= a
    BY <1>1, <1>8, <1>9, <1>12 DEF DeviceInv, SizeInv
  <1>13. Packed(pre)' => Packed(pre)
    BY <1>1
  <1>14. CASE Absent(w.page) = {}
    <2>1. pc' = "empty" /\ w' = Walk((w.addr + w.size) % Word, 0, Cur.flags)
      BY <1>14 DEF GetSize
    <2>2. ASSUME Packed(pre)
          PROVE  Devices <= w'.page /\ Aligned(w.page)'
      <3>1. ~(w.page >= Kernel * Reach(4))
        BY <1>6, <1>7, <1>14, KernelTurn DEF IInv, TreeInv
      <3>2. b <= Kernel * Reach(4) /\ Aligned(b)
        BY <1>8, <1>9, <1>10, <1>12, <2>2, <3>1 DEF SizeInv
      <3>3. w.addr + w.size = b * PageSize
        <4>1. (a + s) * PageSize = a * PageSize + s * PageSize
          BY PageOrder
        <4>. QED  BY <1>10, <1>12, <2>2, <4>1
      <3>4. b < Pages
        BY <1>7, <3>2
      <3>5. b * PageSize \in 0 .. Word - 1 /\ PageOf(b * PageSize) = b
        BY <3>4, PageBytes
      <3>6. (b * PageSize) % Word = b * PageSize
        <4>1. \A m \in Nat \ {0} : \A x \in 0 .. m - 1 : x % m = x
          OBVIOUS
        <4>. QED  BY <3>5, <4>1, Constants
      <3>7. w'.page = b
        BY <2>1, <3>3, <3>5, <3>6 DEF Walk
      <3>8. Devices <= b
        BY <1>10, <1>12, <2>2, KernelHalf
      <3>9. Aligned(b)'
        BY <1>3, <3>2
      <3>. QED  BY <3>7, <3>8, <3>9 DEF Aligned
    <2>. QED  BY <1>2, <1>13, <2>1, <2>2 DEF DeviceInv
  <1>15. CASE Absent(w.page) # {}
    <2>1. PICK k : k = Highest(Absent(w.page))
      OBVIOUS
    <2>2. PICK more : more = w.size + Reach(k) * PageSize
      OBVIOUS
    <2>3. IF more >= size
          THEN pc' = "physical" /\ w' = Walk(w.addr, Cur.size, Cur.flags)
          ELSE w' = [w EXCEPT !.page = Bump(@, k), !.size = more] /\ pc' = pc
      BY <1>11, <1>15, <2>1, <2>2 DEF GetSize
    <2>4. ASSUME Packed(pre)
          PROVE  /\ k \in 1 .. 4 /\ Reach(k) \in Nat \ {0} /\ WereFree(a .. (b + Reach(k)) - 1)
                 /\ \/ /\ b + Reach(k) <= Kernel * Reach(4) /\ Aligned(b + Reach(k))
                       /\ Bump(w.page, k) = b + Reach(k) \/ Absent(Bump(w.page, k)) = {}
                    \/ b + Reach(k) >= Kernel * Reach(4) /\ Bump(w.page, k) >= Kernel * Reach(4)
      BY <1>2, <1>8, <1>9, <1>10, <1>12, <1>15, <2>1, <2>4, SizeTurn
    <2>5. ASSUME Packed(pre)
          PROVE  \E n \in Nat \ {0} : /\ n = s + Reach(k) /\ a + n = b + Reach(k)
                                      /\ more = n * PageSize
      <3>1. PICK r \in Nat \ {0} : r = Reach(k)
        BY <2>4, <2>5
      <3>2. (s + r) * PageSize = s * PageSize + r * PageSize
        BY PageOrder
      <3>3. s + r \in Nat \ {0} /\ a + (s + r) = b + r
        BY <1>10
      <3>. QED  BY <1>12, <2>2, <2>5, <3>1, <3>2, <3>3
    <2>6. CASE more >= size
      <3>1. pc' = "physical" /\ w' = Walk(w.addr, Cur.size, Cur.flags)
        BY <2>3, <2>6
      <3>2. w'.page = a /\ w'.off = w.addr % PageSize /\ w'.size = size /\ w'.addr = w.addr
        BY <1>8, <1>11, <3>1 DEF Walk
      <3>3. ASSUME Packed(pre)
            PROVE  PlacedInv'
        <4>1. PICK n \in Nat \ {0} : /\ n = s + Reach(k) /\ a + n = b + Reach(k)
                                     /\ more = n * PageSize
          BY <2>5, <3>3
        <4>2. Low(w.addr) = a * PageSize
          BY <1>8, <1>12, <3>3, PageBytes
        <4>3. \A x \in PagesOf(a * PageSize, size) : x \in a .. (a + n) - 1
          BY <2>6, <4>1, WithinPages
        <4>4. WereFree(a .. (a + n) - 1)
          BY <2>4, <3>3, <4>1
        <4>5. WereFree(PagesOf(Low(w.addr), size))
          BY <4>2, <4>3, <4>4 DEF WereFree
        <4>6. WereFree(PagesOf(Low(w.addr), Cur.size))'
          <5>1. PICK S : S = PagesOf(Low(w.addr), size)
            OBVIOUS
          <5>2. PagesOf(Low(w.addr), Cur.size)' = S
            BY <1>2, <1>11, <3>2, <5>1
          <5>3. WereFree(S)'
            BY <1>4, <4>5, <5>1
          <5>. QED  BY <5>2, <5>3 DEF WereFree
        <4>7. (w.page * PageSize + w.off + w.size = Low(w.addr) + Cur.size)'
          <5>1. Low(w.addr) = a * PageSize + (w.addr % PageSize)
            BY <1>8 DEF Low
          <5>. QED  BY <1>2, <1>11, <3>2, <5>1
        <4>8. (w.page = PageOf(w.addr) /\ w.off = w.addr % PageSize)'
          BY <1>8, <3>2
        <4>9. Adds(PageOf(w.addr) .. w.page - 1)'
          <5>1. PageOf(w'.addr) .. w'.page - 1 = {}
            BY <1>8, <3>2
          <5>2. Leaves(pt') = Leaves(pre') \cup {} /\ \A m \in DOMAIN pre' : m \in DOMAIN pt' /\ pt'[m] = pre'[m]
            BY <1>2
          <5>. QED  BY <5>1, <5>2 DEF Adds
        <4>. QED  BY <4>6, <4>7, <4>8, <4>9 DEF PlacedInv
      <3>. QED  BY <1>13, <3>1, <3>3 DEF DeviceInv
    <2>7. CASE ~(more >= size)
      <3>1. w' = [w EXCEPT !.page = Bump(@, k), !.size = more] /\ pc' = "size"
        BY <1>1, <2>3, <2>7
      <3>2. w'.page = Bump(w.page, k) /\ w'.size = more /\ w'.addr = w.addr
        BY <1>6, <3>1
      <3>3. ASSUME Packed(pre)
            PROVE  SizeInv'
        <4>1. PICK n \in Nat \ {0} : /\ n = s + Reach(k) /\ a + n = b + Reach(k)
                                     /\ more = n * PageSize
          BY <2>5, <3>3
        <4>2. PICK q : q = Bump(w.page, k)
          OBVIOUS
        <4>3. more \div PageSize = n
          BY <4>1, PageBytes
        <4>4. PageOf(w'.addr) = a /\ w'.size \div PageSize = n /\ w'.page = q
          BY <1>8, <3>2, <4>2, <4>3
        <4>5. w'.addr = a * PageSize /\ w'.size = n * PageSize /\ Devices <= a
          BY <1>12, <3>2, <3>3, <4>1
        <4>6. WereFree(a .. (a + n) - 1)'
          BY <1>4, <2>4, <3>3, <4>1
        <4>7. \/ a + n <= Kernel * Reach(4) /\ Aligned(a + n) /\ (q = a + n \/ Absent(q) = {})
              \/ a + n >= Kernel * Reach(4) /\ q >= Kernel * Reach(4)
          BY <2>4, <3>3, <4>1, <4>2
        <4>8. \/ a + n <= Kernel * Reach(4) /\ Aligned(a + n)' /\ (q = a + n \/ Absent(q)' = {})
              \/ a + n >= Kernel * Reach(4) /\ q >= Kernel * Reach(4)
          BY <1>3, <1>5, <4>7
        <4>9. Absent(w.page)' = Absent(q)'
          BY <4>4
        <4>. QED  BY <4>4, <4>5, <4>6, <4>8, <4>9 DEF SizeInv
      <3>. QED  BY <1>2, <1>13, <3>1, <3>3 DEF DeviceInv
    <2>. QED  BY <2>6, <2>7
  <1>. QED  BY <1>14, <1>15

\* A page that kmmap_physical maps, and the end of its walk.
LEMMA PhysicalPageStep ==
  ASSUME IInv, DeviceInv, PhysicalPage
  PROVE  DeviceInv' /\ SearchesFree'
  <1>1. pc = "physical" /\ UNCHANGED <<lock, pre>> /\ w.page < Kernel * Reach(4)
    BY DEF PhysicalPage
  <1>2. PICK p \in 0 .. Pages - 1 : p = w.page
    BY DEF IInv, TypeOK
  <1>3. PICK off \in 0 .. PageSize - 1 : off = w.off
    BY DEF IInv, TypeOK
  <1>4. PICK left \in 0 .. Word - 1 : left = w.size
    BY DEF IInv, TypeOK
  <1>5. PICK a \in 0 .. Word - 1 : a = w.addr
    BY DEF IInv, TypeOK
  <1>6. /\ PageSize \in Nat \ {0} /\ p \in Int /\ off \in Nat /\ left \in Nat /\ a \in Int
        /\ p < Kernel * Reach(4) /\ Kernel * Reach(4) \in Nat
    BY <1>1, <1>2, <1>3, <1>4, <1>5, Constants, KernelHalf
  <1>7. todo # <<>> /\ DOMAIN w = {"page", "off", "size", "flags", "temp", "addr"}
    BY <1>1, LoopNames DEF IInv, TreeInv, CallInv
  <1>8. PICK size \in Nat : size = Cur.size
    <2>1. Cur.size \in 0 .. Word - 1
      BY <1>7, CurrentCall DEF IInv, TreeInv
    <2>. QED  BY <2>1, Constants
  <1>9. Cur.op \in {"map_physical", "kmmap_physical"}
    BY <1>1 DEF IInv, MappedInv
  <1>10. Packed(pre)' => Packed(pre)
    BY <1>1
  <1>11. PICK b \in Int : b = PageOf(a)
    BY <1>6, LowByte
  <1>12. PICK S : S = PagesOf(Low(a), size)
    OBVIOUS
  <1>13. ASSUME Cur.op = "map_physical", Packed(pre)
         PROVE  /\ p * PageSize + off + left = Low(a) + size
                /\ \/ p = b /\ off = a % PageSize
                   \/ p > b /\ off = 0 /\ left > 0
                /\ Adds(b .. p - 1) /\ WereFree(S)
    <2>1. PlacedInv
      BY <1>1, <1>13 DEF DeviceInv
    <2>. QED  BY <1>2, <1>3, <1>4, <1>5, <1>8, <1>11, <1>12, <2>1 DEF PlacedInv
  <1>14. ASSUME Cur.op = "map_physical", Packed(pre)
         PROVE  p \in S
    <2>1. Low(a) \in Int /\ b * PageSize <= Low(a) /\ Low(a) < b * PageSize + PageSize
          /\ b * PageSize \in Int /\ Low(a) \div PageSize = b
      BY <1>6, <1>11, LowByte
    <2>2. PICK l \in Int : l = Low(a)
      BY <2>1
    <2>3. PICK y \in Int : y = IF size = 0 THEN l ELSE l + size - 1
      OBVIOUS
    <2>4. S = b .. y \div PageSize
      BY <1>12, <2>1, <2>2, <2>3 DEF PagesOf
    <2>5. \A x, z \in Int : PageSize * x <= z => x <= z \div PageSize
      <3>. SUFFICES ASSUME NEW x \in Int, NEW z \in Int, PageSize * x <= z
                    PROVE  x <= z \div PageSize
        OBVIOUS
      <3>1. PICK q \in Int : q = z \div PageSize /\ z < PageSize * q + PageSize
        BY <1>6
      <3>2. PageSize * (q + 1) = PageSize * q + PageSize /\ PageSize * q \in Int
            /\ PageSize * x \in Int
        BY <1>6
      <3>3. PageSize * x < PageSize * (q + 1)
        BY <1>6, <3>1, <3>2
      <3>4. \A i, j \in Int : j <= i => PageSize * j <= PageSize * i
        BY <1>6
      <3>5. ~(q + 1 <= x)
        <4>1. q + 1 <= x => PageSize * (q + 1) <= PageSize * x
          BY <3>4
        <4>2. PageSize * (q + 1) \in Int
          BY <1>6
        <4>. QED  BY <3>2, <3>3, <4>1, <4>2
      <3>. QED  BY <3>1, <3>5
    <2>6. PageSize * p = p * PageSize /\ PageSize * b = b * PageSize /\ p * PageSize \in Int
      BY <1>6
    <2>7. CASE p = b
      <3>1. b * PageSize <= y
        BY <2>1, <2>2, <2>3
      <3>2. b <= y \div PageSize
        BY <2>5, <2>6, <3>1
      <3>3. y \div PageSize \in Int
        BY <1>6
      <3>. QED  BY <2>4, <2>7, <3>2, <3>3
    <2>8. CASE p > b
      <3>1. p * PageSize + left = l + size /\ left > 0
        BY <1>6, <1>13, <1>14, <2>2, <2>6, <2>8
      <3>2. (b + 1) * PageSize <= p * PageSize /\ (b + 1) * PageSize = b * PageSize + 1 * PageSize
        <4>1. b + 1 <= p /\ b + 1 \in Int
          BY <1>6, <2>8
        <4>. QED  BY <1>6, <4>1, PageOrder
      <3>3. size # 0 /\ p * PageSize <= y
        BY <1>6, <2>1, <2>2, <2>3, <2>6, <3>1, <3>2
      <3>4. p <= y \div PageSize
        BY <1>6, <2>5, <2>6, <3>3
      <3>5. y \div PageSize \in Int
        BY <1>6
      <3>. QED  BY <1>6, <2>4, <2>8, <3>4, <3>5
    <2>. QED  BY <1>13, <1>14, <2>7, <2>8
  <1>15. ASSUME Cur.op = "map_physical", Packed(pre)
         PROVE  Adds(b .. p)' /\ b <= p
    <2>1. p \notin Leaves(pre) /\ b <= p
      BY <1>6, <1>13, <1>14, <1>15 DEF WereFree
    <2>2. Leaves(pt) = Leaves(pre) \cup (b .. p - 1)
          /\ \A n \in DOMAIN pre : n \in DOMAIN pt /\ pt[n] = pre[n]
      BY <1>13, <1>15 DEF Adds
    <2>3. p \notin Leaves(pt)
      BY <1>6, <2>1, <2>2
    <2>4. Node(1, p) \notin DOMAIN pt
      BY <1>6, <2>3, HasLeaf DEF Has
    <2>5. pt' = Put(Node(1, p), Entry(Device))
      BY <1>2 DEF PhysicalPage
    <2>. HIDE DEF Entry
    <2>6. Leaves(pt') = Leaves(pt) \cup {p} /\ \A n \in DOMAIN pt : n \in DOMAIN pt' /\ pt'[n] = pt[n]
      BY <1>6, <2>4, <2>5, PutLeaves
    <2>7. (b .. p - 1) \cup {p} = b .. p
      BY <1>6, <2>1
    <2>8. Leaves(pt') = Leaves(pre) \cup (b .. p)
      BY <2>2, <2>6, <2>7
    <2>9. \A n \in DOMAIN pre : n \in DOMAIN pt' /\ pt'[n] = pre[n]
      BY <2>2, <2>6
    <2>. QED  BY <1>1, <2>1, <2>8, <2>9 DEF Adds
  <1>16. CASE LastPage
    <2>1. Return(w.addr) /\ UNCHANGED w
      BY <1>16 DEF PhysicalPage
    <2>2. /\ Call' = Cur /\ Ret' = a /\ pc' = "idle"
          /\ \A op : Done(op)' <=> Cur.op = op
      BY <1>5, <2>1, ReturnDone DEF IInv, Return
    <2>3. ASSUME Cur.op = "map_physical", Packed(pre)
          PROVE  S = b .. p
      <3>1. off + left <= PageSize
        BY <1>3, <1>4, <1>6, <1>16 DEF LastPage, SpaceLeft
      <3>. QED  BY <1>6, <1>11, <1>12, <1>13, <2>3, <3>1, LastOfRange
    <2>4. ASSUME Cur.op = "map_physical", Packed(pre)
          PROVE  S \cap Leaves(pre) = {} /\ Adds(S)'
      <3>1. \A x \in S : x < Kernel * Reach(4)
        BY <1>6, <2>3, <2>4
      <3>2. S \cap Leaves(pre) = {}
        BY <1>13, <2>4, <3>1 DEF WereFree
      <3>. QED  BY <1>15, <2>3, <2>4, <3>2 DEF Adds
    <2>5. PagesOf(Low(Ret), Call.size)' = S
      BY <1>8, <1>12, <2>2
    <2>6. SearchesFree'
      <3>1. Done("space_alloc")' = FALSE
        BY <1>9, <2>2
      <3>2. Done("map_physical")' => Cur.op = "map_physical"
        BY <2>2
      <3>3. (Done("map_physical") /\ Packed(pre))' =>
              (PagesOf(Low(Ret), Call.size) \cap Leaves(pre) = {})'
        BY <1>1, <1>10, <2>4, <2>5, <3>2
      <3>4. (Done("map_physical") /\ Packed(pre))' => Adds(PagesOf(Low(Ret), Call.size))'
        BY <1>1, <1>10, <2>4, <2>5, <3>2 DEF Adds
      <3>. QED  BY <3>1, <3>3, <3>4 DEF SearchesFree
    <2>. QED  BY <2>2, <2>6, DeviceElsewhere
  <1>17. CASE ~LastPage
    <2>1. NextPage /\ UNCHANGED <<todo, pc, res>>
      BY <1>17 DEF PhysicalPage
    <2>2. w'.page = p + 1 /\ w'.off = 0 /\ w'.size = left - (PageSize - off) /\ w'.addr = a
      BY <1>2, <1>3, <1>4, <1>5, <1>7, <2>1 DEF NextPage, SpaceLeft
    <2>3. left - (PageSize - off) > 0
      BY <1>3, <1>4, <1>6, <1>17 DEF LastPage, SpaceLeft
    <2>4. (p + 1) * PageSize = p * PageSize + PageSize /\ p * PageSize \in Int
      <3>1. (p + 1) * PageSize = p * PageSize + 1 * PageSize
        BY <1>6, PageOrder
      <3>. QED  BY <1>6, <3>1, PageOrder
    <2>5. Cur' = Cur
      BY <2>1 DEF Cur
    <2>6. ASSUME Cur.op = "map_physical", Packed(pre)
          PROVE  PlacedInv'
      <3>1. (w.page * PageSize + w.off + w.size = Low(w.addr) + Cur.size)'
        <4>1. Low(a) \in Int
          BY <1>6, LowByte
        <4>2. (p + 1) * PageSize + 0 + (left - (PageSize - off)) = Low(a) + size
          BY <1>6, <1>13, <2>4, <2>6, <4>1
        <4>. QED  BY <1>8, <2>2, <2>5, <4>2
      <3>2. (w.page > PageOf(w.addr) /\ w.off = 0 /\ w.size > 0)'
        BY <1>6, <1>11, <1>15, <2>2, <2>3, <2>6
      <3>3. Adds(PageOf(w.addr) .. w.page - 1)'
        <4>1. PageOf(w'.addr) .. w'.page - 1 = b .. p
          BY <1>6, <1>11, <2>2
        <4>. QED  BY <1>15, <2>6, <4>1 DEF Adds
      <3>4. WereFree(PagesOf(Low(w.addr), Cur.size))'
        <4>1. PagesOf(Low(w.addr), Cur.size)' = S
          BY <1>8, <1>12, <2>2, <2>5
        <4>. QED  BY <1>1, <1>13, <2>6, <4>1 DEF WereFree
      <3>. QED  BY <3>1, <3>2, <3>3, <3>4 DEF PlacedInv
    <2>7. pc' = "physical"
      BY <1>1, <2>1
    <2>8. DeviceInv'
      BY <1>10, <2>5, <2>6, <2>7 DEF DeviceInv
    <2>. QED  BY <2>7, <2>8 DEF SearchesFree, Done
  <1>. QED  BY <1>16, <1>17

\* A table that kmmap_physical makes on its way.
LEMMA AddTableDevice ==
  ASSUME IInv, DeviceInv, AddTable
  PROVE  DeviceInv'
  <1>1. pc \in {"kmmap", "physical"} /\ UNCHANGED <<lock, todo, pc, w, pre, res>>
    BY DEF AddTable
  <1>2. Cur' = Cur
    BY <1>1 DEF Cur
  <1>3. CASE pc = "kmmap"
    BY <1>1, <1>3, DeviceElsewhere
  <1>4. CASE pc = "physical"
    <2>1. PICK k \in 1 .. 4 : /\ k # 1 /\ Node(k, w.page) \notin DOMAIN pt
                              /\ k < 4 => Has(k + 1, w.page)
                              /\ pt' = Put(Node(k, w.page), Entry(get_frame))
      BY NewTable
    <2>2. w.page \in Int
      BY DEF IInv, TreeInv, CallInv
    <2>3. Leaves(pt') = Leaves(pt) /\ \A n \in DOMAIN pt : n \in DOMAIN pt' /\ pt'[n] = pt[n]
      BY <2>1, <2>2, PutLeaves
    <2>4. ASSUME Cur.op = "map_physical", Packed(pre)
          PROVE  PlacedInv'
      <3>1. PlacedInv
        BY <1>4, <2>4 DEF DeviceInv
      <3>2. Adds(PageOf(w.addr) .. w.page - 1)'
        BY <1>1, <2>3, <3>1 DEF PlacedInv, Adds
      <3>3. WereFree(PagesOf(Low(w.addr), Cur.size))'
        BY <1>1, <1>2, <3>1 DEF PlacedInv, WereFree
      <3>. QED  BY <1>1, <1>2, <3>1, <3>2, <3>3 DEF PlacedInv
    <2>. QED  BY <1>1, <1>2, <1>4, <2>4 DEF DeviceInv
  <1>. QED  BY <1>1, <1>3, <1>4

-----------------------------------------------------------------------------
(* search_available.                                                       *)

\* The pages of a request that fits in one table.
LEMMA PageNumber ==
  ASSUME Fits
  PROVE  PageNum \in 1 .. N - 1 /\ Cur.size <= PageNum * PageSize /\ Cur.size \in Nat \ {0}
  <1>1. PageSize \in Nat \ {0} /\ N \in Nat \ {0, 1}
    BY Constants
  <1>2. PICK size \in Nat \ {0} : size = Cur.size /\ size <= (N - 1) * PageSize
    <2>1. (N - 1) * PageSize \in Int
      BY <1>1, PageOrder
    <2>. QED  BY <2>1 DEF Fits
  <1>3. PICK y \in Nat : y = size + PageSize - 1
    BY <1>1
  <1>4. PICK n \in Nat : n = y \div PageSize /\ PageSize * n <= y /\ y < PageSize * n + PageSize
    BY <1>1, Multiple
  <1>5. PageNum = n
    BY <1>2, <1>3, <1>4 DEF PageNum
  <1>6. \A x \in Nat : PageSize * x = x * PageSize /\ x * PageSize \in Nat
    BY <1>1
  <1>7. size <= n * PageSize
    BY <1>1, <1>3, <1>4, <1>6
  <1>8. n # 0
    <2>1. 0 * PageSize = 0
      BY <1>1
    <2>. QED  BY <1>7, <2>1
  <1>9. n <= N - 1
    <2>1. N - 1 \in Nat /\ (N - 1) * PageSize \in Nat
      BY <1>1, <1>6
    <2>2. n * PageSize < (N - 1) * PageSize + PageSize
      <3>1. PICK t \in Nat : t = (N - 1) * PageSize
        BY <2>1
      <3>2. PICK r \in Nat : r = n * PageSize /\ r = PageSize * n
        BY <1>6
      <3>3. size <= t /\ r <= y
        BY <1>2, <1>4, <3>1, <3>2
      <3>. QED  BY <1>1, <1>3, <3>1, <3>2, <3>3
    <2>3. (N - 1) * PageSize + 1 * PageSize = ((N - 1) + 1) * PageSize
      BY <2>1, PageOrder
    <2>4. n * PageSize < ((N - 1) + 1) * PageSize
      BY <1>1, <2>2, <2>3
    <2>5. n < (N - 1) + 1
      BY <2>1, <2>4, PageOrder
    <2>. QED  BY <2>1, <2>5
  <1>. QED  BY <1>1, <1>2, <1>5, <1>7, <1>8, <1>9

\* The first table.
LEMMA FirstTable ==
  ASSUME NEW p \in 0 .. N - 1
  PROVE  /\ p \div Reach(2) = 0 /\ Node(2, p) = <<2, 0>>
         /\ Bump(p, 1) = IF p = N - 1 THEN 0 ELSE p + 1
  <1>1. N \in Nat \ {0, 1} /\ p \in Nat /\ Reach(1) = 1 /\ Reach(2) = N
    BY Constants
  <1>2. p \div N = 0 /\ p % N = p
    <2>1. \A m \in Nat \ {0} : \A z \in 0 .. m - 1 : z % m = z /\ z \div m = 0
      OBVIOUS
    <2>. QED  BY <1>1, <2>1
  <1>3. p \div Reach(1) = p
    BY <1>1
  <1>4. Bump(p, 1) = p + (((p + 1) % N) - p) * 1
    BY <1>1, <1>2, <1>3 DEF Bump
  <1>5. CASE p = N - 1
    <2>1. (p + 1) % N = 0
      <3>1. \A x \in Int : x = N => x % N = 0
        BY <1>1
      <3>. QED  BY <1>1, <1>5, <3>1
    <2>. QED  BY <1>1, <1>2, <1>4, <1>5, <2>1 DEF Node
  <1>6. CASE p # N - 1
    <2>1. (p + 1) % N = p + 1
      <3>1. \A m \in Nat \ {0} : \A z \in 0 .. m - 1 : z % m = z
        OBVIOUS
      <3>. QED  BY <1>1, <1>6, <3>1
    <2>. QED  BY <1>1, <1>2, <1>4, <1>6, <2>1 DEF Node
  <1>. QED  BY <1>5, <1>6

\* An address below 0 is one of the kernel half.
LEMMA BelowZero ==
  ASSUME NEW f \in Int, f < 0, -N < f
  PROVE  Kernel * Reach(4) <= PageOf((f * PageSize) % Word)
  <1>1. /\ PageSize \in Nat \ {0} /\ Pages \in Nat \ {0} /\ Word \in Nat \ {0}
        /\ N \in Nat \ {0, 1} /\ Reach(4) \in Nat \ {0} /\ Kernel \in Nat /\ N = Kernel + 1
    BY Constants DEF Kernel
  <1>2. Pages = Kernel * Reach(4) + Reach(4)
    BY <1>1 DEF Pages
  <1>3. N <= Reach(4)
    <2>1. PICK c \in Nat \ {0} : Reach(4) = c * Reach(2)
      <3>1. 4 \in 1 .. 4 /\ 2 \in 1 .. 4
        OBVIOUS
      <3>. QED  BY <3>1, ReachParts
    <2>2. \A x, y \in Nat \ {0} : y <= x * y
      OBVIOUS
    <2>. QED  BY <1>1, <2>1, <2>2, Constants
  <1>4. PICK g \in Nat : g = Pages + f /\ Kernel * Reach(4) <= g /\ g < Pages
    BY <1>1, <1>2, <1>3, KernelHalf
  <1>5. Word = Pages * PageSize + Pages * PageSize /\ Pages * PageSize \in Nat \ {0}
    <2>1. \A x, y \in Nat \ {0} : x * y \in Nat \ {0} /\ 2 * y * x = x * y + x * y
      OBVIOUS
    <2>. QED  BY <1>1, <2>1 DEF Word
  <1>6. PICK h \in Nat : h = Pages + g
    BY <1>1
  <1>7. h * PageSize = Word + f * PageSize /\ f * PageSize \in Int
    <2>1. h = (Pages + Pages) + f
      BY <1>1, <1>4, <1>6
    <2>2. h * PageSize = (Pages + Pages) * PageSize + f * PageSize
      BY <1>1, <2>1, PageOrder
    <2>3. (Pages + Pages) * PageSize = Pages * PageSize + Pages * PageSize
      BY <1>1, PageOrder
    <2>. QED  BY <1>5, <2>2, <2>3, PageOrder
  <1>8. f * PageSize < 0 /\ 0 <= h * PageSize
    <2>1. f * PageSize < 0 * PageSize /\ 0 * PageSize = 0
      BY <1>1, PageOrder
    <2>2. h * PageSize \in Nat
      BY <1>1
    <2>. QED  BY <2>1, <2>2
  <1>9. (f * PageSize) % Word = h * PageSize
    <2>1. \A m \in Nat \ {0} : \A x \in Int : x < 0 /\ 0 <= m + x => x % m = m + x
      OBVIOUS
    <2>. QED  BY <1>1, <1>7, <1>8, <2>1
  <1>10. PageOf(h * PageSize) = g
    <2>1. (h * PageSize) \div PageSize = h
      BY PageBytes
    <2>2. \A m \in Nat \ {0} : \A x \in Nat : x < m => (m + x) % m = x
      OBVIOUS
    <2>3. (Pages + g) % Pages = g
      BY ONLY <1>1, <1>4, <2>2, g \in Nat
    <2>4. h % Pages = g
      BY <1>6, <2>3
    <2>. QED  BY <2>1, <2>4 DEF PageOf
  <1>. QED  BY <1>4, <1>9, <1>10

\* The count begins at the second page.
LEMMA SoughtStart ==
  ASSUME IInv, CallSpaceAlloc
  PROVE  SoughtInv'
  <1>1. /\ todo # <<>> /\ Cur.op = "space_alloc" /\ pc' = "available" /\ pre' = pt /\ todo' = todo
        /\ w' = [Walk(FirstPage * PageSize, Cur.size, {}) EXCEPT !.temp = PageNum]
    BY DEF CallSpaceAlloc, Begin, PageNum
  <1>2. Cur' = Cur
    BY <1>1 DEF Cur
  <1>3. w'.page = 1 /\ w'.temp = PageNum
    <2>1. DOMAIN Walk(FirstPage * PageSize, Cur.size, {}) =
            {"page", "off", "size", "flags", "temp", "addr"}
          /\ Walk(FirstPage * PageSize, Cur.size, {}).page = PageOf(FirstPage * PageSize)
      BY DEF Walk
    <2>2. PageOf(FirstPage * PageSize) = 1
      <3>1. FirstPage = 1 /\ 1 \in Nat /\ 1 < Pages
        BY KernelHalf, Constants DEF FirstPage
      <3>. QED  BY <3>1, PageBytes
    <2>. QED  BY <1>1, <2>1, <2>2
  <1>4. ASSUME Fits
        PROVE  /\ w'.page \in 0 .. N - 1 /\ w'.temp <= PageNum
               /\ w'.page - (PageNum - w'.temp) .. w'.page - 1 = {}
    <2>1. PageNum \in 1 .. N - 1
      BY <1>4, PageNumber
    <2>2. N \in Nat \ {0, 1}
      BY Constants
    <2>3. PageNum \in Int
      BY <2>1, <2>2
    <2>4. 1 - (PageNum - PageNum) .. 1 - 1 = {}
      BY <2>3
    <2>. QED  BY <1>3, <2>2, <2>3, <2>4
  <1>5. Fits' => Fits
    BY <1>2 DEF Fits
  <1>6. PageNum' = PageNum
    BY <1>2 DEF PageNum
  <1>7. (w.page - (PageNum - w.temp) .. w.page - 1)' =
          w'.page - (PageNum - w'.temp) .. w'.page - 1
    BY <1>6
  <1>. QED  BY <1>1, <1>3, <1>4, <1>5, <1>6, <1>7 DEF SoughtInv

\* A page in use, and a free page: the pages counted are those before the next one.
LEMMA SoughtTurn ==
  ASSUME IInv, SoughtInv, AvailableUsed \/ AvailableCount
  PROVE  SoughtInv'
  <1>1. pc = "available" /\ UNCHANGED <<pt, todo, pc, pre>> /\ pt = pre
    BY DEF AvailableUsed, AvailableCount, IInv, MappedInv
  <1>2. Cur' = Cur
    BY <1>1 DEF Cur
  <1>3. (Fits' => Fits) /\ PageNum' = PageNum
    BY <1>2 DEF Fits, PageNum
  <1>4. DOMAIN w = {"page", "off", "size", "flags", "temp", "addr"} /\ w.temp \in Nat
    BY DEF IInv, TreeInv, CallInv, TypeOK
  <1>. SUFFICES ASSUME Fits
                PROVE  /\ w'.page \in 0 .. N - 1 /\ w'.temp <= PageNum
                       /\ w'.page = 1 \/ <<2, 0>> \in DOMAIN pt
                       /\ \A x \in w'.page - (PageNum - w'.temp) .. w'.page - 1 :
                            0 <= x => x \notin Leaves(pre)
    BY <1>1, <1>3 DEF SoughtInv
  <1>5. PICK n \in Nat : n = PageNum
    <2>1. PageNum \in 1 .. N - 1
      BY PageNumber
    <2>. QED  BY <2>1, Constants
  <1>6. PICK p \in 0 .. N - 1 : p = w.page
    BY <1>1 DEF SoughtInv
  <1>7. PICK temp \in Nat : temp = w.temp /\ temp <= n
    BY <1>1, <1>4, <1>5 DEF SoughtInv
  <1>8. \A x \in p - (n - temp) .. p - 1 : 0 <= x => x \notin Leaves(pre)
    BY <1>1, <1>5, <1>6, <1>7 DEF SoughtInv
  <1>9. N \in Nat \ {0, 1} /\ p \in Int
    BY Constants
  <1>10. Absent(p) = {} \/ Absent(p) = {1}
    BY <1>6 DEF AvailableUsed, AvailableCount
  <1>11. <<2, 0>> \in DOMAIN pt
    <2>1. 2 \notin Absent(p)
      BY <1>10
    <2>2. Node(2, p) \in DOMAIN pt
      BY <2>1 DEF Absent, Has
    <2>. QED  BY <2>2, FirstTable
  <1>12. PICK q \in 0 .. N - 1 : q = Bump(p, 1) /\ (q = p + 1 \/ q = 0)
    BY <1>9, FirstTable
  <1>13. CASE AvailableUsed
    <2>1. w' = [w EXCEPT !.page = Bump(@, 1), !.temp = PageNum]
      BY <1>13 DEF AvailableUsed
    <2>2. w'.page = q /\ w'.temp = n
      BY <1>4, <1>5, <1>6, <1>12, <2>1
    <2>3. q - (n - n) .. q - 1 = {}
      BY <1>9
    <2>. QED  BY <1>5, <1>11, <2>2, <2>3
  <1>14. CASE AvailableCount
    <2>1. w' = [w EXCEPT !.page = Bump(@, 1), !.temp = @ - 1] /\ w.temp # 0 /\ Absent(p) = {1}
      BY <1>6, <1>14 DEF AvailableCount
    <2>2. w'.page = q /\ w'.temp = temp - 1
      BY <1>4, <1>6, <1>7, <1>12, <2>1
    <2>3. p \notin Leaves(pre)
      BY <1>1, <2>1, LeafPath DEF IInv, TreeInv
    <2>4. \A x \in q - (n - (temp - 1)) .. q - 1 : 0 <= x => x \notin Leaves(pre)
      <3>. SUFFICES ASSUME NEW x \in q - (n - (temp - 1)) .. q - 1, 0 <= x
                    PROVE  x \notin Leaves(pre)
        OBVIOUS
      <3>1. q = p + 1 /\ (x = p \/ x \in p - (n - temp) .. p - 1)
        BY <1>9, <1>12
      <3>. QED  BY <1>8, <2>3, <3>1
    <2>5. temp - 1 <= n
      BY <1>7
    <2>. QED  BY <1>5, <1>11, <2>2, <2>4, <2>5
  <1>. QED  BY <1>13, <1>14

\* The address that search_available returns is that of free pages, or is not one that
\* kmmap comes back from.
LEMMA SoughtFound ==
  ASSUME IInv, SoughtInv, AvailableFound
  PROVE  SoughtInv' /\ SearchesFree'
  <1>1. pc = "available" /\ UNCHANGED <<pt, pre>> /\ pt = pre /\ Cur.op = "space_alloc"
    BY DEF AvailableFound, IInv, MappedInv
  <1>2. PICK addr : addr = IF Absent(w.page) = {1}
                           THEN (w.page - (PageNum - 1)) * PageSize % Word
                           ELSE w.page * PageSize
    OBVIOUS
  <1>3. \/ addr = 0 /\ Return(0)
        \/ /\ addr # 0 /\ pc' = "kmmap" /\ UNCHANGED <<todo, res>>
           /\ w' = Walk(addr, Cur.size, convert_to_arch_flags(Cur.flags))
    BY <1>2 DEF AvailableFound
  <1>4. ASSUME Fits
        PROVE  WereFree(PagesOf(Low(addr), Cur.size))
    <2>1. PageNum \in 1 .. N - 1 /\ Cur.size <= PageNum * PageSize /\ Cur.size \in Nat
      BY <1>4, PageNumber
    <2>2. /\ N \in Nat \ {0, 1} /\ PageSize \in Nat \ {0} /\ Pages \in Nat \ {0} /\ N <= Pages
          /\ Word \in Nat \ {0} /\ Kernel * Reach(4) \in Nat /\ Kernel * Reach(4) < Pages
      <3>1. \A x, y \in Nat \ {0} : x <= x * y
        OBVIOUS
      <3>. QED  BY <3>1, Constants, KernelHalf DEF Pages
    <2>3. PICK n \in Nat \ {0} : n = PageNum /\ n <= N - 1 /\ Cur.size <= n * PageSize
      BY <2>1, <2>2
    <2>4. PICK p \in 0 .. N - 1 : p = w.page
      BY <1>1, <1>4 DEF SoughtInv
    <2>5. p \in Nat /\ p < Pages
      BY <2>2
    <2>6. \A m \in Nat \ {0} : \A x \in 0 .. m - 1 : x % m = x
      OBVIOUS
    <2>7. ASSUME NEW f \in Nat, f < Pages, \A x \in f .. (f + n) - 1 : x \notin Leaves(pre)
          PROVE  WereFree(PagesOf(Low(f * PageSize), Cur.size))
      <3>1. Low(f * PageSize) = f * PageSize
        BY <2>7, PageBytes
      <3>2. \A x \in PagesOf(f * PageSize, Cur.size) : x \in f .. (f + n) - 1
        BY <2>1, <2>3, WithinPages
      <3>. QED  BY <2>7, <3>1, <3>2 DEF WereFree
    <2>8. CASE Absent(p) = {1}
      <3>1. w.temp = 0
        BY <2>4, <2>8 DEF AvailableFound
      <3>2. \A x \in p - n .. p - 1 : 0 <= x => x \notin Leaves(pre)
        <4>1. \A x \in p - (n - 0) .. p - 1 : 0 <= x => x \notin Leaves(pre)
          BY <1>1, <1>4, <2>3, <2>4, <3>1 DEF SoughtInv
        <4>. QED  BY <4>1
      <3>3. p \notin Leaves(pre)
        BY <1>1, <2>8, LeafPath DEF IInv, TreeInv
      <3>4. PICK f \in Int : f = p - (n - 1) /\ addr = f * PageSize % Word
        BY <1>2, <2>3, <2>4, <2>5, <2>8
      <3>5. CASE 0 <= f
        <4>1. f \in Nat /\ f < Pages
          <5>1. f <= p
            BY <2>3, <2>5, <3>4
          <5>. QED  BY <2>2, <2>5, <3>5, <5>1
        <4>2. \A x \in f .. (f + n) - 1 : x \notin Leaves(pre)
          <5>. SUFFICES ASSUME NEW x \in f .. (f + n) - 1
                        PROVE  x \notin Leaves(pre)
            OBVIOUS
          <5>1. 0 <= x /\ (x = p \/ x \in p - n .. p - 1)
            BY <2>5, <3>4, <3>5
          <5>. QED  BY <3>2, <3>3, <5>1
        <4>3. addr = f * PageSize
          <5>1. f * PageSize \in 0 .. Word - 1
            BY <4>1, PageBytes
          <5>. QED  BY <2>2, <2>6, <3>4, <5>1
        <4>. QED  BY <2>7, <4>1, <4>2, <4>3
      <3>6. CASE f < 0
        <4>1. -N < f
          BY <2>2, <2>3, <2>5, <3>4
        <4>2. Kernel * Reach(4) <= PageOf(addr)
          BY <3>4, <3>6, <4>1, BelowZero
        <4>3. addr \in Int
          <5>1. f * PageSize \in Int
            BY PageOrder
          <5>. QED  BY <2>2, <3>4, <5>1
        <4>4. Low(addr) \div PageSize = PageOf(addr) /\ PageOf(addr) \in Int
          BY <4>3, LowByte
        <4>5. \A x \in PagesOf(Low(addr), Cur.size) : PageOf(addr) <= x /\ x \in Int
          BY <4>4 DEF PagesOf
        <4>6. \A x \in PagesOf(Low(addr), Cur.size) : ~(x < Kernel * Reach(4))
          BY <2>2, <4>2, <4>4, <4>5
        <4>. QED  BY <4>6 DEF WereFree
      <3>. QED  BY <3>5, <3>6
    <2>9. CASE Absent(p) # {1}
      <3>1. Absent(p) \ {1} # {} /\ addr = p * PageSize
        BY <1>2, <2>4, <2>9 DEF AvailableFound
      <3>2. ~Has(2, p)
        <4>. SUFFICES ASSUME Has(2, p)
                      PROVE  Absent(p) \ {1} = {}
          BY <3>1
        <4>1. \A k \in 2 .. 4 : Has(k, p)
          BY <2>5, Above DEF IInv, TreeInv
        <4>. QED  BY <4>1 DEF Absent
      <3>3. Node(2, p) = <<2, 0>> /\ p \div Reach(2) = 0
        BY FirstTable
      <3>4. p = 1
        BY <1>1, <1>4, <2>4, <3>2, <3>3 DEF SoughtInv, Has
      <3>5. \A x \in p .. (p + n) - 1 : x \notin Leaves(pre)
        <4>. SUFFICES ASSUME NEW x \in p .. (p + n) - 1
                      PROVE  x \notin Leaves(pre)
          OBVIOUS
        <4>1. x \in 0 .. N - 1 /\ x \in Int
          BY <2>2, <2>3, <3>4
        <4>2. x \div Reach(2) = p \div Reach(2)
          BY <3>3, <4>1, FirstTable
        <4>3. 2 \in 1 .. 4
          OBVIOUS
        <4>. QED  BY <1>1, <2>5, <3>2, <4>1, <4>2, <4>3, NoLeaf DEF IInv, TreeInv
      <3>. QED  BY <2>5, <2>7, <3>1, <3>5
    <2>. QED  BY <2>8, <2>9
  <1>5. CASE addr = 0 /\ Return(0)
    <2>1. /\ Ret' = 0 /\ pc' = "idle"
          /\ \A op : Done(op)' <=> Cur.op = op
      BY <1>5, ReturnDone DEF IInv, Return
    <2>. QED  BY <1>1, <2>1 DEF SoughtInv, SearchesFree
  <1>6. CASE addr # 0 /\ pc' = "kmmap" /\ UNCHANGED <<todo, res>>
             /\ w' = Walk(addr, Cur.size, convert_to_arch_flags(Cur.flags))
    <2>1. w'.addr = addr /\ Cur' = Cur
      BY <1>6 DEF Walk, Cur
    <2>2. Fits' => Fits
      BY <2>1 DEF Fits
    <2>3. PICK S : S = PagesOf(Low(addr), Cur.size)
      OBVIOUS
    <2>4. PagesOf(Low(w.addr), Cur.size)' = S
      BY <2>1, <2>3
    <2>5. Fits => WereFree(S)'
      BY <1>1, <1>4, <2>3 DEF WereFree
    <2>6. SoughtInv'
      BY <1>6, <2>2, <2>4, <2>5 DEF SoughtInv, WereFree
    <2>. QED  BY <1>6, <2>6 DEF SearchesFree, Done
  <1>. QED  BY <1>3, <1>5, <1>6

\* Nothing is said of the searches where no search, no walk and no return is.
LEMMA SearchElsewhere ==
  ASSUME pc' \notin {"empty", "size", "physical"}
  PROVE  /\ pc' \notin {"available", "kmmap"} => SoughtInv'
         /\ pc' # "idle" => SearchesFree'
         /\ DeviceInv'
  BY DeviceElsewhere DEF SoughtInv, SearchesFree, Done

\* The return of a call that does not search.
LEMMA ReturnPlain ==
  ASSUME IsSequence(res), NEW v, Return(v), Cur.op \notin {"space_alloc", "map_physical"}
  PROVE  SoughtInv' /\ DeviceInv' /\ SearchesFree'
  <1>1. pc' = "idle" /\ ~(Done("space_alloc")') /\ ~(Done("map_physical")')
    BY ReturnDone DEF Return
  <1>. QED  BY <1>1, SearchElsewhere DEF SearchesFree

\* A page that kmmap maps: the range of space_alloc is free, and the walk that comes
\* back has not been in the kernel half.
LEMMA KmmapPageSearch ==
  ASSUME IInv, SoughtInv, KmmapPage
  PROVE  SoughtInv' /\ DeviceInv' /\ SearchesFree'
  <1>1. pc = "kmmap" /\ UNCHANGED pre /\ w.page < Kernel * Reach(4)
    BY DEF KmmapPage
  <1>2. todo # <<>> /\ DOMAIN w = {"page", "off", "size", "flags", "temp", "addr"}
    BY <1>1, LoopNames DEF IInv, TreeInv, CallInv
  <1>3. PICK p \in 0 .. Pages - 1 : p = w.page
    BY DEF IInv, TypeOK
  <1>4. PICK off \in 0 .. PageSize - 1 : off = w.off
    BY DEF IInv, TypeOK
  <1>5. PICK left \in 0 .. Word - 1 : left = w.size
    BY DEF IInv, TypeOK
  <1>6. PICK a \in 0 .. Word - 1 : a = w.addr
    BY DEF IInv, TypeOK
  <1>7. /\ PageSize \in Nat \ {0} /\ p \in Int /\ off \in Nat /\ left \in Nat /\ a \in Int
        /\ p < Kernel * Reach(4) /\ Kernel * Reach(4) \in Nat
    BY <1>1, <1>3, Constants, KernelHalf
  <1>8. PICK size \in Nat : size = Cur.size
    <2>1. Cur.size \in 0 .. Word - 1
      BY <1>2, CurrentCall DEF IInv, TreeInv
    <2>. QED  BY <2>1, Constants
  <1>9. PICK S : S = PagesOf(Low(a), size)
    OBVIOUS
  <1>10. Cur.op = "space_alloc" /\ Fits => WereFree(S)
    BY <1>1, <1>6, <1>8, <1>9 DEF SoughtInv
  <1>11. CASE LastPage
    <2>1. Return(w.addr)
      BY <1>11 DEF KmmapPage
    <2>2. /\ Call' = Cur /\ Ret' = a /\ pc' = "idle"
          /\ \A op : Done(op)' <=> Cur.op = op
      BY <1>6, <2>1, ReturnDone DEF IInv, Return
    <2>3. Cur.op \in {"kmmap", "space_alloc"}
      BY <1>1 DEF IInv, MappedInv
    <2>4. \A x \in S : x < Kernel * Reach(4)
      <3>1. /\ p * PageSize + off + left = Low(a) + size
            /\ \/ p = PageOf(a) /\ off = a % PageSize
               \/ p > PageOf(a) /\ off = 0 /\ left > 0
        BY <1>1, <1>3, <1>4, <1>5, <1>6, <1>8 DEF IInv, MappedInv
      <3>2. off + left <= PageSize
        BY <1>4, <1>5, <1>7, <1>11 DEF LastPage, SpaceLeft
      <3>3. S = PageOf(a) .. p
        BY <1>7, <1>9, <3>1, <3>2, LastOfRange
      <3>4. PageOf(a) \in Int
        BY <1>7, LowByte
      <3>. QED  BY <1>7, <3>3, <3>4
    <2>5. PagesOf(Low(Ret), Call.size)' = S
      BY <1>8, <1>9, <2>2
    <2>6. Call'.size \in 1 .. (N - 1) * PageSize => Fits
      BY <2>2 DEF Fits
    <2>7. SearchesFree'
      <3>1. Done("map_physical")' = FALSE
        BY <2>2, <2>3
      <3>2. Done("space_alloc")' => Cur.op = "space_alloc"
        BY <2>2
      <3>3. WereFree(S) => S \cap Leaves(pre') = {}
        BY <1>1, <2>4 DEF WereFree
      <3>. QED  BY <1>10, <2>5, <2>6, <3>1, <3>2, <3>3 DEF SearchesFree
    <2>. QED  BY <2>2, <2>7, SearchElsewhere
  <1>12. CASE ~LastPage
    <2>1. NextPage /\ UNCHANGED <<todo, pc, res>>
      BY <1>12 DEF KmmapPage
    <2>2. w'.addr = a /\ Cur' = Cur /\ pc' = "kmmap"
      BY <1>1, <1>2, <1>6, <2>1 DEF NextPage, Cur
    <2>3. (Fits' => Fits) /\ PagesOf(Low(w.addr), Cur.size)' = S
      BY <1>8, <1>9, <2>2 DEF Fits
    <2>4. SoughtInv'
      BY <1>1, <1>10, <2>2, <2>3 DEF SoughtInv, WereFree
    <2>. QED  BY <2>2, <2>4, SearchElsewhere
  <1>. QED  BY <1>11, <1>12

\* A step that changes nothing.
LEMMA SearchStutter ==
  ASSUME SearchInv, UNCHANGED vars
  PROVE  SearchInv'
  <1>1. UNCHANGED <<pt, lock, todo, pc, w, pre, res>>
    BY DEF vars
  <1>2. KernelInv' /\ SoughtInv' /\ SearchesFree'
    BY <1>1 DEF SearchInv, KernelInv, SoughtInv, Fits, WereFree, PageNum, Cur, SearchesFree,
       Done, Call, Ret, Packed, Adds
  <1>3. DeviceInv'
    BY <1>1 DEF SearchInv, DeviceInv, SizeInv, PlacedInv, Aligned, Absent, Has, WereFree,
       Packed, Adds, Cur
  <1>. QED  BY <1>2, <1>3 DEF SearchInv

\* Every step keeps what the searches have found so far.
LEMMA SearchStep ==
  ASSUME IInv, SearchInv, Next
  PROVE  SoughtInv' /\ DeviceInv' /\ SearchesFree'
  <1>. USE DEF SearchInv
  <1>1. CASE CallKmmap
    <2>1. pc' = "kmmap" /\ todo' = todo /\ Cur.op = "kmmap"
      BY <1>1 DEF CallKmmap, Begin
    <2>2. Cur'.op = "kmmap"
      BY <2>1 DEF Cur
    <2>. QED  BY <2>1, <2>2, SearchElsewhere DEF SoughtInv
  <1>2. CASE CallSpaceAlloc
    <2>1. pc' = "available"
      BY <1>2 DEF CallSpaceAlloc
    <2>. QED  BY <1>2, <2>1, SoughtStart, SearchElsewhere
  <1>3. CASE CallMapPhysical
    <2>1. /\ pc' = "empty" /\ UNCHANGED <<pt, todo>> /\ pre' = pt /\ Cur.op = "map_physical"
          /\ w' = Walk(Devices * PageSize, 0, Cur.flags)
      BY <1>3 DEF CallMapPhysical, Begin
    <2>2. Cur' = Cur
      BY <2>1 DEF Cur
    <2>3. w'.page = Devices
      <3>1. Devices \in Nat /\ Devices < Pages
        BY KernelHalf, Constants
      <3>. QED  BY <2>1, <3>1, PageBytes DEF Walk
    <2>4. Aligned(Devices)'
      BY <2>1, DevicesAligned DEF Aligned, Absent, Has
    <2>5. Devices <= w'.page /\ Aligned(w.page)'
      BY <2>3, <2>4, KernelHalf, Constants DEF Aligned, Absent, Has
    <2>. QED  BY <2>1, <2>2, <2>5 DEF DeviceInv, SoughtInv, SearchesFree, Done
  <1>4. CASE CallKmmapPhysical
    <2>1. pc' = "physical" /\ todo' = todo /\ Cur.op = "kmmap_physical"
      BY <1>4 DEF CallKmmapPhysical, Begin
    <2>2. Cur'.op = "kmmap_physical"
      BY <2>1 DEF Cur
    <2>. QED  BY <2>1, <2>2 DEF DeviceInv, SoughtInv, SearchesFree, Done
  <1>5. CASE CallKmunmap
    <2>1. Cur.op = "kmunmap" /\ (Return(0) \/ pc' = "unmap")
      BY <1>5 DEF CallKmunmap, Begin
    <2>. QED  BY <2>1, ReturnPlain, SearchElsewhere DEF IInv
  <1>6. CASE CheckProtocol
    <2>1. Cur.op = "check" /\ (Return(0) \/ pc' = "panic")
      BY <1>6 DEF CheckProtocol, Begin
    <2>. QED  BY <2>1, ReturnPlain, SearchElsewhere DEF IInv
  <1>7. CASE Sysret \/ EnterKernelHalf \/ OutOfFrames
    <2>1. pc' \in {"user", "kernel_half", "panic"}
      BY <1>7 DEF Sysret, EnterKernelHalf, OutOfFrames
    <2>. QED  BY <2>1, SearchElsewhere
  <1>8. CASE AddTable
    <2>1. pc \in {"kmmap", "physical"} /\ UNCHANGED <<todo, pc, w, pre>>
      BY <1>8 DEF AddTable
    <2>2. Cur' = Cur
      BY <2>1 DEF Cur
    <2>3. SoughtInv'
      BY <2>1, <2>2 DEF SoughtInv, Fits, WereFree
    <2>. QED  BY <1>8, <2>1, <2>3, AddTableDevice DEF SearchesFree, Done
  <1>9. CASE PhysicalPage
    <2>1. pc = "physical" /\ (Return(w.addr) \/ UNCHANGED pc)
      BY <1>9 DEF PhysicalPage
    <2>2. pc' \notin {"available", "kmmap"}
      BY <2>1 DEF Return
    <2>. QED  BY <1>9, <2>2, PhysicalPageStep DEF SoughtInv
  <1>10. CASE AvailableUsed \/ AvailableCount
    <2>1. pc' = "available"
      BY <1>10 DEF AvailableUsed, AvailableCount
    <2>. QED  BY <1>10, <2>1, SoughtTurn, SearchElsewhere
  <1>11. CASE AvailableFound
    <2>1. pc' \in {"idle", "kmmap"}
      BY <1>11 DEF AvailableFound, Return
    <2>. QED  BY <1>11, <2>1, SoughtFound, SearchElsewhere
  <1>12. CASE SearchEmpty \/ GetSize
    <2>1. pc' \in {"empty", "size", "physical"}
      <3>1. CASE SearchEmpty
        BY <3>1 DEF SearchEmpty
      <3>2. CASE GetSize
        BY <3>2 DEF GetSize
      <3>. QED  BY <1>12, <3>1, <3>2
    <2>2. DeviceInv'
      BY <1>12, SearchEmptyStep, GetSizeStep
    <2>. QED  BY <2>1, <2>2 DEF SoughtInv, SearchesFree, Done
  <1>13. CASE UnmapPartial \/ UnmapPage
    <2>1. /\ pc = "unmap" /\ Cur.op = "kmunmap"
          /\ Return(0) \/ pc' \in {"unmap", "fault"}
      BY <1>13 DEF UnmapPartial, UnmapPage, UnmapNext, IInv, UnmappedInv
    <2>. QED  BY <2>1, ReturnPlain, SearchElsewhere DEF IInv
  <1>14. CASE UNCHANGED vars
    BY <1>14, SearchStutter
  <1>. QED
    BY <1>1, <1>2, <1>3, <1>4, <1>5, <1>6, <1>7, <1>8, <1>9, <1>10, <1>11, <1>12, <1>13, <1>14,
       KmmapPageSearch
    DEF Next, Move, Spin, Rest

-----------------------------------------------------------------------------
(* The theorems.                                                           *)

\* The invariant of the address space.
THEOREM Invariance == Spec => []IInv
  <1>1. Init => IInv
    BY RangesInit
  <1>2. ASSUME IInv, Next
        PROVE  IInv'
    <2>1. TreeInv' /\ TypeOK' /\ LockInv'
      BY <1>2, TreeStep, TypeStep DEF IInv
    <2>. QED  BY <1>2, <2>1, RangesStep DEF IInv, DoneInv
  <1>3. ASSUME IInv, UNCHANGED vars
        PROVE  IInv'
    <2>1. TreeInv'
      BY <1>3 DEF vars, IInv, TreeInv, CallInv, NodesInv, TreeOK, IsSequence
    <2>2. TypeOK' /\ LockInv' /\ IsSequence(res)'
      BY <1>3 DEF vars, IInv, TypeOK, LockInv, IsSequence
    <2>3. MappedInv' /\ UnmappedInv' /\ KmmapMaps' /\ AllocMaps' /\ UnmapsRange'
      BY <1>3 DEF vars, IInv, MappedInv, UnmappedInv, KmmapMaps, AllocMaps, UnmapsRange,
         Adds, Done, Call, Ret, Cur
    <2>. QED  BY <2>1, <2>2, <2>3 DEF IInv
  <1>. QED  BY <1>1, <1>2, <1>3, PTL DEF Spec

\* The table indices stay inside their tables, the offsets inside a page, the sizes
\* and the counts at 0 or above, for every size of the tables, every number of frames
\* and every script.
THEOREM TypeCorrect == Spec => []TypeOK
  <1>1. IInv => TypeOK
    BY DEF IInv
  <1>. QED  BY <1>1, Invariance, PTL

\* The four levels stay a tree and no frame serves two entries, also in a core that
\* runs out of frames in the middle of a walk.
THEOREM Tree == Spec => []TreeOK
  <1>1. IInv => TreeOK
    BY DEF IInv, TreeInv
  <1>. QED  BY <1>1, Invariance, PTL

\* What kmmap and space_alloc have mapped when they return is the range they were
\* asked for and nothing else, no entry that was there has changed, and the locks
\* are free.  That the address of space_alloc was free is SearchesSafe.
THEOREM RangesMapped == Spec => []MapsRange
  <1>1. IInv => MapsRange
    BY DEF IInv, MapsRange
  <1>. QED  BY <1>1, Invariance, PTL

\* What kmunmap has freed when it returns is every whole page of its range and no
\* other.
THEOREM RangesUnmapped == Spec => []UnmapsRange
  <1>1. IInv => UnmapsRange
    BY DEF IInv
  <1>. QED  BY <1>1, Invariance, PTL

\* What the two searches return was free when the call began, and map_physical maps it
\* and nothing else: for space_alloc when the request fits in one table of page entries,
\* for map_physical when no index of get_size wraps inside a table.
THEOREM SearchesSafe == Spec => []SearchesFree
  <1>1. Init => IInv /\ SearchInv
    <2>. SUFFICES ASSUME Init
                  PROVE  SearchInv
      BY RangesInit
    <2>1. DOMAIN pt = {<<4, Kernel>>} /\ pc = "idle" /\ res = <<>>
      BY DEF Init
    <2>2. KernelInv
      BY <2>1 DEF KernelInv
    <2>. QED  BY <2>1, <2>2 DEF SearchInv, SoughtInv, DeviceInv, SearchesFree, Done
  <1>2. ASSUME IInv, SearchInv, [Next]_vars
        PROVE  SearchInv'
    <2>1. CASE Next
      BY <1>2, <2>1, KernelStep, SearchStep DEF SearchInv
    <2>2. CASE UNCHANGED vars
      BY <1>2, <2>2, SearchStutter
    <2>. QED  BY <1>2, <2>1, <2>2
  <1>3. SearchInv => SearchesFree
    BY DEF SearchInv
  <1>. QED  BY <1>1, <1>2, <1>3, Invariance, PTL DEF Spec
=============================================================================
