-------------------------------- MODULE Vmm --------------------------------
(***************************************************************************)
(* The virtual memory manager (vmm.c) and space_alloc (vmmwrapper.c) on one *)
(* address space: a tree of tables with four levels of N entries, walked   *)
(* through the recursive entry.  One core makes the calls of a script, one *)
(* turn of a loop per step.  Addresses and sizes are in bytes and wrap at  *)
(* Word; a page number keeps the four table indices of an address.         *)
(***************************************************************************)
EXTENDS Integers, Sequences

CONSTANTS
    N,           \* ARCH_N_ENTRY, 512 in the code
    PageSize,    \* ARCH_PAGE_SIZE
    StackPage,   \* the page of 0x10000 + 0x3000 * COREID
    FrameCount,  \* frames that get_frame can hand out
    Scripts      \* sequences of calls a core makes

\* The pages under an entry of level k, 1 being a page itself.
Reach(k) == CASE k = 1 -> 1 [] k = 2 -> N [] k = 3 -> N * N [] OTHER -> N * N * N

Pages == N * Reach(4)
Word == 2 * PageSize * Pages

\* An address and a size of a call are 64-bit words; create_page_directory has
\* taken a frame.
ASSUME VmmAssumption ==
    /\ N \in Nat \ {0, 1, 2, 3}
    /\ PageSize \in Nat \ {0, 1}
    /\ StackPage \in 1 .. N - 2
    /\ FrameCount \in Nat \ {0}
    /\ \A s \in Scripts :
        /\ s \in Seq({s[k] : k \in 1 .. Len(s)})
        /\ \A k \in 1 .. Len(s) :
            s[k].addr \in 0 .. Word - 1 /\ s[k].size \in 0 .. Word - 1

Frame == 1 .. FrameCount
Device == 0                         \* a physical address given by the caller

\* The L4 entries from this one on are Limine's and the recursive one; the
\* entries below are the program's, the devices' and the context frame's.  The
\* recursive entry is among the lower ones in the code, at 50 (vmm.h:15), to which
\* none of the calls comes.
Kernel == N - 1
Devices == Reach(4)                      \* craft_addr(1, 0, 0, 0, 0)
FirstPage == 1                      \* craft_addr(0, 0, 0, 1, 0)
ContextPage == Kernel * Reach(4) - 1     \* 0x7FFFFFFFF000

VARIABLES
    pt,     \* the entries that are not 0: <<level, index>> |-> frame and flags
    lock,   \* the bottlenecks this core is in
    todo,   \* the calls still to make, the current one first
    pc,     \* the loop the core is in
    w,      \* its variables
    pre,    \* pt when the current call began
    res     \* the calls that have returned, with their results

vars == <<pt, lock, todo, pc, w, pre, res>>

-----------------------------------------------------------------------------
(* Addresses and entries.                                                  *)

\* The entry of level k on the way to page p.
Node(k, p) == <<k, p \div Reach(k)>>
Has(k, p) == Node(k, p) \in DOMAIN pt

\* The levels whose table is not there yet on the way to page p, 1 being the
\* page itself.
Absent(p) == {k \in 1 .. 4 : ~Has(k, p)}
Highest(S) == CHOOSE k \in S : \A j \in S : j <= k

\* address.offset.plmK++ on a 9-bit field: it wraps inside its table, so the
\* tests "plmK < ARCH_N_ENTRY" never fail.
Bump(p, k) ==
    LET d == (p \div Reach(k)) % N
    IN  p + (((d + 1) % N) - d) * Reach(k)

PageOf(a) == (a \div PageSize) % Pages

\* Flags are the bits of an entry.  convert_to_arch_flags of the generic flags.
P == 0
W == 1
U == 2
convert_to_arch_flags(flags) ==
    {bit \in {0, 1, 2, 9, 10, 63} :
        \/ "PRESENT" \in flags /\ bit = 0
        \/ "WRITE" \in flags /\ bit = 1
        \/ "USER" \in flags /\ bit = 2
        \/ "COPY_ON_WRITE" \in flags /\ bit = 9
        \/ "EXECUTE" \in flags /\ bit = 63
        \/ "SWAPPED" \in flags /\ bit = 10}

\* get_frame as this module uses it, which module Pmm is about: a frame nobody has.
Free == Frame \ {pt[n].frame : n \in DOMAIN pt}
get_frame == CHOOSE f \in Free : \A g \in Free : f <= g

\* *entry = e
Put(n, e) == [m \in DOMAIN pt \cup {n} |-> IF m = n THEN e ELSE pt[m]]

Leaves(t) == {n[2] : n \in {m \in DOMAIN t : m[1] = 1}}

-----------------------------------------------------------------------------
(* The calls of a script.                                                  *)

KmmapCall(addr, size, flags) ==
    [op |-> "kmmap", addr |-> addr, size |-> size, flags |-> flags]
AllocCall(size, flags) ==
    [op |-> "space_alloc", addr |-> 0, size |-> size, flags |-> flags]
MapPhysicalCall(size) ==
    [op |-> "map_physical", addr |-> 0, size |-> size, flags |-> {W}]
KmmapPhysicalCall(addr, size) ==
    [op |-> "kmmap_physical", addr |-> addr, size |-> size, flags |-> {W}]
\* space_free is kmunmap to upper addresses.
UnmapCall(addr, size) ==
    [op |-> "kmunmap", addr |-> addr, size |-> size, flags |-> {}]
UnmapLowerCall(addr, size) == UnmapCall((addr - size) % Word, size)
Step(name) == [op |-> name, addr |-> 0, size |-> 0, flags |-> {}]

\* init_protocol: the capabilities and the protocol structure each fit in one
\* page; then the test of the two addresses.
init_protocol ==
    <<AllocCall(PageSize \div 2, {"PRESENT", "USER"}),
      AllocCall(1, {"PRESENT", "USER"}), Step("check")>>

\* entry_launch on a core whose program has these loadable segments: map_elf_64,
\* init_protocol, the stack, and sysret.
entry_launch(segments) ==
    [i \in 1 .. Len(segments) |->
        KmmapCall(segments[i][1], segments[i][2], {P, W, U})]
    \o init_protocol
    \o <<KmmapCall(StackPage * PageSize, 2 * PageSize, {P, W, U}), Step("sysret")>>

-----------------------------------------------------------------------------
(* Calls and returns.                                                      *)

Cur == Head(todo)

\* The current call returns v.
Return(v) ==
    /\ pc' = "idle"
    /\ todo' = Tail(todo)
    /\ res' = Append(res, [call |-> Cur, ret |-> v])

Walk(addr, size, flags) ==
    [page |-> PageOf(addr), off |-> addr % PageSize, size |-> size,
     flags |-> flags, temp |-> 0, addr |-> addr]

Begin(op) == pc = "idle" /\ todo # <<>> /\ Cur.op = op /\ pre' = pt

\* kmmap: BEGIN_BOTTLENECK and the first indices.
CallKmmap ==
    /\ Begin("kmmap")
    /\ "kmmap" \notin lock
    /\ lock' = lock \cup {"kmmap"}
    /\ pc' = "kmmap"
    /\ w' = Walk(Cur.addr, Cur.size, Cur.flags)
    /\ UNCHANGED <<pt, todo, res>>

\* space_alloc takes its own lock and starts the search at the second page.
CallSpaceAlloc ==
    /\ Begin("space_alloc")
    /\ "space_alloc" \notin lock
    /\ lock' = lock \cup {"space_alloc"}
    /\ pc' = "available"
    /\ w' = [Walk(FirstPage * PageSize, Cur.size, {}) EXCEPT
                !.temp = (Cur.size + PageSize - 1) \div PageSize]
    /\ UNCHANGED <<pt, todo, res>>

CallMapPhysical ==
    /\ Begin("map_physical")
    /\ pc' = "empty"
    /\ w' = Walk(Devices * PageSize, 0, Cur.flags)
    /\ UNCHANGED <<pt, lock, todo, res>>

CallKmmapPhysical ==
    /\ Begin("kmmap_physical")
    /\ pc' = "physical"
    /\ w' = Walk(Cur.addr, Cur.size, Cur.flags)
    /\ UNCHANGED <<pt, lock, todo, res>>

\* A mutant: the partial first page is not taken off the size.
UnmapSizeKept(off, size) == size

\* What is left of the size behind a partial first page: size_t wraps.
UnmapSize(off, size) ==
    IF off # 0 THEN (size - (PageSize - off)) % Word ELSE size

\* kmunmap: the early return, or the loops.
CallKmunmap ==
    /\ Begin("kmunmap")
    /\ LET off == Cur.addr % PageSize
           size == UnmapSize(off, Cur.size)
       IN  IF size <= PageSize - 1 \/ size <= off
           THEN Return(0) /\ UNCHANGED w
           ELSE /\ pc' = "unmap"
                /\ w' = Walk(Cur.addr, size, {})
                /\ UNCHANGED <<todo, res>>
    /\ UNCHANGED <<pt, lock>>

\* init_protocol: if(!(copy && protocol)) PANIC(...).
CheckProtocol ==
    /\ Begin("check")
    /\ IF \E i \in {Len(res) - 1, Len(res)} : res[i].ret = 0
       THEN pc' = "panic" /\ UNCHANGED <<todo, res>>
       ELSE Return(0)
    /\ UNCHANGED <<pt, lock, w>>

Sysret ==
    /\ Begin("sysret")
    /\ pc' = "user"
    /\ UNCHANGED <<pt, lock, todo, w, res>>

-----------------------------------------------------------------------------
(* The loops of kmmap and kmmap_physical.                                  *)

Entry(frame) == [frame |-> frame, flags |-> w.flags \cup {P}]

\* A page of the kernel half: what happens there depends on Limine's tables.
EnterKernelHalf ==
    /\ pc \in {"kmmap", "physical", "unmap"}
    /\ w.page >= Kernel * Reach(4)
    /\ pc' = "kernel_half"
    /\ UNCHANGED <<pt, lock, todo, w, pre, res>>

\* A mutant: a new table is made from the frame of the table above.
AddTableShared ==
    /\ pc \in {"kmmap", "physical"}
    /\ w.page < Kernel * Reach(4)
    /\ Absent(w.page) \ {1} # {}
    /\ LET k == Highest(Absent(w.page))
       IN  pt' = Put(Node(k, w.page),
                     Entry(IF k < 4 THEN pt[Node(k + 1, w.page)].frame ELSE get_frame))
    /\ UNCHANGED <<lock, todo, pc, w, pre, res>>

\* if(*entry == 0) *entry = get_frame() | flags | 1, on the levels 4, 3 and 2.
AddTable ==
    /\ pc \in {"kmmap", "physical"}
    /\ w.page < Kernel * Reach(4)
    /\ Absent(w.page) \ {1} # {}
    /\ Free # {}
    /\ pt' = Put(Node(Highest(Absent(w.page)), w.page), Entry(get_frame))
    /\ UNCHANGED <<lock, todo, pc, w, pre, res>>

\* if(space_left >= size) ends both loops; the next page otherwise.
SpaceLeft == PageSize - w.off
\* A mutant: the end of the range is missed when it is the end of a page.
LastPageStrict == SpaceLeft > w.size

LastPage == SpaceLeft >= w.size
NextPage == w' = [w EXCEPT !.page = @ + 1, !.off = 0, !.size = @ - SpaceLeft]

\* A mutant: space_alloc keeps its lock.
ReleasesKmmap == {"kmmap"}
\* The locks that the end of the walk releases: END_BOTTLENECK of kmmap and, in
\* space_alloc, its own.
Releases == {"kmmap", Cur.op}

\* The innermost loop of kmmap: a page that is mapped is left as it is.
KmmapPage ==
    /\ pc = "kmmap"
    /\ w.page < Kernel * Reach(4)
    /\ Absent(w.page) \subseteq {1}
    /\ Has(1, w.page) \/ Free # {}
    /\ pt' = IF Has(1, w.page) THEN pt ELSE Put(Node(1, w.page), Entry(get_frame))
    /\ IF LastPage
       THEN /\ Return(w.addr)
            /\ lock' = lock \ Releases
            /\ UNCHANGED w
       ELSE NextPage /\ UNCHANGED <<lock, todo, pc, res>>
    /\ UNCHANGED pre

\* get_frame panics, which stops the core, when a table or a page needs a frame
\* and there is none.
OutOfFrames ==
    /\ pc \in {"kmmap", "physical"}
    /\ w.page < Kernel * Reach(4)
    /\ Free = {}
    /\ Absent(w.page) \ {1} # {} \/ (pc = "kmmap" /\ ~Has(1, w.page))
    /\ pc' = "panic"
    /\ UNCHANGED <<pt, lock, todo, w, pre, res>>

\* The innermost loop of kmmap_physical: the entry is overwritten.
PhysicalPage ==
    /\ pc = "physical"
    /\ w.page < Kernel * Reach(4)
    /\ Absent(w.page) \subseteq {1}
    /\ pt' = Put(Node(1, w.page), Entry(Device))
    /\ IF LastPage
       THEN Return(w.addr) /\ UNCHANGED w
       ELSE NextPage /\ UNCHANGED <<todo, pc, res>>
    /\ UNCHANGED <<lock, pre>>

-----------------------------------------------------------------------------
(* The searches.                                                           *)

PageNum == (Cur.size + PageSize - 1) \div PageSize

\* A mutant: a used page does not start the count again.
AvailableUsedCounted ==
    /\ pc = "available"
    /\ Absent(w.page) = {}
    /\ w' = [w EXCEPT !.page = Bump(@, 1)]
    /\ UNCHANGED <<pt, lock, todo, pc, pre, res>>

\* search_available: a used page starts the count of free pages again.
AvailableUsed ==
    /\ pc = "available"
    /\ Absent(w.page) = {}
    /\ w' = [w EXCEPT !.page = Bump(@, 1), !.temp = PageNum]
    /\ UNCHANGED <<pt, lock, todo, pc, pre, res>>

\* A mutant: the count goes on at 0.
AvailableCountPast ==
    /\ pc = "available"
    /\ Absent(w.page) = {1}
    /\ w' = [w EXCEPT !.page = Bump(@, 1), !.temp = @ - 1]
    /\ UNCHANGED <<pt, lock, todo, pc, pre, res>>

\* search_available: a free page while temp_page_num is not 0.
AvailableCount ==
    /\ pc = "available"
    /\ Absent(w.page) = {1}
    /\ w.temp # 0
    /\ w' = [w EXCEPT !.page = Bump(@, 1), !.temp = @ - 1]
    /\ UNCHANGED <<pt, lock, todo, pc, pre, res>>

\* search_available returns: an absent table gives the address at once, else
\* the last page_num of the page_num + 1 free pages.  space_alloc then returns 0
\* as it is, its lock held, or goes on with kmmap.
AvailableFound ==
    /\ pc = "available"
    /\ Absent(w.page) \ {1} # {} \/ (Absent(w.page) = {1} /\ w.temp = 0)
    /\ LET addr == IF Absent(w.page) = {1}
                   THEN (w.page - (PageNum - 1)) * PageSize % Word
                   ELSE w.page * PageSize
       IN  IF addr = 0
           THEN Return(0) /\ UNCHANGED <<lock, w>>
           ELSE /\ pc' = "kmmap"
                /\ lock' = lock \cup {"kmmap"}
                /\ w' = Walk(addr, Cur.size, convert_to_arch_flags(Cur.flags))
                /\ UNCHANGED <<todo, res>>
    /\ UNCHANGED <<pt, pre>>

\* search_empty_space: one turn, or the address.
SearchEmpty ==
    /\ pc = "empty"
    /\ IF Absent(w.page) = {}
       THEN w' = [w EXCEPT !.page = Bump(@, 1)] /\ UNCHANGED pc
       ELSE w' = [w EXCEPT !.addr = w.page * PageSize, !.size = 0] /\ pc' = "size"
    /\ UNCHANGED <<pt, lock, todo, pre, res>>

\* get_size adds up absent entries of any level until stop_value; at a used page
\* map_physical searches again from there.
GetSize ==
    /\ pc = "size"
    /\ IF Absent(w.page) = {}
       THEN /\ pc' = "empty"
            /\ w' = Walk((w.addr + w.size) % Word, 0, Cur.flags)
       ELSE LET k == Highest(Absent(w.page))
                size == w.size + Reach(k) * PageSize
            IN  IF size >= Cur.size
                THEN pc' = "physical" /\ w' = Walk(w.addr, Cur.size, Cur.flags)
                ELSE w' = [w EXCEPT !.page = Bump(@, k), !.size = size] /\ UNCHANGED pc
    /\ UNCHANGED <<pt, lock, todo, pre, res>>

-----------------------------------------------------------------------------
(* The loops of kmunmap.                                                   *)

\* The next page.  Behind the last entry of a table, is_frame_empty reads the
\* table at its physical address, which is not mapped (create_page_directory
\* clears entry 0, and no script maps the pages with the frames' numbers).
UnmapNext(size) ==
    IF (w.page + 1) % N = 0
    THEN pc' = "fault" /\ UNCHANGED <<todo, w, res>>
    ELSE /\ w' = [w EXCEPT !.page = @ + 1, !.off = 0, !.size = size]
         /\ UNCHANGED <<todo, pc, res>>

\* A first page that the range does not cover is kept.
UnmapPartial ==
    /\ pc = "unmap"
    /\ w.page < Kernel * Reach(4)
    /\ w.off # 0
    /\ UnmapNext(w.size)
    /\ UNCHANGED <<pt, lock, pre>>

\* A page is freed; the entries of a missing table cannot be read.
UnmapPage ==
    /\ pc = "unmap"
    /\ w.page < Kernel * Reach(4)
    /\ w.off = 0
    /\ LET size == (w.size - PageSize) % Word
       IN  IF Absent(w.page) \ {1} # {}
           THEN pc' = "fault" /\ UNCHANGED <<pt, todo, w, res>>
           ELSE /\ pt' = [n \in DOMAIN pt \ {Node(1, w.page)} |-> pt[n]]
                /\ IF size < PageSize
                   THEN Return(0) /\ UNCHANGED w
                   ELSE UnmapNext(size)
    /\ UNCHANGED <<lock, pre>>

-----------------------------------------------------------------------------

\* create_page_directory: Limine's entries and the recursive one, entry 0 empty;
\* setup_context_frame is the first call.
Init ==
    /\ pt = [n \in {<<4, Kernel>>} |-> [frame |-> 1, flags |-> {P, W, U}]]
    /\ lock = {}
    /\ \E s \in Scripts : todo = <<KmmapCall(ContextPage * PageSize, 1, {W})>> \o s
    /\ pc = "idle"
    /\ w = Walk(0, 0, {})
    /\ pre = pt
    /\ res = <<>>

\* BEGIN_BOTTLENECK(space_alloc) on a lock that this core left locked.
Spin ==
    /\ pc = "idle" /\ todo # <<>> /\ Cur.op = "space_alloc"
    /\ "space_alloc" \in lock
    /\ UNCHANGED vars

\* The program runs, the core has stopped, or the script is done.
Rest ==
    /\ pc \in {"user", "panic", "fault", "kernel_half"} \/ (pc = "idle" /\ todo = <<>>)
    /\ UNCHANGED vars

Move ==
    \/ CallKmmap \/ CallSpaceAlloc \/ CallMapPhysical \/ CallKmmapPhysical
    \/ CallKmunmap \/ CheckProtocol \/ Sysret
    \/ EnterKernelHalf \/ AddTable \/ KmmapPage \/ OutOfFrames \/ PhysicalPage
    \/ AvailableUsed \/ AvailableCount \/ AvailableFound \/ SearchEmpty \/ GetSize
    \/ UnmapPartial \/ UnmapPage

Next == Move \/ Spin \/ Rest

Spec == Init /\ [][Next]_vars

\* A core that can move moves.
FairSpec == Spec /\ WF_vars(Move)

-----------------------------------------------------------------------------
(* Properties.                                                             *)

Loops == {"kmmap", "physical", "available", "empty", "size", "unmap"}

\* The state has the shape the code gives it: the indices stay in their tables,
\* sizes and counts do not go below 0.
TypeOK ==
    /\ \A n \in DOMAIN pt :
        /\ n[1] \in 1 .. 4 /\ n[2] \in 0 .. Pages \div Reach(n[1]) - 1
        /\ pt[n].frame \in Frame \cup {Device}
    /\ lock \subseteq {"kmmap", "space_alloc"}
    /\ pc \in Loops \cup {"idle", "user", "panic", "fault", "kernel_half"}
    /\ w.page \in 0 .. Pages - 1 /\ w.off \in 0 .. PageSize - 1
    /\ w.size \in 0 .. Word - 1 /\ w.addr \in 0 .. Word - 1 /\ w.temp \in Nat

\* The tables form a tree at every step of kmmap, kmmap_physical and kmunmap: an
\* entry's table is there, and no frame serves two entries.
TreeOK ==
    /\ \A n \in DOMAIN pt : n[1] < 4 => <<n[1] + 1, n[2] \div N>> \in DOMAIN pt
    /\ \A m, n \in DOMAIN pt :
        m # n /\ pt[m].frame = pt[n].frame => pt[m].frame = Device

Done(op) == pc = "idle" /\ res # <<>> /\ res[Len(res)].call.op = op
Call == res[Len(res)].call
Ret == res[Len(res)].ret

\* The address whose page and offset the shifts of the code make out of a word:
\* the bits above the L4 index are dropped.
Low(addr) == PageOf(addr) * PageSize + (addr % PageSize)

PagesOf(addr, size) ==
    addr \div PageSize .. (IF size = 0 THEN addr ELSE addr + size - 1) \div PageSize

Adds(S) ==
    /\ Leaves(pt) = Leaves(pre) \cup S
    /\ \A n \in DOMAIN pre : n \in DOMAIN pt /\ pt[n] = pre[n]

\* kmmap maps exactly the pages that its bytes touch and changes no entry that was
\* there: the loops over four levels neither stop early nor go one page on.  Its
\* lock is free again.
KmmapMaps ==
    Done("kmmap") => Adds(PagesOf(Low(Call.addr), Call.size)) /\ lock \subseteq {"space_alloc"}

\* So does space_alloc at the address that it returns, and both locks are free.
AllocMaps ==
    Done("space_alloc") /\ Ret # 0 => Adds(PagesOf(Low(Ret), Call.size)) /\ lock = {}

\* The two callers of the loops of kmmap map exactly the pages of their bytes, over
\* every mixture of tables that were there and tables made on the way.
MapsRange == KmmapMaps /\ AllocMaps

\* No index of a search wraps inside a table of the devices: each has its first page
\* or its last entry in use.
Packed(t) ==
    \A n \in DOMAIN t :
        n[1] > 1 /\ n[2] * Reach(n[1]) \in Devices .. Kernel * Reach(4) - 1 =>
            \/ <<1, n[2] * Reach(n[1])>> \in DOMAIN t
            \/ <<n[1] - 1, n[2] * N + (N - 1)>> \in DOMAIN t

\* An address that one of the two searches chose was free, whatever holes the program
\* and the devices left, and map_physical maps exactly the pages of its bytes there.
\* search_available looks at one table of page entries, so that what it was asked for
\* has to fit in it; get_size goes on at the start of a table whose end it has passed.
SearchesFree ==
    /\ Done("space_alloc") /\ Ret # 0 /\ Call.size \in 1 .. (N - 1) * PageSize =>
           PagesOf(Low(Ret), Call.size) \cap Leaves(pre) = {}
    /\ Done("map_physical") /\ Packed(pre) =>
           /\ PagesOf(Low(Ret), Call.size) \cap Leaves(pre) = {}
           /\ Adds(PagesOf(Low(Ret), Call.size))

\* The pages that lie inside a range of bytes.
Inside(addr, size) ==
    {p \in 0 .. Pages - 1 : addr <= p * PageSize /\ (p + 1) * PageSize <= addr + size}

\* kmunmap frees exactly the pages inside its range, when the range reaches the
\* end of its first page.
UnmapsRange ==
    Done("kmunmap") /\ Call.size >= (-Call.addr) % PageSize =>
        Leaves(pt) = Leaves(pre) \ Inside(Low(Call.addr), Call.size)

\* The stack of entry_launch, mapped with flags 7 for ".stack_size = 0x2000",
\* can be written by the program.  Violated: space_alloc made the table of these
\* pages, with the read-only flags of the capabilities' copy.
StackUsable ==
    pc = "user" =>
        \A p \in {StackPage, StackPage + 1}, k \in 1 .. 4 :
            Has(k, p) /\ {P, W, U} \subseteq pt[Node(k, p)].flags

\* A search in a table with no free run of the size it needs; search_available
\* needs one page more.
Crowded ==
    /\ pc \in {"available", "empty", "size"}
    /\ LET table == (w.page \div N) * N
           n == IF pc = "available" THEN PageNum + 1 ELSE PageNum
       IN  \A first \in table .. table + N - n :
               \E p \in first .. first + n - 1 : Absent(p) = {}

\* Waiting for a lock that an earlier space_alloc kept because it found no room.
LockKept ==
    /\ pc = "idle" /\ Cur.op = "space_alloc" /\ "space_alloc" \in lock
    /\ \E i \in 1 .. Len(res) : res[i].call.op = "space_alloc" /\ res[i].ret = 0

\* Every walk and every search ends, with two exceptions and no other: a search
\* goes round in a table with no room, because the 9-bit index that it compares
\* with 512 wraps, and the core waits for its own space_alloc lock when an earlier
\* call failed, the one return that keeps it.
WalksEnd ==
    <>[]( \/ pc \in {"user", "panic", "fault", "kernel_half"}
          \/ pc = "idle" /\ todo = <<>>
          \/ Crowded \/ LockKept)
=============================================================================
