-------------------------------- MODULE Pmm --------------------------------
(***************************************************************************)
(* The physical memory manager (pmm.c) and how bootstrap_arch sets it up   *)
(* (arch.c): frames are first handed out one after the other, then through *)
(* a bitmap that lives in the first of them.  The locks of its callers     *)
(* (FrameMutex of KernelProperties) let get_frame run one call at a time.  *)
(*                                                                         *)
(* Addresses and lengths are counted in frames: the boot protocol aligns   *)
(* usable entries, on which align() is the identity.  Entry k of an array  *)
(* of the code is element k + 1 of a sequence here.                        *)
(***************************************************************************)
EXTENDS Integers, Sequences

CONSTANTS
    Memmaps,     \* the memory maps the machine may have
    PageSize,    \* ARCH_PAGE_SIZE, in bytes
    WordBits     \* bits of a word of the bitmap, 64

\* struct stivale2_mmap_entry.
Entries == [base : Nat, len : Nat \ {0}, type : Nat]

Span(e) == e.base..(e.base + e.len - 1)
Frame == UNION {UNION {Span(m[k]) : k \in DOMAIN m} : m \in Memmaps}

ASSUME MemmapAssumption ==
    \A m \in Memmaps :
        /\ m \in Seq(Entries)
        /\ \A j, k \in DOMAIN m : j # k => Span(m[j]) \cap Span(m[k]) = {}

ASSUME SizeAssumption == PageSize \in Nat \ {0} /\ WordBits \in Nat \ {0}

VARIABLES
    pc,
    memmap,      \* the map handed over by the boot loader
    available,   \* its usable entries
    nframes,
    prev_i,      \* get_frame's static index before the bitmap
    in_c,        \* number_of_frames_without_bitmap_in_c
    without,     \* number_of_frames_without_bitmap
    first_frame, \* the frame the bitmap starts in
    used,        \* the frame numbers whose bit is set
    loc,         \* first_frame_number of each entry of loc_datas
    i,           \* loop counter of the set-up
    z,           \* entry looked at by get_frame and free_frame
    CUR_FRAME_N, \* number of the frame being handed out
    cur_frame_n, \* what is left of it
    addr,        \* argument of free_frame
    boot,        \* frames handed out before the bitmap
    held         \* how often each frame was handed out since, and not freed

bootVars == <<prev_i, in_c, without, first_frame, boot>>
callVars == <<z, CUR_FRAME_N, cur_frame_n, addr>>
vars == <<pc, memmap, available, nframes, bootVars, used, loc, i, callVars, held>>

-----------------------------------------------------------------------------
(* set_memory_map and get_size_in_bits.                                    *)

Init ==
    /\ pc = "size"
    /\ memmap \in Memmaps
    /\ available = <<>>
    /\ nframes = 0
    /\ prev_i = 1 /\ in_c = 0 /\ without = 0 /\ first_frame = 0
    /\ used = {}
    /\ loc = <<>>
    /\ i = 0
    /\ z = 1 /\ CUR_FRAME_N = 0 /\ cur_frame_n = 0 /\ addr = 0
    /\ boot = {}
    /\ held = [f \in Frame |-> 0]

SizeStep ==
    /\ pc = "size"
    /\ \/ /\ i < Len(memmap)
          /\ IF memmap[i + 1].type = 1
             THEN /\ available' = Append(available, memmap[i + 1])
                  /\ nframes' = nframes + memmap[i + 1].len
             ELSE UNCHANGED <<available, nframes>>
          /\ i' = i + 1
          /\ UNCHANGED pc
       \/ /\ i = Len(memmap)
          /\ pc' = "first" /\ i' = 0
          /\ UNCHANGED <<available, nframes>>
    /\ UNCHANGED <<memmap, bootVars, used, loc, callVars, held>>

-----------------------------------------------------------------------------
(* get_frame before the bitmap: the frames of an entry in order, except    *)
(* its last one, then those of the next entry.                             *)

Offset(j) == IF j > prev_i THEN 0 ELSE in_c
Fits(j) == Offset(j) < available[j].len - 1

\* get_frame takes a frame of entry j, the first one it fits in.
BootTake(j) ==
    /\ j \in prev_i..Len(available)
    /\ Fits(j) /\ \A k \in prev_i..(j - 1) : ~Fits(k)
    /\ prev_i' = j
    /\ in_c' = Offset(j) + 1
    /\ without' = without + 1
    /\ boot' = boot \cup {available[j].base + Offset(j)}

NoneFits == \A j \in prev_i..Len(available) : ~Fits(j)

FirstFrame ==
    /\ pc = "first"
    /\ \/ \E j \in DOMAIN available :
             /\ BootTake(j)
             /\ first_frame' = available[j].base + Offset(j)
             /\ pc' = "rest"
       \/ NoneFits /\ pc' = "panic" /\ UNCHANGED bootVars
    /\ UNCHANGED <<memmap, available, nframes, used, loc, i, callVars, held>>

\* for(size_t i = 0; i < size/ARCH_PAGE_SIZE; i++) get_frame();
RestFrames ==
    /\ pc = "rest"
    /\ \/ /\ i < nframes \div PageSize
          /\ \E j \in DOMAIN available : BootTake(j)
          /\ i' = i + 1
          /\ UNCHANGED <<pc, first_frame>>
       \/ i < nframes \div PageSize /\ NoneFits /\ pc' = "panic" /\ UNCHANGED <<bootVars, i>>
       \/ i = nframes \div PageSize /\ pc' = "mark" /\ i' = 0 /\ UNCHANGED bootVars
    /\ UNCHANGED <<memmap, available, nframes, used, loc, callVars, held>>

-----------------------------------------------------------------------------
(* init_pmm.                                                               *)

flip_frame(n) == IF n \in used THEN used \ {n} ELSE used \cup {n}

\* The last frame taken before the bitmap is not marked.
MarkOneLess ==
    /\ pc = "mark"
    /\ \/ i < without - 1 /\ used' = flip_frame(i) /\ i' = i + 1 /\ UNCHANGED pc
       \/ i >= without - 1 /\ pc' = "loc" /\ i' = 0 /\ UNCHANGED used
    /\ UNCHANGED <<memmap, available, nframes, bootVars, loc, callVars, held>>

\* The cleared bitmap gets a bit for each frame taken without it.
MarkStep ==
    /\ pc = "mark"
    /\ \/ i < without /\ used' = flip_frame(i) /\ i' = i + 1 /\ UNCHANGED pc
       \/ i = without /\ pc' = "loc" /\ i' = 0 /\ UNCHANGED used
    /\ UNCHANGED <<memmap, available, nframes, bootVars, loc, callVars, held>>

\* loc_datas: i is current_nframes.
LocStep ==
    /\ pc = "loc"
    /\ \/ /\ Len(loc) < Len(available)
          /\ loc' = Append(loc, i)
          /\ i' = i + available[Len(loc) + 1].len
          /\ UNCHANGED pc
       \/ Len(loc) = Len(available) /\ pc' = "ready" /\ UNCHANGED <<loc, i>>
    /\ UNCHANGED <<memmap, available, nframes, bootVars, used, callVars, held>>

-----------------------------------------------------------------------------
(* get_frame with the bitmap.                                              *)

\* Only whole words of the bitmap are searched.
Searched == 0..((nframes \div WordBits) * WordBits - 1)

\* The first clear bit of the first word that has one, or panic.
Scan ==
    /\ pc = "ready"
    /\ \/ \E n \in Searched \ used :
             /\ \A m \in Searched \ used : n <= m
             /\ CUR_FRAME_N' = n /\ cur_frame_n' = n
             /\ z' = 1
             /\ pc' = "walk"
       \/ Searched \subseteq used /\ pc' = "panic" /\ UNCHANGED <<z, CUR_FRAME_N, cur_frame_n>>
    /\ UNCHANGED <<memmap, available, nframes, bootVars, used, loc, i, addr, held>>

\* The bits kept in frame a, which are lost when get_frame zeroes it.
BitsIn(a) == {n \in 0..nframes : first_frame + n \div (8 * PageSize) = a}

\* The bound of the entry is compared as it is before the bitmap.
WalkStrict ==
    /\ pc = "walk"
    /\ \/ /\ z <= Len(available) /\ cur_frame_n < available[z].len - 1
          /\ LET a == available[z].base + cur_frame_n IN
             /\ used' = flip_frame(CUR_FRAME_N) \ BitsIn(a)
             /\ held' = [held EXCEPT ![a] = @ + 1]
          /\ pc' = "ready"
          /\ UNCHANGED <<z, cur_frame_n>>
       \/ /\ z <= Len(available) /\ cur_frame_n >= available[z].len - 1
          /\ cur_frame_n' = cur_frame_n - available[z].len
          /\ z' = z + 1
          /\ UNCHANGED <<pc, used, held>>
       \/ z > Len(available) /\ pc' = "panic" /\ UNCHANGED <<used, held, z, cur_frame_n>>
    /\ UNCHANGED <<memmap, available, nframes, bootVars, loc, i, CUR_FRAME_N, addr>>

\* The frame is handed out without its bit being flipped.
WalkNoFlip ==
    /\ pc = "walk"
    /\ \/ /\ z <= Len(available) /\ cur_frame_n <= available[z].len - 1
          /\ held' = [held EXCEPT ![available[z].base + cur_frame_n] = @ + 1]
          /\ pc' = "ready"
          /\ UNCHANGED <<used, z, cur_frame_n>>
       \/ /\ z <= Len(available) /\ cur_frame_n > available[z].len - 1
          /\ cur_frame_n' = cur_frame_n - available[z].len
          /\ z' = z + 1
          /\ UNCHANGED <<pc, used, held>>
       \/ z > Len(available) /\ pc' = "panic" /\ UNCHANGED <<used, held, z, cur_frame_n>>
    /\ UNCHANGED <<memmap, available, nframes, bootVars, loc, i, CUR_FRAME_N, addr>>

\* One turn of while(available[z].length): the entry holds the frame, which is
\* marked, zeroed and returned, or the next entry is tried.
Walk ==
    /\ pc = "walk"
    /\ \/ /\ z <= Len(available) /\ cur_frame_n <= available[z].len - 1
          /\ LET a == available[z].base + cur_frame_n IN
             /\ used' = flip_frame(CUR_FRAME_N) \ BitsIn(a)
             /\ held' = [held EXCEPT ![a] = @ + 1]
          /\ pc' = "ready"
          /\ UNCHANGED <<z, cur_frame_n>>
       \/ /\ z <= Len(available) /\ cur_frame_n > available[z].len - 1
          /\ cur_frame_n' = cur_frame_n - available[z].len
          /\ z' = z + 1
          /\ UNCHANGED <<pc, used, held>>
       \/ z > Len(available) /\ pc' = "panic" /\ UNCHANGED <<used, held, z, cur_frame_n>>
    /\ UNCHANGED <<memmap, available, nframes, bootVars, loc, i, CUR_FRAME_N, addr>>

-----------------------------------------------------------------------------
(* free_frame, called by kmunmap for a frame its page tables hold.         *)

FreeCall ==
    /\ pc = "ready"
    /\ \E f \in Frame :
          /\ held[f] > 0
          /\ addr' = f
          /\ held' = [held EXCEPT ![f] = @ - 1]
    /\ z' = 1
    /\ pc' = "free"
    /\ UNCHANGED <<memmap, available, nframes, bootVars, used, loc, i, CUR_FRAME_N, cur_frame_n>>

\* The number inside the entry is taken for the number of the frame.
FreeLocal ==
    /\ pc = "free"
    /\ \/ /\ z <= Len(loc)
          /\ used' = IF addr \in Span(available[z])
                     THEN flip_frame(addr - available[z].base)
                     ELSE used
          /\ z' = z + 1
          /\ UNCHANGED pc
       \/ z > Len(loc) /\ pc' = "ready" /\ UNCHANGED <<used, z>>
    /\ UNCHANGED <<memmap, available, nframes, bootVars, loc, i, CUR_FRAME_N, cur_frame_n,
                   addr, held>>

\* One turn of while(loc_datas[i].length).
FreeStep ==
    /\ pc = "free"
    /\ \/ /\ z <= Len(loc)
          /\ used' = IF addr \in Span(available[z])
                     THEN flip_frame(loc[z] + (addr - available[z].base))
                     ELSE used
          /\ z' = z + 1
          /\ UNCHANGED pc
       \/ z > Len(loc) /\ pc' = "ready" /\ UNCHANGED <<used, z>>
    /\ UNCHANGED <<memmap, available, nframes, bootVars, loc, i, CUR_FRAME_N, cur_frame_n,
                   addr, held>>

-----------------------------------------------------------------------------
\* Out of memory: cli and hlt for ever.
Halted == pc = "panic" /\ UNCHANGED vars

Next == SizeStep \/ FirstFrame \/ RestFrames \/ MarkStep \/ LocStep \/ Scan \/ Walk
        \/ FreeCall \/ FreeStep \/ Halted

Spec == Init /\ [][Next]_vars

-----------------------------------------------------------------------------
TypeOK ==
    /\ pc \in {"size", "first", "rest", "mark", "loc", "ready", "walk", "free", "panic"}
    /\ memmap \in Memmaps
    /\ available \in Seq(Entries)
    /\ nframes \in Nat /\ prev_i \in Nat /\ in_c \in Nat /\ without \in Nat
    /\ first_frame \in Nat
    /\ used \subseteq Nat
    /\ loc \in Seq(Nat) /\ Len(loc) <= Len(available)
    /\ i \in Nat /\ z \in Nat /\ CUR_FRAME_N \in Nat /\ cur_frame_n \in Nat
    /\ addr \in Nat
    /\ boot \subseteq Frame
    /\ held \in [Frame -> Nat]

Claims(f) == held[f] + (IF f \in boot THEN 1 ELSE 0)

\* Every frame taken before the bitmap came from the first usable entry.
InFirstEntry == prev_i = 1

\* As long as the frames taken without the bitmap all came from the first
\* usable entry, no frame is handed out while somebody has it: the numbering
\* of init_pmm, of get_frame and of free_frame agree.
Exclusive == InFirstEntry => \A f \in Frame : Claims(f) <= 1

\* Between calls the bitmap says exactly which frames are taken: a freed frame
\* is free again, whichever entry it lies in, and no other bit has changed.
BitmapExact ==
    pc = "ready" /\ InFirstEntry =>
        used = 0..(without - 1) \cup
               UNION {{loc[k] + (f - available[k].base) : f \in {g \in Span(available[k]) : held[g] > 0}}
                      : k \in DOMAIN available}

\* With the bitmap, get_frame gives up only when every frame it can hand out is
\* taken: a clear bit always belongs to some entry.
PanicOnlyWhenFull == pc = "panic" /\ loc # <<>> => Searched \subseteq used

\* "{d} frames set to used due to bitmap...": a frame taken before the bitmap is
\* not handed out with it.
BootFramesKept == \A f \in boot : held[f] = 0

FA == INSTANCE FrameAllocator WITH claims <- [f \in Frame |-> Claims(f)]

\* get_frame and free_frame implement the allocator that gives a frame to one
\* owner at a time.
Implements == FA!Spec
=============================================================================
