------------------------------- MODULE Cores -------------------------------
(***************************************************************************)
(* What every core of the Raccoon exokernel has in common: the spinlocks   *)
(* of multicore/lock.h, the per-core interrupt lock of interrupt_lock.c,   *)
(* the LOG_* macros of log.h built on both, and the two routines that hand *)
(* out physical memory, kmmap (under its lock) and get_frame (under none). *)
(* A core's control point is pc[c]; sub[c] is its position inside a LOG, a *)
(* kmmap or a get_frame called from there.                                 *)
(***************************************************************************)
EXTENDS Integers, FiniteSets

CONSTANT N            \* number of processors, smp_infos->cpu_count

\* ASSERT(smp_infos->cpu_count > 0) in bootstrap_arch, and MAX_CORE slots.
ASSUME CountAssumption == N \in 1..32

Core == 0..(N - 1)    \* LAPIC identifiers
BSP == 0              \* bootstrap_arch stores the boot core's page map at 0
AP == Core \ {BSP}
NoCore == -1

VARIABLES
    pc,               \* control point of each core
    sub,              \* position inside LOG, kmmap or get_frame
    reg,              \* the one register a core's next step depends on
    lock,             \* owner of each spinlock, or NoCore
    smp_status,       \* smp.c
    lock_level,       \* interrupt_lock.c
    ints              \* RFLAGS.IF of each core

coreVars == <<pc, sub, reg, lock, smp_status, lock_level, ints>>

LockName == {"Bootstrap", "1", "kmmap", "space_alloc", "print"}

\* COREID: the LAPIC id, or 0 while smp_status is clear.
get_core_id(c) == IF smp_status THEN c ELSE 0

\* GRAB_LOCK: the compare-and-swap that succeeds, by core c.
GRAB_LOCK(name, c) ==
    /\ lock[name] = NoCore
    /\ lock' = [lock EXCEPT ![name] = c]

RELEASE_LOCK(name) == lock' = [lock EXCEPT ![name] = NoCore]

Goto(c, label) == pc' = [pc EXCEPT ![c] = label]
Call(c, inner) == sub' = [sub EXCEPT ![c] = inner]
At(c, label) == pc[c] = label /\ sub[c] = "-"

\* lock_ints: one more level, and cli on the first one.  One step here, as nothing
\* interrupts a core in this model and a level has one core at a time (LevelOwner);
\* in Traps the two are apart.
lock_ints(c) ==
    LET k == get_core_id(c) IN
    /\ lock_level[k] # 255
    /\ lock_level' = [lock_level EXCEPT ![k] = @ + 1]
    /\ ints' = [ints EXCEPT ![c] = @ /\ lock_level[k] + 1 # 1]

\* The level is dropped without looking whether it was the last one.
UnlockAlwaysEnables(c) ==
    LET k == get_core_id(c) IN
    /\ lock_level[k] # 0
    /\ lock_level' = [lock_level EXCEPT ![k] = @ - 1]
    /\ ints' = [ints EXCEPT ![c] = TRUE]

\* unlock_ints: one level less, and sti on the last one.
unlock_ints(c) ==
    LET k == get_core_id(c) IN
    /\ lock_level[k] # 0
    /\ lock_level' = [lock_level EXCEPT ![k] = @ - 1]
    /\ ints' = [ints EXCEPT ![c] = @ \/ lock_level[k] = 1]

-----------------------------------------------------------------------------
(* LOG_*(...): lock_ints, get_lock_print, print, set_lock_print,           *)
(* unlock_ints.  LogNext maps each place that logs to the place after it;  *)
(* LOGs in a row with no other step between them are one place.            *)

LogNext ==
    [bs_log115 |-> "bs_stack",    bs_log117 |-> "bs_goto",
     bs_log128 |-> "bs_ones",
     ap_log54  |-> "ap_pagedir",  ap_log66  |-> "ap_pics",
     ap_log82  |-> "ap_read",     ap_log86  |-> "ap_end",
     ap_log97  |-> "ap_call_id",
     km_log28  |-> "km_parse",    km_log31  |-> "km_check",
     km_panic  |-> "panic",
     km_log40  |-> "km_core",     km_log43  |-> "km_next",
     km_log70  |-> "km_write",    km_log72  |-> "km_next",
     km_log75  |-> "km_next",     km_log79  |-> "km_own",
     km_log90  |-> "km_switch",
     el_log172 |-> "el_file",     el_log158 |-> "el_seg",
     sa_log    |-> "sa_map",      ip_log24  |-> "ip_ret",
     el_log178 |-> "stack"]

LogSites == DOMAIN LogNext
LogSubs == {"get_print", "printing", "unlock"}

LogLock(c) ==
    /\ pc[c] \in LogSites /\ sub[c] = "-"
    /\ lock_ints(c)
    /\ Call(c, "get_print")
    /\ UNCHANGED <<pc, reg, lock, smp_status>>

LogGrab(c) ==
    /\ sub[c] = "get_print"
    /\ GRAB_LOCK("print", c)
    /\ Call(c, "printing")
    /\ UNCHANGED <<pc, reg, smp_status, lock_level, ints>>

LogPrint(c) ==
    /\ sub[c] = "printing"
    /\ RELEASE_LOCK("print")
    /\ Call(c, "unlock")
    /\ UNCHANGED <<pc, reg, smp_status, lock_level, ints>>

LogUnlock(c) ==
    /\ sub[c] = "unlock"
    /\ unlock_ints(c)
    /\ Call(c, "-")
    /\ Goto(c, LogNext[pc[c]])
    /\ UNCHANGED <<reg, lock, smp_status>>

LOG(c) == LogLock(c) \/ LogGrab(c) \/ LogPrint(c) \/ LogUnlock(c)

-----------------------------------------------------------------------------
(* get_frame scans and flips the bitmap over many instructions and takes   *)
(* no lock itself: a core is inside it while sub[c] = "frame".  MapNext    *)
(* are the places that call kmmap, FrameNext the ones that allocate        *)
(* outside kmmap.                                                          *)

MapNext ==
    [ap_context |-> "ap_log66", el_map |-> "el_seg",
     sa_map |-> "sa_release",   stack |-> "sysret"]

FrameNext ==
    [bs_stack |-> "bs_log117", ap_pagedir |-> "ap_pmap", ap_pics |-> "ap_pics_done"]

MapSites == DOMAIN MapNext
FrameSites == DOMAIN FrameNext

\* kmmap without its lock, as kmmap_physical is.
EnterUnlocked(c) ==
    /\ pc[c] \in MapSites /\ sub[c] = "-"
    /\ Call(c, "frame")
    /\ UNCHANGED <<pc, reg, lock, smp_status, lock_level, ints>>

\* BEGIN_BOTTLENECK(kmmap), then the table walk, which calls get_frame.
KmmapEnter(c) ==
    /\ pc[c] \in MapSites /\ sub[c] = "-"
    /\ GRAB_LOCK("kmmap", c)
    /\ Call(c, "frame")
    /\ UNCHANGED <<pc, reg, smp_status, lock_level, ints>>

\* The last page is mapped: END_BOTTLENECK(kmmap) and return.
KmmapLeave(c) ==
    /\ pc[c] \in MapSites /\ sub[c] = "frame"
    /\ RELEASE_LOCK("kmmap")
    /\ Call(c, "-")
    /\ Goto(c, MapNext[pc[c]])
    /\ UNCHANGED <<reg, smp_status, lock_level, ints>>

FrameEnter(c) ==
    /\ pc[c] \in FrameSites /\ sub[c] = "-"
    /\ Call(c, "frame")
    /\ UNCHANGED <<pc, reg, lock, smp_status, lock_level, ints>>

FrameLeave(c) ==
    /\ pc[c] \in FrameSites /\ sub[c] = "frame"
    /\ Call(c, "-")
    /\ Goto(c, FrameNext[pc[c]])
    /\ UNCHANGED <<reg, lock, smp_status, lock_level, ints>>

Alloc(c) == KmmapEnter(c) \/ KmmapLeave(c) \/ FrameEnter(c) \/ FrameLeave(c)
=============================================================================
