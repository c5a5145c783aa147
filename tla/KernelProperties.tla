-------------------------- MODULE KernelProperties --------------------------
(***************************************************************************)
(* What the bring-up and the launch of the cores must guarantee.           *)
(***************************************************************************)
EXTENDS KernelMain

\* Boot core: not yet past the wait for booted_cpus_count.
Launching == {"bs_status", "bs_grab", "bs_loop", "bs_log115", "bs_stack",
              "bs_log117", "bs_goto", "bs_release", "bs_wait"}
BootLabels == Launching \cup {"bs_log128", "bs_ones", "km_lock"}
BspBooted == pc[BSP] \notin Launching
\* Boot core: kernel_main has called lock_ints.
InMain == pc[BSP] \notin BootLabels

\* Application processors: before, inside and after BEGIN_BOTTLENECK(1).
Outside == {"parked", "ap_grab", "ap_release", "ap_begin"}
Mapless == {"ap_status0", "ap_log54", "ap_pagedir", "ap_pmap"}
Uncounted == {"ap_context", "ap_log66", "ap_pics", "ap_pics_done",
              "ap_status1", "ap_log82", "ap_read", "ap_write"}
InNeck == Mapless \cup Uncounted \cup {"ap_log86", "ap_end"}
Idle == DOMAIN IdNext \cup {"ap_null", "ap_poll", "ap_poll1", "ap_call", "ap_log97"}

\* entry_launch and what kernel_main shares with it.
Loading == {"el_log172", "el_file", "el_log158", "el_seg", "el_map", "sa_grab",
            "sa_log", "sa_map", "sa_release", "ip_log24", "ip_ret"}
Published == {"el_log178", "stack", "sysret", "user"}
MainOnly == {"km_log28", "km_parse", "km_log31", "km_check", "km_panic",
             "panic", "km_loop", "km_next", "km_log75", "km_log40", "km_core",
             "km_log43", "km_join", "km_log70", "km_write", "km_log72",
             "km_log79", "km_own", "km_wait", "km_log90", "km_switch", "halt"}

BspLabels == BootLabels \cup MainOnly \cup Loading \cup Published \cup {"fault"}
ApLabels == Outside \cup InNeck \cup Idle \cup Loading \cup Published \cup {"fault"}
Subs == {"-", "frame"} \cup LogSubs

PcTypeOK ==
    /\ pc \in [Core -> BspLabels \cup ApLabels]
    /\ pc[BSP] \in BspLabels
    /\ \A c \in AP : pc[c] \in ApLabels

VarTypeOK ==
    /\ sub \in [Core -> Subs]
    /\ reg \in [Core -> Int]
    /\ lock \in [LockName -> Core \cup {NoCore}]
    /\ smp_status \in BOOLEAN
    /\ lock_level \in [Core -> 0..255]
    /\ ints \in [Core -> BOOLEAN]
    /\ booted_cpus_count \in 0..255
    /\ launching_addresses \in [Core -> Address]
    /\ pmaps \in [Core -> Core \cup {Limine}]
    /\ cr3 \in [Core -> Core \cup {Limine}]
    /\ lapic \subseteq Core \cup {Limine}
    /\ i \in 0..N
    /\ parsed \in InitFiles \cup {NothingParsed}
    /\ entries \in [Core -> Name]
    /\ y \in Core
    /\ running \in [Core -> Name]

\* Every variable keeps the type its declaration in the code gives it, and a
\* core is never where only the boot core, or only the others, can be.
TypeOK == PcTypeOK /\ VarTypeOK

\* get_frame reads and flips the bitmap without a lock of its own: the
\* Bootstrap lock, lock 1 and the kmmap lock together must keep two cores from
\* being inside it at once, or a frame is handed out twice.
FrameMutex ==
    \A c, d \in Core : sub[c] = "frame" /\ sub[d] = "frame" => c = d

\* Where a core is about to compute COREID.
UsesCoreId(c) == pc[c] \in LogSites \cup DOMAIN IdNext \cup
                           {"km_lock", "km_core", "km_own", "el_file", "ip_ret", "sysret"}

\* COREID reads the LAPIC registers once smp_status is set: whoever computes it
\* must then run in an address space that maps them.  Clearing smp_status
\* while a core boots is what protects that core.
CoreIdReadable ==
    \A c \in Core : UsesCoreId(c) /\ smp_status => cr3[c] \in lapic

\* lock_level[k] counts exactly the LOG calls in progress under identity k,
\* and kernel_main's lock_ints, although several cores act as core 0 while
\* smp_status is clear: the ASSERTs of lock_ints and unlock_ints never fail.
LevelsBalanced ==
    \A k \in Core :
        lock_level[k] =
            Cardinality({c \in Core : sub[c] \in LogSubs /\ get_core_id(c) = k})
            + (IF k = BSP /\ InMain THEN 1 ELSE 0)

\* From its lock_ints on, kernel_main runs with interrupts off: no LOG, of its
\* own or of another core, turns them on again.
MainMasksInts == InMain => ~ints[BSP]

\* Two cores never are at or inside a LOG under the same identity, so that the
\* load and the store of lock_level[COREID]++ and -- are never interleaved.
LevelOwner ==
    \A c, d \in Core :
        pc[c] \in LogSites /\ pc[d] \in LogSites /\ get_core_id(c) = get_core_id(d) => c = d

\* A step that changes smp_status finds no core at or inside a LOG.
StatusChange == smp_status' # smp_status => \A c \in Core : pc[c] \notin LogSites

\* smp_status, and so every core's COREID, never changes while a core is about
\* to lock, or has yet to unlock, the interrupts of a LOG.
StatusStable == [][StatusChange]_vars

\* A core that leaves the polling loop calls entry_launch, never NULL or the
\* marker 1, even though the slot is read again after it was tested and COREID
\* was 0 on every core while another one booted.
CallsOnlyEntryLaunch ==
    \A c \in Core : pc[c] = "ap_call" => launching_addresses[reg[c]] = "entry_launch"

\* Once the boot core is past its wait, smp_status is set for good and every
\* core has recorded the page map it runs in and mapped its LAPIC there.
BootBarrier ==
    BspBooted =>
        /\ smp_status
        /\ \A c \in Core : pmaps[c] = c /\ c \in lapic
        /\ \A c \in AP : cr3[c] = c

\* The boot core joins another core's address space only when that core's
\* program and protocol structure are in it, and only to run that program.
JoinsLoadedSpace ==
    cr3[BSP] # BSP => cr3[BSP] = y /\ pc[y] \in Published /\ entries[y] = parsed.programs[y]

\* The wait for the application processors ends, unless the boot core's timer comes
\* first: the core waits with interrupts on and the timer armed (arch.c:124), and
\* vector 32 has no handler.  No timer interrupt is in this model; Traps has it.
BootCompletes == <>(pc[BSP] = "km_lock")

\* A core that enters entry_launch gets through its three nested locks to user
\* mode, or faults on a missing file.
LaunchedCoreEnds ==
    \A c \in Core : pc[c] = "el_log172" ~> pc[c] \in {"user", "fault"}

\* "All cores awoken.": when kernel_main has gone through its loop, a core it
\* wrote entry_launch for comes to run its program.
AwokenCoresRun ==
    \A c \in AP :
        pc[BSP] = "km_own" /\ c < parsed.cores /\ parsed.programs[c] \in Program
            ~> pc[c] = "user"

\* "Launching init: {s} for core {d}.": a core in user mode runs the program
\* the init file gives that core.
RunsOwnProgram ==
    \A c \in Core : pc[c] = "user" => running[c] = parsed.programs[c]

=============================================================================
