----------------------------- MODULE KernelMain -----------------------------
(***************************************************************************)
(* kernel_main on the boot core (main.c) and entry_launch on any core      *)
(* (launch.c), with init_protocol (protocol_init.c) and space_alloc        *)
(* (vmmwrapper.c), on top of the bring-up of module Smp.                   *)
(***************************************************************************)
EXTENDS Smp

CONSTANTS
    InitFiles,   \* what parse_init can return: records [cores, programs]
    Segments     \* for each file of the initfs, how many LOAD segments
                 \* map_elf_64 maps: none when check_elf refuses the header

Hang == "HANG"
NoEntry == "0"   \* an entry of pmap_recorder.c nothing was stored in

VARIABLES
    parsed,      \* main.c
    entries,     \* pmap_recorder.c: the program whose entry point is stored
    y,           \* the core whose address space the boot core joins, or 0
    running      \* the program each core was sent to with sysretq

mainVars == <<parsed, entries, y, running>>
vars == <<coreVars, smpVars, mainVars>>

Program == DOMAIN Segments
Name == Program \cup {Hang, NoEntry} \cup
        UNION {{f.programs[c] : c \in Core} : f \in InitFiles}

\* Every core of an init file has a program: the NULL that parse_init leaves for a
\* core the file does not name is left out.
ASSUME FileAssumption ==
    /\ \A f \in InitFiles :
          /\ f.cores \in Nat
          /\ f.programs \in [Core -> Name \ {NoEntry}]
    /\ Hang \notin Program
    /\ \A p \in Program : Segments[p] \in Nat

\* The zeroed global before parse_init; no program is read from it.
NothingParsed == [cores |-> 0, programs |-> [c \in Core |-> Hang]]

-----------------------------------------------------------------------------
(* kernel_main up to the launch loop.                                      *)

KmLock ==
    /\ At(BSP, "km_lock")
    /\ lock_ints(BSP)
    /\ Goto(BSP, "km_log28")
    /\ UNCHANGED <<sub, reg, lock, smp_status, smpVars, mainVars>>

\* parsed = parse_init(INIT_FILE_NAME)
KmParse ==
    /\ At(BSP, "km_parse")
    /\ parsed' \in InitFiles
    /\ Goto(BSP, "km_log31")
    /\ UNCHANGED <<sub, reg, lock, smp_status, lock_level, ints, smpVars,
                   entries, y, running>>

KmCheck ==
    /\ At(BSP, "km_check")
    /\ Goto(BSP, IF parsed.cores > N THEN "km_panic" ELSE "km_loop")
    /\ i' = 0
    /\ UNCHANGED <<sub, reg, lock, smp_status, lock_level, ints, mainVars,
                   booted_cpus_count, launching_addresses, pmaps, cr3, lapic>>

-----------------------------------------------------------------------------
(* The launch loop, for(size_t i = 0; i < parsed.required_cores; i++).     *)

KmLoop ==
    /\ At(BSP, "km_loop")
    /\ Goto(BSP, CASE i >= parsed.cores -> "km_log79"
                   [] i < parsed.cores /\ parsed.programs[i] = Hang -> "km_log75"
                   [] OTHER -> "km_log40")
    /\ UNCHANGED <<sub, reg, lock, smp_status, lock_level, ints, smpVars, mainVars>>

KmNext ==
    /\ At(BSP, "km_next")
    /\ i' = i + 1
    /\ Goto(BSP, "km_loop")
    /\ UNCHANGED <<sub, reg, lock, smp_status, lock_level, ints, mainVars,
                   booted_cpus_count, launching_addresses, pmaps, cr3, lapic>>

\* The cores 1..hi-1 that run program p.
Twins(p, hi) == {d \in 1..(hi - 1) : parsed.programs[d] = p}

\* y and the register become the first of the twins and load_pmap(y).
TakeFirst(twins) ==
    \E d \in twins :
        /\ \A e \in twins : d <= e
        /\ y' = d
        /\ reg' = [reg EXCEPT ![BSP] = pmaps[d]]

\* COREID == i: later.  Otherwise an earlier core with the same program is
\* joined by the boot core itself; without one, core i is to be awoken.
KmCore ==
    /\ At(BSP, "km_core")
    /\ LET twins == Twins(parsed.programs[i], i) IN
       \/ /\ get_core_id(BSP) = i
          /\ Goto(BSP, "km_log43")
          /\ UNCHANGED <<y, reg>>
       \/ /\ get_core_id(BSP) # i
          /\ TakeFirst(twins)
          /\ Goto(BSP, "km_join")
       \/ /\ get_core_id(BSP) # i
          /\ twins = {}
          /\ Goto(BSP, "km_log70")
          /\ UNCHANGED <<y, reg>>
    /\ UNCHANGED <<sub, lock, smp_status, lock_level, ints, smpVars,
                   parsed, entries, running>>

\* The address space of y is entered without waiting for its program.
JoinAtOnce ==
    /\ At(BSP, "km_join")
    /\ cr3' = [cr3 EXCEPT ![BSP] = reg[BSP]]
    /\ reg' = [reg EXCEPT ![BSP] = 2]
    /\ Goto(BSP, "sa_grab")
    /\ UNCHANGED <<sub, lock, smp_status, lock_level, ints, mainVars,
                   booted_cpus_count, launching_addresses, pmaps, lapic, i>>

\* while(!load_entry(y)), then enable_mapping and on to init_protocol.
KmJoin ==
    /\ At(BSP, "km_join")
    /\ entries[y] # NoEntry
    /\ cr3' = [cr3 EXCEPT ![BSP] = reg[BSP]]
    /\ reg' = [reg EXCEPT ![BSP] = 2]
    /\ Goto(BSP, "sa_grab")
    /\ UNCHANGED <<sub, lock, smp_status, lock_level, ints, mainVars,
                   booted_cpus_count, launching_addresses, pmaps, lapic, i>>

\* interface->launching_addresses[i] = entry_launch
KmWrite ==
    /\ At(BSP, "km_write")
    /\ launching_addresses' = [launching_addresses EXCEPT ![i] = "entry_launch"]
    /\ Goto(BSP, "km_log72")
    /\ UNCHANGED <<sub, reg, lock, smp_status, lock_level, ints, mainVars,
                   booted_cpus_count, pmaps, cr3, lapic, i>>

-----------------------------------------------------------------------------
(* After the loop: the boot core's own program.                            *)

KmOwn ==
    /\ At(BSP, "km_own")
    /\ LET own == parsed.programs[get_core_id(BSP)]
           twins == Twins(own, parsed.cores) IN
       \/ own = Hang /\ Goto(BSP, "halt") /\ UNCHANGED <<y, reg>>
       \/ own # Hang /\ TakeFirst(twins) /\ Goto(BSP, "km_wait")
       \/ own # Hang /\ twins = {} /\ Goto(BSP, "el_log172") /\ UNCHANGED <<y, reg>>
    /\ UNCHANGED <<sub, lock, smp_status, lock_level, ints, smpVars,
                   parsed, entries, running>>

KmWait ==
    /\ At(BSP, "km_wait")
    /\ entries[y] # NoEntry
    /\ Goto(BSP, "km_log90")
    /\ UNCHANGED <<sub, reg, lock, smp_status, lock_level, ints, smpVars, mainVars>>

\* enable_mapping(pmap); this path runs no init_protocol.
KmSwitch ==
    /\ At(BSP, "km_switch")
    /\ cr3' = [cr3 EXCEPT ![BSP] = reg[BSP]]
    /\ Goto(BSP, "stack")
    /\ UNCHANGED <<sub, reg, lock, smp_status, lock_level, ints, mainVars,
                   booted_cpus_count, launching_addresses, pmaps, lapic, i>>

-----------------------------------------------------------------------------
(* entry_launch, on core c.                                                *)

\* get_file(parsed.programs[COREID]); a missing file is a null pointer whose
\* first use faults, and the exception handler stops the core.
ElFile(c) ==
    /\ At(c, "el_file")
    /\ LET p == parsed.programs[get_core_id(c)] IN
       \/ /\ p \in Program
          /\ reg' = [reg EXCEPT ![c] = Segments[p]]
          /\ Goto(c, "el_log158")
       \/ p \notin Program /\ Goto(c, "fault") /\ UNCHANGED reg
    /\ UNCHANGED <<sub, lock, smp_status, lock_level, ints, smpVars, mainVars>>

\* The program header index is not advanced.
SegmentNotCounted(c) ==
    /\ At(c, "el_seg")
    /\ \/ reg[c] > 0 /\ Goto(c, "el_map") /\ UNCHANGED reg
       \/ reg[c] = 0 /\ reg' = [reg EXCEPT ![c] = 2] /\ Goto(c, "sa_grab")
    /\ UNCHANGED <<sub, lock, smp_status, lock_level, ints, smpVars, mainVars>>

\* map_elf_64: one kmmap for each LOAD segment left, then init_protocol.
ElSegment(c) ==
    /\ At(c, "el_seg")
    /\ \/ reg[c] > 0 /\ reg' = [reg EXCEPT ![c] = @ - 1] /\ Goto(c, "el_map")
       \/ reg[c] = 0 /\ reg' = [reg EXCEPT ![c] = 2] /\ Goto(c, "sa_grab")
    /\ UNCHANGED <<sub, lock, smp_status, lock_level, ints, smpVars, mainVars>>

\* init_protocol calls space_alloc twice.  Each call holds the space_alloc
\* lock over the search, its LOG_INFO and the kmmap of what it found.
SpaceGrab(c) ==
    /\ At(c, "sa_grab")
    /\ GRAB_LOCK("space_alloc", c)
    /\ Goto(c, "sa_log")
    /\ UNCHANGED <<sub, reg, smp_status, lock_level, ints, smpVars, mainVars>>

SpaceRelease(c) ==
    /\ At(c, "sa_release")
    /\ RELEASE_LOCK("space_alloc")
    /\ reg' = [reg EXCEPT ![c] = @ - 1]
    /\ Goto(c, IF reg[c] = 1 THEN "ip_log24" ELSE "sa_grab")
    /\ UNCHANGED <<sub, smp_status, lock_level, ints, smpVars, mainVars>>

\* init_protocol returns to kernel_main, which joined y, or to entry_launch,
\* which records its entry point.
IpReturn(c) ==
    /\ At(c, "ip_ret")
    /\ \/ /\ c = BSP /\ y # 0
          /\ Goto(c, "stack")
          /\ UNCHANGED entries
       \/ /\ ~(c = BSP /\ y # 0)
          /\ entries' = [entries EXCEPT ![get_core_id(c)] =
                            parsed.programs[get_core_id(c)]]  \* store_entry
          /\ Goto(c, "el_log178")
    /\ UNCHANGED <<sub, reg, lock, smp_status, lock_level, ints, smpVars,
                   parsed, y, running>>

\* sysretq with RFLAGS = 2: user mode, interrupts off.
Sysret(c) ==
    /\ At(c, "sysret")
    /\ running' = [running EXCEPT ![c] =
                      IF c = BSP /\ y # 0 THEN entries[y]
                      ELSE parsed.programs[get_core_id(c)]]
    /\ ints' = [ints EXCEPT ![c] = FALSE]
    /\ Goto(c, "user")
    /\ UNCHANGED <<sub, reg, lock, smp_status, lock_level, smpVars,
                   parsed, entries, y>>

-----------------------------------------------------------------------------
KmStep == KmLock \/ KmParse \/ KmCheck \/ KmLoop \/ KmNext \/ KmCore \/ KmJoin
          \/ KmWrite \/ KmOwn \/ KmWait \/ KmSwitch

ElStep(c) == ElFile(c) \/ ElSegment(c) \/ SpaceGrab(c) \/ SpaceRelease(c)
             \/ IpReturn(c) \/ Sysret(c)

Init ==
    /\ SmpInit
    /\ parsed = NothingParsed
    /\ entries = [c \in Core |-> NoEntry]
    /\ y = 0
    /\ running = [c \in Core |-> NoEntry]

\* The next instruction of core c.
Step(c) ==
    \/ ElStep(c)
    \/ (CoreStep(c) \/ ApStep(c)) /\ UNCHANGED mainVars
    \/ c = BSP /\ ((BsStep /\ UNCHANGED mainVars) \/ KmStep)

\* Nothing is left for any core to do in the kernel, except that the boot core
\* may spin on the entry point of a core that has stopped without storing one.
Ended == {"user", "halt", "panic", "fault"}
Spinning(c) == pc[c] \in {"km_join", "km_wait"} /\ entries[y] = NoEntry
Resting == (\A c \in Core : pc[c] \in Ended \/ Spinning(c)) /\ UNCHANGED vars

Next == (\E c \in Core : Step(c)) \/ Resting

Spec == Init /\ [][Next]_vars

\* Every processor keeps executing: its next instruction is not put off for
\* ever.  The spinlocks are not fair and nothing is assumed of them.
FairSpec == Spec /\ \A c \in Core : WF_vars(Step(c))
=============================================================================
