-------------------------------- MODULE Smp --------------------------------
(***************************************************************************)
(* Bringing up the application processors: launch_APs and the wait for     *)
(* booted_cpus_count on the boot core (smp.c, arch.c), _start_core on the  *)
(* others (smp.c), up to the loop in which an idle core polls its slot of  *)
(* launching_addresses.                                                    *)
(***************************************************************************)
EXTENDS Cores

VARIABLES
    booted_cpus_count,
    launching_addresses,  \* one slot per core
    pmaps,                \* pmap_recorder.c: the page map stored for each core
    cr3,                  \* the address space each core runs in
    lapic,                \* the address spaces that map the LAPIC registers
    i                     \* loop index of the boot core

smpVars == <<booted_cpus_count, launching_addresses, pmaps, cr3, lapic, i>>

\* The page directory Limine leaves, which maps no LAPIC.  A page map made by
\* create_page_directory on core c is named c.
Limine == -1

Address == {"NULL", "1", "entry_launch"}

-----------------------------------------------------------------------------
(* The boot core: launch_APs, then the end of bootstrap_arch.              *)

BsStatus ==
    /\ At(BSP, "bs_status")
    /\ smp_status' = TRUE
    /\ Goto(BSP, "bs_grab")
    /\ UNCHANGED <<sub, reg, lock, lock_level, ints, smpVars>>

BsGrab ==
    /\ At(BSP, "bs_grab")
    /\ GRAB_LOCK("Bootstrap", BSP)
    /\ i' = 0
    /\ Goto(BSP, "bs_loop")
    /\ UNCHANGED <<sub, reg, smp_status, lock_level, ints,
                   booted_cpus_count, launching_addresses, pmaps, cr3, lapic>>

\* The loop head: skip the boot core, log for another one, or leave the loop.
BsLoop ==
    /\ At(BSP, "bs_loop")
    /\ \/ i < N /\ i = BSP /\ i' = i + 1 /\ UNCHANGED pc
       \/ i < N /\ i # BSP /\ Goto(BSP, "bs_log115") /\ UNCHANGED i
       \/ i = N /\ Goto(BSP, "bs_release") /\ UNCHANGED i
    /\ UNCHANGED <<sub, reg, lock, smp_status, lock_level, ints,
                   booted_cpus_count, launching_addresses, pmaps, cr3, lapic>>

\* Writing goto_address lets core i run _start_core.
BsGoto ==
    /\ At(BSP, "bs_goto")
    /\ pc' = [pc EXCEPT ![BSP] = "bs_loop", ![i] = "ap_grab"]
    /\ i' = i + 1
    /\ UNCHANGED <<sub, reg, lock, smp_status, lock_level, ints,
                   booted_cpus_count, launching_addresses, pmaps, cr3, lapic>>

BsRelease ==
    /\ At(BSP, "bs_release")
    /\ RELEASE_LOCK("Bootstrap")
    /\ Goto(BSP, "bs_wait")
    /\ UNCHANGED <<sub, reg, smp_status, lock_level, ints, smpVars>>

\* The wait ends one core early.
WaitOneLess ==
    /\ At(BSP, "bs_wait")
    /\ booted_cpus_count \in {N - 1, N}
    /\ i' = 0
    /\ Goto(BSP, "bs_log128")
    /\ UNCHANGED <<sub, reg, lock, smp_status, lock_level, ints,
                   booted_cpus_count, launching_addresses, pmaps, cr3, lapic>>

\* while (get_booted_cpus_count() != smp_infos->cpu_count) {}
BsWait ==
    /\ At(BSP, "bs_wait")
    /\ booted_cpus_count = N
    /\ i' = 0
    /\ Goto(BSP, "bs_log128")
    /\ UNCHANGED <<sub, reg, lock, smp_status, lock_level, ints,
                   booted_cpus_count, launching_addresses, pmaps, cr3, lapic>>

\* The loop over the launching addresses goes one slot too far.
OnesPastEnd ==
    /\ At(BSP, "bs_ones")
    /\ \/ /\ i <= N
          /\ launching_addresses' = [launching_addresses EXCEPT ![i] = "1"]
          /\ i' = i + 1
          /\ UNCHANGED pc
       \/ i = N + 1 /\ Goto(BSP, "km_lock") /\ UNCHANGED <<launching_addresses, i>>
    /\ UNCHANGED <<sub, reg, lock, smp_status, lock_level, ints,
                   booted_cpus_count, pmaps, cr3, lapic>>

\* One turn of the loop that sets every launching address to 1, or the return
\* to kernel_main.  Only the slots of existing cores are kept.
BsOnes ==
    /\ At(BSP, "bs_ones")
    /\ \/ /\ i < N
          /\ launching_addresses' = [launching_addresses EXCEPT ![i] = "1"]
          /\ i' = i + 1
          /\ UNCHANGED pc
       \/ i = N /\ Goto(BSP, "km_lock") /\ UNCHANGED <<launching_addresses, i>>
    /\ UNCHANGED <<sub, reg, lock, smp_status, lock_level, ints,
                   booted_cpus_count, pmaps, cr3, lapic>>

-----------------------------------------------------------------------------
(* An application processor: _start_core.                                  *)

ApGrab(c) ==
    /\ At(c, "ap_grab")
    /\ GRAB_LOCK("Bootstrap", c)
    /\ Goto(c, "ap_release")
    /\ UNCHANGED <<sub, reg, smp_status, lock_level, ints, smpVars>>

ApRelease(c) ==
    /\ At(c, "ap_release")
    /\ RELEASE_LOCK("Bootstrap")
    /\ Goto(c, "ap_begin")
    /\ UNCHANGED <<sub, reg, smp_status, lock_level, ints, smpVars>>

\* BEGIN_BOTTLENECK(1) left out.
NoBottleneck(c) ==
    /\ At(c, "ap_begin")
    /\ Goto(c, "ap_status0")
    /\ UNCHANGED <<sub, reg, lock, smp_status, lock_level, ints, smpVars>>

ApBegin(c) ==
    /\ At(c, "ap_begin")
    /\ GRAB_LOCK("1", c)
    /\ Goto(c, "ap_status0")
    /\ UNCHANGED <<sub, reg, smp_status, lock_level, ints, smpVars>>

\* smp_status is left as it was.
StatusKept(c) ==
    /\ At(c, "ap_status0")
    /\ Goto(c, "ap_log54")
    /\ UNCHANGED <<sub, reg, lock, smp_status, lock_level, ints, smpVars>>

\* From here COREID is 0 on every core: this one cannot read its LAPIC yet.
ApStatus0(c) ==
    /\ At(c, "ap_status0")
    /\ smp_status' = FALSE
    /\ Goto(c, "ap_log54")
    /\ UNCHANGED <<sub, reg, lock, lock_level, ints, smpVars>>

\* The page map is loaded but not recorded.
PmapNotStored(c) ==
    /\ At(c, "ap_pmap")
    /\ cr3' = [cr3 EXCEPT ![c] = c]
    /\ Goto(c, "ap_context")
    /\ UNCHANGED <<sub, reg, lock, smp_status, lock_level, ints,
                   booted_cpus_count, launching_addresses, pmaps, lapic, i>>

\* store_pmap(pmap, smp_info->lapic_id) and the switch to the new page map.
ApPmap(c) ==
    /\ At(c, "ap_pmap")
    /\ pmaps' = [pmaps EXCEPT ![c] = c]
    /\ cr3' = [cr3 EXCEPT ![c] = c]
    /\ Goto(c, "ap_context")
    /\ UNCHANGED <<sub, reg, lock, smp_status, lock_level, ints,
                   booted_cpus_count, launching_addresses, lapic, i>>

\* map_pics has mapped the LAPIC; the APIC and syscall registers are set up.
ApPics(c) ==
    /\ At(c, "ap_pics_done")
    /\ lapic' = lapic \cup {cr3[c]}
    /\ Goto(c, "ap_status1")
    /\ UNCHANGED <<sub, reg, lock, smp_status, lock_level, ints,
                   booted_cpus_count, launching_addresses, pmaps, cr3, i>>

ApStatus1(c) ==
    /\ At(c, "ap_status1")
    /\ smp_status' = TRUE
    /\ Goto(c, "ap_log82")
    /\ UNCHANGED <<sub, reg, lock, lock_level, ints, smpVars>>

\* booted_cpus_count++ is a load and a store.
ApRead(c) ==
    /\ At(c, "ap_read")
    /\ reg' = [reg EXCEPT ![c] = booted_cpus_count]
    /\ Goto(c, "ap_write")
    /\ UNCHANGED <<sub, lock, smp_status, lock_level, ints, smpVars>>

ApWrite(c) ==
    /\ At(c, "ap_write")
    /\ booted_cpus_count' = (reg[c] + 1) % 256
    /\ Goto(c, "ap_log86")
    /\ UNCHANGED <<sub, reg, lock, smp_status, lock_level, ints,
                   launching_addresses, pmaps, cr3, lapic, i>>

\* END_BOTTLENECK(1) and sti; RELEASE_LOCK precedes the interrupt flag.
ApEnd(c) ==
    /\ At(c, "ap_end")
    /\ RELEASE_LOCK("1")
    /\ ints' = [ints EXCEPT ![c] = TRUE]
    /\ Goto(c, "ap_null_id")
    /\ UNCHANGED <<sub, reg, smp_status, lock_level, smpVars>>

\* Where an idle core computes COREID, and what it then does with the slot.
IdNext ==
    [ap_null_id |-> "ap_null", ap_poll_id |-> "ap_poll",
     ap_poll1_id |-> "ap_poll1", ap_call_id |-> "ap_call"]

ApCoreId(c) ==
    /\ pc[c] \in DOMAIN IdNext /\ sub[c] = "-"
    /\ reg' = [reg EXCEPT ![c] = get_core_id(c)]
    /\ Goto(c, IdNext[pc[c]])
    /\ UNCHANGED <<sub, lock, smp_status, lock_level, ints, smpVars>>

\* launching_addresses[COREID] = NULL
ApNull(c) ==
    /\ At(c, "ap_null")
    /\ launching_addresses' = [launching_addresses EXCEPT ![reg[c]] = "NULL"]
    /\ Goto(c, "ap_poll_id")
    /\ UNCHANGED <<sub, reg, lock, smp_status, lock_level, ints,
                   booted_cpus_count, pmaps, cr3, lapic, i>>

\* while(!launching_addresses[COREID] || launching_addresses[COREID] == 1)
ApPoll(c) ==
    /\ \/ /\ At(c, "ap_poll")
          /\ Goto(c, IF launching_addresses[reg[c]] = "NULL"
                     THEN "ap_poll_id" ELSE "ap_poll1_id")
       \/ /\ At(c, "ap_poll1")
          /\ Goto(c, IF launching_addresses[reg[c]] = "1"
                     THEN "ap_poll_id" ELSE "ap_log97")
    /\ UNCHANGED <<sub, reg, lock, smp_status, lock_level, ints, smpVars>>

\* launching_addresses[COREID](): the slot is read once more, and a slot that
\* holds no function sends the core to an address where there is no code.
ApCall(c) ==
    /\ At(c, "ap_call")
    /\ Goto(c, IF launching_addresses[reg[c]] = "entry_launch"
               THEN "el_log172" ELSE "fault")
    /\ UNCHANGED <<sub, reg, lock, smp_status, lock_level, ints, smpVars>>

-----------------------------------------------------------------------------
BsStep == BsStatus \/ BsGrab \/ BsLoop \/ BsGoto \/ BsRelease \/ BsWait \/ BsOnes

ApStep(c) ==
    \/ ApGrab(c) \/ ApRelease(c) \/ ApBegin(c) \/ ApStatus0(c) \/ ApPmap(c)
    \/ ApPics(c) \/ ApStatus1(c) \/ ApRead(c) \/ ApWrite(c) \/ ApEnd(c)
    \/ ApCoreId(c) \/ ApNull(c) \/ ApPoll(c) \/ ApCall(c)

\* Common routines, which touch nothing of this module.
CoreStep(c) == (LOG(c) \/ Alloc(c)) /\ UNCHANGED smpVars

\* The boot core enters launch_APs with its own page map and LAPIC mapped and,
\* after the balanced logging of bootstrap_arch, interrupts on at level 0.
SmpInit ==
    /\ pc = [c \in Core |-> IF c = BSP THEN "bs_status" ELSE "parked"]
    /\ sub = [c \in Core |-> "-"]
    /\ reg = [c \in Core |-> 0]
    /\ lock = [l \in LockName |-> NoCore]
    /\ smp_status = FALSE
    /\ lock_level = [c \in Core |-> 0]
    /\ ints = [c \in Core |-> c = BSP]
    /\ booted_cpus_count = 1
    /\ launching_addresses = [c \in Core |-> "NULL"]
    /\ pmaps = [c \in Core |-> IF c = BSP THEN BSP ELSE Limine]
    /\ cr3 = [c \in Core |-> IF c = BSP THEN BSP ELSE Limine]
    /\ lapic = {BSP}
    /\ i = 0
=============================================================================
