---------------------------- MODULE KernelProofs ----------------------------
(***************************************************************************)
(* Proofs, for every number of cores and every set of init files, of the   *)
(* properties of KernelProperties that do not involve fairness.            *)
(***************************************************************************)
EXTENDS KernelProperties, TLAPS, FiniteSetTheorems

-----------------------------------------------------------------------------
(* The inductive invariant behind FrameMutex, CoreIdReadable, BootBarrier  *)
(* and StatusStable: who holds which lock, and how far the others are then.*)

HoldsBootstrap == {"bs_loop", "bs_log115", "bs_stack", "bs_log117", "bs_goto",
                   "bs_release", "ap_release"}
Before == Outside \cup Mapless \cup Uncounted
\* While smp_status is clear for the core that boots.
Dark == {"ap_log54", "ap_pagedir", "ap_pmap", "ap_context", "ap_log66",
         "ap_pics", "ap_pics_done", "ap_status1"}
Unmapped == Outside \cup Mapless \cup
            {"ap_context", "ap_log66", "ap_pics", "ap_pics_done"}
Leaving == {"ap_poll1_id", "ap_poll1", "ap_log97", "ap_call_id", "ap_call"}
Launched == Loading \cup Published
LaunchBody == {"bs_log115", "bs_stack", "bs_log117", "bs_goto"}
LoopBody == {"km_log75", "km_log40", "km_core", "km_log43", "km_log70",
             "km_write", "km_log72", "km_next"}
InLoop == LoopBody \cup {"km_loop", "km_log79", "km_own"}
SlotUse == {"ap_null", "ap_poll", "ap_poll1", "ap_call"}
Joining == {"km_join", "km_wait", "km_log90", "km_switch"}
Counted == {c \in AP : pc[c] \notin Before}

\* The Bootstrap lock and lock 1 are owned by exactly the core inside the
\* section they guard.
LockInv ==
    /\ \A c \in Core : pc[c] \in HoldsBootstrap <=> lock["Bootstrap"] = c
    /\ \A c \in Core : pc[c] \in InNeck <=> lock["1"] = c

\* The inner position of a core fits the place it was called from, and the
\* kmmap lock is owned by exactly the core inside kmmap.
InnerInv ==
    /\ \A c \in Core : sub[c] = "frame" => pc[c] \in MapSites \cup FrameSites
    /\ \A c \in Core : sub[c] \in LogSubs => pc[c] \in LogSites
    /\ \A c \in Core : pc[c] \in MapSites /\ sub[c] = "frame" <=> lock["kmmap"] = c

\* No application processor passes the Bootstrap lock during launch_APs.
LaunchInv ==
    /\ pc[BSP] \in {"bs_status", "bs_grab"} => \A c \in AP : pc[c] = "parked"
    /\ pc[BSP] \in HoldsBootstrap => \A c \in AP : pc[c] \in {"parked", "ap_grab"}

\* booted_cpus_count counts the cores that are past their increment, and the
\* boot core waits for all of them.
CountInv ==
    /\ booted_cpus_count = 1 + Cardinality(Counted)
    /\ BspBooted => \A c \in AP : pc[c] \notin Before

\* Every slot is empty, and no core finds otherwise, before the boot core is
\* past its wait.
PublishInv ==
    /\ \A c \in Core : launching_addresses[c] # "NULL" => BspBooted
    /\ \A c \in AP : pc[c] \in Leaving \cup Launched => BspBooted

\* smp_status is clear exactly while a core is in the dark.
StatusInv ==
    /\ pc[BSP] = "bs_status" => ~smp_status
    /\ \A c \in AP : pc[c] \in Dark => ~smp_status
    /\ ~smp_status => pc[BSP] = "bs_status" \/ \E c \in AP : pc[c] \in Dark

\* What a core's register holds at the places that use it.
RegInv ==
    /\ \A c \in AP : pc[c] = "ap_write" => reg[c] = booted_cpus_count
    /\ \A c \in AP : pc[c] \in SlotUse => reg[c] \in Core
    /\ pc[BSP] \in Joining => reg[BSP] \in Core

\* Page maps are recorded and loaded, and map the LAPIC, as the boot advances.
MapInv ==
    /\ pmaps[BSP] = BSP /\ BSP \in lapic
    /\ \A c \in AP : pc[c] \notin Outside \cup Mapless => pmaps[c] = c /\ cr3[c] = c
    /\ \A c \in AP : pc[c] \notin Unmapped => c \in lapic
    /\ cr3[BSP] \in Core /\ (cr3[BSP] # BSP => BspBooted)

\* The loop indices stay inside the arrays they index.
LoopInv ==
    /\ pc[BSP] \in LaunchBody => i \in AP
    /\ pc[BSP] \in InLoop => parsed.cores <= N
    /\ pc[BSP] \in LoopBody => i < N

IInv == TypeOK /\ LockInv /\ InnerInv /\ LaunchInv /\ CountInv /\ PublishInv
        /\ StatusInv /\ RegInv /\ MapInv /\ LoopInv

-----------------------------------------------------------------------------
(* What LevelsBalanced, MainMasksInts and JoinsLoadedSpace need besides.   *)

\* Boot core: parsed is not what parse_init returned yet.
Unparsed == BootLabels \cup {"km_log28", "km_parse"}
\* Boot core: in the address space of the core it joined.
Joined == {"sa_grab", "sa_log", "sa_map", "sa_release", "ip_log24", "ip_ret",
           "stack", "sysret", "user"}

\* A core inside a LOG that acts as core k.
Logging(k) == \E c \in Core : sub[c] \in LogSubs /\ get_core_id(c) = k

\* A level is the one LOG in progress under it and kernel_main's lock_ints.
LevelInv ==
    \A k \in Core :
        lock_level[k] = (IF Logging(k) THEN 1 ELSE 0) + (IF k = BSP /\ InMain THEN 1 ELSE 0)

\* No core is launched before the init file is parsed, and an entry point is
\* stored by its own core, for the program the file gives that core.
EntryInv ==
    /\ \A c \in Core : launching_addresses[c] = "entry_launch" => pc[BSP] \notin Unparsed
    /\ \A c \in AP : pc[c] \in Launched => pc[BSP] \notin Unparsed
    /\ \A c \in AP : entries[c] # NoEntry =>
           pc[c] \in Published /\ entries[c] = parsed.programs[c]

\* The boot core takes the page map of the core it waits for, leaves its own only
\* when that core has an entry point, and never looks for another one again.
JoinInv ==
    /\ pc[BSP] \in Joining => y \in AP /\ reg[BSP] = y
    /\ pc[BSP] \in {"km_log90", "km_switch"} => entries[y] # NoEntry
    /\ cr3[BSP] # BSP =>
           pc[BSP] \in Joined /\ y \in AP /\ cr3[BSP] = y /\ entries[y] # NoEntry

LaunchIInv == IInv /\ LevelInv /\ MainMasksInts /\ EntryInv /\ JoinInv
-----------------------------------------------------------------------------
(* Facts about the constants and the operators.                            *)

\* The boot core is a core, and the others are the rest.
LEMMA CoreFacts ==
    /\ BSP \in Core /\ BSP \notin AP /\ NoCore \notin Core
    /\ \A c \in Core : c \in Int /\ (c \in AP <=> c # BSP)
    /\ \A c \in AP : c \in Core
    /\ N \in Nat /\ 0 \in 0..N
  BY CountAssumption DEF Core, AP, BSP, NoCore

\* COREID always indexes the per-core arrays.
LEMMA CoreIdType ==
  ASSUME NEW c \in Core
  PROVE  get_core_id(c) \in Core
  BY CoreFacts DEF get_core_id, BSP

\* The special program names are names.
LEMMA NameFacts == Hang \in Name /\ NoEntry \in Name
  BY DEF Name

\* What parse_init returned gives each core a program.
LEMMA ParsedType ==
  ASSUME parsed \in InitFiles \cup {NothingParsed}
  PROVE  parsed.cores \in Nat /\ parsed.programs \in [Core -> Name]
  <1>1. CASE parsed \in InitFiles
    BY <1>1, FileAssumption
  <1>2. CASE parsed = NothingParsed
    BY <1>2, NameFacts DEF NothingParsed
  <1>. QED  BY <1>1, <1>2

\* lock_ints and unlock_ints keep a level in its byte.
LEMMA LevelType ==
  ASSUME lock_level \in [Core -> 0..255], NEW k \in Core
  PROVE  /\ lock_level[k] # 255 => [lock_level EXCEPT ![k] = @ + 1] \in [Core -> 0..255]
         /\ lock_level[k] # 0 => [lock_level EXCEPT ![k] = @ - 1] \in [Core -> 0..255]
  <1>1. lock_level[k] # 255 => lock_level[k] + 1 \in 0..255
    OBVIOUS
  <1>2. lock_level[k] # 0 => lock_level[k] - 1 \in 0..255
    OBVIOUS
  <1>. QED  BY <1>1, <1>2

\* The byte counter of booted cores wraps.
LEMMA ByteType ==
  ASSUME NEW x \in Int
  PROVE  (x + 1) % 256 \in 0..255
  OBVIOUS

\* A loop index that is neither N nor the boot core is an application
\* processor, and its successor is an index again.
LEMMA IndexType ==
    /\ \A x \in 0..N : x < N /\ x # BSP => x \in AP
    /\ \A x \in 0..N : x < N => x \in Core /\ x + 1 \in 0..N
    /\ \A x \in AP : x + 1 \in 0..N
  BY CountAssumption DEF AP, Core, BSP

\* Cores that share a program are application processors.
LEMMA TwinType ==
  ASSUME NEW p, NEW hi \in 0..N, NEW d \in Twins(p, hi)
  PROVE  d \in AP
  BY CountAssumption DEF Twins, Core, AP, BSP

\* The boot core never runs _start_core.
LEMMA BspPlace ==
  ASSUME PcTypeOK
  PROVE  pc[BSP] \notin Outside \cup InNeck \cup Idle
  BY DEF PcTypeOK, BspLabels, BootLabels, Launching, MainOnly, Loading, Published,
         Outside, InNeck, Mapless, Uncounted, Idle, IdNext

\* The others never run launch_APs.
LEMMA ApPlace ==
  ASSUME PcTypeOK, NEW c \in AP
  PROVE  pc[c] \notin Launching
  BY DEF PcTypeOK, ApLabels, Launching, Loading, Published, Outside, InNeck, Mapless, Uncounted,
         Idle, IdNext

\* What kernel_main takes from the core it joins: its index, and the page map
\* that core recorded before it was counted.
LEMMA JoinFacts ==
  ASSUME IInv, pc[BSP] \in {"km_core", "km_own"},
         NEW p, NEW hi \in 0..N, TakeFirst(Twins(p, hi))
  PROVE  y' \in AP /\ y' \in Core /\ reg' = [reg EXCEPT ![BSP] = y']
  <1>1. PICK d \in Twins(p, hi) : y' = d /\ reg' = [reg EXCEPT ![BSP] = pmaps[d]]
    BY DEF TakeFirst
  <1>2. d \in AP
    BY <1>1, TwinType
  <1>3. pc[d] \notin Before
    BY <1>2 DEF IInv, CountInv, BspBooted, Launching
  <1>4. pmaps[d] = d
    BY <1>2, <1>3 DEF IInv, MapInv, Before
  <1>. QED  BY <1>1, <1>2, <1>4, CoreFacts

\* A LOG moves its core only when it returns, to the place after it.
LEMMA LogMoves ==
  ASSUME IInv, NEW c \in Core, LOG(c)
  PROVE  \/ pc' = pc
         \/ pc[c] \in LogSites /\ pc' = [pc EXCEPT ![c] = LogNext[pc[c]]]
  BY DEF IInv, InnerInv, LogSubs, LOG, LogLock, LogGrab, LogPrint, LogUnlock, Goto

\* The bounds of the two searches for a core to join.
LEMMA SearchBounds ==
  ASSUME IInv
  PROVE  i \in 0..N /\ (pc[BSP] = "km_own" => parsed.cores \in 0..N)
  BY ParsedType, CoreFacts DEF IInv, TypeOK, VarTypeOK, LoopInv, InLoop

-----------------------------------------------------------------------------
(* Every step of a core preserves each part of the invariant.              *)

\* A step moves a core to a place that core can be at.
LEMMA PcTypeStep ==
  ASSUME IInv, NEW c \in Core, Step(c)
  PROVE  PcTypeOK'
  <1>. USE CoreFacts
       DEF IInv, TypeOK, PcTypeOK, InnerInv, LoopInv, At, Goto, LaunchBody,
           MapSites, MapNext, FrameSites, FrameNext, IdNext, BspLabels,
           ApLabels, BootLabels, Launching, MainOnly, Loading, Published,
           Outside, Mapless, Uncounted, Idle, InNeck
  <1>1. CASE ElStep(c)
    BY <1>1, SMTT(60) DEF ElStep, ElFile, ElSegment, SpaceGrab, SpaceRelease, IpReturn,
                      Sysret
  <1>2. CASE LOG(c) /\ UNCHANGED <<smpVars, mainVars>>
    <2>1. CASE LogUnlock(c)
      <3>1. pc[c] \in LogSites
        BY <2>1 DEF LogUnlock, LogSubs
      <3>2. /\ pc[c] \in BspLabels => LogNext[pc[c]] \in BspLabels
            /\ pc[c] \in ApLabels => LogNext[pc[c]] \in ApLabels
        BY <3>1 DEF LogSites, LogNext
      <3>. HIDE DEF BspLabels, ApLabels
      <3>. QED  BY <2>1, <3>2 DEF LogUnlock
    <2>2. CASE LogLock(c) \/ LogGrab(c) \/ LogPrint(c)
      BY <2>2 DEF LogLock, LogGrab, LogPrint
    <2>. QED  BY <1>2, <2>1, <2>2 DEF LOG
  <1>3. CASE Alloc(c) /\ UNCHANGED <<smpVars, mainVars>>
    BY <1>3, SMTT(60) DEF Alloc, KmmapEnter, KmmapLeave, FrameEnter, FrameLeave
  <1>4. CASE ApStep(c) /\ UNCHANGED mainVars
    BY <1>4, SMTT(60) DEF ApStep, ApGrab, ApRelease, ApBegin, ApStatus0, ApPmap,
                      ApPics, ApStatus1, ApRead, ApWrite, ApEnd, ApCoreId,
                      ApNull, ApPoll, ApCall
  <1>5. CASE BsStep /\ UNCHANGED mainVars
    BY <1>5, SMTT(60) DEF BsStep, BsStatus, BsGrab, BsLoop, BsGoto, BsRelease,
                      BsWait, BsOnes
  <1>6. CASE KmStep
    BY <1>6, SMTT(60) DEF KmStep, KmLock, KmParse, KmCheck, KmLoop, KmNext, KmCore,
                      KmJoin, KmWrite, KmOwn, KmWait, KmSwitch
  <1>. QED  BY <1>1, <1>2, <1>3, <1>4, <1>5, <1>6 DEF Step, CoreStep

\* A step keeps the type of every variable.
LEMMA VarTypeStep ==
  ASSUME IInv, NEW c \in Core, Step(c)
  PROVE  VarTypeOK'
  <1>. USE CoreFacts, CoreIdType
       DEF IInv, TypeOK, VarTypeOK, At, Goto, Call, GRAB_LOCK, RELEASE_LOCK,
           LaunchBody, Address, Subs, smpVars, mainVars
  <1>1. CASE ElStep(c)
    <2>1. CASE ElFile(c)
      BY <1>1, <2>1, FileAssumption DEF ElFile, Program
    <2>2. CASE ElSegment(c)
      BY <1>1, <2>2 DEF ElSegment
    <2>3. CASE SpaceGrab(c)
      BY <1>1, <2>3 DEF SpaceGrab
    <2>4. CASE SpaceRelease(c)
      <3>1. [reg EXCEPT ![c] = @ - 1] \in [Core -> Int]
        OBVIOUS
      <3>. QED  BY <1>1, <2>4, <3>1 DEF SpaceRelease
    <2>5. CASE IpReturn(c)
      BY <1>1, <2>5, ParsedType DEF IpReturn
    <2>6. CASE Sysret(c)
      BY <1>1, <2>6, ParsedType DEF Sysret
    <2>. QED  BY <1>1, <2>1, <2>2, <2>3, <2>4, <2>5, <2>6 DEF ElStep
  <1>2. CASE LOG(c) /\ UNCHANGED <<smpVars, mainVars>>
    <2>1. CASE LogLock(c)
      BY <1>2, <2>1, LevelType DEF LogLock, lock_ints, LogSubs
    <2>2. CASE LogGrab(c)
      BY <1>2, <2>2 DEF LogGrab, LogSubs
    <2>3. CASE LogPrint(c)
      BY <1>2, <2>3 DEF LogPrint, LogSubs
    <2>4. CASE LogUnlock(c)
      BY <1>2, <2>4, LevelType DEF LogUnlock, unlock_ints, LogSubs
    <2>. QED  BY <1>2, <2>1, <2>2, <2>3, <2>4 DEF LOG
  <1>3. CASE Alloc(c) /\ UNCHANGED <<smpVars, mainVars>>
    BY <1>3, SMTT(60) DEF Alloc, KmmapEnter, KmmapLeave, FrameEnter, FrameLeave
  <1>4. CASE ApStep(c) /\ UNCHANGED mainVars
    <2>1. CASE ApGrab(c)
      BY <1>4, <2>1 DEF ApGrab
    <2>2. CASE ApRelease(c)
      BY <1>4, <2>2 DEF ApRelease
    <2>3. CASE ApBegin(c)
      BY <1>4, <2>3 DEF ApBegin
    <2>4. CASE ApStatus0(c)
      BY <1>4, <2>4 DEF ApStatus0
    <2>5. CASE ApPmap(c)
      BY <1>4, <2>5 DEF ApPmap
    <2>6. CASE ApPics(c)
      BY <1>4, <2>6 DEF ApPics
    <2>7. CASE ApStatus1(c)
      BY <1>4, <2>7 DEF ApStatus1
    <2>8. CASE ApRead(c)
      BY <1>4, <2>8 DEF ApRead
    <2>9. CASE ApWrite(c)
      <3>1. reg[c] \in Int
        OBVIOUS
      <3>2. (reg[c] + 1) % 256 \in 0..255
        BY ONLY <3>1, ByteType
      <3>. QED  BY <1>4, <2>9, <3>2 DEF ApWrite
    <2>10. CASE ApEnd(c)
      BY <1>4, <2>10 DEF ApEnd
    <2>11. CASE ApCoreId(c)
      BY <1>4, <2>11 DEF ApCoreId
    <2>12. CASE ApNull(c)
      BY <1>4, <2>12 DEF ApNull
    <2>13. CASE ApPoll(c)
      BY <1>4, <2>13 DEF ApPoll
    <2>14. CASE ApCall(c)
      BY <1>4, <2>14 DEF ApCall
    <2>. QED  BY <1>4, <2>1, <2>2, <2>3, <2>4, <2>5, <2>6, <2>7, <2>8, <2>9, <2>10, <2>11, <2>12, <2>13, <2>14 DEF ApStep
  <1>5. CASE BsStep /\ UNCHANGED mainVars
    <2>1. CASE BsStatus
      BY <1>5, <2>1 DEF BsStatus
    <2>2. CASE BsGrab
      BY <1>5, <2>2 DEF BsGrab
    <2>3. CASE BsLoop
      BY <1>5, <2>3, IndexType DEF BsLoop
    <2>4. CASE BsGoto
      BY <1>5, <2>4, IndexType DEF BsGoto, LoopInv
    <2>5. CASE BsRelease
      BY <1>5, <2>5 DEF BsRelease
    <2>6. CASE BsWait
      BY <1>5, <2>6 DEF BsWait
    <2>7. CASE BsOnes
      BY <1>5, <2>7, IndexType DEF BsOnes
    <2>. QED  BY <1>5, <2>1, <2>2, <2>3, <2>4, <2>5, <2>6, <2>7 DEF BsStep
  <1>6. CASE KmStep
    <2>1. CASE KmLock
      BY <1>6, <2>1, LevelType DEF KmLock, lock_ints
    <2>2. CASE KmParse
      BY <1>6, <2>2 DEF KmParse
    <2>3. CASE KmCheck
      BY <1>6, <2>3 DEF KmCheck
    <2>4. CASE KmLoop
      BY <1>6, <2>4 DEF KmLoop
    <2>5. CASE KmNext
      BY <1>6, <2>5, IndexType DEF KmNext, LoopInv, LoopBody
    <2>6. CASE KmCore
      <3>1. y' \in Core /\ reg' \in [Core -> Int]
        BY <2>6, JoinFacts, SearchBounds DEF KmCore
      <3>. QED  BY <2>6, <3>1 DEF KmCore
    <2>7. CASE KmJoin
      BY <1>6, <2>7 DEF KmJoin, RegInv, Joining
    <2>8. CASE KmWrite
      BY <1>6, <2>8 DEF KmWrite
    <2>9. CASE KmOwn
      <3>1. y' \in Core /\ reg' \in [Core -> Int]
        BY <2>9, JoinFacts, SearchBounds DEF KmOwn
      <3>. QED  BY <2>9, <3>1 DEF KmOwn
    <2>10. CASE KmWait
      BY <1>6, <2>10 DEF KmWait
    <2>11. CASE KmSwitch
      BY <1>6, <2>11 DEF KmSwitch, RegInv, Joining
    <2>. QED  BY <1>6, <2>1, <2>2, <2>3, <2>4, <2>5, <2>6, <2>7, <2>8, <2>9, <2>10, <2>11 DEF KmStep
  <1>. QED  BY <1>1, <1>2, <1>3, <1>4, <1>5, <1>6 DEF Step, CoreStep

\* The Bootstrap lock and lock 1 change hands only at the ends of the sections
\* they guard.
LEMMA LockStep ==
  ASSUME IInv, NEW c \in Core, Step(c)
  PROVE  LockInv'
  <1>. USE CoreFacts
       DEF IInv, TypeOK, PcTypeOK, VarTypeOK, At, Goto, Call, smpVars,
           mainVars, GRAB_LOCK, RELEASE_LOCK, LockInv, InnerInv, LoopInv,
           LaunchInv, LaunchBody, HoldsBootstrap, InNeck, Mapless, Uncounted,
           LockName, MapSites, MapNext, FrameSites, FrameNext, LogSites,
           LogNext, LogSubs, IdNext
  <1>1. CASE ElStep(c)
    BY <1>1, SMTT(60) DEF ElStep, ElFile, ElSegment, SpaceGrab, SpaceRelease, IpReturn,
                      Sysret
  <1>2. CASE LOG(c) /\ UNCHANGED <<smpVars, mainVars>>
    BY <1>2, SMTT(60) DEF LOG, LogLock, LogGrab, LogPrint, LogUnlock
  <1>3. CASE Alloc(c) /\ UNCHANGED <<smpVars, mainVars>>
    BY <1>3, SMTT(60) DEF Alloc, KmmapEnter, KmmapLeave, FrameEnter, FrameLeave
  <1>4. CASE ApStep(c) /\ UNCHANGED mainVars
    BY <1>4, SMTT(60) DEF ApStep, ApGrab, ApRelease, ApBegin, ApStatus0, ApPmap,
                      ApPics, ApStatus1, ApRead, ApWrite, ApEnd, ApCoreId,
                      ApNull, ApPoll, ApCall
  <1>5. CASE BsStep /\ UNCHANGED mainVars
    BY <1>5, SMTT(60) DEF BsStep, BsStatus, BsGrab, BsLoop, BsGoto, BsRelease,
                      BsWait, BsOnes
  <1>6. CASE KmStep
    BY <1>6, SMTT(60) DEF KmStep, KmLock, KmParse, KmCheck, KmLoop, KmNext, KmCore,
                      KmJoin, KmWrite, KmOwn, KmWait, KmSwitch
  <1>. QED  BY <1>1, <1>2, <1>3, <1>4, <1>5, <1>6 DEF Step, CoreStep

\* LOG, kmmap and get_frame return to where they were called, and the kmmap lock
\* is held exactly inside kmmap.
LEMMA InnerStep ==
  ASSUME IInv, NEW c \in Core, Step(c)
  PROVE  InnerInv'
  <1>. USE CoreFacts
       DEF IInv, TypeOK, PcTypeOK, VarTypeOK, At, Goto, Call, smpVars,
           mainVars, GRAB_LOCK, RELEASE_LOCK, InnerInv, LoopInv, LaunchInv,
           LaunchBody, HoldsBootstrap, LockName, MapSites, MapNext,
           FrameSites, FrameNext, LogSites, LogNext, LogSubs, IdNext
  <1>1. CASE ElStep(c)
    BY <1>1, SMTT(60) DEF ElStep, ElFile, ElSegment, SpaceGrab, SpaceRelease, IpReturn,
                      Sysret
  <1>2. CASE LOG(c) /\ UNCHANGED <<smpVars, mainVars>>
    BY <1>2, SMTT(60) DEF LOG, LogLock, LogGrab, LogPrint, LogUnlock
  <1>3. CASE Alloc(c) /\ UNCHANGED <<smpVars, mainVars>>
    BY <1>3, SMTT(60) DEF Alloc, KmmapEnter, KmmapLeave, FrameEnter, FrameLeave
  <1>4. CASE ApStep(c) /\ UNCHANGED mainVars
    BY <1>4, SMTT(60) DEF ApStep, ApGrab, ApRelease, ApBegin, ApStatus0, ApPmap,
                      ApPics, ApStatus1, ApRead, ApWrite, ApEnd, ApCoreId,
                      ApNull, ApPoll, ApCall
  <1>5. CASE BsStep /\ UNCHANGED mainVars
    BY <1>5, SMTT(60) DEF BsStep, BsStatus, BsGrab, BsLoop, BsGoto, BsRelease,
                      BsWait, BsOnes
  <1>6. CASE KmStep
    BY <1>6, SMTT(60) DEF KmStep, KmLock, KmParse, KmCheck, KmLoop, KmNext, KmCore,
                      KmJoin, KmWrite, KmOwn, KmWait, KmSwitch
  <1>. QED  BY <1>1, <1>2, <1>3, <1>4, <1>5, <1>6 DEF Step, CoreStep

\* No application processor gets past the Bootstrap lock during launch_APs.
LEMMA LaunchStep ==
  ASSUME IInv, NEW c \in Core, Step(c)
  PROVE  LaunchInv'
  <1>. USE CoreFacts, BspPlace
       DEF IInv, TypeOK, PcTypeOK, VarTypeOK, At, Goto, Call, smpVars,
           mainVars, GRAB_LOCK, RELEASE_LOCK, LockInv, InnerInv, LoopInv,
           LaunchInv, LaunchBody, HoldsBootstrap, Outside, LockName, MapSites,
           MapNext, FrameSites, FrameNext, LogSites, LogNext, LogSubs, IdNext
  <1>1. CASE ElStep(c)
    BY <1>1, SMTT(60) DEF ElStep, ElFile, ElSegment, SpaceGrab, SpaceRelease, IpReturn,
                      Sysret
  <1>2. CASE LOG(c) /\ UNCHANGED <<smpVars, mainVars>>
    BY <1>2, SMTT(60) DEF LOG, LogLock, LogGrab, LogPrint, LogUnlock
  <1>3. CASE Alloc(c) /\ UNCHANGED <<smpVars, mainVars>>
    BY <1>3, SMTT(60) DEF Alloc, KmmapEnter, KmmapLeave, FrameEnter, FrameLeave
  <1>4. CASE ApStep(c) /\ UNCHANGED mainVars
    BY <1>4, SMTT(60) DEF ApStep, ApGrab, ApRelease, ApBegin, ApStatus0, ApPmap,
                      ApPics, ApStatus1, ApRead, ApWrite, ApEnd, ApCoreId,
                      ApNull, ApPoll, ApCall
  <1>5. CASE BsStep /\ UNCHANGED mainVars
    BY <1>5, SMTT(60) DEF BsStep, BsStatus, BsGrab, BsLoop, BsGoto, BsRelease,
                      BsWait, BsOnes
  <1>6. CASE KmStep
    BY <1>6, SMTT(60) DEF KmStep, KmLock, KmParse, KmCheck, KmLoop, KmNext, KmCore,
                      KmJoin, KmWrite, KmOwn, KmWait, KmSwitch
  <1>. QED  BY <1>1, <1>2, <1>3, <1>4, <1>5, <1>6 DEF Step, CoreStep

\* The slots are written, and found written, only once the boot core is past its
\* wait.
LEMMA PublishStep ==
  ASSUME IInv, NEW c \in Core, Step(c)
  PROVE  PublishInv'
  <1>. USE CoreFacts
       DEF IInv, TypeOK, PcTypeOK, VarTypeOK, At, Goto, Call, smpVars,
           mainVars, PublishInv, RegInv, SlotUse, BspBooted, Launching,
           Leaving, Launched, Loading, Published, InnerInv, LaunchInv, LoopInv,
           LaunchBody, MapSites, MapNext, FrameSites, FrameNext, LogSites,
           LogNext, LogSubs, IdNext
  <1>1. CASE ElStep(c)
    BY <1>1, SMTT(60) DEF ElStep, ElFile, ElSegment, SpaceGrab, SpaceRelease, IpReturn,
                      Sysret
  <1>2. CASE LOG(c) /\ UNCHANGED <<smpVars, mainVars>>
    BY <1>2, SMTT(60) DEF LOG, LogLock, LogGrab, LogPrint, LogUnlock
  <1>3. CASE Alloc(c) /\ UNCHANGED <<smpVars, mainVars>>
    BY <1>3, SMTT(60) DEF Alloc, KmmapEnter, KmmapLeave, FrameEnter, FrameLeave
  <1>4. CASE ApStep(c) /\ UNCHANGED mainVars
    BY <1>4, SMTT(60) DEF ApStep, ApGrab, ApRelease, ApBegin, ApStatus0, ApPmap,
                      ApPics, ApStatus1, ApRead, ApWrite, ApEnd, ApCoreId,
                      ApNull, ApPoll, ApCall
  <1>5. CASE BsStep /\ UNCHANGED mainVars
    BY <1>5, SMTT(60) DEF BsStep, BsStatus, BsGrab, BsLoop, BsGoto, BsRelease,
                      BsWait, BsOnes
  <1>6. CASE KmStep
    BY <1>6, SMTT(60) DEF KmStep, KmLock, KmParse, KmCheck, KmLoop, KmNext, KmCore,
                      KmJoin, KmWrite, KmOwn, KmWait, KmSwitch
  <1>. QED  BY <1>1, <1>2, <1>3, <1>4, <1>5, <1>6 DEF Step, CoreStep

\* smp_status is clear exactly while one core is in the dark.
LEMMA StatusStep ==
  ASSUME IInv, NEW c \in Core, Step(c)
  PROVE  StatusInv'
  <1>. USE CoreFacts, BspPlace
       DEF IInv, TypeOK, PcTypeOK, VarTypeOK, At, Goto, Call, smpVars,
           mainVars, StatusInv, LockInv, InNeck, Mapless, Uncounted, InnerInv,
           LoopInv, LaunchInv, LaunchBody, HoldsBootstrap, Dark, MapSites,
           MapNext, FrameSites, FrameNext, LogSites, LogNext, LogSubs, IdNext
  <1>1. CASE ElStep(c)
    BY <1>1, SMTT(60) DEF ElStep, ElFile, ElSegment, SpaceGrab, SpaceRelease, IpReturn,
                      Sysret
  <1>2. CASE LOG(c) /\ UNCHANGED <<smpVars, mainVars>>
    BY <1>2, SMTT(60) DEF LOG, LogLock, LogGrab, LogPrint, LogUnlock
  <1>3. CASE Alloc(c) /\ UNCHANGED <<smpVars, mainVars>>
    BY <1>3, SMTT(60) DEF Alloc, KmmapEnter, KmmapLeave, FrameEnter, FrameLeave
  <1>4. CASE ApStep(c) /\ UNCHANGED mainVars
    BY <1>4, SMTT(60) DEF ApStep, ApGrab, ApRelease, ApBegin, ApStatus0, ApPmap,
                      ApPics, ApStatus1, ApRead, ApWrite, ApEnd, ApCoreId,
                      ApNull, ApPoll, ApCall
  <1>5. CASE BsStep /\ UNCHANGED mainVars
    BY <1>5, SMTT(60) DEF BsStep, BsStatus, BsGrab, BsLoop, BsGoto, BsRelease,
                      BsWait, BsOnes
  <1>6. CASE KmStep
    BY <1>6, SMTT(60) DEF KmStep, KmLock, KmParse, KmCheck, KmLoop, KmNext, KmCore,
                      KmJoin, KmWrite, KmOwn, KmWait, KmSwitch
  <1>. QED  BY <1>1, <1>2, <1>3, <1>4, <1>5, <1>6 DEF Step, CoreStep

\* Registers hold what the next instruction of their core relies on.
LEMMA RegStep ==
  ASSUME IInv, NEW c \in Core, Step(c)
  PROVE  RegInv'
  <1>. USE CoreFacts, CoreIdType
       DEF IInv, TypeOK, PcTypeOK, VarTypeOK, At, Goto, Call, smpVars,
           mainVars, RegInv, LockInv, LoopInv, InNeck, Uncounted, LaunchBody,
           InnerInv, SlotUse, Joining, MapSites, MapNext, FrameSites,
           FrameNext, LogSites, LogNext, LogSubs, IdNext
  <1>1. CASE ElStep(c)
    BY <1>1, SMTT(60) DEF ElStep, ElFile, ElSegment, SpaceGrab, SpaceRelease, IpReturn,
                      Sysret
  <1>2. CASE LOG(c) /\ UNCHANGED <<smpVars, mainVars>>
    BY <1>2, SMTT(60) DEF LOG, LogLock, LogGrab, LogPrint, LogUnlock
  <1>3. CASE Alloc(c) /\ UNCHANGED <<smpVars, mainVars>>
    BY <1>3, SMTT(60) DEF Alloc, KmmapEnter, KmmapLeave, FrameEnter, FrameLeave
  <1>4. CASE ApStep(c) /\ UNCHANGED mainVars
    BY <1>4, SMTT(60) DEF ApStep, ApGrab, ApRelease, ApBegin, ApStatus0, ApPmap,
                      ApPics, ApStatus1, ApRead, ApWrite, ApEnd, ApCoreId,
                      ApNull, ApPoll, ApCall
  <1>5. CASE BsStep /\ UNCHANGED mainVars
    BY <1>5, SMTT(60) DEF BsStep, BsStatus, BsGrab, BsLoop, BsGoto, BsRelease,
                      BsWait, BsOnes
  <1>6. CASE KmStep
    <2>1. CASE KmLock
      BY <1>6, <2>1 DEF KmLock
    <2>2. CASE KmParse
      BY <1>6, <2>2 DEF KmParse
    <2>3. CASE KmCheck
      BY <1>6, <2>3 DEF KmCheck
    <2>4. CASE KmLoop
      BY <1>6, <2>4 DEF KmLoop
    <2>5. CASE KmNext
      BY <1>6, <2>5 DEF KmNext
    <2>6. CASE KmCore
      <3>1. /\ pc'[BSP] = "km_join" => reg'[BSP] \in Core
            /\ pc'[BSP] \in {"km_join", "km_log43", "km_log70"}
            /\ \A d \in AP : reg'[d] = reg[d] /\ pc'[d] = pc[d]
        BY <2>6, JoinFacts, SearchBounds DEF KmCore
      <3>. QED  BY <2>6, <3>1 DEF KmCore
    <2>7. CASE KmJoin
      BY <1>6, <2>7 DEF KmJoin
    <2>8. CASE KmWrite
      BY <1>6, <2>8 DEF KmWrite
    <2>9. CASE KmOwn
      <3>1. /\ pc'[BSP] = "km_wait" => reg'[BSP] \in Core
            /\ pc'[BSP] \in {"km_wait", "halt", "el_log172"}
            /\ \A d \in AP : reg'[d] = reg[d] /\ pc'[d] = pc[d]
        BY <2>9, JoinFacts, SearchBounds DEF KmOwn
      <3>. QED  BY <2>9, <3>1 DEF KmOwn
    <2>10. CASE KmWait
      BY <1>6, <2>10 DEF KmWait
    <2>11. CASE KmSwitch
      BY <1>6, <2>11 DEF KmSwitch
    <2>. QED  BY <1>6, <2>1, <2>2, <2>3, <2>4, <2>5, <2>6, <2>7, <2>8, <2>9, <2>10, <2>11 DEF KmStep
  <1>. QED  BY <1>1, <1>2, <1>3, <1>4, <1>5, <1>6 DEF Step, CoreStep

\* Page maps are recorded and loaded in the order of _start_core.
LEMMA MapStep ==
  ASSUME IInv, NEW c \in Core, Step(c)
  PROVE  MapInv'
  <1>. USE CoreFacts, CoreIdType
       DEF IInv, TypeOK, PcTypeOK, VarTypeOK, At, Goto, Call, smpVars,
           mainVars, MapInv, RegInv, Joining, LoopInv, LaunchBody, LaunchInv,
           HoldsBootstrap, InnerInv, Outside, Mapless, Unmapped, BspBooted,
           Launching, MapSites, MapNext, FrameSites, FrameNext, LogSites,
           LogNext, LogSubs, IdNext
  <1>1. CASE ElStep(c)
    BY <1>1, SMTT(60) DEF ElStep, ElFile, ElSegment, SpaceGrab, SpaceRelease, IpReturn,
                      Sysret
  <1>2. CASE LOG(c) /\ UNCHANGED <<smpVars, mainVars>>
    BY <1>2, LogMoves, SMTT(60)
  <1>3. CASE Alloc(c) /\ UNCHANGED <<smpVars, mainVars>>
    BY <1>3, SMTT(60) DEF Alloc, KmmapEnter, KmmapLeave, FrameEnter, FrameLeave
  <1>4. CASE ApStep(c) /\ UNCHANGED mainVars
    BY <1>4, SMTT(60) DEF ApStep, ApGrab, ApRelease, ApBegin, ApStatus0, ApPmap,
                      ApPics, ApStatus1, ApRead, ApWrite, ApEnd, ApCoreId,
                      ApNull, ApPoll, ApCall
  <1>5. CASE BsStep /\ UNCHANGED mainVars
    BY <1>5, SMTT(60) DEF BsStep, BsStatus, BsGrab, BsLoop, BsGoto, BsRelease,
                      BsWait, BsOnes
  <1>6. CASE KmStep
    BY <1>6, SMTT(60) DEF KmStep, KmLock, KmParse, KmCheck, KmLoop, KmNext, KmCore,
                      KmJoin, KmWrite, KmOwn, KmWait, KmSwitch
  <1>. QED  BY <1>1, <1>2, <1>3, <1>4, <1>5, <1>6 DEF Step, CoreStep

\* The loops of launch_APs and kernel_main stay within the cores.
LEMMA LoopStep ==
  ASSUME IInv, NEW c \in Core, Step(c)
  PROVE  LoopInv'
  <1>. USE CoreFacts, IndexType, ParsedType
       DEF IInv, TypeOK, PcTypeOK, VarTypeOK, At, Goto, Call, smpVars,
           mainVars, LoopInv, LaunchBody, LoopBody, InLoop, InnerInv,
           BspLabels, ApLabels, MapSites, MapNext, FrameSites, FrameNext,
           LogSites, LogNext, LogSubs, IdNext
  <1>1. CASE ElStep(c)
    BY <1>1, SMTT(60) DEF ElStep, ElFile, ElSegment, SpaceGrab, SpaceRelease, IpReturn,
                      Sysret
  <1>2. CASE LOG(c) /\ UNCHANGED <<smpVars, mainVars>>
    BY <1>2, LogMoves, SMTT(60)
  <1>3. CASE Alloc(c) /\ UNCHANGED <<smpVars, mainVars>>
    BY <1>3, SMTT(60) DEF Alloc, KmmapEnter, KmmapLeave, FrameEnter, FrameLeave
  <1>4. CASE ApStep(c) /\ UNCHANGED mainVars
    BY <1>4, SMTT(60) DEF ApStep, ApGrab, ApRelease, ApBegin, ApStatus0, ApPmap,
                      ApPics, ApStatus1, ApRead, ApWrite, ApEnd, ApCoreId,
                      ApNull, ApPoll, ApCall
  <1>5. CASE BsStep /\ UNCHANGED mainVars
    BY <1>5, SMTT(60) DEF BsStep, BsStatus, BsGrab, BsLoop, BsGoto, BsRelease,
                      BsWait, BsOnes
  <1>6. CASE KmStep
    BY <1>6, SMTT(60) DEF KmStep, KmLock, KmParse, KmCheck, KmLoop, KmNext, KmCore,
                      KmJoin, KmWrite, KmOwn, KmWait, KmSwitch
  <1>. QED  BY <1>1, <1>2, <1>3, <1>4, <1>5, <1>6 DEF Step, CoreStep

\* The application processors are finitely many, one less than the cores.
LEMMA ApFinite == IsFiniteSet(AP) /\ Cardinality(AP) = N - 1
  <1>1. AP = 1..(N - 1) /\ N - 1 \in Int
    BY CountAssumption DEF AP, Core, BSP
  <1>. QED  BY <1>1, CountAssumption, FS_Interval

\* The counted cores are application processors, at most all of them.
LEMMA CountedBounds ==
    /\ IsFiniteSet(Counted) /\ Cardinality(Counted) \in 0..(N - 1)
    /\ Cardinality(Counted) = N - 1 => Counted = AP
  <1>1. Counted \subseteq AP
    BY DEF Counted
  <1>2. /\ IsFiniteSet(Counted) /\ Cardinality(Counted) <= N - 1
        /\ Cardinality(Counted) = N - 1 => Counted = AP
    BY <1>1, ApFinite, FS_Subset
  <1>. QED  BY <1>2, FS_CardinalityType, CountAssumption

\* Only the increment moves a core past the count, or changes the counter.
LEMMA UncountedStep ==
  ASSUME IInv, NEW c \in Core, Step(c), ~ApWrite(c)
  PROVE  /\ booted_cpus_count' = booted_cpus_count
         /\ \A d \in AP : pc'[d] \in Before <=> pc[d] \in Before
  <1>. USE CoreFacts
       DEF IInv, TypeOK, PcTypeOK, VarTypeOK, At, Goto, Call, smpVars, mainVars,
           Before, Outside, Mapless, Uncounted, InnerInv, LoopInv, LaunchInv,
           LaunchBody, HoldsBootstrap, MapSites, MapNext, FrameSites,
           FrameNext, LogSites, LogNext, IdNext
  <1>1. CASE ElStep(c)
    BY <1>1, SMTT(60) DEF ElStep, ElFile, ElSegment, SpaceGrab, SpaceRelease, IpReturn,
                      Sysret
  <1>2. CASE LOG(c) /\ UNCHANGED <<smpVars, mainVars>>
    BY <1>2, LogMoves, SMTT(60)
  <1>3. CASE Alloc(c) /\ UNCHANGED <<smpVars, mainVars>>
    BY <1>3, SMTT(60) DEF Alloc, KmmapEnter, KmmapLeave, FrameEnter, FrameLeave
  <1>4. CASE ApStep(c) /\ UNCHANGED mainVars
    BY <1>4, SMTT(60) DEF ApStep, ApGrab, ApRelease, ApBegin, ApStatus0, ApPmap,
                      ApPics, ApStatus1, ApRead, ApEnd, ApCoreId, ApNull,
                      ApPoll, ApCall
  <1>5. CASE BsStep /\ UNCHANGED mainVars
    BY <1>5, SMTT(60) DEF BsStep, BsStatus, BsGrab, BsLoop, BsGoto, BsRelease,
                      BsWait, BsOnes
  <1>6. CASE KmStep
    BY <1>6, SMTT(60) DEF KmStep, KmLock, KmParse, KmCheck, KmLoop, KmNext, KmCore,
                      KmJoin, KmWrite, KmOwn, KmWait, KmSwitch
  <1>. QED  BY <1>1, <1>2, <1>3, <1>4, <1>5, <1>6 DEF Step, CoreStep

\* The boot core leaves launch_APs and its wait only when all are counted.
LEMMA BarrierStep ==
  ASSUME IInv, NEW c \in Core, Step(c), BspBooted', ~BspBooted
  PROVE  booted_cpus_count = N
  <1>. USE CoreFacts, BspPlace
       DEF IInv, TypeOK, PcTypeOK, At, Goto, BspBooted, Launching, InnerInv,
           MapSites, MapNext, FrameSites, FrameNext, LogSites, LogNext, IdNext
  <1>1. CASE ElStep(c)
    BY <1>1, SMTT(60) DEF ElStep, ElFile, ElSegment, SpaceGrab, SpaceRelease, IpReturn,
                      Sysret
  <1>2. CASE LOG(c) /\ UNCHANGED <<smpVars, mainVars>>
    BY <1>2, LogMoves, SMTT(60)
  <1>3. CASE Alloc(c) /\ UNCHANGED <<smpVars, mainVars>>
    BY <1>3, SMTT(60) DEF Alloc, KmmapEnter, KmmapLeave, FrameEnter, FrameLeave
  <1>4. CASE ApStep(c) /\ UNCHANGED mainVars
    BY <1>4, SMTT(60) DEF ApStep, ApGrab, ApRelease, ApBegin, ApStatus0, ApPmap,
                      ApPics, ApStatus1, ApRead, ApWrite, ApEnd, ApCoreId,
                      ApNull, ApPoll, ApCall
  <1>5. CASE BsStep /\ UNCHANGED mainVars
    BY <1>5, SMTT(60) DEF BsStep, BsStatus, BsGrab, BsLoop, BsGoto, BsRelease,
                      BsWait, BsOnes
  <1>6. CASE KmStep
    BY <1>6, SMTT(60) DEF KmStep, KmLock, KmParse, KmCheck, KmLoop, KmNext, KmCore,
                      KmJoin, KmWrite, KmOwn, KmWait, KmSwitch
  <1>. QED  BY <1>1, <1>2, <1>3, <1>4, <1>5, <1>6 DEF Step, CoreStep

\* The counter counts exactly the cores past their increment, although the
\* increment is a load and a store, and the wait is for all of them.
LEMMA CountStep ==
  ASSUME IInv, NEW c \in Core, Step(c)
  PROVE  CountInv'
  <1>1. CASE ~ApWrite(c)
    <2>1. /\ booted_cpus_count' = booted_cpus_count
          /\ \A d \in AP : pc'[d] \in Before <=> pc[d] \in Before
      BY <1>1, UncountedStep
    <2>2. Counted' = Counted
      BY <2>1 DEF Counted
    <2>3. ASSUME BspBooted', NEW d \in AP
          PROVE  pc'[d] \notin Before
      <3>1. CASE BspBooted
        BY <2>1, <3>1 DEF IInv, CountInv
      <3>2. CASE ~BspBooted
        <4>1. booted_cpus_count = N
          BY <2>3, <3>2, BarrierStep
        <4>2. Cardinality(Counted) = N - 1
          BY <4>1, CountedBounds, CountAssumption DEF IInv, CountInv
        <4>. QED  BY <2>1, <4>2, CountedBounds DEF Counted
      <3>. QED  BY <3>1, <3>2
    <2>. QED  BY <2>1, <2>2, <2>3 DEF IInv, CountInv
  <1>2. CASE ApWrite(c)
    <2>1. /\ pc[c] = "ap_write" /\ pc' = [pc EXCEPT ![c] = "ap_log86"]
          /\ booted_cpus_count' = (reg[c] + 1) % 256
      BY <1>2 DEF ApWrite, At, Goto
    <2>2. c \in AP
      BY <2>1, BspPlace, CoreFacts DEF IInv, TypeOK, InNeck, Uncounted
    <2>3. pc'[c] \notin Before /\ \A d \in AP : d # c => pc'[d] = pc[d]
      BY <2>1, CoreFacts DEF IInv, TypeOK, PcTypeOK, Before, Outside, Mapless, Uncounted
    <2>4. c \notin Counted /\ Counted' = Counted \cup {c}
      BY <2>1, <2>2, <2>3 DEF Counted, Before, Uncounted
    <2>5. Cardinality(Counted') = Cardinality(Counted) + 1
      BY <2>4, CountedBounds, FS_AddElement
    <2>6. Cardinality(Counted) \in 0..30
      BY <2>2, <2>4, CountedBounds, CountAssumption
    <2>7. reg[c] = 1 + Cardinality(Counted)
      BY <2>1, <2>2 DEF IInv, RegInv, CountInv
    <2>8. booted_cpus_count' = 1 + Cardinality(Counted')
      BY <2>1, <2>5, <2>6, <2>7
    <2>9. ~BspBooted /\ ~BspBooted'
      BY <2>1, <2>2, CoreFacts DEF IInv, TypeOK, PcTypeOK, CountInv, BspBooted, Before,
                                   Uncounted
    <2>. QED  BY <2>8, <2>9 DEF CountInv
  <1>. QED  BY <1>1, <1>2

-----------------------------------------------------------------------------
(* The invariant, and what it implies.                                     *)

\* It holds when the boot core enters launch_APs.
LEMMA InitInv == Init => IInv
  <1>. SUFFICES ASSUME Init PROVE IInv
    OBVIOUS
  <1>. USE CoreFacts DEF Init, SmpInit
  <1>1. TypeOK
    <2>1. PcTypeOK
      BY DEF PcTypeOK, BspLabels, ApLabels, BootLabels, Launching, Outside
    <2>2. booted_cpus_count \in 0..255 /\ lock_level \in [Core -> 0..255]
      OBVIOUS
    <2>3. i \in 0..N /\ y \in Core /\ reg \in [Core -> Int]
      BY DEF BSP
    <2>4. /\ sub \in [Core -> Subs] /\ lock \in [LockName -> Core \cup {NoCore}]
          /\ smp_status \in BOOLEAN /\ ints \in [Core -> BOOLEAN]
          /\ launching_addresses \in [Core -> Address]
      BY DEF Subs, Address
    <2>5. /\ pmaps \in [Core -> Core \cup {Limine}] /\ cr3 \in [Core -> Core \cup {Limine}]
          /\ lapic \subseteq Core \cup {Limine}
      OBVIOUS
    <2>6. /\ parsed \in InitFiles \cup {NothingParsed}
          /\ entries \in [Core -> Name] /\ running \in [Core -> Name]
      BY NameFacts
    <2>7. VarTypeOK
      BY ONLY <2>2, <2>3, <2>4, <2>5, <2>6 DEF VarTypeOK
    <2>. QED  BY <2>1, <2>7 DEF TypeOK
  <1>2. LockInv /\ InnerInv /\ LaunchInv
    <2>1. \A c \in Core : pc[c] \notin HoldsBootstrap \cup InNeck /\ sub[c] = "-"
      BY DEF HoldsBootstrap, InNeck, Mapless, Uncounted
    <2>2. \A l \in {"Bootstrap", "1", "kmmap"} : lock[l] = NoCore
      BY DEF LockName
    <2>. QED  BY <2>1, <2>2 DEF LockInv, InnerInv, LaunchInv, LogSubs
  <1>3. CountInv
    <2>1. Counted = {}
      BY DEF Counted, Before, Outside
    <2>. QED  BY <2>1, FS_EmptySet DEF CountInv, BspBooted, Launching
  <1>4. PublishInv /\ StatusInv /\ RegInv
    BY DEF PublishInv, StatusInv, RegInv, Leaving, Launched, Loading, Published, Dark, SlotUse, Joining
  <1>5. MapInv /\ LoopInv
    BY DEF MapInv, LoopInv, Outside, Mapless, Unmapped, LaunchBody, LoopBody, InLoop
  <1>. QED  BY <1>1, <1>2, <1>3, <1>4, <1>5 DEF IInv

\* Every step of every core keeps it.
LEMMA NextInv == IInv /\ [Next]_vars => IInv'
  <1>. SUFFICES ASSUME IInv, [Next]_vars PROVE IInv'
    OBVIOUS
  <1>1. ASSUME NEW c \in Core, Step(c)
        PROVE  IInv'
    BY <1>1, PcTypeStep, VarTypeStep, LockStep, InnerStep, LaunchStep, CountStep, PublishStep,
       StatusStep, RegStep, MapStep, LoopStep DEF IInv, TypeOK
  <1>2. CASE UNCHANGED vars
    <2>. USE <1>2 DEF vars, coreVars, smpVars, mainVars, IInv
    <2>1. TypeOK'
      BY DEF TypeOK, PcTypeOK, VarTypeOK
    <2>2. LockInv' /\ InnerInv' /\ LaunchInv'
      BY DEF LockInv, InnerInv, LaunchInv
    <2>3. CountInv' /\ PublishInv'
      BY DEF CountInv, Counted, BspBooted, PublishInv
    <2>4. StatusInv' /\ RegInv' /\ MapInv' /\ LoopInv'
      BY DEF StatusInv, RegInv, MapInv, LoopInv, BspBooted
    <2>. QED  BY ONLY <2>1, <2>2, <2>3, <2>4 DEF IInv
  <1>. QED  BY <1>1, <1>2 DEF Next, Resting

\* The invariant holds in every reachable state.
THEOREM Invariance == Spec => []IInv
  BY InitInv, NextInv, PTL DEF Spec

\* Every variable keeps its type: the array indices, the byte counters and the
\* program names that the boot and the launch compute.
THEOREM TypeCorrect == Spec => []TypeOK
  <1>1. IInv => TypeOK
    BY DEF IInv
  <1>. QED  BY <1>1, Invariance, PTL

\* Two cores are never inside get_frame together: whichever of the three locks
\* one of them is under keeps the other out.
THEOREM FrameExclusion == Spec => []FrameMutex
  <1>1. ASSUME IInv, NEW c \in Core, NEW d \in Core,
               sub[c] = "frame", pc[c] \in FrameSites, sub[d] = "frame"
        PROVE  c = d
    <2>1. pc[d] \in MapSites \cup FrameSites
      BY <1>1 DEF IInv, InnerInv
    <2>2. CASE pc[BSP] \in HoldsBootstrap
      <3>1. \A e \in AP : pc[e] \notin MapSites \cup FrameSites
        BY <1>1, <2>2 DEF IInv, LaunchInv, MapSites, MapNext, FrameSites, FrameNext
      <3>. QED  BY <1>1, <2>1, <3>1, CoreFacts
    <2>3. CASE pc[BSP] \notin HoldsBootstrap
      <3>1. c \in AP /\ pc[c] \in {"ap_pagedir", "ap_pics"}
        BY <1>1, <2>3, CoreFacts, BspPlace, ApPlace DEF IInv, TypeOK, HoldsBootstrap, Launching,
           FrameSites, FrameNext, InNeck, Mapless, Uncounted
      <3>2. ~BspBooted
        BY <1>1, <3>1 DEF IInv, CountInv, Before, Mapless, Uncounted
      <3>3. pc[d] \in InNeck
        <4>1. CASE d = BSP
          BY <2>1, <2>3, <3>2, <4>1 DEF BspBooted, Launching, HoldsBootstrap, MapSites, MapNext,
             FrameSites, FrameNext, InNeck, Mapless, Uncounted
        <4>2. CASE d \in AP
          BY <1>1, <2>1, <3>2, <4>2, ApPlace DEF IInv, TypeOK, PublishInv, Launched, Loading,
             Published, Launching, MapSites, MapNext, FrameSites, FrameNext, InNeck, Mapless,
             Uncounted
        <4>. QED  BY <1>1, <4>1, <4>2, CoreFacts
      <3>4. pc[c] \in InNeck
        BY <3>1 DEF InNeck, Mapless, Uncounted
      <3>. QED  BY <1>1, <3>3, <3>4 DEF IInv, LockInv
    <2>. QED  BY <2>2, <2>3
  <1>2. ASSUME IInv, NEW c \in Core, NEW d \in Core,
               sub[c] = "frame", pc[c] \in MapSites, sub[d] = "frame", pc[d] \in MapSites
        PROVE  c = d
    BY <1>2 DEF IInv, InnerInv
  <1>3. IInv => FrameMutex
    BY <1>1, <1>2 DEF FrameMutex, IInv, InnerInv
  <1>. QED  BY <1>3, Invariance, PTL

\* A core that may read its LAPIC identifier runs in a page map that maps the
\* LAPIC: in the dark smp_status is clear, behind the wait all are mapped.
THEOREM CoreIdSafe == Spec => []CoreIdReadable
  <1>1. ASSUME IInv, NEW c \in AP, UsesCoreId(c), smp_status
        PROVE  cr3[c] \in lapic
    <2>1. pc[c] \notin Dark
      BY <1>1 DEF IInv, StatusInv
    <2>2. pc[c] \notin Unmapped
      BY <1>1, <2>1 DEF UsesCoreId, Dark, Unmapped, Outside, Mapless, LogSites, LogNext, IdNext
    <2>. QED  BY <1>1, <2>2 DEF IInv, MapInv, Unmapped
  <1>2. ASSUME IInv
        PROVE  cr3[BSP] \in lapic
    <2>1. CASE cr3[BSP] \in AP
      <3>1. pc[cr3[BSP]] \notin Before
        BY <1>2, <2>1, CoreFacts DEF IInv, MapInv, CountInv
      <3>. QED  BY <1>2, <2>1, <3>1 DEF IInv, MapInv, Before, Unmapped, Uncounted
    <2>. QED  BY <1>2, <2>1, CoreFacts DEF IInv, MapInv
  <1>3. IInv => CoreIdReadable
    BY <1>1, <1>2, CoreFacts DEF CoreIdReadable
  <1>. QED  BY <1>3, Invariance, PTL

\* Under the invariant, every core is set up when the boot core stops waiting.
LEMMA BarrierFact == IInv => BootBarrier
  <1>1. ASSUME IInv, BspBooted
        PROVE  smp_status /\ \A c \in AP : pmaps[c] = c /\ c \in lapic /\ cr3[c] = c
    <2>1. \A c \in AP : pc[c] \notin Before
      BY <1>1 DEF IInv, CountInv
    <2>2. \A c \in AP : pc[c] \notin Dark \cup Unmapped
      BY <2>1 DEF Before, Outside, Mapless, Uncounted, Dark, Unmapped
    <2>3. smp_status
      BY <1>1, <2>2 DEF IInv, StatusInv, BspBooted, Launching
    <2>. QED  BY <1>1, <2>2, <2>3 DEF IInv, MapInv, Unmapped
  <1>. QED  BY <1>1, CoreFacts DEF BootBarrier, IInv, MapInv

\* Behind the wait of the boot core every core has its own page map recorded,
\* loaded and mapping its LAPIC, and smp_status is set for good.
THEOREM BarrierHolds == Spec => []BootBarrier
  BY BarrierFact, Invariance, PTL

\* While smp_status is clear only the core that boots can be at a LOG: the boot
\* core waits, and the cores before it and after it are outside their section.
LEMMA DarkIsSilent ==
  ASSUME IInv, NEW c \in AP, pc[c] \in InNeck \cap Before, NEW d \in Core, d # c
  PROVE  pc[d] \notin LogSites
  <1>1. ~BspBooted
    BY DEF IInv, CountInv
  <1>2. pc[BSP] \notin {"bs_status", "bs_grab"} \cup HoldsBootstrap
    BY DEF IInv, LaunchInv, InNeck, Mapless, Uncounted
  <1>3. CASE d \in AP
    <2>1. pc[d] \notin InNeck
      BY <1>3, CoreFacts DEF IInv, LockInv
    <2>2. pc[d] \notin Leaving \cup Launched
      BY <1>1, <1>3 DEF IInv, PublishInv
    <2>. QED  BY <1>3, <2>1, <2>2 DEF IInv, TypeOK, PcTypeOK, ApLabels, Outside, InNeck,
              Mapless, Uncounted, Idle, IdNext, Leaving, Launched, Loading, Published,
              LogSites, LogNext
  <1>. QED  BY <1>1, <1>2, <1>3, CoreFacts DEF BspBooted, Launching, HoldsBootstrap, LogSites,
            LogNext

\* Under the invariant, cores that log at the same time have different identities.
LEMMA OneLogEach == IInv => LevelOwner
  <1>1. ASSUME IInv, ~smp_status, NEW c \in Core, NEW d \in Core,
               pc[c] \in LogSites, pc[d] \in LogSites
        PROVE  c = d
    <2>1. CASE pc[BSP] = "bs_status"
      BY <1>1, <2>1, CoreFacts DEF IInv, LaunchInv, LogSites, LogNext
    <2>2. CASE \E e \in AP : pc[e] \in Dark
      <3>1. PICK e \in AP : pc[e] \in Dark
        BY <2>2
      <3>2. pc[e] \in InNeck \cap Before
        BY <3>1 DEF Dark, InNeck, Before, Mapless, Uncounted
      <3>. QED  BY <1>1, <3>2, DarkIsSilent
    <2>. QED  BY <1>1, <2>1, <2>2 DEF IInv, StatusInv
  <1>. QED  BY <1>1 DEF LevelOwner, get_core_id

\* Cores that log at the same time have different identities.
THEOREM LevelsOwned == Spec => []LevelOwner
  BY OneLogEach, Invariance, PTL

\* Under the invariant, a step changes smp_status only when no core is at a LOG.
LEMMA StatusChangeQuiet == IInv /\ [Next]_vars => [StatusChange]_vars
  <1>1. ASSUME IInv, NEW c \in Core, Step(c), smp_status' # smp_status
        PROVE  BsStatus \/ ApStatus0(c) \/ ApStatus1(c)
    BY <1>1, SMTT(60) DEF Step, CoreStep, ElStep, ElFile, ElSegment, SpaceGrab, SpaceRelease,
       IpReturn, Sysret, LOG, LogLock, LogGrab, LogPrint, LogUnlock, Alloc, KmmapEnter,
       KmmapLeave, FrameEnter, FrameLeave, ApStep, ApGrab, ApRelease, ApBegin, ApPmap, ApPics,
       ApRead, ApWrite, ApEnd, ApCoreId, ApNull, ApPoll, ApCall, BsStep, BsGrab, BsLoop, BsGoto,
       BsRelease, BsWait, BsOnes, KmStep, KmLock, KmParse, KmCheck, KmLoop, KmNext, KmCore,
       KmJoin, KmWrite, KmOwn, KmWait, KmSwitch
  <1>2. ASSUME IInv, BsStatus, NEW d \in Core
        PROVE  pc[d] \notin LogSites
    BY <1>2, CoreFacts DEF BsStatus, At, IInv, LaunchInv, LogSites, LogNext
  <1>3. ASSUME IInv, NEW c \in Core, pc[c] \in {"ap_status0", "ap_status1"}, NEW d \in Core
        PROVE  pc[d] \notin LogSites
    <2>1. c \in AP /\ pc[c] \in InNeck \cap Before
      BY <1>3, BspPlace, CoreFacts DEF IInv, TypeOK, InNeck, Mapless, Uncounted, Before
    <2>. QED  BY <1>3, <2>1, DarkIsSilent DEF LogSites, LogNext
  <1>4. ASSUME IInv, [Next]_vars, smp_status' # smp_status, NEW d \in Core
        PROVE  pc[d] \notin LogSites
    <2>1. PICK c \in Core : Step(c)
      BY <1>4 DEF Next, Resting, vars, coreVars
    <2>. QED  BY <1>1, <1>2, <1>3, <1>4, <2>1 DEF ApStatus0, ApStatus1, At
  <1>. QED  BY <1>4 DEF StatusChange

\* smp_status, and with it every COREID, changes only when no core is at or
\* inside a LOG: the level a LOG raised is the one it lowers.
THEOREM StatusSafe == Spec => StatusStable
  BY StatusChangeQuiet, Invariance, PTL DEF Spec, StatusStable

-----------------------------------------------------------------------------
(* The interrupt levels, and the address space the boot core joins.        *)

\* Only lock_ints and unlock_ints change a level, the number of LOGs in progress
\* or whether kernel_main masks interrupts, and nothing else turns the
\* interrupts of the boot core on.
LEMMA QuietStep ==
  ASSUME IInv, NEW c \in Core, Step(c), ~LogLock(c), ~LogUnlock(c), ~KmLock
  PROVE  /\ lock_level' = lock_level
         /\ \A d \in Core : sub'[d] \in LogSubs <=> sub[d] \in LogSubs
         /\ InMain' <=> InMain
         /\ ints'[BSP] => ints[BSP]
  <1>. USE CoreFacts, BspPlace
       DEF IInv, TypeOK, PcTypeOK, VarTypeOK, At, Goto, Call, smpVars, mainVars, InnerInv,
           LoopInv, LaunchBody, InMain, BootLabels, Launching, Outside, InNeck, Mapless,
           Uncounted, Idle, IdNext, LogSubs, MapSites, MapNext, FrameSites, FrameNext
  <1>1. CASE ElStep(c)
    BY <1>1, SMTT(60) DEF ElStep, ElFile, ElSegment, SpaceGrab, SpaceRelease, IpReturn,
                      Sysret
  <1>2. CASE LOG(c) /\ UNCHANGED <<smpVars, mainVars>>
    BY <1>2, SMTT(60) DEF LOG, LogGrab, LogPrint
  <1>3. CASE Alloc(c) /\ UNCHANGED <<smpVars, mainVars>>
    BY <1>3, SMTT(60) DEF Alloc, KmmapEnter, KmmapLeave, FrameEnter, FrameLeave
  <1>4. CASE ApStep(c) /\ UNCHANGED mainVars
    BY <1>4, SMTT(60) DEF ApStep, ApGrab, ApRelease, ApBegin, ApStatus0, ApPmap,
                      ApPics, ApStatus1, ApRead, ApWrite, ApEnd, ApCoreId,
                      ApNull, ApPoll, ApCall
  <1>5. CASE BsStep /\ UNCHANGED mainVars
    BY <1>5, SMTT(60) DEF BsStep, BsStatus, BsGrab, BsLoop, BsGoto, BsRelease,
                      BsWait, BsOnes
  <1>6. CASE KmStep
    BY <1>6, SMTT(60) DEF KmStep, KmParse, KmCheck, KmLoop, KmNext, KmCore,
                      KmJoin, KmWrite, KmOwn, KmWait, KmSwitch
  <1>. QED  BY <1>1, <1>2, <1>3, <1>4, <1>5, <1>6 DEF Step, CoreStep

\* A step that changes smp_status finds no LOG in progress.
LEMMA StatusStepQuiet ==
  ASSUME IInv, [Next]_vars, smp_status' # smp_status, NEW d \in Core
  PROVE  sub[d] \notin LogSubs
  BY StatusChangeQuiet DEF IInv, InnerInv, StatusChange, vars, coreVars

\* lock_ints and unlock_ints balance: a level counts the LOG in progress under
\* its identity, which no other core shares, and kernel_main's lock_ints.
LEMMA LevelStep ==
  ASSUME IInv, LevelInv, MainMasksInts, NEW c \in Core, Step(c)
  PROVE  LevelInv' /\ MainMasksInts'
  <1>. DEFINE main(k) == IF k = BSP /\ InMain THEN 1 ELSE 0
  <1>1. ASSUME NEW d \in Core, sub[d] \in LogSubs, pc[c] \in LogSites,
               get_core_id(d) = get_core_id(c)
        PROVE  d = c
    BY <1>1, OneLogEach DEF LevelOwner, IInv, InnerInv
  <1>2. CASE LogLock(c)
    <2>1. /\ pc[c] \in LogSites /\ sub[c] = "-" /\ pc' = pc /\ smp_status' = smp_status
          /\ sub' = [sub EXCEPT ![c] = "get_print"]
          /\ lock_level' = [lock_level EXCEPT ![get_core_id(c)] = @ + 1]
          /\ ints' = [ints EXCEPT ![c] = @ /\ lock_level[get_core_id(c)] + 1 # 1]
      BY <1>2 DEF LogLock, lock_ints, Call
    <2>2. InMain' <=> InMain
      BY <2>1 DEF InMain
    <2>3. ~Logging(get_core_id(c))
      BY <1>1, <2>1 DEF Logging, LogSubs
    <2>4. \A k \in Core : Logging(k)' <=> Logging(k) \/ k = get_core_id(c)
      BY <2>1 DEF Logging, get_core_id, LogSubs, IInv, TypeOK, VarTypeOK
    <2>5. LevelInv'
      <3>1. SUFFICES ASSUME NEW k \in Core
                     PROVE  lock_level'[k] = (IF Logging(k)' THEN 1 ELSE 0) + main(k)'
        BY DEF LevelInv
      <3>2. lock_level[k] = (IF Logging(k) THEN 1 ELSE 0) + main(k)
        BY DEF LevelInv
      <3>3. main(k)' = main(k)
        BY <2>2
      <3>4. lock_level'[k] = IF k = get_core_id(c) THEN lock_level[k] + 1 ELSE lock_level[k]
        BY <2>1, CoreIdType DEF IInv, TypeOK, VarTypeOK
      <3>5. main(k) \in Int
        OBVIOUS
      <3>. HIDE DEF main
      <3>. QED  BY <2>3, <2>4, <3>2, <3>3, <3>4, <3>5
    <2>6. MainMasksInts'
      BY <2>1, <2>2, CoreFacts DEF MainMasksInts, IInv, TypeOK, VarTypeOK
    <2>. QED  BY <2>5, <2>6
  <1>3. CASE LogUnlock(c)
    <2>1. /\ sub[c] = "unlock" /\ pc' = [pc EXCEPT ![c] = LogNext[pc[c]]]
          /\ smp_status' = smp_status
          /\ sub' = [sub EXCEPT ![c] = "-"]
          /\ lock_level' = [lock_level EXCEPT ![get_core_id(c)] = @ - 1]
          /\ ints' = [ints EXCEPT ![c] = @ \/ lock_level[get_core_id(c)] = 1]
      BY <1>3 DEF LogUnlock, unlock_ints, Call, Goto
    <2>2. pc[c] \in LogSites
      BY <2>1 DEF IInv, InnerInv, LogSubs
    <2>3. InMain' <=> InMain
      BY <2>1, <2>2, CoreFacts DEF InMain, BootLabels, Launching, LogSites, LogNext, IInv,
         TypeOK, PcTypeOK
    <2>4. Logging(get_core_id(c))
      BY <2>1 DEF Logging, LogSubs
    <2>5. \A k \in Core : Logging(k)' <=> Logging(k) /\ k # get_core_id(c)
      <3>1. ASSUME NEW k \in Core
            PROVE  Logging(k)' <=> \E d \in Core : d # c /\ sub[d] \in LogSubs /\ get_core_id(d) = k
        BY <2>1 DEF Logging, get_core_id, LogSubs, IInv, TypeOK, VarTypeOK
      <3>. QED  BY <1>1, <2>2, <3>1 DEF Logging
    <2>6. \A k \in Core : lock_level[k] = (IF Logging(k) THEN 1 ELSE 0) + main(k)
      BY DEF LevelInv
    <2>7. LevelInv'
      <3>1. SUFFICES ASSUME NEW k \in Core
                     PROVE  lock_level'[k] = (IF Logging(k)' THEN 1 ELSE 0) + main(k)'
        BY DEF LevelInv
      <3>2. lock_level[k] = (IF Logging(k) THEN 1 ELSE 0) + main(k)
        BY <2>6
      <3>3. main(k)' = main(k)
        BY <2>3
      <3>4. lock_level'[k] = IF k = get_core_id(c) THEN lock_level[k] - 1 ELSE lock_level[k]
        BY <2>1, CoreIdType DEF IInv, TypeOK, VarTypeOK
      <3>5. main(k) \in Int
        OBVIOUS
      <3>. HIDE DEF main
      <3>. QED  BY <2>4, <2>5, <3>2, <3>3, <3>4, <3>5
    <2>8. MainMasksInts'
      <3>1. SUFFICES ASSUME InMain, c = BSP
                     PROVE  lock_level[get_core_id(c)] # 1
        BY <2>1, <2>3, CoreFacts DEF MainMasksInts, IInv, TypeOK, VarTypeOK
      <3>2. get_core_id(c) = BSP
        BY <3>1, CoreFacts DEF get_core_id, BSP
      <3>. QED  BY <2>4, <2>6, <3>1, <3>2, CoreFacts
    <2>. QED  BY <2>7, <2>8
  <1>4. CASE KmLock
    <2>1. /\ pc[BSP] = "km_lock" /\ sub[BSP] = "-" /\ pc' = [pc EXCEPT ![BSP] = "km_log28"]
          /\ sub' = sub /\ smp_status' = smp_status
          /\ lock_level' = [lock_level EXCEPT ![get_core_id(BSP)] = @ + 1]
          /\ ints' = [ints EXCEPT ![BSP] = @ /\ lock_level[get_core_id(BSP)] + 1 # 1]
      BY <1>4 DEF KmLock, At, Goto, lock_ints
    <2>2. smp_status /\ get_core_id(BSP) = BSP
      BY <2>1, BarrierFact, CoreFacts DEF BootBarrier, BspBooted, Launching, get_core_id
    <2>3. ~InMain /\ InMain'
      BY <2>1, CoreFacts DEF InMain, BootLabels, Launching, IInv, TypeOK, PcTypeOK
    <2>4. ~Logging(BSP)
      BY <2>1, <2>2 DEF Logging, get_core_id, LogSubs
    <2>5. \A k \in Core : Logging(k)' <=> Logging(k)
      BY <2>1 DEF Logging, get_core_id
    <2>6. LevelInv'
      <3>1. SUFFICES ASSUME NEW k \in Core
                     PROVE  lock_level'[k] = (IF Logging(k)' THEN 1 ELSE 0) + main(k)'
        BY DEF LevelInv
      <3>2. lock_level[k] = (IF Logging(k) THEN 1 ELSE 0)
        BY <2>3 DEF LevelInv
      <3>3. main(k)' = IF k = BSP THEN 1 ELSE 0
        BY <2>3
      <3>4. lock_level'[k] = IF k = BSP THEN lock_level[k] + 1 ELSE lock_level[k]
        BY <2>1, <2>2, CoreFacts DEF IInv, TypeOK, VarTypeOK
      <3>. HIDE DEF main
      <3>. QED  BY <2>5, <3>2, <3>3, <3>4
    <2>7. lock_level[BSP] = 0
      BY <2>3, <2>4, CoreFacts DEF LevelInv
    <2>8. MainMasksInts'
      <3>1. ~(lock_level[get_core_id(BSP)] + 1 # 1)
        BY <2>2, <2>7
      <3>2. ints'[BSP] = (ints[BSP] /\ lock_level[get_core_id(BSP)] + 1 # 1)
        BY <2>1, CoreFacts, Zenon DEF IInv, TypeOK, VarTypeOK
      <3>. QED  BY <3>1, <3>2, Zenon DEF MainMasksInts
    <2>. QED  BY <2>6, <2>8
  <1>5. CASE ~LogLock(c) /\ ~LogUnlock(c) /\ ~KmLock
    <2>1. /\ lock_level' = lock_level
          /\ \A d \in Core : sub'[d] \in LogSubs <=> sub[d] \in LogSubs
          /\ InMain' <=> InMain
          /\ ints'[BSP] => ints[BSP]
      BY <1>5, QuietStep
    <2>2. \A k \in Core : Logging(k)' <=> Logging(k)
      <3>1. CASE smp_status' = smp_status
        BY <2>1, <3>1 DEF Logging, get_core_id
      <3>2. CASE smp_status' # smp_status
        BY <2>1, <3>2, StatusStepQuiet DEF Logging, Next
      <3>. QED  BY <3>1, <3>2
    <2>. QED  BY <2>1, <2>2 DEF LevelInv, MainMasksInts
  <1>. QED  BY <1>2, <1>3, <1>4, <1>5

\* A core stores its entry point once, under its own identity, after the init
\* file was parsed, and stays in the program it stored it for.
LEMMA EntryStep ==
  ASSUME IInv, EntryInv, NEW c \in Core, Step(c)
  PROVE  EntryInv'
  <1>. USE CoreFacts, BspPlace
       DEF IInv, TypeOK, PcTypeOK, VarTypeOK, At, Goto, smpVars, mainVars, EntryInv, InnerInv,
           Unparsed, BootLabels, Launching, Launched, Loading, Published, LoopInv, LaunchBody,
           Outside, InNeck, Mapless, Uncounted, Idle
  <1>1. CASE ElStep(c)
    <2>1. CASE IpReturn(c) /\ ~(c = BSP /\ y # 0)
      <3>1. smp_status
        BY <2>1, BarrierFact DEF IpReturn, BootBarrier, BspBooted, PublishInv
      <3>2. /\ entries' = [entries EXCEPT ![c] = parsed.programs[c]]
            /\ pc[c] = "ip_ret" /\ pc' = [pc EXCEPT ![c] = "el_log178"]
            /\ parsed' = parsed /\ launching_addresses' = launching_addresses
        BY <2>1, <3>1 DEF IpReturn, get_core_id
      <3>. QED  BY <3>2
    <2>2. CASE ~(IpReturn(c) /\ ~(c = BSP /\ y # 0))
      BY <1>1, <2>2, SMTT(60) DEF ElStep, ElFile, ElSegment, SpaceGrab, SpaceRelease,
                                  IpReturn, Sysret
    <2>. QED  BY <2>1, <2>2
  <1>2. CASE LOG(c) /\ UNCHANGED <<smpVars, mainVars>>
    BY <1>2, LogMoves, SMTT(60) DEF LogSites, LogNext
  <1>3. CASE Alloc(c) /\ UNCHANGED <<smpVars, mainVars>>
    BY <1>3, SMTT(60) DEF Alloc, KmmapEnter, KmmapLeave, FrameEnter, FrameLeave, MapSites,
                          MapNext, FrameSites, FrameNext
  <1>4. CASE ApStep(c) /\ UNCHANGED mainVars
    <2>1. CASE ApCall(c)
      BY <1>4, <2>1, SMTT(60) DEF ApCall, RegInv, SlotUse
    <2>2. CASE ~ApCall(c)
      BY <1>4, <2>2, SMTT(60) DEF ApStep, ApGrab, ApRelease, ApBegin, ApStatus0, ApPmap,
                      ApPics, ApStatus1, ApRead, ApWrite, ApEnd, ApCoreId,
                      ApNull, ApPoll, RegInv, SlotUse, IdNext
    <2>. QED  BY <2>1, <2>2
  <1>5. CASE BsStep /\ UNCHANGED mainVars
    BY <1>5, SMTT(60) DEF BsStep, BsStatus, BsGrab, BsLoop, BsGoto, BsRelease,
                      BsWait, BsOnes
  <1>6. CASE KmStep
    BY <1>6, SMTT(60) DEF KmStep, KmLock, KmParse, KmCheck, KmLoop, KmNext, KmCore,
                      KmJoin, KmWrite, KmOwn, KmWait, KmSwitch
  <1>. QED  BY <1>1, <1>2, <1>3, <1>4, <1>5, <1>6 DEF Step, CoreStep

\* The boot core enters the page map of the core it took, with that core's entry
\* point stored, and never leaves it.
LEMMA JoinStep ==
  ASSUME IInv, EntryInv, JoinInv, NEW c \in Core, Step(c)
  PROVE  JoinInv'
  <1>. USE CoreFacts, BspPlace
       DEF IInv, TypeOK, PcTypeOK, VarTypeOK, At, Goto, smpVars, mainVars, JoinInv, Joining,
           Joined, InnerInv, MapInv
  <1>1. ASSUME NEW d \in AP, entries[d] # NoEntry
        PROVE  entries'[d] = entries[d]
    <2>1. pc[d] \in Published
      BY <1>1 DEF EntryInv
    <2>2. CASE IpReturn(c) /\ ~(c = BSP /\ y # 0)
      <3>1. smp_status
        BY <2>2, BarrierFact DEF IpReturn, BootBarrier, BspBooted, PublishInv, Launched,
           Loading, Launching
      <3>. QED  BY <1>1, <2>1, <2>2, <3>1 DEF IpReturn, get_core_id, Published
    <2>3. CASE ~(IpReturn(c) /\ ~(c = BSP /\ y # 0))
      <3>1. entries' = entries
        BY <2>3 DEF Step, CoreStep, ElStep, ElFile, ElSegment, SpaceGrab, SpaceRelease,
           IpReturn, Sysret, KmStep, KmLock, KmParse, KmCheck, KmLoop, KmNext, KmCore,
           KmJoin, KmWrite, KmOwn, KmWait, KmSwitch
      <3>. QED  BY <3>1
    <2>. QED  BY <2>2, <2>3
  <1>2. CASE ElStep(c)
    BY <1>1, <1>2, SMTT(60) DEF ElStep, ElFile, ElSegment, SpaceGrab, SpaceRelease,
                      IpReturn, Sysret, BSP
  <1>3. CASE LOG(c) /\ UNCHANGED <<smpVars, mainVars>>
    <2>1. reg' = reg
      BY <1>3 DEF LOG, LogLock, LogGrab, LogPrint, LogUnlock
    <2>. QED  BY <1>3, <2>1, LogMoves, SMTT(60) DEF LogSites, LogNext
  <1>4. CASE Alloc(c) /\ UNCHANGED <<smpVars, mainVars>>
    BY <1>4, SMTT(60) DEF Alloc, KmmapEnter, KmmapLeave, FrameEnter, FrameLeave, MapSites,
                          MapNext, FrameSites, FrameNext
  <1>5. CASE ApStep(c) /\ UNCHANGED mainVars
    BY <1>5, SMTT(60) DEF ApStep, ApGrab, ApRelease, ApBegin, ApStatus0, ApPmap,
                      ApPics, ApStatus1, ApRead, ApWrite, ApEnd, ApCoreId,
                      ApNull, ApPoll, ApCall, Outside, InNeck, Mapless, Uncounted, Idle, IdNext
  <1>6. CASE BsStep /\ UNCHANGED mainVars
    BY <1>6, SMTT(60) DEF BsStep, BsStatus, BsGrab, BsLoop, BsGoto, BsRelease,
                      BsWait, BsOnes, LoopInv, LaunchBody
  <1>7. CASE KmStep
    <2>1. CASE KmCore
      <3>1. pc'[BSP] = "km_join" => y' \in AP /\ reg'[BSP] = y'
        BY <2>1, JoinFacts, SearchBounds DEF KmCore
      <3>. QED  BY <2>1, <3>1 DEF KmCore
    <2>2. CASE KmOwn
      <3>1. pc'[BSP] = "km_wait" => y' \in AP /\ reg'[BSP] = y'
        BY <2>2, JoinFacts, SearchBounds DEF KmOwn
      <3>. QED  BY <2>2, <3>1 DEF KmOwn
    <2>3. CASE KmStep /\ ~KmCore /\ ~KmOwn
      BY <2>3, SMTT(60) DEF KmStep, KmLock, KmParse, KmCheck, KmLoop, KmNext,
                      KmJoin, KmWrite, KmWait, KmSwitch
    <2>. QED  BY <1>7, <2>1, <2>2, <2>3
  <1>. QED  BY <1>2, <1>3, <1>4, <1>5, <1>6, <1>7 DEF Step, CoreStep

\* The invariant of the launch holds when launch_APs is entered.
LEMMA LaunchInit == Init => LaunchIInv
  <1>. SUFFICES ASSUME Init PROVE LaunchIInv
    OBVIOUS
  <1>1. ~InMain /\ cr3[BSP] = BSP /\ pc[BSP] = "bs_status" /\ BSP \notin AP
    BY CoreFacts DEF Init, SmpInit, InMain, BootLabels, Launching
  <1>2. \A k \in Core : ~Logging(k)
    BY DEF Init, SmpInit, Logging, LogSubs
  <1>3. LevelInv
    BY <1>1, <1>2 DEF LevelInv, Init, SmpInit
  <1>4. EntryInv
    BY <1>1, CoreFacts DEF EntryInv, Init, SmpInit, Launched, Loading, Published
  <1>5. JoinInv
    BY <1>1 DEF JoinInv, Joining
  <1>. QED  BY <1>1, <1>3, <1>4, <1>5, InitInv DEF LaunchIInv, MainMasksInts

\* Every step of the system preserves it.
LEMMA LaunchNext == LaunchIInv /\ [Next]_vars => LaunchIInv'
  <1>. SUFFICES ASSUME LaunchIInv, [Next]_vars PROVE LaunchIInv'
    OBVIOUS
  <1>1. IInv'
    BY NextInv DEF LaunchIInv
  <1>2. CASE \E c \in Core : Step(c)
    <2>. PICK c \in Core : Step(c)
      BY <1>2
    <2>. QED  BY <1>1, LevelStep, EntryStep, JoinStep DEF LaunchIInv
  <1>3. CASE UNCHANGED vars
    BY <1>1, <1>3 DEF vars, coreVars, smpVars, mainVars, LaunchIInv, LevelInv, MainMasksInts,
       EntryInv, JoinInv, InMain, Logging, get_core_id
  <1>. QED  BY <1>2, <1>3 DEF Next, Resting

\* The inductive invariant of the launch.
THEOREM LaunchInvariance == Spec => []LaunchIInv
  BY LaunchInit, LaunchNext, PTL DEF Spec

\* Under each identity at most one LOG is in progress, so the level that counts
\* them counts one.
LEMMA LevelCount == LaunchIInv => LevelsBalanced
  <1>. SUFFICES ASSUME LaunchIInv, NEW k \in Core
                PROVE  lock_level[k] =
                         Cardinality({c \in Core : sub[c] \in LogSubs /\ get_core_id(c) = k})
                         + (IF k = BSP /\ InMain THEN 1 ELSE 0)
    BY DEF LevelsBalanced
  <1>. DEFINE loggers == {c \in Core : sub[c] \in LogSubs /\ get_core_id(c) = k}
  <1>1. lock_level[k] = (IF Logging(k) THEN 1 ELSE 0) + (IF k = BSP /\ InMain THEN 1 ELSE 0)
    BY DEF LaunchIInv, LevelInv
  <1>2. CASE ~Logging(k)
    <2>1. loggers = {}
      BY <1>2 DEF Logging
    <2>. QED  BY <1>1, <1>2, <2>1, FS_EmptySet
  <1>3. CASE Logging(k)
    <2>. PICK c \in Core : sub[c] \in LogSubs /\ get_core_id(c) = k
      BY <1>3 DEF Logging
    <2>1. loggers = {c}
      BY OneLogEach DEF LaunchIInv, IInv, InnerInv, LevelOwner
    <2>2. Cardinality(loggers) = 1
      BY <2>1, FS_Singleton
    <2>. QED  BY <1>1, <1>3, <2>2
  <1>. QED  BY <1>2, <1>3

\* A level counts exactly the LOGs in progress under it and kernel_main's
\* lock_ints, whatever the cores' identities are meanwhile, so that the ASSERTs
\* of lock_ints and unlock_ints cannot fail.
THEOREM LevelsExact == Spec => []LevelsBalanced
  BY LevelCount, LaunchInvariance, PTL

\* kernel_main runs with the interrupts of the boot core off to its end.
THEOREM MainMasked == Spec => []MainMasksInts
  <1>1. LaunchIInv => MainMasksInts
    BY DEF LaunchIInv
  <1>. QED  BY <1>1, LaunchInvariance, PTL

\* The boot core enters another core's address space only when that core has
\* stored the entry point of its own program, and runs that.
THEOREM JoinSafe == Spec => []JoinsLoadedSpace
  <1>1. LaunchIInv => JoinsLoadedSpace
    BY DEF LaunchIInv, JoinInv, EntryInv, JoinsLoadedSpace
  <1>. QED  BY <1>1, LaunchInvariance, PTL
=============================================================================
