---------------------------- MODULE SetupProofs ----------------------------
(***************************************************************************)
(* Proofs, for every set of machines, of what module Setup promises of the *)
(* files, the devices, the timer and the capabilities.                     *)
(***************************************************************************)
EXTENDS Setup, Counting, TLAPS, FiniteSetTheorems

\* A step of a part is not a step of the others.
LEMMA Frames ==
  ASSUME Next
  PROVE  \/ (I!register_new_file \/ I!ParseHead \/ I!ParseBlank \/ I!ParseLine \/ I!ParseEnd)
            /\ ByI
         \/ (F!BootStep \/ F!Tick \/ \E c \in Core : F!CoreStep(c)) /\ ByF
         \/ (C!get_section \/ C!ScanLine \/ C!BodyLine \/ C!ParseEnd
                \/ C!init_capabilities_record \/ \E c \in Core : C!CoreStep(c)) /\ ByC
         \/ UNCHANGED vars
  BY DEF Next, Register, Tables, Tick, ParseInit, Record, Stopped, SetUp, Programs

-----------------------------------------------------------------------------
(* The firmware.                                                           *)

\* r ticks for each of a tick are no less than r for each of b.
LEMMA Scale ==
  ASSUME NEW r \in Nat, NEW a \in Nat, NEW b \in Nat, a >= b
  PROVE  300 * (r * a) >= 300 * r * b
  OBVIOUS

\* What a core counts for its timer in a wait that is long enough.
LEMMA LongEnough ==
  ASSUME NEW r \in Nat, NEW a \in Nat, NEW b \in Nat, a >= b, NEW x \in Nat, x = r * a
  PROVE  300 * x >= 300 * r * b /\ 300 * x \in Nat
  BY Scale

\* The registers that init_APIC_interrupt and init_APIC_timer write.
LEMMA LapicFields ==
  ASSUME NEW l \in F!Lapic
  PROVE  /\ DOMAIN l.lint = {0, 1} /\ l.timer \in Nat
         /\ \A x \in Nat : /\ [l EXCEPT !.timer = x] \in F!Lapic
                           /\ [l EXCEPT !.timer = x].timer = x
         /\ \A f \in [{0, 1} -> {"masked", "fixed"}] :
                /\ [l EXCEPT !.on = TRUE, !.lint = f] \in F!Lapic
                /\ [l EXCEPT !.on = TRUE, !.lint = f].timer = l.timer
  BY DEF F!Lapic

\* The constants of the firmware.
LEMMA FirmwareFacts ==
    /\ F!Cores = Core /\ 0 \in Core /\ Aps \subseteq Core /\ 0 \notin Aps
    /\ \A c \in Core : c # 0 => c \in Aps
    /\ TicksToWait \in Nat /\ Rate \in Nat
    /\ \A r \in Roots : \E k \in 1 .. Len(r) : r[k].name = "HPET"
  <1>1. F!FirmwareAssumption
    BY SetupAssumption
  <1>2. ASSUME NEW r \in Roots PROVE \E k \in 1 .. Len(r) : r[k].name = "HPET"
    BY <1>1 DEF F!FirmwareAssumption, F!Tables
  <1>. QED  BY <1>1, <1>2 DEF F!FirmwareAssumption, F!Cores, Core

\* Every step of the firmware keeps each core on its way, the boot core first.
LEMMA StepStep ==
  ASSUME F!FirmwareInv, F!BootStep \/ F!Tick \/ \E c \in Core : F!CoreStep(c)
  PROVE  F!StepInv'
  <1>. USE FirmwareFacts
       DEF F!FirmwareInv, F!StepInv, F!Reading, F!SettingUp, F!Go, F!tables, F!parsed, F!devices
  <1>1. CASE F!BootStep
    BY <1>1 DEF F!BootStep, F!parse_RSDP, F!LostDesc, F!BadTable, F!OtherTable, F!hpet_init,
       F!MadtTable, F!parse_MADT, F!TablesEnd, F!AtTable
  <1>2. CASE F!Tick
    BY <1>2 DEF F!Tick
  <1>3. ASSUME NEW c \in Core, F!CoreStep(c) PROVE F!StepInv'
    <2>1. CASE F!StartCore(c)
      BY <2>1 DEF F!StartCore
    <2>2. CASE F!map_pics(c)
      BY <2>2 DEF F!map_pics
    <2>3. CASE F!enable_APIC(c)
      BY <2>3 DEF F!enable_APIC
    <2>4. CASE F!init_APIC_interrupt(c)
      BY <2>4 DEF F!init_APIC_interrupt
    <2>5. CASE F!init_APIC_timer(c)
      BY <2>5 DEF F!init_APIC_timer, F!Measures
    <2>6. CASE F!TimerSet(c)
      BY <2>6 DEF F!TimerSet
    <2>. QED  BY <1>3, <2>1, <2>2, <2>3, <2>4, <2>5, <2>6 DEF F!CoreStep
  <1>. QED  BY <1>1, <1>2, <1>3

\* A core's page map has what the core is about to reach for.
LEMMA MapsStep ==
  ASSUME F!FirmwareInv, F!BootStep \/ F!Tick \/ \E c \in Core : F!CoreStep(c)
  PROVE  F!MapsInv' /\ F!DevicesMapped'
  <1>. USE FirmwareFacts
       DEF F!FirmwareInv, F!StepInv, F!MapsInv, F!DevicesMapped, F!Reading, F!SettingUp,
           F!Apics, F!Go, F!Access, F!tables, F!parsed, F!devices
  <1>1. CASE F!BootStep
    <2>. USE DEF F!Tables, F!AtTable
    <2>1. CASE F!parse_RSDP
      BY <2>1 DEF F!parse_RSDP
    <2>2. CASE F!LostDesc \/ F!BadTable
      BY <2>2 DEF F!LostDesc, F!BadTable
    <2>3. CASE F!OtherTable
      BY <2>3 DEF F!OtherTable
    <2>4. CASE F!hpet_init
      BY <2>4 DEF F!hpet_init
    <2>5. CASE F!MadtTable
      BY <2>5 DEF F!MadtTable
    <2>6. CASE F!parse_MADT
      BY <2>6 DEF F!parse_MADT
    <2>7. CASE F!TablesEnd
      BY <2>7 DEF F!TablesEnd
    <2>. QED  BY <1>1, <2>1, <2>2, <2>3, <2>4, <2>5, <2>6, <2>7 DEF F!BootStep
  <1>2. CASE F!Tick
    BY <1>2 DEF F!Tick
  <1>3. ASSUME NEW c \in Core, F!CoreStep(c) PROVE F!MapsInv' /\ F!DevicesMapped'
    <2>1. CASE F!StartCore(c)
      BY <2>1 DEF F!StartCore
    <2>2. CASE F!map_pics(c)
      BY <2>2 DEF F!map_pics
    <2>3. CASE F!enable_APIC(c)
      BY <2>3 DEF F!enable_APIC
    <2>4. CASE F!init_APIC_interrupt(c)
      BY <2>4 DEF F!init_APIC_interrupt
    <2>5. CASE F!init_APIC_timer(c)
      BY <2>5 DEF F!init_APIC_timer, F!Measures
    <2>6. CASE F!TimerSet(c)
      BY <2>6 DEF F!TimerSet
    <2>. QED  BY <1>3, <2>1, <2>2, <2>3, <2>4, <2>5, <2>6 DEF F!CoreStep
  <1>. QED  BY <1>1, <1>2, <1>3

\* The HPET and the LAPIC count together from the reset on.
LEMMA TicksStep ==
  ASSUME F!FirmwareInv, F!BootStep \/ F!Tick \/ \E c \in Core : F!CoreStep(c)
  PROVE  F!TicksInv' /\ F!Calibrated'
  <1>. USE FirmwareFacts
       DEF F!FirmwareInv, F!StepInv, F!TicksInv, F!Calibrated, F!Reading, F!SettingUp,
           F!Go, F!tables, F!parsed, F!devices
  <1>1. CASE F!BootStep
    BY <1>1 DEF F!BootStep, F!parse_RSDP, F!LostDesc, F!BadTable, F!OtherTable, F!hpet_init,
       F!MadtTable, F!parse_MADT, F!TablesEnd, F!AtTable
  <1>2. CASE F!Tick
    <2>1. /\ hpet' = [hpet EXCEPT !.count = hpet.count + 1, !.ticks = hpet.ticks + Rate]
          /\ once' = once /\ lapic' = lapic
      BY <1>2 DEF F!Tick
    <2>2. \A n \in Nat : Rate * n + Rate = Rate * (n + 1)
      OBVIOUS
    <2>3. hpet.count \in Nat /\ hpet.ticks \in Nat
      OBVIOUS
    <2>4. hpet.count + 1 \in Nat /\ hpet.ticks + Rate \in Nat
      BY <2>3
    <2>5. /\ hpet' \in [on : BOOLEAN, count : Nat, ticks : Nat]
          /\ hpet'.count = hpet.count + 1 /\ hpet'.ticks = hpet.ticks + Rate
      BY <2>1, <2>4
    <2>6. "init_APIC_timer" \in once => hpet'.ticks = Rate * hpet'.count
      BY <2>2, <2>3, <2>5
    <2>. QED  BY <2>1, <2>5, <2>6
  <1>3. ASSUME NEW c \in Core, F!CoreStep(c) PROVE F!TicksInv' /\ F!Calibrated'
    <2>1. CASE F!StartCore(c)
      BY <2>1 DEF F!StartCore
    <2>2. CASE F!map_pics(c)
      BY <2>2 DEF F!map_pics
    <2>3. CASE F!enable_APIC(c)
      BY <2>3 DEF F!enable_APIC
    <2>4. CASE F!init_APIC_interrupt(c)
      <3>1. PICK lint :
              /\ lint = [n \in DOMAIN lapic[c].lint |->
                            IF \E k \in 1 .. Len(info.nmis) :
                                   info.nmis[k].a = 255 /\ info.nmis[k].b = n
                            THEN "fixed" ELSE lapic[c].lint[n]]
              /\ lapic' = [lapic EXCEPT ![c] = [@ EXCEPT !.on = TRUE, !.lint = lint]]
        BY <2>4 DEF F!init_APIC_interrupt
      <3>2. once' = once /\ hpet' = hpet
        BY <2>4 DEF F!init_APIC_interrupt
      <3>3. lapic[c] \in F!Lapic /\ DOMAIN lapic[c].lint = {0, 1}
        BY LapicFields
      <3>4. lapic[c].lint \in [{0, 1} -> {"masked", "fixed"}]
        BY <3>3 DEF F!Lapic
      <3>5. lint \in [{0, 1} -> {"masked", "fixed"}]
        BY ONLY <3>1, <3>3, <3>4
      <3>6. PICK l : l = [lapic[c] EXCEPT !.on = TRUE, !.lint = lint]
        OBVIOUS
      <3>7. l \in F!Lapic /\ l.timer = lapic[c].timer
        BY ONLY <3>3, <3>5, <3>6, LapicFields
      <3>8. lapic' = [lapic EXCEPT ![c] = l]
        BY <3>1, <3>6
      <3>. QED  BY <3>2, <3>7, <3>8
    <2>5. CASE F!init_APIC_timer(c)
      <3>1. CASE F!Measures
        <4>1. hpet \in [on : BOOLEAN, count : Nat, ticks : Nat]
          OBVIOUS
        <4>2. /\ hpet' = F!hpet_start([F!hpet_reset(hpet) EXCEPT !.ticks = 0])
              /\ lapic' = lapic
          BY ONLY <2>5, <3>1 DEF F!init_APIC_timer
        <4>3. /\ hpet' = [on |-> TRUE, count |-> 0, ticks |-> 0] /\ lapic' = lapic
          BY ONLY <4>1, <4>2 DEF F!hpet_reset, F!hpet_start
        <4>4. Rate * 0 = 0
          OBVIOUS
        <4>. QED  BY <4>3, <4>4
      <3>2. CASE ~F!Measures
        BY <2>5, <3>2 DEF F!init_APIC_timer, F!Measures
      <3>. QED  BY <3>1, <3>2
    <2>6. CASE F!TimerSet(c)
      <3>1. /\ lapic' = [lapic EXCEPT ![c] = [@ EXCEPT !.timer = 300 * hpet.ticks]]
            /\ once' = once /\ hpet' = hpet /\ hpet.count >= TicksToWait /\ c = 0
            /\ step[0] = "wait"
        BY <2>6 DEF F!TimerSet
      <3>2. hpet.ticks = Rate * hpet.count /\ hpet.ticks \in Nat /\ hpet.count \in Nat
        BY <3>1
      <3>3. PICK n : n = hpet.count
        OBVIOUS
      <3>4. PICK t : t = hpet.ticks
        OBVIOUS
      <3>5. n \in Nat /\ t \in Nat /\ t = Rate * n /\ n >= TicksToWait
        BY ONLY <3>1, <3>2, <3>3, <3>4
      <3>6. Rate \in Nat /\ TicksToWait \in Nat
        OBVIOUS
      <3>7. 300 * t >= 300 * Rate * TicksToWait /\ 300 * t \in Nat
        BY ONLY <3>5, <3>6, LongEnough
      <3>8. PICK x : x = 300 * t
        OBVIOUS
      <3>9. x \in Nat /\ x >= 300 * Rate * TicksToWait
        BY ONLY <3>7, <3>8
      <3>10. PICK l : l = [lapic[c] EXCEPT !.timer = x]
        OBVIOUS
      <3>11. lapic[c] \in F!Lapic
        OBVIOUS
      <3>12. l \in F!Lapic /\ l.timer = x
        BY ONLY <3>9, <3>10, <3>11, LapicFields
      <3>13. lapic' = [lapic EXCEPT ![c] = l]
        BY <3>1, <3>4, <3>8, <3>10
      <3>. QED  BY <3>1, <3>9, <3>12, <3>13
    <2>. QED  BY <1>3, <2>1, <2>2, <2>3, <2>4, <2>5, <2>6 DEF F!CoreStep
  <1>. QED  BY <1>1, <1>2, <1>3

LEMMA FirmwareStep ==
  ASSUME F!FirmwareInv, F!BootStep \/ F!Tick \/ \E c \in Core : F!CoreStep(c)
  PROVE  F!FirmwareInv'
  BY StepStep, MapsStep, TicksStep DEF F!FirmwareInv

LEMMA FirmwareInit ==
  ASSUME F!Init
  PROVE  F!FirmwareInv
  <1>. USE FirmwareFacts DEF F!Init
  <1>1. F!StepInv
    BY DEF F!StepInv, F!Reading, F!SettingUp
  <1>2. F!MapsInv /\ F!DevicesMapped
    BY DEF F!MapsInv, F!DevicesMapped, F!Tables, F!SettingUp, F!Apics
  <1>3. F!TicksInv /\ F!Calibrated
    BY DEF F!TicksInv, F!Calibrated, F!Lapic
  <1>. QED  BY <1>1, <1>2, <1>3 DEF F!FirmwareInv

LEMMA FirmwareStutter ==
  ASSUME F!FirmwareInv, UNCHANGED firmwareVars
  PROVE  F!FirmwareInv'
  BY DEF firmwareVars, F!FirmwareInv, F!StepInv, F!MapsInv, F!TicksInv, F!DevicesMapped,
     F!Calibrated

\* An entry of the MADT makes a list of apic_info one longer at most.
LEMMA EntryFits ==
  ASSUME NEW E, NEW e \in E, NEW i, NEW n \in Nat,
         DOMAIN i = {"lapics", "ovrs", "nmis", "base", "address"},
         i.lapics \in Seq(E), Len(i.lapics) < n, i.ovrs \in Seq(E), Len(i.ovrs) < n
  PROVE  /\ DOMAIN F!Entry(i, e) = {"lapics", "ovrs", "nmis", "base", "address"}
         /\ F!Entry(i, e).lapics \in Seq(E) /\ Len(F!Entry(i, e).lapics) < n + 1
         /\ F!Entry(i, e).ovrs \in Seq(E) /\ Len(F!Entry(i, e).ovrs) < n + 1
  <1>1. \A s \in Seq(E) : Len(s) < n => Append(s, e) \in Seq(E) /\ Len(Append(s, e)) < n + 1
    OBVIOUS
  <1>2. CASE e.type = "lapic"
    <2>1. F!Entry(i, e) = IF e.b = 1 THEN [i EXCEPT !.lapics = Append(i.lapics, e)] ELSE i
      BY <1>2 DEF F!Entry
    <2>. QED  BY <1>1, <2>1
  <1>3. CASE e.type = "override"
    <2>1. F!Entry(i, e) = [i EXCEPT !.ovrs = Append(i.ovrs, e)]
      BY <1>3 DEF F!Entry
    <2>. QED  BY <1>1, <2>1
  <1>4. CASE e.type \notin {"lapic", "override"}
    <2>1. \E x : F!Entry(i, e) \in {i, [i EXCEPT !.nmis = x], [i EXCEPT !.base = x],
                                    [i EXCEPT !.address = x]}
      BY <1>4 DEF F!Entry
    <2>. QED  BY <2>1
  <1>. QED  BY <1>2, <1>3, <1>4

\* The lengths of the tables.
LEMMA TableFacts ==
    /\ MaxCore \in Nat /\ TicksToWait \in Nat \ {0}
    /\ \A r \in Roots : Len(r) \in Nat
    /\ \A m \in Madts : Len(m) \in 0 .. MaxCore
  BY SetupAssumption DEF F!FirmwareAssumption, I!InitFilesAssumption

\* apic_info has no more entries than the walk over the MADT has passed.
LEMMA InfoStep ==
  ASSUME F!InfoInv, F!TypeOK, F!BootStep \/ F!Tick \/ \E c \in Core : F!CoreStep(c)
  PROVE  F!InfoInv' /\ entry' \in 1 .. Len(madt') + 1
  <1>. USE TableFacts DEF F!InfoInv, F!TypeOK, F!tables, F!parsed, F!devices
  <1>0. UNCHANGED <<madt, info, entry>> => F!InfoInv' /\ entry' \in 1 .. Len(madt') + 1
    OBVIOUS
  <1>1. CASE F!parse_MADT
    <2>1. CASE entry <= Len(madt)
      <3>1. PICK E, e : E = {madt[k] : k \in 1 .. Len(madt)} /\ e = madt[entry]
        OBVIOUS
      <3>2. e \in E /\ entry \in Nat
        BY <2>1, <3>1
      <3>3. info' = F!Entry(info, e) /\ entry' = entry + 1 /\ madt' = madt
        BY <1>1, <2>1, <3>1 DEF F!parse_MADT, F!NextEntry
      <3>4. /\ DOMAIN info = {"lapics", "ovrs", "nmis", "base", "address"}
            /\ info.lapics \in Seq(E) /\ Len(info.lapics) < entry
            /\ info.ovrs \in Seq(E) /\ Len(info.ovrs) < entry
        BY <3>1
      <3>5. /\ DOMAIN info' = {"lapics", "ovrs", "nmis", "base", "address"}
            /\ info'.lapics \in Seq(E) /\ Len(info'.lapics) < entry'
            /\ info'.ovrs \in Seq(E) /\ Len(info'.ovrs) < entry'
        BY ONLY <3>2, <3>3, <3>4, EntryFits
      <3>. QED  BY <2>1, <3>1, <3>3, <3>5
    <2>2. CASE ~(entry <= Len(madt))
      BY <1>1, <2>2 DEF F!parse_MADT
    <2>. QED  BY <2>1, <2>2
  <1>2. CASE \/ F!parse_RSDP \/ F!LostDesc \/ F!BadTable \/ F!OtherTable \/ F!hpet_init
             \/ F!MadtTable \/ F!TablesEnd
    <2>1. UNCHANGED <<madt, info, entry>>
      BY <1>2 DEF F!parse_RSDP, F!LostDesc, F!BadTable, F!OtherTable, F!hpet_init, F!MadtTable,
         F!TablesEnd
    <2>. QED  BY <1>0, <2>1
  <1>3. CASE F!Tick
    <2>1. UNCHANGED <<madt, info, entry>>
      BY <1>3 DEF F!Tick
    <2>. QED  BY <1>0, <2>1
  <1>4. ASSUME NEW c \in Core, F!CoreStep(c) PROVE UNCHANGED <<madt, info, entry>>
    BY <1>4 DEF F!CoreStep, F!StartCore, F!map_pics, F!enable_APIC, F!init_APIC_interrupt,
       F!init_APIC_timer, F!TimerSet
  <1>5. CASE F!BootStep
    BY <1>1, <1>2, <1>5 DEF F!BootStep
  <1>. QED  BY <1>0, <1>3, <1>4, <1>5

\* The walk over the tables stays in the RSDT, and the HPET is one tick past the wait
\* at most.
LEMMA WalkStep ==
  ASSUME F!FirmwareInv, F!TypeOK, F!BootStep \/ F!Tick \/ \E c \in Core : F!CoreStep(c)
  PROVE  pos' \in 1 .. Len(root') + 1 /\ hpet'.count \in 0 .. TicksToWait + 1
  <1>. USE TableFacts DEF F!FirmwareInv, F!TypeOK, F!tables, F!parsed, F!devices
  <1>1. root \in Roots /\ pos \in Nat \ {0} /\ hpet \in [on : BOOLEAN, count : Nat, ticks : Nat]
    BY DEF F!MapsInv, F!TicksInv
  <1>2. CASE F!parse_MADT
    <2>1. step[0] = "madt" /\ pos' \in {pos, pos + 1} /\ root' = root /\ hpet' = hpet
      BY <1>2 DEF F!parse_MADT
    <2>2. pos <= Len(root)
      BY <2>1 DEF F!MapsInv
    <2>. QED  BY <1>1, <2>1, <2>2
  <1>3. CASE \/ F!parse_RSDP \/ F!LostDesc \/ F!BadTable \/ F!OtherTable \/ F!hpet_init
             \/ F!MadtTable \/ F!TablesEnd
    <2>1. /\ pos' = pos \/ (pos' = pos + 1 /\ pos <= Len(root))
          /\ root' = root /\ hpet' = hpet
      BY ONLY <1>3 DEF F!parse_RSDP, F!LostDesc, F!BadTable, F!OtherTable, F!hpet_init,
         F!MadtTable, F!TablesEnd, F!AtTable, F!tables, F!parsed, F!devices
    <2>2. Len(root) \in Nat
      BY <1>1
    <2>3. pos \in 1 .. Len(root) + 1 /\ hpet.count \in 0 .. TicksToWait + 1
      OBVIOUS
    <2>. QED  BY ONLY <2>1, <2>2, <2>3
  <1>4. CASE F!Tick
    BY <1>1, <1>4 DEF F!Tick
  <1>5. ASSUME NEW c \in Core, F!CoreStep(c)
        PROVE  root' = root /\ pos' = pos /\ hpet'.count \in {0, hpet.count}
    BY <1>1, <1>5 DEF F!CoreStep, F!StartCore, F!map_pics, F!enable_APIC, F!init_APIC_interrupt,
       F!init_APIC_timer, F!TimerSet, F!hpet_reset, F!hpet_start
  <1>. QED  BY <1>1, <1>2, <1>3, <1>4, <1>5 DEF F!BootStep

LEMMA FirmwareType ==
  ASSUME FirmwareIInv, F!BootStep \/ F!Tick \/ \E c \in Core : F!CoreStep(c)
  PROVE  FirmwareIInv'
  <1>1. F!FirmwareInv' /\ F!InfoInv' /\ entry' \in 1 .. Len(madt') + 1
    BY FirmwareStep, InfoStep DEF FirmwareIInv
  <1>2. pos' \in 1 .. Len(root') + 1 /\ hpet'.count \in 0 .. TicksToWait + 1
    BY WalkStep DEF FirmwareIInv
  <1>3. F!StepInv'
    BY <1>1 DEF F!FirmwareInv
  <1>4. F!TypeOK'
    <2>1. /\ Len(info'.lapics) \in Nat /\ Len(info'.lapics) < entry'
          /\ Len(info'.ovrs) \in Nat /\ Len(info'.ovrs) < entry' /\ Len(madt') \in 0 .. MaxCore
      BY <1>1, TableFacts DEF F!InfoInv
    <2>2. Len(info'.lapics) <= MaxCore /\ Len(info'.ovrs) <= MaxCore
      BY <1>1, <2>1, TableFacts
    <2>. QED  BY <1>1, <1>2, <1>3, <2>2 DEF F!TypeOK, F!StepInv, F!Reading, F!SettingUp
  <1>. QED  BY <1>1, <1>4 DEF FirmwareIInv

LEMMA FirmwareTypeInit ==
  ASSUME F!Init
  PROVE  FirmwareIInv
  <1>1. F!FirmwareInv
    BY FirmwareInit
  <1>2. F!InfoInv
    BY DEF F!Init, F!InfoInv
  <1>3. /\ entry \in 1 .. Len(madt) + 1 /\ pos \in 1 .. Len(root) + 1
        /\ hpet.count \in 0 .. TicksToWait + 1
    BY TableFacts DEF F!Init
  <1>4. F!TypeOK
    BY <1>1, <1>3, TableFacts
       DEF F!Init, F!TypeOK, F!FirmwareInv, F!StepInv, F!Reading, F!SettingUp
  <1>. QED  BY <1>1, <1>2, <1>4 DEF FirmwareIInv

LEMMA FirmwareTypeStutter ==
  ASSUME FirmwareIInv, UNCHANGED firmwareVars
  PROVE  FirmwareIInv'
  BY FirmwareStutter DEF firmwareVars, FirmwareIInv, F!InfoInv, F!TypeOK

-----------------------------------------------------------------------------
(* The files.                                                              *)

\* The files stay the modules registered so far.
LEMMA FilesStep ==
  ASSUME I!FilesInv,
         I!register_new_file \/ I!ParseHead \/ I!ParseBlank \/ I!ParseLine \/ I!ParseEnd
  PROVE  I!FilesInv'
  <1>. USE DEF I!FilesInv
  <1>0. Modules \subseteq Seq(Seq(Int)) /\ NameSize \in Nat \ {0}
    BY SetupAssumption DEF I!InitFilesAssumption
  <1>1. CASE I!register_new_file
    <2>1. PICK f : f = [name |-> I!my_strncpy(mods[Len(files) + 1]), module |-> Len(files) + 1]
      OBVIOUS
    <2>2. mods \in Seq(Seq(Int)) /\ Len(files) \in Nat /\ Len(mods) \in Nat
      BY <1>0
    <2>3. CASE files' = Append(files, f) /\ pc' = pc
      <3>1. Len(files) < Len(mods) /\ mods' = mods
        BY <1>1 DEF I!register_new_file
      <3>2. mods[Len(files) + 1] \in Seq(Int)
        BY ONLY <3>1, <2>2
      <3>3. I!my_strncpy(mods[Len(files) + 1]) \in Seq(Int)
        BY <3>2, <1>0 DEF I!my_strncpy
      <3>4. f \in [name : Seq(Int), module : Nat]
        BY <2>1, <2>2, <3>3
      <3>5. files' \in Seq([name : Seq(Int), module : Nat]) /\ Len(files') = Len(files) + 1
        BY <2>3, <3>4
      <3>6. ASSUME NEW k \in 1 .. Len(files')
            PROVE  files'[k] = [name |-> I!my_strncpy(mods[k]), module |-> k]
        <4>1. CASE k = Len(files) + 1
          BY <4>1, <2>1, <2>3, <3>4
        <4>2. CASE k \in 1 .. Len(files)
          BY <4>2, <2>3, <3>4
        <4>. QED  BY <4>1, <4>2, <3>5, <2>2
      <3>7. \A k : I!my_strncpy(mods[k])' = I!my_strncpy(mods[k])
        BY <3>1 DEF I!my_strncpy
      <3>. QED
        BY <2>2, <2>3, <3>1, <3>5, <3>6, <3>7, <1>1 DEF I!register_new_file
    <2>4. CASE pc' = "panic" /\ UNCHANGED files
      BY <1>1, <2>4 DEF I!register_new_file, I!my_strncpy
    <2>. QED  BY <1>1, <2>1, <2>3, <2>4 DEF I!register_new_file
  <1>2. CASE I!ParseHead
    BY <1>2 DEF I!ParseHead, I!my_strncpy
  <1>3. CASE I!ParseBlank
    BY <1>3 DEF I!ParseBlank, I!my_strncpy
  <1>4. CASE I!ParseLine
    BY <1>4 DEF I!ParseLine, I!my_strncpy
  <1>5. CASE I!ParseEnd
    BY <1>5 DEF I!ParseEnd, I!my_strncpy
  <1>. QED  BY <1>1, <1>2, <1>3, <1>4, <1>5

LEMMA FilesInit ==
  ASSUME I!Init
  PROVE  I!FilesInv
  <1>1. Modules \subseteq Seq(Seq(Int))
    BY SetupAssumption DEF I!InitFilesAssumption
  <1>. QED  BY <1>1 DEF I!Init, I!FilesInv

LEMMA FilesStutter ==
  ASSUME I!FilesInv, UNCHANGED initVars
  PROVE  I!FilesInv'
  BY DEF initVars, I!FilesInv, I!my_strncpy

\* A name that fits is copied whole, and the search ends at its first copy.
LEMMA Lookup ==
  ASSUME I!FilesInv
  PROVE  I!LookupExact
  <1>. SUFFICES ASSUME pc \in {"lines", "done"},
                       \A k \in 1 .. Len(mods) : Len(mods[k]) < NameSize,
                       NEW n \in 1 .. Len(mods)
                PROVE  \E i \in 1 .. Len(mods) :
                         /\ I!get_file(mods[n]) = i /\ files[i].module = i /\ mods[i] = mods[n]
                         /\ \A j \in 1 .. i - 1 : mods[j] # mods[n]
    BY DEF I!LookupExact
  <1>1. /\ mods \in Seq(Seq(Int)) /\ Len(files) = Len(mods) /\ Len(mods) \in Nat
        /\ \A k \in 1 .. Len(files) : files[k] = [name |-> I!my_strncpy(mods[k]), module |-> k]
    BY SetupAssumption DEF I!InitFilesAssumption, I!FilesInv
  <1>2. ASSUME NEW k \in 1 .. Len(mods) PROVE I!my_strncpy(mods[k]) = mods[k]
    <2>1. mods[k] \in Seq(Int) /\ Len(mods[k]) < NameSize
      BY <1>1
    <2>2. I!my_strncpy(mods[k]) = SubSeq(mods[k], 1, Len(mods[k]))
      BY <2>1 DEF I!my_strncpy
    <2>. QED  BY ONLY <2>1, <2>2
  <1>3. ASSUME NEW k \in 1 .. Len(files) PROVE files[k].name = mods[k] /\ files[k].module = k
    <2>1. files[k] = [name |-> mods[k], module |-> k]
      BY <1>1, <1>2
    <2>. QED  BY ONLY <2>1
  <1>4. PICK found : found = {i \in 1 .. Len(files) : files[i].name = mods[n]}
    OBVIOUS
  <1>5. found \in SUBSET Nat /\ n \in found
    BY <1>1, <1>3, <1>4
  <1>6. PICK m \in found : \A k \in found : m <= k
    BY <1>5, Smallest
  <1>7. I!get_file(mods[n]) = CHOOSE i \in found : \A j \in found : i <= j
    BY <1>4, <1>5 DEF I!get_file
  <1>8. I!get_file(mods[n]) \in found /\ \A j \in found : I!get_file(mods[n]) <= j
    BY ONLY <1>6, <1>7
  <1>9. PICK i : i = I!get_file(mods[n])
    OBVIOUS
  <1>10. i \in 1 .. Len(mods) /\ files[i].module = i /\ mods[i] = mods[n]
    BY <1>1, <1>3, <1>4, <1>8, <1>9
  <1>11. ASSUME NEW j \in 1 .. i - 1, mods[j] = mods[n] PROVE FALSE
    <2>1. j \in found
      BY <1>1, <1>3, <1>4, <1>10, <1>11
    <2>. QED  BY <2>1, <1>8, <1>9, <1>10, <1>11
  <1>. QED  BY <1>9, <1>10, <1>11

\* FlattenSeq puts one sequence behind the other.
LEMMA SameFlat == \A s : I!FlattenSeq(s) = Flattened(s)
  BY DEF I!FlattenSeq, Flattened

\* The lines of a file one behind the other are a text.
LEMMA Flat ==
  ASSUME NEW s \in Seq(Seq(Int))
  PROVE  I!FlattenSeq(s) \in Seq(Int)
  <1>1. PICK n \in Nat : n = Len(s)
    OBVIOUS
  <1>2. CASE n = 0
    <2>1. Len(s) = 0
      BY <1>1, <1>2
    <2>2. Flattened(s) = s /\ s = <<>>
      BY <2>1 DEF Flattened
    <2>3. <<>> \in Seq(Int)
      OBVIOUS
    <2>. QED  BY <2>2, <2>3, SameFlat
  <1>3. CASE n # 0
    <2>1. PICK k \in Nat : n = k + 1
      BY <1>3
    <2>2. s = [i \in 1 .. k + 1 |-> s[i]] /\ s \in [1 .. k + 1 -> Seq(Int)]
      <3>1. k + 1 \in Nat /\ k + 1 = Len(s)
        BY <1>1, <2>1
      <3>. QED  BY <3>1, SeqFun
    <2>3. /\ Flattened([i \in 1 .. k |-> s[i]]) \in Seq(Int)
          /\ Flattened([i \in 1 .. k + 1 |-> s[i]]) = Flattened([i \in 1 .. k |-> s[i]]) \o s[k + 1]
      BY <2>2, FlatStep
    <2>4. PICK x \in Seq(Int) : x = Flattened([i \in 1 .. k |-> s[i]])
      BY <2>3
    <2>5. x \o s[k + 1] \in Seq(Int)
      BY <2>2
    <2>. QED  BY <2>2, <2>3, <2>4, <2>5, SameFlat
  <1>. QED  BY <1>2, <1>3

\* The elements of a sequence.
LEMMA Elements ==
  ASSUME NEW R, NEW s \in Seq(R), NEW n \in Nat, n = Len(s)
  PROVE  \A i \in 1 .. n : s[i] \in R
  OBVIOUS

\* What an init file looks like before it is parsed.
LEMMA TextOf ==
  ASSUME NEW d \in Docs
  PROVE  /\ I!Text(d) \in Seq(Int) /\ Len(I!Text(d)) > 0
         /\ I!Text(d)[1] = I!CORES => Len(I!Text(d)) > 1
  <1>. DEFINE Head1 == IF d.cores = I!None THEN <<I!Letter(1)>> ELSE <<I!CORES, d.cores>>
              Lines == [i \in 1 .. Len(d.lines) |-> I!LineText(d.lines[i])]
  <1>1. /\ d.cores \in Nat \cup {I!None}
        /\ d.lines \in Seq([index : Nat \cup {I!None}, sep : Seq(Int), name : Seq(Int)])
    BY SetupAssumption DEF I!InitFilesAssumption
  <1>2. ASSUME NEW l \in [index : Nat \cup {I!None}, sep : Seq(Int), name : Seq(Int)]
        PROVE  I!LineText(l) \in Seq(Int)
    BY <1>2 DEF I!LineText, I!None, I!Newline
  <1>3. Lines \in Seq(Seq(Int))
    <2>1. PICK n \in Nat : n = Len(d.lines)
      BY <1>1
    <2>2. \A i \in 1 .. n : I!LineText(d.lines[i]) \in Seq(Int)
      <3>1. \A i \in 1 .. n : d.lines[i] \in [index : Nat \cup {I!None}, sep : Seq(Int), name : Seq(Int)]
        BY <1>1, <2>1, Elements
      <3>. QED  BY <1>2, <3>1
    <2>3. Lines = [i \in 1 .. n |-> I!LineText(d.lines[i])]
      BY <2>1
    <2>. HIDE DEF Lines
    <2>. QED  BY <2>2, <2>3
  <1>4. I!FlattenSeq(Lines) \in Seq(Int)
    <2>. HIDE DEF Lines
    <2>. QED  BY <1>3, Flat
  <1>5. /\ Head1 \in Seq(Int) /\ Len(Head1) \in {1, 2}
        /\ Len(Head1) = 1 => Head1[1] # I!CORES
    BY <1>1 DEF I!None, I!Letter, I!CORES
  <1>6. I!Text(d) = Head1 \o <<I!Newline>> \o I!FlattenSeq(Lines)
    BY DEF I!Text
  <1>. HIDE DEF Head1, Lines
  <1>7. /\ Head1 \o <<I!Newline>> \in Seq(Int)
        /\ Len(Head1 \o <<I!Newline>>) > 1
    <2>1. PICK h \in Seq(Int) : h = Head1 /\ Len(h) \in {1, 2}
      BY <1>5
    <2>2. <<I!Newline>> \in Seq(Int) /\ Len(<<I!Newline>>) = 1
      BY DEF I!Newline
    <2>3. PICK e \in Seq(Int) : e = <<I!Newline>> /\ Len(e) = 1
      BY <2>2
    <2>4. h \o e \in Seq(Int) /\ Len(h \o e) = Len(h) + 1
      BY <2>3
    <2>5. Head1 \o <<I!Newline>> = h \o e
      BY ONLY <2>1, <2>3, Zenon
    <2>6. PICK x : x = h \o e
      OBVIOUS
    <2>7. x \in Seq(Int) /\ Len(x) > 1
      BY ONLY <2>1, <2>4, <2>6
    <2>8. Head1 \o <<I!Newline>> = x
      BY ONLY <2>5, <2>6, Zenon
    <2>. QED  BY ONLY <2>7, <2>8, Zenon
  <1>. QED  BY <1>4, <1>6, <1>7

\* get_next_line stays in the text or returns NULL.
LEMMA NextLine ==
  ASSUME NEW t \in Seq(Int), NEW p \in Nat \ {0}
  PROVE  I!get_next_line(t, p) \in 0 .. Len(t) + 1
  <1>. DEFINE ends == {i \in p .. Len(t) : t[i] = I!Nul}
  <1>1. CASE ends = {}
    BY <1>1 DEF I!get_next_line
  <1>2. CASE ends # {}
    <2>1. ends \in SUBSET Nat /\ ends \subseteq 1 .. Len(t)
      OBVIOUS
    <2>2. I!get_next_line(t, p) = (CHOOSE i \in ends : \A j \in ends : i <= j) + 1
      BY <1>2 DEF I!get_next_line
    <2>. HIDE DEF ends
    <2>3. \E i \in ends : \A j \in ends : i <= j
      BY <1>2, <2>1, Smallest
    <2>4. (CHOOSE i \in ends : \A j \in ends : i <= j) \in ends
      BY <2>3
    <2>5. PICK m \in 1 .. Len(t) : I!get_next_line(t, p) = m + 1
      BY <2>1, <2>2, <2>4
    <2>. QED  BY <2>5
  <1>. QED  BY <1>1, <1>2

FilesFacts == MaxFiles \in Nat /\ NameSize \in Nat \ {0} /\ MaxCore \in Nat \ {0}
\* A name fits its array.
LEMMA NameFits ==
  ASSUME NEW name \in Seq(Int)
  PROVE  Len(I!my_strncpy(name)) < NameSize
  <1>1. NameSize \in Nat \ {0}
    BY SetupAssumption DEF I!InitFilesAssumption
  <1>. QED  BY <1>1 DEF I!my_strncpy

LEMMA FilesType ==
  ASSUME FilesIInv, I!register_new_file \/ I!ParseHead \/ I!ParseBlank \/ I!ParseLine \/ I!ParseEnd
  PROVE  FilesIInv'
  <1>1. I!FilesInv'
    BY FilesStep DEF FilesIInv
  <1>2. FilesFacts /\ Modules \subseteq Seq(Seq(Int))
    BY SetupAssumption DEF I!InitFilesAssumption, FilesFacts
  <1>3. \A k \in 1 .. Len(files') : Len(files'[k].name) < NameSize
    <2>1. ASSUME NEW k \in 1 .. Len(files')
          PROVE  Len(files'[k].name) < NameSize
      <3>1. /\ mods' \in Seq(Seq(Int)) /\ Len(files') \in Nat /\ Len(files') <= Len(mods')
            /\ \A i \in 1 .. Len(files') : files'[i] = [name |-> I!my_strncpy(mods[i])', module |-> i]
        <4>1. /\ mods' \in Modules /\ files' \in Seq([name : Seq(Int), module : Nat])
              /\ Len(files') <= Len(mods')
              /\ \A i \in 1 .. Len(files') : files'[i] = [name |-> I!my_strncpy(mods[i])', module |-> i]
          BY ONLY <1>1 DEF I!FilesInv
        <4>. QED  BY ONLY <1>2, <4>1
      <3>2. mods'[k] \in Seq(Int)
        BY <3>1
      <3>3. I!my_strncpy(mods[k])' = I!my_strncpy(mods'[k])
        BY DEF I!my_strncpy
      <3>4. PICK n \in Seq(Int) : n = mods'[k]
        BY <3>2
      <3>5. files'[k] = [name |-> I!my_strncpy(n), module |-> k]
        BY <3>1, <3>3, <3>4
      <3>6. files'[k].name = I!my_strncpy(n)
        BY ONLY <3>5
      <3>7. Len(I!my_strncpy(n)) < NameSize
        BY NameFits
      <3>. QED  BY ONLY <3>6, <3>7
    <2>. QED  BY <2>1
  <1>. USE DEF FilesIInv
  <1>4. CASE I!register_new_file
    <2>1. Len(files') <= MaxFiles
      BY <1>2, <1>4 DEF I!register_new_file, I!FilesInv, I!TypeOK, FilesFacts
    <2>. QED
      BY <1>1, <1>3, <1>4, <2>1 DEF I!register_new_file, I!TextInv, I!TypeOK
  <1>5. CASE I!ParseHead
    <2>1. UNCHANGED <<doc, mods, files, programs, past>>
      BY <1>5 DEF I!ParseHead
    <2>2. CASE pc' = "panic" /\ UNCHANGED <<text, ptr, required>>
      BY <1>1, <1>3, <2>1, <2>2 DEF I!TextInv, I!TypeOK
    <2>3. CASE ~(pc' = "panic" /\ UNCHANGED <<text, ptr, required>>)
      <3>1. /\ pc = "register" /\ text[1] = I!CORES /\ pc' = "lines"
            /\ text' = [i \in DOMAIN text |-> IF text[i] = I!Newline THEN I!Nul ELSE text[i]]
            /\ required' = I!atou(text', 2) /\ ptr' = I!get_next_line(text', 2)
        BY <1>5, <2>3 DEF I!ParseHead
      <3>2. text' \in Seq(Int) /\ Len(text') = Len(text) /\ Len(text) > 1
        <4>1. text \in Seq(Int) /\ Len(text) > 1
          BY <3>1 DEF I!TextInv
        <4>2. I!Nul \in Int
          BY DEF I!Nul
        <4>. QED  BY ONLY <3>1, <4>1, <4>2
      <3>3. required' \in Nat
        BY <3>1, <3>2 DEF I!atou
      <3>4. ptr' \in 0 .. Len(text') + 1
        BY <3>1, <3>2, NextLine
      <3>. QED
        BY <1>1, <1>3, <2>1, <3>1, <3>2, <3>3, <3>4 DEF I!TextInv, I!TypeOK
    <2>. QED  BY <2>2, <2>3
  <1>6. CASE I!ParseBlank
    <2>1. ptr' \in 0 .. Len(text) + 1
      BY <1>6, NextLine DEF I!ParseBlank, I!TextInv, I!Inside
    <2>. QED  BY <1>1, <1>3, <1>6, <2>1 DEF I!ParseBlank, I!TextInv, I!TypeOK
  <1>7. CASE I!ParseLine
    <2>. DEFINE index == I!atou(text, ptr)
                p == IF text[ptr] >= 0 THEN ptr + 1 ELSE ptr
    <2>1. /\ ptr \in 1 .. Len(text) /\ text[ptr] \in Int /\ index \in Nat
          /\ p \in 1 .. Len(text) + 1
      BY <1>7 DEF I!ParseLine, I!TextInv, I!Inside, I!atou
    <2>2. /\ programs' = IF index < MaxCore THEN [programs EXCEPT ![index] = p + 1] ELSE programs
          /\ past' = (past \/ index >= MaxCore \/ ~I!Inside(p))
          /\ text' = IF I!Inside(p) THEN [text EXCEPT ![p] = I!Nul] ELSE text
          /\ ptr' = I!get_next_line(text', p + 1)
          /\ UNCHANGED <<doc, mods, files, pc, required>> /\ pc = "lines"
      BY <1>7 DEF I!ParseLine
    <2>. HIDE DEF index, p
    <2>3. text' \in Seq(Int) /\ Len(text') = Len(text)
      BY <2>1, <2>2 DEF I!TextInv, I!Nul, I!Inside
    <2>4. ptr' \in 0 .. Len(text') + 1
      <3>1. p + 1 \in Nat \ {0} /\ ptr' = I!get_next_line(text', p + 1)
        BY <2>1, <2>2
      <3>. QED  BY <2>3, <3>1, NextLine
    <2>5. /\ DOMAIN programs' = DOMAIN programs
          /\ \A i \in DOMAIN programs' : programs'[i] \in 0 .. Len(text') + 2
      <3>1. \A i \in DOMAIN programs : programs[i] \in 0 .. Len(text) + 2
        BY DEF I!TypeOK
      <3>2. p + 1 \in 0 .. Len(text) + 2
        BY <2>1
      <3>3. /\ DOMAIN programs' = DOMAIN programs
            /\ \A i \in DOMAIN programs : programs'[i] \in {programs[i], p + 1}
        BY <2>2
      <3>. QED  BY <2>3, <3>1, <3>2, <3>3
    <2>6. past' \in BOOLEAN
      BY <2>2
    <2>. QED
      BY <1>1, <1>3, <2>2, <2>3, <2>4, <2>5, <2>6 DEF I!TextInv, I!TypeOK
  <1>8. CASE I!ParseEnd
    BY <1>1, <1>3, <1>8 DEF I!ParseEnd, I!TextInv, I!TypeOK
  <1>. QED  BY <1>4, <1>5, <1>6, <1>7, <1>8

LEMMA FilesTypeInit ==
  ASSUME I!Init
  PROVE  FilesIInv
  <1>1. FilesFacts
    BY SetupAssumption DEF I!InitFilesAssumption, FilesFacts
  <1>. QED
    BY <1>1, FilesInit, TextOf DEF I!Init, FilesIInv, I!TextInv, I!TypeOK, FilesFacts

LEMMA FilesTypeStutter ==
  ASSUME FilesIInv, UNCHANGED initVars
  PROVE  FilesIInv'
  BY FilesStutter DEF initVars, FilesIInv, I!TextInv, I!TypeOK

-----------------------------------------------------------------------------
(* The capabilities.                                                       *)

\* The cores are numbers, so no core is NoCore.
LEMMA CapFacts ==
    /\ Core \subseteq Nat /\ MaxCap \in Nat \ {0} /\ C!NoCore \notin Core /\ C!NoCore = -1
    /\ \A c \in Core : c # C!NoCore
  <1>1. C!CapabilitiesAssumption
    BY SetupAssumption
  <1>. QED  BY <1>1 DEF C!CapabilitiesAssumption, C!NoCore

\* A search that ends, ends at the first record with the name or with none.
LEMMA Search ==
  ASSUME NEW name, C!Hits(name) # {}
  PROVE  /\ C!Find(name) \in C!Hits(name) /\ C!Find(name) \in 1 .. MaxCap
         /\ caps[C!Find(name)].name \in {name, C!NULL}
  <1>1. C!Hits(name) \subseteq 1 .. MaxCap /\ C!Hits(name) \in SUBSET Nat
    BY CapFacts DEF C!Hits
  <1>2. PICK m \in C!Hits(name) : \A k \in C!Hits(name) : m <= k
    BY <1>1, Smallest
  <1>3. C!Find(name) \in C!Hits(name)
    BY <1>2 DEF C!Find
  <1>. QED  BY <1>1, <1>3 DEF C!Hits

\* A search depends on the names of the records only.
LEMMA SameSearch ==
  ASSUME \A i \in 1 .. MaxCap : caps'[i].name = caps[i].name
  PROVE  /\ \A name : C!Hits(name)' = C!Hits(name) /\ C!Find(name)' = C!Find(name)
         /\ \A name : C!Found(name) => C!Found(name)'
         /\ \A i \in 1 .. MaxCap : C!Find(caps[i].name)' = C!Find(caps[i].name)
  <1>1. ASSUME NEW name PROVE C!Hits(name)' = C!Hits(name) /\ C!Find(name)' = C!Find(name)
    <2>1. C!Hits(name)' = C!Hits(name)
      BY DEF C!Hits
    <2>. QED  BY <2>1 DEF C!Find
  <1>2. ASSUME NEW name, C!Found(name) PROVE C!Found(name)'
    <2>1. C!Hits(name) # {} /\ caps[C!Find(name)].name = name /\ C!Find(name) \in 1 .. MaxCap
      BY <1>2, Search DEF C!Found
    <2>. QED  BY <2>1, <1>1 DEF C!Found
  <1>3. ASSUME NEW i \in 1 .. MaxCap PROVE C!Find(caps[i].name)' = C!Find(caps[i].name)
    <2>1. C!Hits(caps[i].name)' = C!Hits(caps[i].name)
      BY DEF C!Hits
    <2>. QED  BY <2>1 DEF C!Find
  <1>. QED  BY <1>1, <1>2, <1>3

\* So a core keeps its target while its call stands.
LEMMA SameTarget ==
  ASSUME \A i \in 1 .. MaxCap : caps'[i].name = caps[i].name,
         NEW c \in Core, call'[c] = call[c]
  PROVE  /\ C!Target(c)' = C!Target(c)
         /\ C!Found(call[c].name) => C!Found(call[c].name)'
  <1>1. C!Hits(call[c].name)' = C!Hits(call[c].name)
    BY DEF C!Hits
  <1>2. C!Find(call[c].name)' = C!Find(call[c].name)
    BY <1>1 DEF C!Find
  <1>3. C!Target(c)' = C!Target(c)
    BY <1>2 DEF C!Target
  <1>4. ASSUME C!Found(call[c].name) PROVE C!Found(call[c].name)'
    <2>1. C!Hits(call[c].name) # {} /\ caps[C!Find(call[c].name)].name = call[c].name
      BY <1>4 DEF C!Found
    <2>2. C!Find(call[c].name) \in 1 .. MaxCap
      BY <2>1, Search
    <2>. QED  BY <1>1, <1>2, <2>1, <2>2 DEF C!Found
  <1>. QED  BY <1>3, <1>4

\* The fields of a record.
Capability(r) ==
    r = [name |-> r.name, begin |-> r.begin, end |-> r.end,
         IOperms |-> r.IOperms, core_number |-> r.core_number]

LEMMA IsCapability ==
  ASSUME C!RecordInv, NEW i \in 1 .. MaxCap
  PROVE  Capability(caps[i])
  BY DEF C!RecordInv, Capability

\* Records stay records when one of them is changed.
LEMMA ChangeRecord ==
  ASSUME C!RecordInv, NEW i \in 1 .. MaxCap, NEW r, Capability(r), caps' = [caps EXCEPT ![i] = r]
  PROVE  /\ caps' = [k \in 1 .. MaxCap |-> caps'[k]]
         /\ \A k \in 1 .. MaxCap : caps'[k] = IF k = i THEN r ELSE caps[k]
         /\ \A k \in 1 .. MaxCap :
              caps'[k] = [name |-> caps'[k].name, begin |-> caps'[k].begin, end |-> caps'[k].end,
                          IOperms |-> caps'[k].IOperms, core_number |-> caps'[k].core_number]
  BY DEF C!RecordInv, Capability

\* What the parser and the recorder write into a record.
LEMMA ChangeFields ==
  ASSUME NEW r, Capability(r), NEW b, NEW e, NEW x, NEW k, NEW s,
         \/ s = [r EXCEPT !.begin = b, !.end = e]
         \/ s = [r EXCEPT !.IOperms = x]
         \/ s = [r EXCEPT !.core_number = k]
         \/ s = [r EXCEPT !.begin = b, !.end = e, !.core_number = k]
  PROVE  Capability(s)
  <1>1. PICK n, bb, ee, xx, kk : r = [name |-> n, begin |-> bb, end |-> ee, IOperms |-> xx, core_number |-> kk]
    BY DEF Capability
  <1>2. CASE s = [r EXCEPT !.begin = b, !.end = e]
    BY ONLY <1>1, <1>2 DEF Capability
  <1>3. CASE s = [r EXCEPT !.IOperms = x]
    BY ONLY <1>1, <1>3 DEF Capability
  <1>4. CASE s = [r EXCEPT !.core_number = k]
    BY ONLY <1>1, <1>4 DEF Capability
  <1>5. CASE s = [r EXCEPT !.begin = b, !.end = e, !.core_number = k]
    BY ONLY <1>1, <1>5 DEF Capability
  <1>. QED  BY <1>2, <1>3, <1>4, <1>5

\* The assignments of one turn of the loop of init_capabilities_record.
RecordTurn ==
    caps' = [caps EXCEPT
        ![slot].begin = IF caps[slot].name = "framebuffer" THEN C!Framebuffer.begin ELSE @,
        ![slot].end = IF caps[slot].name = "framebuffer" THEN C!Framebuffer.end ELSE @,
        ![slot].core_number = C!NoCore]

LEMMA RecordTurns ==
  ASSUME C!RecordInv, slot \in 1 .. MaxCap, RecordTurn
  PROVE  /\ caps' = [k \in 1 .. MaxCap |-> caps'[k]]
         /\ \A k \in 1 .. MaxCap :
              caps'[k] = [name |-> caps'[k].name, begin |-> caps'[k].begin, end |-> caps'[k].end,
                          IOperms |-> caps'[k].IOperms, core_number |-> caps'[k].core_number]
         /\ \A k \in 1 .. MaxCap : k # slot => caps'[k] = caps[k]
         /\ caps'[slot].core_number = C!NoCore
  <1>1. Capability(caps[slot])
    BY DEF C!RecordInv, Capability
  <1>2. PICK b : b = IF caps[slot].name = "framebuffer" THEN C!Framebuffer.begin ELSE caps[slot].begin
    OBVIOUS
  <1>3. PICK e : e = IF caps[slot].name = "framebuffer" THEN C!Framebuffer.end ELSE caps[slot].end
    OBVIOUS
  <1>4. PICK r : r = [caps[slot] EXCEPT !.begin = b, !.end = e, !.core_number = C!NoCore]
    OBVIOUS
  <1>5. Capability(r)
    BY ONLY <1>1, <1>4, ChangeFields
  <1>7. r.core_number = C!NoCore
    BY ONLY <1>1, <1>4 DEF Capability
  <1>6. caps' = [caps EXCEPT ![slot] = r]
    BY <1>2, <1>3, <1>4 DEF RecordTurn, C!RecordInv
  <1>. QED  BY <1>5, <1>6, <1>7, ChangeRecord

\* While the records are set up no core makes a call.
LEMMA SetupRecords ==
  ASSUME C!CapInv,
         \/ C!get_section \/ C!ScanLine \/ C!BodyLine \/ C!ParseEnd
         \/ C!init_capabilities_record
  PROVE  C!RecordInv'
  <1>. USE CapFacts DEF C!CapInv, C!RecordInv, C!Running, C!coreVars
  <1>1. CASE C!get_section
    BY <1>1 DEF C!get_section
  <1>2. CASE C!ScanLine
    BY <1>2 DEF C!ScanLine
  <1>3. CASE C!BodyLine
    <2>1. /\ boot = "body" /\ boot' \in {"body", "panic"}
          /\ slot' = slot /\ at' = at /\ call' = call /\ held' = held
      BY <1>3 DEF C!BodyLine
    <2>2. CASE caps' = caps
      BY <2>1, <2>2
    <2>a. 1 \in 1 .. MaxCap
      BY ONLY CapFacts
    <2>b. C!RecordInv
      OBVIOUS
    <2>3. Capability(caps[1]) /\ 1 \in 1 .. MaxCap
      BY ONLY <2>a, <2>b, IsCapability
    <2>4. ASSUME NEW r, Capability(r), caps' = [caps EXCEPT ![1] = r] PROVE C!RecordInv'
      <3>1. /\ caps' = [k \in 1 .. MaxCap |-> caps'[k]]
            /\ \A k \in 1 .. MaxCap :
                 caps'[k] = [name |-> caps'[k].name, begin |-> caps'[k].begin, end |-> caps'[k].end,
                             IOperms |-> caps'[k].IOperms, core_number |-> caps'[k].core_number]
        BY <2>3, <2>4, ChangeRecord
      <3>. QED  BY <2>1, <3>1
    <2>5. CASE \E b, e : caps' = [caps EXCEPT ![1].begin = b, ![1].end = e]
      <3>1. PICK b, e : caps' = [caps EXCEPT ![1].begin = b, ![1].end = e]
        BY <2>5
      <3>2. PICK r : r = [caps[1] EXCEPT !.begin = b, !.end = e]
        OBVIOUS
      <3>3. caps' = [caps EXCEPT ![1] = r]
        BY <2>3, <3>1, <3>2
      <3>4. Capability(r)
        BY ONLY <2>3, <3>2, ChangeFields
      <3>. QED  BY ONLY <2>4, <3>3, <3>4
    <2>6. CASE \E x : caps' = [caps EXCEPT ![1].IOperms = x]
      <3>1. PICK x : caps' = [caps EXCEPT ![1].IOperms = x]
        BY <2>6
      <3>2. PICK r : r = [caps[1] EXCEPT !.IOperms = x]
        OBVIOUS
      <3>3. caps' = [caps EXCEPT ![1] = r]
        BY <2>3, <3>1, <3>2
      <3>4. Capability(r)
        BY ONLY <2>3, <3>2, ChangeFields
      <3>. QED  BY ONLY <2>4, <3>3, <3>4
    <2>7. CASE file[line].kind = "ADDRESS"
      BY <1>3, <2>5, <2>7 DEF C!BodyLine
    <2>8. CASE file[line].kind = "IOperms"
      BY <1>3, <2>6, <2>8 DEF C!BodyLine
    <2>9. CASE file[line].kind \notin {"ADDRESS", "IOperms"}
      BY <1>3, <2>2, <2>9 DEF C!BodyLine
    <2>. QED  BY <2>1, <2>7, <2>8, <2>9
  <1>4. CASE C!ParseEnd
    BY <1>4 DEF C!ParseEnd
  <1>5. CASE C!init_capabilities_record
    <2>1. boot = "record" /\ slot \in 1 .. MaxCap /\ UNCHANGED <<at, call, held>>
      BY <1>5 DEF C!init_capabilities_record
    <2>2. CASE boot' = "fault" /\ UNCHANGED caps
      BY <2>1, <2>2
    <2>3. CASE /\ RecordTurn /\ slot' = slot + 1
               /\ boot' = IF slot = MaxCap THEN "ready" ELSE boot
      <3>1. C!RecordInv
        OBVIOUS
      <3>2. /\ caps' = [k \in 1 .. MaxCap |-> caps'[k]]
            /\ \A k \in 1 .. MaxCap :
                 caps'[k] = [name |-> caps'[k].name, begin |-> caps'[k].begin, end |-> caps'[k].end,
                             IOperms |-> caps'[k].IOperms, core_number |-> caps'[k].core_number]
        BY ONLY <2>1, <2>3, <3>1, RecordTurns
      <3>3. /\ \A k \in 1 .. MaxCap : k # slot => caps'[k] = caps[k]
            /\ caps'[slot].core_number = C!NoCore
        BY ONLY <2>1, <2>3, <3>1, RecordTurns
      <3>4. ASSUME NEW k \in 1 .. slot PROVE caps'[k].core_number = C!NoCore
        <4>1. CASE k = slot
          BY ONLY <4>1, <3>3
        <4>2. CASE k \in 1 .. slot - 1
          <5>1. k \in 1 .. MaxCap /\ k # slot
            BY ONLY <2>1, <4>2, CapFacts
          <5>. QED  BY <2>1, <3>3, <4>2, <5>1
        <4>. QED  BY ONLY <2>1, <4>1, <4>2, CapFacts
      <3>5. slot' \in Nat /\ slot' - 1 = slot /\ boot' \in {"record", "ready"}
        BY <2>1, <2>3
      <3>6. boot' = "record" => slot' \in 1 .. MaxCap /\ \A k \in 1 .. slot' - 1 : caps'[k].core_number = C!NoCore
        BY <2>1, <2>3, <3>4
      <3>. QED  BY <2>1, <3>2, <3>5, <3>6
    <2>. QED  BY <1>5, <2>2, <2>3 DEF C!init_capabilities_record, RecordTurn
  <1>. QED  BY <1>1, <1>2, <1>3, <1>4, <1>5

\* A step of the set-up: the last one leaves every record to nobody.
LEMMA SetupCaps ==
  ASSUME C!CapInv,
         \/ C!get_section \/ C!ScanLine \/ C!BodyLine \/ C!ParseEnd
         \/ C!init_capabilities_record
  PROVE  C!CapInv'
  <1>1. C!RecordInv' /\ ~C!Running
    BY SetupRecords DEF C!Running, C!get_section, C!ScanLine, C!BodyLine, C!ParseEnd,
       C!init_capabilities_record
  <1>2. at' = at /\ held' = held /\ raced' = raced
    BY DEF C!get_section, C!ScanLine, C!BodyLine, C!ParseEnd, C!init_capabilities_record,
       C!coreVars
  <1>3. \A c \in Core : at'[c] = "user" /\ held'[c] = {}
    BY <1>1, <1>2 DEF C!CapInv, C!RecordInv
  <1>4. C!StoreInv' /\ C!HeldIsRecorded' /\ \A c \in Core : \A name \in held'[c] : C!Found(name)'
    BY <1>3 DEF C!StoreInv, C!Storing, C!HeldIsRecorded
  <1>5. ASSUME boot' = "ready" PROVE \A i \in 1 .. MaxCap : caps'[i].core_number = C!NoCore
    <2>1. boot = "record" /\ slot = MaxCap /\ RecordTurn
      BY <1>1, <1>5 DEF C!Running, C!get_section, C!ScanLine, C!BodyLine, C!ParseEnd,
         C!init_capabilities_record, RecordTurn
    <2>2. /\ \A k \in 1 .. MaxCap : k # slot => caps'[k] = caps[k]
          /\ caps'[slot].core_number = C!NoCore
      BY <2>1, CapFacts, RecordTurns DEF C!CapInv
    <2>3. \A k \in 1 .. slot - 1 : caps[k].core_number = C!NoCore
      BY <2>1 DEF C!CapInv, C!RecordInv
    <2>. QED  BY <2>1, <2>2, <2>3, CapFacts
  <1>6. C!RecordedHolds' /\ C!HoldInv'
    BY <1>4, <1>5, CapFacts DEF C!RecordedHolds, C!HoldInv
  <1>. QED  BY <1>1, <1>4, <1>6 DEF C!CapInv

\* A step of core c that changes no record and leaves it where it does not store.
LEMMA QuietCall ==
  ASSUME C!CapInv, NEW c \in Core, C!RecordInv',
         caps' = caps, held' = held, raced' = raced, boot' = boot, at'[c] # "store",
         \A d \in Core : d # c => at'[d] = at[d] /\ call'[d] = call[d]
  PROVE  C!CapInv'
  <1>. USE DEF C!CapInv
  <1>1. /\ \A name : C!Find(name)' = C!Find(name) /\ (C!Found(name) => C!Found(name)')
        /\ \A i \in 1 .. MaxCap : C!Find(caps[i].name)' = C!Find(caps[i].name)
    BY SameSearch
  <1>2. ASSUME NEW d \in Core, C!Storing(d)'
        PROVE  /\ C!Storing(d) /\ C!Target(d)' = C!Target(d) /\ call'[d] = call[d]
               /\ C!Found(call[d].name) => C!Found(call[d].name)'
    <2>1. d # c /\ at'[d] = at[d] /\ call'[d] = call[d]
      BY <1>2 DEF C!Storing
    <2>. QED  BY <1>2, <2>1, SameTarget DEF C!Storing
  <1>3. C!StoreInv'
    BY <1>2 DEF C!StoreInv
  <1>4. C!HoldInv'
    BY <1>1 DEF C!HoldInv
  <1>5. C!RecordedHolds' /\ C!HeldIsRecorded'
    BY <1>1 DEF C!RecordedHolds, C!HeldIsRecorded
  <1>. QED  BY <1>3, <1>4, <1>5

LEMMA StubCall ==
  ASSUME C!CapInv, NEW c \in Core, C!syscall_stub(c)
  PROVE  C!CapInv'
  <1>1. C!RecordInv'
    BY DEF C!CapInv, C!RecordInv, C!Running, C!syscall_stub, C!parseVars
  <1>2. /\ caps' = caps /\ held' = held /\ raced' = raced /\ boot' = boot /\ at'[c] # "store"
        /\ \A d \in Core : d # c => at'[d] = at[d] /\ call'[d] = call[d]
    BY DEF C!CapInv, C!RecordInv, C!syscall_stub, C!parseVars
  <1>. QED  BY <1>1, <1>2, QuietCall

\* syscall_handler answers at once, faults, or goes on to the store of a record
\* that passes its test.
LEMMA HandlerCall ==
  ASSUME C!CapInv, NEW c \in Core, C!syscall_handler(c)
  PROVE  C!CapInv'
  <1>. USE CapFacts
  <1>0. C!RecordInv /\ caps' = caps /\ held' = held /\ boot' = boot /\ slot' = slot
    BY DEF C!CapInv, C!syscall_handler, C!parseVars
  <1>a. \/ /\ at' = [at EXCEPT ![c] = "user"] /\ call' = [call EXCEPT ![c] = C!NoCall]
        \/ \E s \in {"fault", "store"} : at' = [at EXCEPT ![c] = s] /\ call' = call
    BY DEF C!syscall_handler, C!Sysret
  <1>b. C!NoCall \in [id : 0 .. 3, name : Wanted \cup {C!NULL}]
    BY DEF C!NoCall
  <1>c. /\ at' \in [Core -> {"user", "handler", "store", "fault"}]
        /\ call' \in [Core -> [id : 0 .. 3, name : Wanted \cup {C!NULL}]]
    <2>1. /\ at \in [Core -> {"user", "handler", "store", "fault"}]
          /\ call \in [Core -> [id : 0 .. 3, name : Wanted \cup {C!NULL}]]
      BY <1>0 DEF C!RecordInv
    <2>. QED  BY ONLY <1>a, <1>b, <2>1
  <1>d. C!Running
    BY <1>0 DEF C!RecordInv, C!syscall_handler
  <1>e. \A d \in Core : at'[d] # "user" => call'[d].name \in Wanted
    BY <1>0, <1>a DEF C!RecordInv, C!syscall_handler
  <1>1. C!RecordInv' /\ C!RecordInv
    BY <1>0, <1>c, <1>d, <1>e DEF C!RecordInv, C!Running
  <1>2. /\ caps' = caps /\ held' = held /\ boot' = boot /\ at[c] = "handler"
        /\ \A d \in Core : d # c => at'[d] = at[d] /\ call'[d] = call[d]
    BY <1>1 DEF C!RecordInv, C!syscall_handler, C!Sysret, C!parseVars
  <1>3. CASE at'[c] # "store"
    <2>1. raced' = raced
      BY <1>1, <1>3 DEF C!RecordInv, C!syscall_handler
    <2>. QED  BY <1>1, <1>2, <1>3, <2>1, QuietCall
  <1>4. CASE at'[c] = "store"
    <2>1. PICK i : i = C!Find(call[c].name)
      OBVIOUS
    <2>2. /\ call[c].id \in {1, 2} /\ C!Hits(call[c].name) # {} /\ caps[i].name # C!NULL
          /\ IF call[c].id = 1 THEN C!MayTake(i) ELSE caps[i].core_number = c
          /\ raced' = raced \cup {k \in {i} : \E d \in Core \ {c} :
                                    at[d] = "store" /\ C!Find(call[d].name) = k}
          /\ call' = call
      BY <1>1, <1>4, <2>1 DEF C!RecordInv, C!syscall_handler, C!Sysret
    <2>3. i \in 1 .. MaxCap /\ caps[i].name = call[c].name /\ C!Found(call[c].name) /\ C!Target(c) = i
      BY <2>1, <2>2, Search DEF C!Found, C!Target
    <2>4. /\ \A name : C!Find(name)' = C!Find(name) /\ (C!Found(name) => C!Found(name)')
          /\ \A k \in 1 .. MaxCap : C!Find(caps[k].name)' = C!Find(caps[k].name)
      BY <1>2, SameSearch
    <2>5. ASSUME NEW d \in Core
          PROVE  /\ C!Target(d)' = C!Target(d) /\ call'[d] = call[d]
                 /\ C!Found(call[d].name) => C!Found(call[d].name)'
      BY <1>2, <2>2, SameTarget
    <2>6. raced \subseteq raced'
      BY <2>2
    <2>7. \A d \in Core : C!Storing(d)' => d = c \/ C!Storing(d)
      BY <1>2 DEF C!Storing
    <2>8. \A d \in Core : d # c /\ C!Storing(d) /\ C!Target(d) = i => i \in raced'
      BY <2>2 DEF C!Storing, C!Target
    <2>9. \A d \in Core : C!Storing(d)' => C!Found(call[d].name)' /\ call'[d].id \in {1, 2}
      BY <2>2, <2>3, <2>5, <2>7 DEF C!CapInv, C!StoreInv
    <2>10. \A d, e \in Core :
              C!Storing(d)' /\ C!Storing(e)' /\ C!Target(d)' = C!Target(e)' /\ d # e => C!Target(d)' \in raced'
      BY <2>3, <2>5, <2>6, <2>7, <2>8 DEF C!CapInv, C!StoreInv
    <2>11. \A d \in Core : C!Storing(d)' /\ C!Target(d)' \notin raced' =>
              caps'[C!Target(d)'].core_number = IF call'[d].id = 1 THEN C!NoCore ELSE d
      BY <1>2, <2>2, <2>3, <2>5, <2>6, <2>7 DEF C!CapInv, C!StoreInv, C!MayTake
    <2>12. C!StoreInv'
      BY <2>9, <2>10, <2>11 DEF C!StoreInv
    <2>13. C!HoldInv'
      BY <1>2, <2>4 DEF C!CapInv, C!HoldInv
    <2>14. C!RecordedHolds' /\ C!HeldIsRecorded'
      BY <1>2, <2>4, <2>6 DEF C!CapInv, C!RecordedHolds, C!HeldIsRecorded
    <2>. QED  BY <1>1, <2>12, <2>13, <2>14 DEF C!CapInv
  <1>. QED  BY <1>3, <1>4

\* The store of core c into the record it found.
LEMMA StoreCall ==
  ASSUME C!CapInv, NEW c \in Core, C!Storing(c), NEW k, NEW own,
         caps' = [caps EXCEPT ![C!Find(call[c].name)].core_number = k],
         held' = [held EXCEPT ![c] = own], own \in SUBSET Wanted,
         C!Sysret(c), UNCHANGED <<C!parseVars, raced>>,
         \/ call[c].id = 1 /\ k = c /\ own = held[c] \cup {call[c].name}
         \/ call[c].id = 2 /\ k = C!NoCore /\ own = held[c] \ {call[c].name}
  PROVE  C!CapInv'
  <1>. USE CapFacts
  <1>0. C!RecordInv
    BY DEF C!CapInv
  <1>1. PICK t : t = C!Find(call[c].name)
    OBVIOUS
  <1>2. C!Found(call[c].name) /\ t \in 1 .. MaxCap /\ caps[t].name = call[c].name /\ C!Target(c) = t
    BY <1>1, Search DEF C!CapInv, C!StoreInv, C!Found, C!Target
  <1>3. PICK r : r = [caps[t] EXCEPT !.core_number = k]
    OBVIOUS
  <1>4. Capability(caps[t])
    BY <1>0, <1>2, IsCapability
  <1>5. Capability(r) /\ r.core_number = k /\ r.name = caps[t].name
    BY ONLY <1>3, <1>4 DEF Capability
  <1>6. caps' = [caps EXCEPT ![t] = r]
    BY <1>0, <1>1, <1>2, <1>3 DEF C!RecordInv
  <1>7. /\ caps' = [i \in 1 .. MaxCap |-> caps'[i]]
        /\ \A i \in 1 .. MaxCap :
             caps'[i] = [name |-> caps'[i].name, begin |-> caps'[i].begin, end |-> caps'[i].end,
                         IOperms |-> caps'[i].IOperms, core_number |-> caps'[i].core_number]
    BY <1>0, <1>2, <1>5, <1>6, ChangeRecord
  <1>8. \A i \in 1 .. MaxCap : caps'[i] = IF i = t THEN r ELSE caps[i]
    BY ONLY <1>0, <1>2, <1>5, <1>6, ChangeRecord
  <1>9. /\ \A i \in 1 .. MaxCap : caps'[i].name = caps[i].name
        /\ \A i \in 1 .. MaxCap : i # t => caps'[i].core_number = caps[i].core_number
        /\ caps'[t].core_number = k
    BY <1>2, <1>5, <1>8
  <1>10. /\ boot' = boot /\ slot' = slot /\ raced' = raced
         /\ at' = [at EXCEPT ![c] = "user"] /\ call' = [call EXCEPT ![c] = C!NoCall]
    BY DEF C!Sysret, C!parseVars
  <1>11. C!Running
    BY <1>0 DEF C!RecordInv, C!Storing
  <1>12. C!NoCall \in [id : 0 .. 3, name : Wanted \cup {C!NULL}]
    BY DEF C!NoCall
  <1>13. C!RecordInv'
    <2>1. /\ at' \in [Core -> {"user", "handler", "store", "fault"}]
          /\ call' \in [Core -> [id : 0 .. 3, name : Wanted \cup {C!NULL}]]
          /\ held' \in [Core -> SUBSET Wanted]
      BY <1>0, <1>10, <1>12 DEF C!RecordInv
    <2>2. \A d \in Core : at'[d] # "user" => call'[d].name \in Wanted
      BY <1>0, <1>10 DEF C!RecordInv
    <2>. QED  BY <1>0, <1>7, <1>9, <1>10, <1>11, <2>1, <2>2 DEF C!RecordInv, C!Running
  <1>14. /\ \A d \in Core : d # c => at'[d] = at[d] /\ call'[d] = call[d] /\ held'[d] = held[d]
         /\ at'[c] = "user" /\ held'[c] = own
    BY <1>0, <1>10 DEF C!RecordInv
  <1>15. /\ \A name : C!Find(name)' = C!Find(name) /\ (C!Found(name) => C!Found(name)')
         /\ \A i \in 1 .. MaxCap : C!Find(caps[i].name)' = C!Find(caps[i].name)
    BY <1>9, SameSearch
  <1>16. ASSUME NEW d \in Core, C!Storing(d)'
         PROVE  /\ d # c /\ C!Storing(d) /\ C!Target(d)' = C!Target(d) /\ call'[d] = call[d]
                /\ C!Found(call[d].name) => C!Found(call[d].name)'
    <2>1. d # c /\ at'[d] = at[d] /\ call'[d] = call[d]
      BY <1>16, <1>14 DEF C!Storing
    <2>. QED  BY <1>9, <1>16, <2>1, SameTarget DEF C!Storing
  <1>17. \A d \in Core : C!Storing(d) => C!Target(d) \in 1 .. MaxCap
    BY Search DEF C!CapInv, C!StoreInv, C!Found, C!Target
  <1>18. C!StoreInv'
    <2>1. \A d \in Core : C!Storing(d)' => C!Found(call[d].name)' /\ call'[d].id \in {1, 2}
      BY <1>16 DEF C!CapInv, C!StoreInv
    <2>2. \A d, e \in Core :
            C!Storing(d)' /\ C!Storing(e)' /\ C!Target(d)' = C!Target(e)' /\ d # e => C!Target(d)' \in raced'
      BY <1>10, <1>16 DEF C!CapInv, C!StoreInv
    <2>3. ASSUME NEW d \in Core, C!Storing(d)', C!Target(d)' \notin raced'
          PROVE  caps'[C!Target(d)'].core_number = IF call'[d].id = 1 THEN C!NoCore ELSE d
      <3>1. C!Target(d) # t
        BY <1>2, <1>10, <1>16, <2>3 DEF C!CapInv, C!StoreInv
      <3>2. caps'[C!Target(d)].core_number = caps[C!Target(d)].core_number
        BY <1>9, <1>16, <1>17, <2>3, <3>1
      <3>. QED  BY <1>10, <1>16, <2>3, <3>2 DEF C!CapInv, C!StoreInv
    <2>. QED  BY <2>1, <2>2, <2>3 DEF C!StoreInv
  <1>19. C!HoldInv'
    <2>1. \A d \in Core : \A name \in held'[d] : C!Found(name)'
      BY <1>2, <1>14, <1>15 DEF C!CapInv, C!HoldInv
    <2>2. ASSUME boot' = "ready", NEW i \in 1 .. MaxCap, caps'[i].core_number \in Core
          PROVE  i = C!Find(caps[i].name)'
      <3>1. i = C!Find(caps[i].name)
        BY <1>1, <1>2, <1>9, <1>10, <2>2 DEF C!CapInv, C!HoldInv
      <3>. QED  BY <3>1, <1>15
    <2>. QED  BY <2>1, <2>2 DEF C!HoldInv
  <1>20. C!RecordedHolds'
    <2>. SUFFICES ASSUME boot' = "ready", NEW i \in 1 .. MaxCap, NEW d \in Core,
                         caps'[i].name # C!NULL, caps'[i].core_number = d
                  PROVE  caps'[i].name \in held'[d]
      BY DEF C!RecordedHolds
    <2>1. CASE i = t
      BY <1>2, <1>9, <1>14, <2>1
    <2>2. CASE i # t
      <3>1. caps[i].core_number = d /\ caps[i].name \in held[d] /\ i = C!Find(caps[i].name)
        BY <1>9, <1>10, <2>2 DEF C!CapInv, C!RecordedHolds, C!HoldInv
      <3>2. caps[i].name # call[c].name
        BY <1>1, <2>2, <3>1
      <3>. QED  BY <1>9, <1>14, <3>1, <3>2
    <2>. QED  BY <2>1, <2>2
  <1>21. C!HeldIsRecorded'
    <2>. SUFFICES ASSUME NEW d \in Core, NEW name \in held'[d], C!Find(name) \notin raced
                  PROVE  caps'[C!Find(name)].core_number = d
      BY <1>10, <1>15 DEF C!HeldIsRecorded
    <2>1. C!Found(name) /\ C!Find(name) \in 1 .. MaxCap
      BY <1>2, <1>14, Search DEF C!CapInv, C!HoldInv, C!Found
    <2>2. CASE C!Find(name) = t
      <3>1. name = call[c].name
        BY <1>2, <2>1, <2>2 DEF C!Found
      <3>2. caps[t].core_number = IF call[c].id = 1 THEN C!NoCore ELSE c
        BY <1>2, <2>2 DEF C!CapInv, C!StoreInv
      <3>3. CASE d = c
        BY <1>9, <1>14, <2>2, <3>1, <3>3
      <3>4. CASE d # c
        BY <1>14, <2>2, <3>2, <3>4 DEF C!CapInv, C!HeldIsRecorded
      <3>. QED  BY <3>3, <3>4
    <2>3. CASE C!Find(name) # t
      BY <1>1, <1>9, <1>14, <2>1, <2>3 DEF C!CapInv, C!HeldIsRecorded
    <2>. QED  BY <2>2, <2>3
  <1>. QED  BY <1>13, <1>18, <1>19, <1>20, <1>21 DEF C!CapInv

\* Every step of a core, through a system call.
LEMMA CoreCaps ==
  ASSUME C!CapInv, NEW c \in Core, C!CoreStep(c)
  PROVE  C!CapInv'
  <1>1. CASE C!syscall_stub(c)
    BY <1>1, StubCall
  <1>2. CASE C!syscall_handler(c)
    BY <1>2, HandlerCall
  <1>3. C!RecordInv /\ (C!Storing(c) => call[c].name \in Wanted)
    BY DEF C!CapInv, C!RecordInv, C!Storing
  <1>4. CASE C!get_capability(c)
    <2>1. PICK own : own = held[c] \cup {call[c].name}
      OBVIOUS
    <2>2. /\ C!Storing(c) /\ call[c].id = 1
          /\ caps' = [caps EXCEPT ![C!Find(call[c].name)].core_number = c]
          /\ held' = [held EXCEPT ![c] = own]
          /\ C!Sysret(c) /\ UNCHANGED <<C!parseVars, raced>>
      BY <1>4, <2>1 DEF C!get_capability, C!Storing
    <2>3. own \in SUBSET Wanted
      BY <1>3, <2>1, <2>2 DEF C!RecordInv
    <2>. QED  BY <2>1, <2>2, <2>3, StoreCall
  <1>5. CASE C!release_capability(c)
    <2>1. PICK own : own = held[c] \ {call[c].name}
      OBVIOUS
    <2>2. /\ C!Storing(c) /\ call[c].id = 2
          /\ caps' = [caps EXCEPT ![C!Find(call[c].name)].core_number = C!NoCore]
          /\ held' = [held EXCEPT ![c] = own]
          /\ C!Sysret(c) /\ UNCHANGED <<C!parseVars, raced>>
      BY <1>5, <2>1 DEF C!release_capability, C!Storing
    <2>3. own \in SUBSET Wanted
      BY <1>3, <2>1 DEF C!RecordInv
    <2>. QED  BY <2>1, <2>2, <2>3, StoreCall
  <1>. QED  BY <1>1, <1>2, <1>4, <1>5 DEF C!CoreStep

LEMMA CapInit ==
  ASSUME C!Init
  PROVE  C!CapInv
  <1>. USE CapFacts DEF C!Init
  <1>a. C!NoCall \in [id : 0 .. 3, name : Wanted \cup {C!NULL}]
    BY DEF C!NoCall
  <1>b. /\ caps = [i \in 1 .. MaxCap |-> caps[i]]
        /\ \A i \in 1 .. MaxCap :
             caps[i] = [name |-> caps[i].name, begin |-> caps[i].begin, end |-> caps[i].end,
                        IOperms |-> caps[i].IOperms, core_number |-> caps[i].core_number]
        /\ \A i \in 1 .. MaxCap : caps[i].name = C!NULL
    OBVIOUS
  <1>c. /\ at \in [Core -> {"user", "handler", "store", "fault"}]
        /\ call \in [Core -> [id : 0 .. 3, name : Wanted \cup {C!NULL}]]
        /\ held \in [Core -> SUBSET Wanted]
    BY <1>a
  <1>1. C!RecordInv
    BY <1>b, <1>c DEF C!RecordInv, C!Running
  <1>2. C!StoreInv
    BY DEF C!StoreInv, C!Storing
  <1>3. C!HoldInv
    BY DEF C!HoldInv
  <1>4. C!RecordedHolds /\ C!HeldIsRecorded
    BY DEF C!RecordedHolds, C!HeldIsRecorded
  <1>. QED  BY <1>1, <1>2, <1>3, <1>4 DEF C!CapInv

LEMMA CapStutter ==
  ASSUME C!CapInv, UNCHANGED capVars
  PROVE  C!CapInv'
  <1>. USE DEF capVars, C!CapInv
  <1>1. C!RecordInv'
    BY DEF C!RecordInv, C!Running
  <1>2. /\ \A name : C!Find(name)' = C!Find(name) /\ (C!Found(name) => C!Found(name)')
        /\ \A i \in 1 .. MaxCap : C!Find(caps[i].name)' = C!Find(caps[i].name)
    BY SameSearch
  <1>3. \A c \in Core : C!Target(c)' = C!Target(c) /\ (C!Found(call[c].name) => C!Found(call[c].name)')
    BY SameTarget
  <1>4. C!StoreInv'
    BY <1>3 DEF C!StoreInv, C!Storing
  <1>5. C!HoldInv'
    BY <1>2 DEF C!HoldInv
  <1>6. C!RecordedHolds' /\ C!HeldIsRecorded'
    BY <1>2 DEF C!RecordedHolds, C!HeldIsRecorded
  <1>. QED  BY <1>1, <1>4, <1>5, <1>6

\* x % w is a word.
LEMMA InWord ==
  ASSUME NEW w \in Nat \ {0}, NEW x \in Int
  PROVE  x % w \in 0 .. w - 1
  OBVIOUS

\* A number that strtoul reads fits a word.
LEMMA NumberFits ==
  ASSUME NEW digits \in Seq(0 .. 15), Word \in Nat \ {0}
  PROVE  C!strtoul(digits) \in 0 .. Word - 1
  <1>. DEFINE n == Len(digits)
              V == 0 .. Word - 1
              Turn(i, x) == (x * 16 + digits[i]) % Word
              g == [s \in (1 .. n) \X V |-> Turn(s[1], s[2])]
              Value(f) == f = [i \in 0 .. n |-> IF i = 0 THEN 0 ELSE Turn(i, f[i - 1])]
              v == CHOOSE f : Value(f)
              S == {i \in 0 .. n : v[i] \in V}
  <1>1. n \in Nat /\ 0 \in V /\ \A i \in 1 .. n : digits[i] \in Int
    OBVIOUS
  <1>2. C!strtoul(digits) = v[n]
    BY DEF C!strtoul
  <1>. HIDE DEF n
  <1>3. ASSUME NEW i \in 1 .. n, NEW x \in V PROVE Turn(i, x) \in V
    <2>1. x * 16 + digits[i] \in Int
      BY <1>1
    <2>. QED  BY <2>1, InWord
  <1>. HIDE DEF Turn, V
  <1>4. g \in [(1 .. n) \X V -> V] /\ \A i \in 1 .. n, x \in V : g[<<i, x>>] = Turn(i, x)
    BY <1>3
  <1>5. PICK f : Iterates(f, n, V, 0, g)
    <2>. HIDE DEF g
    <2>. QED  BY <1>1, <1>4, Recur
  <1>6. Value(f)
    <2>1. ASSUME NEW i \in 1 .. n PROVE f[i] = Turn(i, f[i - 1])
      <3>. HIDE DEF g
      <3>1. i - 1 \in 0 .. n /\ i \in 1 .. n
        BY <1>1
      <3>2. f[i - 1] \in V
        BY <1>5, <3>1 DEF Iterates
      <3>3. f[i] = g[<<i, f[i - 1]>>]
        BY <1>5 DEF Iterates
      <3>. QED  BY <1>4, <3>2, <3>3
    <2>. HIDE DEF g
    <2>2. DOMAIN f = 0 .. n /\ f = [i \in 0 .. n |-> f[i]] /\ f[0] = 0
      BY <1>5 DEF Iterates
    <2>3. ASSUME NEW i \in 0 .. n PROVE f[i] = IF i = 0 THEN 0 ELSE Turn(i, f[i - 1])
      <3>1. CASE i = 0
        BY <2>2, <3>1
      <3>2. CASE i # 0
        <4>1. i \in 1 .. n
          BY <1>1, <3>2
        <4>. QED  BY <2>1, <3>2, <4>1
      <3>. QED  BY <3>1, <3>2
    <2>. QED  BY <2>2, <2>3
  <1>7. Value(v)
    BY <1>6
  <1>. HIDE DEF v
  <1>8. v[0] \in V /\ \A i \in 1 .. n : v[i] = Turn(i, v[i - 1])
    BY <1>1, <1>7
  <1>9. 0 \in S /\ \A i \in 1 .. n : i - 1 \in S => i \in S
    BY <1>1, <1>3, <1>8
  <1>10. n \in S
    <2>. HIDE DEF S
    <2>1. \A i \in 0 .. n : i \in S
      BY <1>1, <1>9, Induct
    <2>. QED  BY <1>1, <2>1
  <1>. QED  BY <1>2, <1>10 DEF V

\* What fits in the fields of a record.
Fits(r) ==
    /\ r.core_number \in Core \cup {C!NoCore, 0}
    /\ r.begin \in 0 .. Word - 1 /\ r.end \in 0 .. Word - 1
    /\ r.IOperms \subseteq {"r", "w"}

LEMMA FieldsFit ==
  ASSUME NEW r, Capability(r), Fits(r), NEW n, NEW b \in 0 .. Word - 1, NEW e \in 0 .. Word - 1,
         NEW x, x \subseteq {"r", "w"}, NEW k \in Core \cup {C!NoCore, 0}, NEW s,
         \/ s = [r EXCEPT !.name = n]
         \/ s = [r EXCEPT !.begin = b, !.end = e]
         \/ s = [r EXCEPT !.IOperms = x]
         \/ s = [r EXCEPT !.core_number = k]
         \/ s = [r EXCEPT !.begin = b, !.end = e, !.core_number = k]
  PROVE  Fits(s)
  <1>1. PICK nn, bb, ee, xx, kk : r = [name |-> nn, begin |-> bb, end |-> ee, IOperms |-> xx, core_number |-> kk]
    BY DEF Capability
  <1>2. /\ kk \in Core \cup {C!NoCore, 0} /\ bb \in 0 .. Word - 1 /\ ee \in 0 .. Word - 1
        /\ xx \subseteq {"r", "w"}
    BY <1>1 DEF Fits
  <1>3. CASE s = [r EXCEPT !.name = n]
    <2>1. s = [name |-> n, begin |-> bb, end |-> ee, IOperms |-> xx, core_number |-> kk]
      BY ONLY <1>1, <1>3
    <2>. QED  BY <1>2, <2>1 DEF Fits
  <1>4. CASE s = [r EXCEPT !.begin = b, !.end = e]
    <2>1. s = [name |-> nn, begin |-> b, end |-> e, IOperms |-> xx, core_number |-> kk]
      BY ONLY <1>1, <1>4
    <2>. QED  BY <1>2, <2>1 DEF Fits
  <1>5. CASE s = [r EXCEPT !.IOperms = x]
    <2>1. s = [name |-> nn, begin |-> bb, end |-> ee, IOperms |-> x, core_number |-> kk]
      BY ONLY <1>1, <1>5
    <2>. QED  BY <1>2, <2>1 DEF Fits
  <1>6. CASE s = [r EXCEPT !.core_number = k]
    <2>1. s = [name |-> nn, begin |-> bb, end |-> ee, IOperms |-> xx, core_number |-> k]
      BY ONLY <1>1, <1>6
    <2>. QED  BY <1>2, <2>1 DEF Fits
  <1>7. CASE s = [r EXCEPT !.begin = b, !.end = e, !.core_number = k]
    <2>1. s = [name |-> nn, begin |-> b, end |-> e, IOperms |-> xx, core_number |-> k]
      BY ONLY <1>1, <1>7
    <2>. QED  BY <1>2, <2>1 DEF Fits
  <1>. QED  BY <1>3, <1>4, <1>5, <1>6, <1>7

\* A file has a line, and its words are those of the lexer.
LEMMA FileFacts ==
    /\ Word \in Nat \ 0 .. 6
    /\ \A f \in Files :
        /\ Len(f) \in Nat \ {0}
        /\ \A k \in 1 .. Len(f) :
            /\ f[k].kind = "ADDRESS" => f[k].begin \in Seq(0 .. 15) /\ f[k].end \in Seq(0 .. 15)
            /\ f[k].kind = "IOperms" => f[k].perms \subseteq {"r", "w"}
  BY SetupAssumption DEF C!CapabilitiesAssumption, C!Framebuffer

\* The walk of the parser stays in the section, the loop of the recorder in the record.
LEMMA WalkFits ==
  ASSUME CapIInv,
         \/ C!get_section \/ C!ScanLine \/ C!BodyLine \/ C!ParseEnd
         \/ C!init_capabilities_record
  PROVE  /\ boot' \in {"none", "section", "scan", "body", "record", "ready", "panic", "fault"}
         /\ line' \in 1 .. Len(file') /\ last' \in 0 .. Len(file') - 1
         /\ slot' \in 1 .. MaxCap + 1 /\ file' = file /\ raced' = raced
  <1>. USE FileFacts, CapFacts DEF CapIInv, C!TypeOK, C!coreVars
  <1>1. CASE C!get_section
    <2>1. CASE UNCHANGED <<line, last>> /\ boot' = "panic"
      BY <1>1, <2>1 DEF C!get_section
    <2>2. CASE ~(UNCHANGED <<line, last>> /\ boot' = "panic")
      <3>1. /\ Len(file) \in Nat /\ C!Ends # {} /\ boot' = "scan" /\ line' = 2
            /\ last' = (CHOOSE i \in C!Ends : \A j \in C!Ends : i <= j) - 1
        BY <1>1, <2>2 DEF C!get_section
      <3>2. C!Ends \in SUBSET Nat /\ C!Ends \subseteq 3 .. Len(file)
        BY DEF C!Ends
      <3>3. \E i \in C!Ends : \A j \in C!Ends : i <= j
        BY <3>1, <3>2, Smallest
      <3>4. PICK m \in 3 .. Len(file) : last' = m - 1
        BY <3>1, <3>2, <3>3
      <3>. QED  BY <1>1, <3>1, <3>4 DEF C!get_section
    <2>. QED  BY <2>1, <2>2
  <1>. DEFINE places == /\ boot \in {"none", "section", "scan", "body", "record", "ready",
                                    "panic", "fault"}
                        /\ line \in 1 .. Len(file) /\ last \in 0 .. Len(file) - 1
                        /\ slot \in 1 .. MaxCap + 1
  <1>0. places /\ Len(file) \in Nat \ {0} /\ MaxCap \in Nat \ {0}
    OBVIOUS
  <1>2. CASE C!ScanLine
    <2>1. /\ boot' \in {boot, "body"} /\ line <= last /\ line' = line + 1
          /\ file' = file /\ last' = last /\ slot' = slot /\ raced' = raced
      BY ONLY <1>2 DEF C!ScanLine, C!coreVars
    <2>. QED  BY ONLY <1>0, <2>1
  <1>3. CASE C!BodyLine
    <2>1. /\ boot' \in {boot, "panic"} /\ line <= last /\ line' = line + 1
          /\ file' = file /\ last' = last /\ slot' = slot /\ raced' = raced
      BY ONLY <1>3 DEF C!BodyLine, C!coreVars
    <2>. QED  BY ONLY <1>0, <2>1
  <1>4. CASE C!ParseEnd
    <2>1. /\ boot' = "record" /\ line' = line
          /\ file' = file /\ last' = last /\ slot' = slot /\ raced' = raced
      BY ONLY <1>4 DEF C!ParseEnd, C!coreVars
    <2>. QED  BY ONLY <1>0, <2>1
  <1>5. CASE C!init_capabilities_record
    <2>1. slot \in 1 .. MaxCap
      BY <1>5 DEF C!init_capabilities_record, C!CapInv, C!RecordInv
    <2>2. /\ boot' \in {boot, "fault", "ready"} /\ slot' \in {slot, slot + 1} /\ line' = line
          /\ file' = file /\ last' = last /\ raced' = raced
      BY ONLY <1>5 DEF C!init_capabilities_record, C!coreVars
    <2>. QED  BY ONLY <1>0, <2>1, <2>2
  <1>. QED  BY <1>1, <1>2, <1>3, <1>4, <1>5

\* What the parser and the recorder write fits.
LEMMA RecordsFit ==
  ASSUME CapIInv,
         \/ C!get_section \/ C!ScanLine \/ C!BodyLine \/ C!ParseEnd
         \/ C!init_capabilities_record
  PROVE  \A i \in 1 .. MaxCap : Fits(caps'[i])
  <1>1. /\ \A i \in 1 .. MaxCap : Fits(caps[i]) /\ Capability(caps[i])
        /\ caps = [i \in 1 .. MaxCap |-> caps[i]]
    BY IsCapability DEF CapIInv, C!CapInv, C!TypeOK, Fits, C!RecordInv
  <1>2. ASSUME NEW i \in 1 .. MaxCap, NEW r, Fits(r), caps' = [caps EXCEPT ![i] = r]
        PROVE  \A k \in 1 .. MaxCap : Fits(caps'[k])
    <2>1. \A k \in 1 .. MaxCap : caps'[k] = IF k = i THEN r ELSE caps[k]
      BY <1>1, <1>2
    <2>. QED  BY <1>1, <1>2, <2>1
  <1>3. 1 \in 1 .. MaxCap
    BY CapFacts
  <1>4. CASE caps' = caps
    BY <1>1, <1>4
  <1>5. CASE C!ScanLine /\ file[line].kind = "CAPABILITY"
    <2>1. PICK n : caps' = [caps EXCEPT ![1].name = n]
      BY <1>5 DEF C!ScanLine
    <2>2. PICK r : r = [caps[1] EXCEPT !.name = n]
      OBVIOUS
    <2>3. caps' = [caps EXCEPT ![1] = r]
      BY <2>1, <2>2
    <2>4. Fits(r)
      <3>1. 0 \in 0 .. Word - 1
        BY FileFacts
      <3>. QED  BY <1>1, <1>3, <2>2, <3>1, FieldsFit
    <2>. QED  BY <1>2, <1>3, <2>3, <2>4
  <1>6. CASE C!BodyLine
    <2>1. file \in Files /\ line \in 1 .. Len(file)
      BY DEF CapIInv, C!TypeOK
    <2>2. CASE file[line].kind = "ADDRESS"
      <3>1. PICK b \in 0 .. Word - 1, e \in 0 .. Word - 1 :
                caps' = [caps EXCEPT ![1].begin = b, ![1].end = e]
        <4>1. caps' = [caps EXCEPT ![1].begin = C!strtoul(file[line].begin),
                                   ![1].end = C!strtoul(file[line].end)]
          BY <1>6, <2>2 DEF C!BodyLine
        <4>2. /\ file[line].begin \in Seq(0 .. 15) /\ file[line].end \in Seq(0 .. 15)
              /\ Word \in Nat \ {0}
          BY <2>1, <2>2, FileFacts
        <4>3. /\ C!strtoul(file[line].begin) \in 0 .. Word - 1
              /\ C!strtoul(file[line].end) \in 0 .. Word - 1
          BY <4>2, NumberFits
        <4>. QED  BY ONLY <4>1, <4>3
      <3>2. PICK r : r = [caps[1] EXCEPT !.begin = b, !.end = e]
        OBVIOUS
      <3>3. caps' = [caps EXCEPT ![1] = r]
        BY <3>1, <3>2
      <3>4. Fits(r)
        BY <1>1, <1>3, <3>2, FieldsFit
      <3>. QED  BY <1>2, <1>3, <3>3, <3>4
    <2>3. CASE file[line].kind = "IOperms"
      <3>1. PICK x : /\ x = IF file[line].perms = {} THEN caps[1].IOperms ELSE file[line].perms
                     /\ caps' = [caps EXCEPT ![1].IOperms = x]
        BY <1>6, <2>3 DEF C!BodyLine
      <3>2. x \subseteq {"r", "w"}
        BY <1>1, <1>3, <2>1, <2>3, <3>1, FileFacts DEF Fits
      <3>3. PICK r : r = [caps[1] EXCEPT !.IOperms = x]
        OBVIOUS
      <3>4. caps' = [caps EXCEPT ![1] = r]
        BY <3>1, <3>3
      <3>5. Fits(r)
        <4>1. 0 \in 0 .. Word - 1
          BY FileFacts
        <4>. QED  BY <1>1, <1>3, <3>2, <3>3, <4>1, FieldsFit
      <3>. QED  BY <1>2, <1>3, <3>4, <3>5
    <2>4. CASE file[line].kind \notin {"ADDRESS", "IOperms"}
      BY <1>4, <1>6, <2>4 DEF C!BodyLine
    <2>. QED  BY <2>2, <2>3, <2>4
  <1>7. CASE boot = "record" /\ RecordTurn
    <2>1. slot \in 1 .. MaxCap
      BY <1>7 DEF CapIInv, C!CapInv, C!RecordInv
    <2>2. PICK b \in 0 .. Word - 1 :
             b = IF caps[slot].name = "framebuffer" THEN C!Framebuffer.begin ELSE caps[slot].begin
      BY <1>1, <2>1, FileFacts DEF Fits, C!Framebuffer
    <2>3. PICK e \in 0 .. Word - 1 :
             e = IF caps[slot].name = "framebuffer" THEN C!Framebuffer.end ELSE caps[slot].end
      BY <1>1, <2>1, FileFacts DEF Fits, C!Framebuffer
    <2>4. PICK r : r = [caps[slot] EXCEPT !.begin = b, !.end = e, !.core_number = C!NoCore]
      OBVIOUS
    <2>5. caps' = [caps EXCEPT ![slot] = r]
      BY <1>7, <2>1, <2>2, <2>3, <2>4 DEF RecordTurn, CapIInv, C!CapInv, C!RecordInv
    <2>6. Fits(r)
      BY <1>1, <2>1, <2>4, FieldsFit
    <2>. QED  BY <1>2, <2>1, <2>5, <2>6
  <1>8. CASE C!init_capabilities_record
    BY <1>4, <1>7, <1>8 DEF C!init_capabilities_record, RecordTurn
  <1>9. CASE C!get_section \/ C!ParseEnd \/ (C!ScanLine /\ file[line].kind # "CAPABILITY")
    BY <1>4, <1>9 DEF C!get_section, C!ParseEnd, C!ScanLine
  <1>. QED  BY <1>5, <1>6, <1>8, <1>9

LEMMA SetupType ==
  ASSUME CapIInv,
         \/ C!get_section \/ C!ScanLine \/ C!BodyLine \/ C!ParseEnd
         \/ C!init_capabilities_record
  PROVE  CapIInv'
  <1>1. C!CapInv'
    BY SetupCaps DEF CapIInv
  <1>2. C!TypeOK'
    <2>1. at' \in [Core -> {"user", "handler", "store", "fault"}] /\ held' \in [Core -> SUBSET Wanted]
      BY <1>1 DEF C!CapInv, C!RecordInv
    <2>2. raced \subseteq 1 .. MaxCap
      BY DEF CapIInv, C!TypeOK
    <2>3. \A i \in 1 .. MaxCap : Fits(caps'[i])
      BY RecordsFit
    <2>. QED  BY WalkFits, <2>1, <2>2, <2>3 DEF C!TypeOK, Fits
  <1>. QED  BY <1>1, <1>2, WalkFits DEF CapIInv

\* A system call writes a core or nobody into a record that there is.
LEMMA CoreType ==
  ASSUME CapIInv, NEW c \in Core, C!CoreStep(c)
  PROVE  CapIInv'
  <1>1. C!CapInv'
    BY CoreCaps DEF CapIInv
  <1>2. UNCHANGED <<file, boot, line, last, slot>>
    BY DEF C!CoreStep, C!syscall_stub, C!syscall_handler, C!get_capability,
       C!release_capability, C!parseVars
  <1>3. raced' \subseteq 1 .. MaxCap
    <2>1. raced \subseteq 1 .. MaxCap
      BY DEF CapIInv, C!TypeOK
    <2>2. CASE raced' = raced
      BY <2>1, <2>2
    <2>3. CASE raced' # raced
      <3>1. /\ C!Hits(call[c].name) # {}
            /\ raced' \subseteq raced \cup {C!Find(call[c].name)}
        BY <2>3 DEF C!CoreStep, C!syscall_stub, C!syscall_handler, C!get_capability,
           C!release_capability
      <3>. QED  BY <2>1, <3>1, Search
    <2>. QED  BY <2>2, <2>3
  <1>4. \A i \in 1 .. MaxCap : Fits(caps'[i])
    <2>1. /\ \A i \in 1 .. MaxCap : Fits(caps[i]) /\ Capability(caps[i])
          /\ caps = [i \in 1 .. MaxCap |-> caps[i]]
      BY IsCapability DEF CapIInv, C!CapInv, C!TypeOK, Fits, C!RecordInv
    <2>2. CASE caps' = caps
      BY <2>1, <2>2
    <2>3. CASE caps' # caps
      <3>1. PICK k \in Core \cup {C!NoCore, 0} :
               C!Storing(c) /\ caps' = [caps EXCEPT ![C!Find(call[c].name)].core_number = k]
        BY <2>3 DEF C!CoreStep, C!syscall_stub, C!syscall_handler, C!get_capability,
           C!release_capability, C!Storing
      <3>2. PICK t \in 1 .. MaxCap : t = C!Find(call[c].name)
        BY <3>1, Search DEF CapIInv, C!CapInv, C!StoreInv, C!Found
      <3>3. PICK r : r = [caps[t] EXCEPT !.core_number = k]
        OBVIOUS
      <3>4. caps' = [caps EXCEPT ![t] = r]
        BY <3>1, <3>2, <3>3
      <3>5. Fits(r)
        <4>1. 0 \in 0 .. Word - 1
          BY FileFacts
        <4>. QED  BY <2>1, <3>3, <4>1, FieldsFit
      <3>6. \A i \in 1 .. MaxCap : caps'[i] = IF i = t THEN r ELSE caps[i]
        BY ONLY <2>1, <3>4
      <3>. QED  BY <2>1, <3>5, <3>6
    <2>. QED  BY <2>2, <2>3
  <1>5. C!TypeOK'
    BY <1>1, <1>2, <1>3, <1>4 DEF CapIInv, C!TypeOK, C!CapInv, C!RecordInv, Fits
  <1>. QED  BY <1>1, <1>2, <1>5 DEF CapIInv

LEMMA CapTypeInit ==
  ASSUME C!Init
  PROVE  CapIInv
  <1>1. C!CapInv /\ file \in Files
    BY CapInit DEF C!Init
  <1>2. C!TypeOK
    BY <1>1, FileFacts, CapFacts DEF C!Init, C!TypeOK
  <1>. QED  BY <1>1, <1>2 DEF CapIInv

LEMMA CapTypeStutter ==
  ASSUME CapIInv, UNCHANGED capVars
  PROVE  CapIInv'
  BY CapStutter DEF capVars, CapIInv, C!TypeOK

-----------------------------------------------------------------------------
(* The entries of the MADT.                                                *)

\* The recursion of Picked.
LEMMA PickedStep ==
  ASSUME NEW m, Len(m) \in Nat, NEW ks
  PROVE  /\ F!Picked(m, ks, 0) = <<>>
         /\ \A k \in 1 .. Len(m) :
              F!Picked(m, ks, k) = IF k \in ks THEN Append(F!Picked(m, ks, k - 1), m[k])
                                   ELSE F!Picked(m, ks, k - 1)
  <1>. DEFINE n == Len(m)
              V == Seq({m[k] : k \in 1 .. n})
              g == [x \in (1 .. n) \X V |-> IF x[1] \in ks THEN Append(x[2], m[x[1]]) ELSE x[2]]
              Value(f) == f = [k \in 0 .. n |->
                                 IF k = 0 THEN <<>>
                                 ELSE IF k \in ks THEN Append(f[k - 1], m[k]) ELSE f[k - 1]]
              v == CHOOSE f : Value(f)
  <1>1. \A k : F!Picked(m, ks, k) = v[k]
    BY DEF F!Picked
  <1>2. n \in Nat /\ <<>> \in V /\ \A x \in V, k \in 1 .. n : Append(x, m[k]) \in V
    OBVIOUS
  <1>. HIDE DEF n, V
  <1>3. /\ g \in [(1 .. n) \X V -> V]
        /\ \A k \in 1 .. n, x \in V : g[<<k, x>>] = IF k \in ks THEN Append(x, m[k]) ELSE x
    BY <1>2
  <1>. HIDE DEF g
  <1>4. PICK f : Iterates(f, n, V, <<>>, g)
    BY <1>2, <1>3, Recur
  <1>5. Value(f)
    <2>1. f \in [0 .. n -> V] /\ f[0] = <<>> /\ \A k \in 1 .. n : f[k] = g[<<k, f[k - 1]>>]
      BY <1>4 DEF Iterates
    <2>2. ASSUME NEW k \in 0 .. n
          PROVE  f[k] = IF k = 0 THEN <<>>
                        ELSE IF k \in ks THEN Append(f[k - 1], m[k]) ELSE f[k - 1]
      <3>1. CASE k = 0
        BY <2>1, <3>1
      <3>2. CASE k # 0
        <4>1. k \in 1 .. n /\ k - 1 \in 0 .. n
          BY <1>2, <3>2
        <4>2. f[k - 1] \in V
          BY <2>1, <4>1
        <4>. QED  BY <1>3, <2>1, <3>2, <4>1, <4>2
      <3>. QED  BY <3>1, <3>2
    <2>. QED  BY <2>1, <2>2
  <1>6. Value(v)
    BY <1>5
  <1>. HIDE DEF v
  <1>7. v[0] = <<>>
    BY <1>2, <1>6
  <1>8. ASSUME NEW k \in 1 .. n
        PROVE  v[k] = IF k \in ks THEN Append(v[k - 1], m[k]) ELSE v[k - 1]
    <2>1. k \in 0 .. n /\ k # 0
      BY <1>2
    <2>. QED  BY <1>6, <2>1
  <1>. QED  BY <1>1, <1>7, <1>8 DEF n

\* The lists of apic_info are those of the entries that the walk has passed, and the
\* walk is over when the table of the MADT is.
MadtInv ==
    /\ info.lapics = F!Picked(madt, F!EnabledPlaces(madt), entry - 1)
    /\ info.ovrs = F!Picked(madt, F!TypePlaces(madt, "override"), entry - 1)
    /\ info.nmis = F!Picked(madt, F!TypePlaces(madt, "nmi"), entry - 1)
    /\ \A k \in F!Tables(root, "APIC") : k < pos => entry > Len(madt)
    /\ step[0] \in F!SettingUp => entry > Len(madt)

\* No entry is behind the walk, and the lists are empty.
LEMMA MadtInit ==
  ASSUME F!Init
  PROVE  MadtInv
  <1>1. /\ entry = 1 /\ pos = 1 /\ step[0] = "rsdp" /\ madt \in Madts /\ root \in Roots
        /\ info = [lapics |-> <<>>, ovrs |-> <<>>, nmis |-> <<>>, base |-> 0, address |-> 0]
    BY DEF F!Init, F!Cores
  <1>2. Len(madt) \in Nat /\ entry - 1 = 0
    BY <1>1, TableFacts
  <1>3. \A ks : F!Picked(madt, ks, 0) = <<>>
    BY <1>2, PickedStep
  <1>4. \A k \in F!Tables(root, "APIC") : ~(k < pos)
    BY <1>1, TableFacts DEF F!Tables
  <1>5. step[0] \notin F!SettingUp
    BY <1>1 DEF F!SettingUp
  <1>. QED  BY <1>1, <1>2, <1>3, <1>4, <1>5 DEF MadtInv

\* An entry goes to its list, and to no other.
LEMMA EntryRecords ==
  ASSUME MadtInv, FirmwareIInv, entry <= Len(madt)
  PROVE  LET i == F!Entry(info, madt[entry])
         IN  /\ i.lapics = F!Picked(madt, F!EnabledPlaces(madt), entry)
             /\ i.ovrs = F!Picked(madt, F!TypePlaces(madt, "override"), entry)
             /\ i.nmis = F!Picked(madt, F!TypePlaces(madt, "nmi"), entry)
  <1>1. Len(madt) \in Nat /\ entry \in 1 .. Len(madt)
        /\ DOMAIN info = {"lapics", "ovrs", "nmis", "base", "address"}
    <2>1. madt \in Madts /\ entry \in 1 .. Len(madt) + 1
      BY DEF FirmwareIInv, F!InfoInv, F!TypeOK
    <2>2. Len(madt) \in Nat
      BY <2>1, TableFacts
    <2>3. entry \in 1 .. Len(madt)
      BY <2>1, <2>2
    <2>4. DOMAIN info = {"lapics", "ovrs", "nmis", "base", "address"}
      BY DEF FirmwareIInv, F!InfoInv, F!TypeOK
    <2>. QED  BY <2>2, <2>3, <2>4
  <1>2. PICK e : e = madt[entry]
    OBVIOUS
  <1>3. \A ks : F!Picked(madt, ks, entry) = IF entry \in ks THEN Append(F!Picked(madt, ks, entry - 1), e)
                                            ELSE F!Picked(madt, ks, entry - 1)
    <2>. TAKE ks
    <2>1. \A k \in 1 .. Len(madt) :
            F!Picked(madt, ks, k) = IF k \in ks THEN Append(F!Picked(madt, ks, k - 1), madt[k])
                                    ELSE F!Picked(madt, ks, k - 1)
      <3>1. Len(madt) \in Nat
        BY <1>1
      <3>. QED  BY <3>1, PickedStep, ZenonT(30)
    <2>2. entry \in 1 .. Len(madt)
      BY <1>1
    <2>. QED  BY ONLY <1>2, <2>1, <2>2
  <1>4. /\ entry \in F!EnabledPlaces(madt) <=> e.type = "lapic" /\ e.b = 1
        /\ \A type : entry \in F!TypePlaces(madt, type) <=> e.type = type
    BY <1>1, <1>2 DEF F!EnabledPlaces, F!TypePlaces
  <1>5. /\ info.lapics = F!Picked(madt, F!EnabledPlaces(madt), entry - 1)
        /\ info.ovrs = F!Picked(madt, F!TypePlaces(madt, "override"), entry - 1)
        /\ info.nmis = F!Picked(madt, F!TypePlaces(madt, "nmi"), entry - 1)
    BY DEF MadtInv
  <1>6. /\ F!Entry(info, e).lapics = IF e.type = "lapic" /\ e.b = 1 THEN Append(info.lapics, e) ELSE info.lapics
        /\ F!Entry(info, e).ovrs = IF e.type = "override" THEN Append(info.ovrs, e) ELSE info.ovrs
        /\ F!Entry(info, e).nmis = IF e.type = "nmi" THEN Append(info.nmis, e) ELSE info.nmis
    <2>1. CASE e.type = "lapic"
      <3>1. F!Entry(info, e) = IF e.b = 1 THEN [info EXCEPT !.lapics = Append(info.lapics, e)] ELSE info
        BY <2>1 DEF F!Entry
      <3>. QED  BY <1>1, <2>1, <3>1
    <2>2. CASE e.type = "override"
      <3>1. F!Entry(info, e) = [info EXCEPT !.ovrs = Append(info.ovrs, e)]
        BY <2>2 DEF F!Entry
      <3>. QED  BY <1>1, <2>2, <3>1
    <2>3. CASE e.type = "nmi"
      <3>1. F!Entry(info, e) = [info EXCEPT !.nmis = Append(info.nmis, e)]
        BY <2>3 DEF F!Entry
      <3>. QED  BY <1>1, <2>3, <3>1
    <2>4. CASE e.type \notin {"lapic", "override", "nmi"}
      <3>1. \E x : F!Entry(info, e) \in {info, [info EXCEPT !.base = x], [info EXCEPT !.address = x]}
        BY <2>4 DEF F!Entry
      <3>. QED  BY <1>1, <2>4, <3>1
    <2>. QED  BY <2>1, <2>2, <2>3, <2>4
  <1>. QED  BY <1>2, <1>3, <1>4, <1>5, <1>6

\* parse_MADT is the only step that touches the lists, and the tables end only behind the
\* MADT, which the walk leaves when it has passed its last entry.
LEMMA MadtStep ==
  ASSUME MadtInv, FirmwareIInv, F!BootStep \/ F!Tick \/ \E c \in Core : F!CoreStep(c)
  PROVE  MadtInv'
  <1>. USE DEF F!tables, F!parsed, F!devices
  <1>0. /\ root \in Roots /\ Len(root) \in Nat /\ pos \in 1 .. Len(root) + 1
        /\ madt \in Madts /\ Len(madt) \in Nat /\ entry \in 1 .. Len(madt) + 1
        /\ step \in [F!Cores -> F!Reading \cup F!SettingUp \cup {"down", "map"}]
        /\ 0 \in F!Cores
    BY TableFacts DEF FirmwareIInv, F!FirmwareInv, F!MapsInv, F!InfoInv, F!TypeOK, F!StepInv, F!Cores
  <1>1. CASE F!parse_MADT
    <2>0. step[0] = "madt" /\ UNCHANGED <<root, madt>> /\ step'[0] \in {"madt", "rsdt"}
      BY <1>0, <1>1 DEF F!parse_MADT, F!Go
    <2>1. step'[0] \notin F!SettingUp
      BY <2>0 DEF F!SettingUp
    <2>2. CASE entry <= Len(madt)
      <3>1. info' = F!Entry(info, madt[entry]) /\ entry' = entry + 1 /\ pos' = pos
        BY <1>1, <2>2 DEF F!parse_MADT, F!NextEntry
      <3>2. entry' - 1 = entry
        BY <1>0, <3>1
      <3>3. \A k \in F!Tables(root, "APIC") : ~(k < pos)
        BY <1>0, <2>2 DEF MadtInv
      <3>4. F!Tables(root, "APIC")' = F!Tables(root, "APIC")
        BY <2>0 DEF F!Tables
      <3>. QED  BY <2>0, <2>1, <2>2, <3>1, <3>2, <3>3, <3>4, EntryRecords DEF MadtInv, F!EnabledPlaces, F!TypePlaces
    <2>3. CASE ~(entry <= Len(madt))
      <3>1. info' = info /\ entry' = entry
        BY <1>1, <2>3 DEF F!parse_MADT
      <3>2. entry > Len(madt)
        BY <1>0, <2>3
      <3>. QED  BY <2>0, <3>1, <3>2 DEF MadtInv
    <2>. QED  BY <2>2, <2>3
  <1>2. ASSUME UNCHANGED <<root, madt, info, entry>>,
               \A k \in F!Tables(root, "APIC") : k < pos' => k < pos,
               step'[0] \in F!SettingUp => step[0] \in F!SettingUp \/ pos > Len(root)
        PROVE  MadtInv'
    <2>1. \A k \in F!Tables(root, "APIC") : k < pos' => entry' > Len(madt')
      BY <1>2 DEF MadtInv
    <2>2. pos > Len(root) => entry > Len(madt)
      <3>. SUFFICES ASSUME pos > Len(root) PROVE entry > Len(madt)
        OBVIOUS
      <3>1. PICK k \in 1 .. Len(root) : F!Tables(root, "APIC") = {k}
        BY <1>0, SetupAssumption DEF F!FirmwareAssumption
      <3>2. k < pos /\ k \in F!Tables(root, "APIC")
        BY <1>0, <3>1
      <3>. QED  BY <3>2 DEF MadtInv
    <2>3. step'[0] \in F!SettingUp => entry' > Len(madt')
      BY <1>2, <2>2 DEF MadtInv
    <2>4. F!Tables(root, "APIC")' = F!Tables(root, "APIC")
      BY <1>2 DEF F!Tables
    <2>. QED  BY <1>2, <2>1, <2>3, <2>4 DEF MadtInv
  <1>3. CASE F!parse_RSDP \/ F!LostDesc \/ F!BadTable \/ F!MadtTable
    <2>1. /\ UNCHANGED <<root, madt, info, entry, pos>> /\ step'[0] \in {"rsdt", "lost", "halt", "madt"}
      BY <1>0, <1>3 DEF F!parse_RSDP, F!LostDesc, F!BadTable, F!MadtTable, F!Go
    <2>2. step'[0] \notin F!SettingUp
      BY <2>1 DEF F!SettingUp
    <2>. QED  BY <1>2, <2>1, <2>2
  <1>4. CASE F!OtherTable \/ F!hpet_init
    <2>1. /\ UNCHANGED <<root, madt, info, entry, step>> /\ pos' = pos + 1 /\ pos \in Nat
          /\ root[pos].name # "APIC"
      BY <1>0, <1>4 DEF F!OtherTable, F!hpet_init, F!AtTable
    <2>2. \A k \in F!Tables(root, "APIC") : k < pos' => k < pos
      BY <1>0, <2>1 DEF F!Tables
    <2>. QED  BY <1>2, <2>1, <2>2
  <1>5. CASE F!TablesEnd
    <2>1. UNCHANGED <<root, madt, info, entry, pos>> /\ pos > Len(root)
      BY <1>5 DEF F!TablesEnd
    <2>. QED  BY <1>2, <2>1
  <1>6. CASE F!Tick
    <2>1. UNCHANGED <<root, madt, info, entry, pos, step>>
      BY <1>6 DEF F!Tick
    <2>. QED  BY <1>2, <2>1
  <1>7. ASSUME NEW c \in Core, F!CoreStep(c) PROVE MadtInv'
    <2>1. UNCHANGED <<root, madt, info, entry, pos>>
      BY <1>7 DEF F!CoreStep, F!StartCore, F!map_pics, F!enable_APIC, F!init_APIC_interrupt,
         F!init_APIC_timer, F!TimerSet
    <2>2. step'[0] \in F!SettingUp => step[0] \in F!SettingUp
      <3>1. CASE c = 0
        <4>1. step[0] # "map"
          BY DEF FirmwareIInv, F!FirmwareInv, F!StepInv, F!Reading, F!SettingUp
        <4>2. 0 \notin Aps
          BY SetupAssumption DEF F!FirmwareAssumption
        <4>. QED  BY <1>7, <3>1, <4>1, <4>2 DEF F!CoreStep, F!StartCore, F!map_pics, F!enable_APIC,
                F!init_APIC_interrupt, F!init_APIC_timer, F!TimerSet, F!SettingUp
      <3>2. CASE c # 0
        <4>1. \E s : step' = [step EXCEPT ![c] = s]
          BY <1>7 DEF F!CoreStep, F!StartCore, F!map_pics, F!enable_APIC,
             F!init_APIC_interrupt, F!init_APIC_timer, F!TimerSet, F!Go
        <4>. QED  BY <1>0, <3>2, <4>1
      <3>. QED  BY <3>1, <3>2
    <2>. QED  BY <1>2, <2>1, <2>2
  <1>. QED  BY <1>1, <1>3, <1>4, <1>5, <1>6, <1>7 DEF F!BootStep

\* The other parts do not touch the lists.
LEMMA MadtStutter ==
  ASSUME MadtInv, UNCHANGED firmwareVars
  PROVE  MadtInv'
  BY DEF MadtInv, firmwareVars, F!Tables

\* Behind the tables, the lists are those of the whole MADT.
LEMMA MadtMeans ==
  ASSUME MadtInv, FirmwareIInv
  PROVE  F!MadtRecorded
  <1>1. step[0] \in F!Reading \cup F!SettingUp
    BY DEF FirmwareIInv, F!FirmwareInv, F!StepInv
  <1>2. entry \in 1 .. Len(madt) + 1 /\ Len(madt) \in Nat
    BY TableFacts DEF FirmwareIInv, F!InfoInv, F!TypeOK
  <1>3. step[0] \in F!SettingUp => entry - 1 = Len(madt)
    BY <1>2 DEF MadtInv
  <1>. QED  BY <1>1, <1>3 DEF MadtInv, F!MadtRecorded, F!OfType, F!Reading

-----------------------------------------------------------------------------
(* The capability file.                                                    *)

\* The lines of a kind, and what they have left in the first record.
Kinds(f, kind, a, n) == {i \in a .. n : f[i].kind = kind}
AddressRead(f, b, e, a, n) ==
    IF Kinds(f, "ADDRESS", a, n) = {} THEN b = 0 /\ e = 0
    ELSE LET l == f[C!Greatest(Kinds(f, "ADDRESS", a, n))]
         IN  b = C!strtoul(l.begin) /\ e = C!strtoul(l.end)
PermsRead(f, p, a, n) ==
    p = IF Kinds(f, "IOperms", a, n) = {} THEN {}
        ELSE f[C!Greatest(Kinds(f, "IOperms", a, n))].perms
NoneBefore(f, n) == Kinds(f, "CAPABILITY", 2, n) = {}
OneRead(f, r, n) ==
    \E a \in 2 .. n : /\ f[a].kind = "CAPABILITY" /\ NoneBefore(f, a - 1)
                      /\ r.name = f[a].name /\ AddressRead(f, r.begin, r.end, a, n)
                      /\ PermsRead(f, r.IOperms, a, n)

\* The walk of fill_capabilities: before the first CAPABILITY the record is empty,
\* behind it the record is what the lines up to here say.
CapReadInv ==
    /\ boot \in {"scan", "body", "record"} => line \in 2 .. last + 1
    /\ boot \in {"section", "scan"} => caps[1].begin = 0 /\ caps[1].end = 0 /\ caps[1].IOperms = {}
    /\ boot = "scan" => NoneBefore(file, line - 1)
    /\ boot = "body" => OneRead(file, caps[1], line - 1)
    /\ boot = "record" /\ slot = 1 => line = last + 1 /\ (NoneBefore(file, last) \/ OneRead(file, caps[1], last))

\* The records are empty when the kernel starts.
LEMMA CapReadInit ==
  ASSUME C!Init
  PROVE  CapReadInv
  <1>1. boot \in {"none", "section"} /\ 1 \in 1 .. MaxCap
    BY CapFacts DEF C!Init
  <1>2. caps[1].begin = 0 /\ caps[1].end = 0 /\ caps[1].IOperms = {}
    BY <1>1 DEF C!Init
  <1>. QED  BY <1>1, <1>2 DEF CapReadInv

\* One line more of a kind is the last one of that kind.
LEMMA OfKind ==
  ASSUME NEW f, NEW a \in Int, NEW n \in Int, a <= n + 1, NEW kind, f[n + 1].kind = kind
  PROVE  Kinds(f, kind, a, n + 1) # {} /\ C!Greatest(Kinds(f, kind, a, n + 1)) = n + 1
  <1>1. n + 1 \in a .. n + 1
    OBVIOUS
  <1>2. n + 1 \in Kinds(f, kind, a, n + 1)
    BY <1>1 DEF Kinds
  <1>3. \A i \in Kinds(f, kind, a, n + 1) : i \in Int /\ i <= n + 1
    BY DEF Kinds
  <1>4. \A i \in Kinds(f, kind, a, n + 1) : n + 1 <= i => i = n + 1
    BY <1>3
  <1>. QED  BY <1>2, <1>3, <1>4 DEF C!Greatest

\* A line of another kind changes nothing.
LEMMA OtherKind ==
  ASSUME NEW f, NEW a \in Int, NEW n \in Int, a <= n + 1, NEW kind, f[n + 1].kind # kind
  PROVE  Kinds(f, kind, a, n + 1) = Kinds(f, kind, a, n)
  <1>1. \A i \in a .. n + 1 : i = n + 1 \/ i \in a .. n
    OBVIOUS
  <1>2. \A i \in a .. n : i \in a .. n + 1
    OBVIOUS
  <1>. QED  BY <1>1, <1>2 DEF Kinds

\* The first record changes in the fields that the line sets.
LEMMA FirstRecord ==
  ASSUME CapIInv, NEW x, NEW y
  PROVE  /\ LET c == [caps EXCEPT ![1].name = x]
            IN  c[1].name = x /\ c[1].begin = caps[1].begin /\ c[1].end = caps[1].end
                /\ c[1].IOperms = caps[1].IOperms
         /\ LET c == [caps EXCEPT ![1].begin = x, ![1].end = y]
            IN  c[1].name = caps[1].name /\ c[1].begin = x /\ c[1].end = y
                /\ c[1].IOperms = caps[1].IOperms
         /\ LET c == [caps EXCEPT ![1].IOperms = x]
            IN  c[1].name = caps[1].name /\ c[1].begin = caps[1].begin /\ c[1].end = caps[1].end
                /\ c[1].IOperms = x
  <1>1. 1 \in 1 .. MaxCap
    BY CapFacts
  <1>2. Capability(caps[1])
    BY <1>1, IsCapability DEF CapIInv, C!CapInv
  <1>3. PICK n, b, e, p, k : caps[1] = [name |-> n, begin |-> b, end |-> e, IOperms |-> p, core_number |-> k]
    BY <1>2 DEF Capability
  <1>4. 1 \in DOMAIN caps
    BY <1>1 DEF CapIInv, C!CapInv, C!RecordInv
  <1>. QED  BY <1>3, <1>4

\* A line behind the first CAPABILITY sets the fields it names and leaves the others.
LEMMA ReadsLine ==
  ASSUME CapReadInv, CapIInv, C!BodyLine
  PROVE  CapReadInv'
  <1>1. /\ boot = "body" /\ line <= last /\ line' = line + 1 /\ UNCHANGED <<file, last, slot>>
        /\ line \in 2 .. last + 1 /\ last \in Int
    BY FileFacts DEF C!BodyLine, CapReadInv, CapIInv, C!TypeOK
  <1>2. PICK n \in Int : n = line - 1 /\ line = n + 1 /\ line' - 1 = n + 1 /\ n >= 1
    BY <1>1
  <1>3. PICK a \in 2 .. n :
          /\ file[a].kind = "CAPABILITY" /\ NoneBefore(file, a - 1) /\ caps[1].name = file[a].name
          /\ AddressRead(file, caps[1].begin, caps[1].end, a, n)
          /\ PermsRead(file, caps[1].IOperms, a, n)
    BY <1>1, <1>2 DEF CapReadInv, OneRead
  <1>4. a \in Int /\ a <= n + 1 /\ a \in 2 .. n + 1
    BY <1>2
  <1>5. CASE file[line].kind = "ADDRESS"
    <2>1. /\ caps' = [caps EXCEPT ![1].begin = C!strtoul(file[line].begin),
                                  ![1].end = C!strtoul(file[line].end)]
      BY <1>5 DEF C!BodyLine
    <2>2. /\ caps'[1].begin = C!strtoul(file[line].begin) /\ caps'[1].end = C!strtoul(file[line].end)
          /\ caps'[1].name = caps[1].name /\ caps'[1].IOperms = caps[1].IOperms
      BY <2>1, FirstRecord
    <2>3. /\ Kinds(file, "ADDRESS", a, n + 1) # {}
          /\ C!Greatest(Kinds(file, "ADDRESS", a, n + 1)) = line
          /\ Kinds(file, "IOperms", a, n + 1) = Kinds(file, "IOperms", a, n)
      <3>1. file[n + 1].kind = "ADDRESS" /\ file[n + 1].kind # "IOperms"
        BY <1>2, <1>5
      <3>2. Kinds(file, "ADDRESS", a, n + 1) # {} /\ C!Greatest(Kinds(file, "ADDRESS", a, n + 1)) = n + 1
        BY <1>4, <3>1, OfKind
      <3>3. Kinds(file, "IOperms", a, n + 1) = Kinds(file, "IOperms", a, n)
        BY <1>4, <3>1, OtherKind
      <3>. QED  BY <1>2, <3>2, <3>3
    <2>4. AddressRead(file, caps'[1].begin, caps'[1].end, a, n + 1)
      BY <2>2, <2>3 DEF AddressRead
    <2>5. PermsRead(file, caps'[1].IOperms, a, n + 1)
      BY <1>3, <2>2, <2>3 DEF PermsRead
    <2>6. OneRead(file, caps'[1], n + 1)
      BY <1>3, <1>4, <2>2, <2>4, <2>5 DEF OneRead
    <2>7. boot' = "body" /\ line' \in 2 .. last' + 1
      BY <1>1, <1>5 DEF C!BodyLine
    <2>. QED  BY <1>1, <1>2, <2>6, <2>7 DEF CapReadInv
  <1>6. CASE file[line].kind = "IOperms" /\ boot' # "panic"
    <2>1. caps' = [caps EXCEPT ![1].IOperms = file[line].perms] /\ boot' = "body"
      BY <1>1, <1>6 DEF C!BodyLine
    <2>2. /\ caps'[1].begin = caps[1].begin /\ caps'[1].end = caps[1].end
          /\ caps'[1].name = caps[1].name /\ caps'[1].IOperms = file[line].perms
      BY <2>1, FirstRecord
    <2>3. /\ Kinds(file, "IOperms", a, n + 1) # {}
          /\ C!Greatest(Kinds(file, "IOperms", a, n + 1)) = line
          /\ Kinds(file, "ADDRESS", a, n + 1) = Kinds(file, "ADDRESS", a, n)
      <3>1. file[n + 1].kind = "IOperms" /\ file[n + 1].kind # "ADDRESS"
        BY <1>2, <1>6
      <3>2. Kinds(file, "IOperms", a, n + 1) # {} /\ C!Greatest(Kinds(file, "IOperms", a, n + 1)) = n + 1
        BY <1>4, <3>1, OfKind
      <3>3. Kinds(file, "ADDRESS", a, n + 1) = Kinds(file, "ADDRESS", a, n)
        BY <1>4, <3>1, OtherKind
      <3>. QED  BY <1>2, <3>2, <3>3
    <2>4. AddressRead(file, caps'[1].begin, caps'[1].end, a, n + 1)
      BY <1>3, <2>2, <2>3 DEF AddressRead
    <2>5. PermsRead(file, caps'[1].IOperms, a, n + 1)
      BY <2>2, <2>3 DEF PermsRead
    <2>6. OneRead(file, caps'[1], n + 1)
      BY <1>3, <1>4, <2>2, <2>4, <2>5 DEF OneRead
    <2>7. line' \in 2 .. last' + 1
      BY <1>1
    <2>. QED  BY <1>1, <1>2, <2>1, <2>6, <2>7 DEF CapReadInv
  <1>7. CASE file[line].kind \notin {"ADDRESS", "IOperms"}
    <2>1. caps' = caps /\ boot' = "body"
      BY <1>1, <1>7 DEF C!BodyLine
    <2>2. /\ Kinds(file, "IOperms", a, n + 1) = Kinds(file, "IOperms", a, n)
          /\ Kinds(file, "ADDRESS", a, n + 1) = Kinds(file, "ADDRESS", a, n)
      <3>1. file[n + 1].kind # "IOperms" /\ file[n + 1].kind # "ADDRESS"
        BY <1>2, <1>7
      <3>. QED  BY <1>4, <3>1, OtherKind
    <2>3. AddressRead(file, caps[1].begin, caps[1].end, a, n + 1)
          /\ PermsRead(file, caps[1].IOperms, a, n + 1)
      BY <1>3, <2>2 DEF AddressRead, PermsRead
    <2>4. OneRead(file, caps'[1], n + 1)
      BY <1>3, <1>4, <2>1, <2>3 DEF OneRead
    <2>5. line' \in 2 .. last' + 1
      BY <1>1
    <2>. QED  BY <1>1, <1>2, <2>1, <2>4, <2>5 DEF CapReadInv
  <1>8. CASE boot' = "panic"
    BY <1>8 DEF CapReadInv
  <1>. QED  BY <1>5, <1>6, <1>7, <1>8

\* The steps of fill_capabilities and init_capabilities_record.
LEMMA CapReadStep ==
  ASSUME CapReadInv, CapIInv,
         \/ C!get_section \/ C!ScanLine \/ C!BodyLine \/ C!ParseEnd
         \/ C!init_capabilities_record
  PROVE  CapReadInv'
  <1>0. /\ Len(file) \in Nat /\ last \in Int /\ line \in Int /\ slot \in Int
        /\ (boot \in {"section", "scan", "body"} => slot = 1)
    BY FileFacts, CapFacts DEF CapIInv, C!TypeOK, C!CapInv, C!RecordInv
  <1>1. CASE C!get_section
    <2>1. CASE boot' = "panic"
      BY <2>1 DEF CapReadInv
    <2>2. CASE boot' # "panic"
      <3>1. /\ boot = "section" /\ boot' = "scan" /\ line' = 2 /\ caps' = caps /\ C!Ends # {}
            /\ last' = (CHOOSE i \in C!Ends : \A j \in C!Ends : i <= j) - 1
        BY <1>1, <2>2 DEF C!get_section
      <3>2. C!Ends \in SUBSET Nat /\ C!Ends \subseteq 3 .. Len(file)
        BY <1>0 DEF C!Ends
      <3>3. \E i \in C!Ends : \A j \in C!Ends : i <= j
        BY <3>1, <3>2, Smallest
      <3>4. PICK m \in 3 .. Len(file) : last' = m - 1
        BY <3>1, <3>2, <3>3
      <3>5. NoneBefore(file', line' - 1)
        <4>1. 2 .. 1 = {} /\ line' - 1 = 1
          BY <3>1
        <4>. QED  BY <4>1 DEF NoneBefore, Kinds
      <3>6. line' \in 2 .. last' + 1
        BY <3>1, <3>4
      <3>. QED  BY <3>1, <3>5, <3>6 DEF CapReadInv
    <2>. QED  BY <2>1, <2>2
  <1>2. CASE C!ScanLine
    <2>1. /\ boot = "scan" /\ line <= last /\ line' = line + 1 /\ UNCHANGED <<file, last, slot>>
          /\ line \in 2 .. last + 1 /\ NoneBefore(file, line - 1)
          /\ caps[1].begin = 0 /\ caps[1].end = 0 /\ caps[1].IOperms = {}
      BY <1>2 DEF C!ScanLine, CapReadInv
    <2>2. PICK n \in Int : n = line - 1 /\ line = n + 1 /\ line' - 1 = n + 1 /\ n >= 1
      BY <1>0, <2>1
    <2>3. line' \in 2 .. last' + 1
      BY <1>0, <2>1
    <2>5. CASE file[line].kind = "CAPABILITY"
      <3>1. boot' = "body" /\ caps' = [caps EXCEPT ![1].name = file[line].name]
        BY <1>2, <2>5 DEF C!ScanLine
      <3>2. caps'[1].name = file[line].name /\ caps'[1].begin = 0 /\ caps'[1].end = 0 /\ caps'[1].IOperms = {}
        BY <2>1, <3>1, FirstRecord
      <3>3. Kinds(file, "ADDRESS", line, line) = {} /\ Kinds(file, "IOperms", line, line) = {}
        <4>1. \A i \in line .. line : i = line
          BY <1>0
        <4>. QED  BY <2>5, <4>1 DEF Kinds
      <3>4. /\ AddressRead(file, caps'[1].begin, caps'[1].end, line, line)
            /\ PermsRead(file, caps'[1].IOperms, line, line)
        BY <3>2, <3>3 DEF AddressRead, PermsRead
      <3>5. line \in 2 .. line /\ line' - 1 = line
        BY <1>0, <2>1
      <3>6. OneRead(file, caps'[1], line)
        BY <2>1, <2>5, <3>2, <3>4, <3>5 DEF OneRead
      <3>. QED  BY <2>1, <2>3, <3>1, <3>5, <3>6 DEF CapReadInv
    <2>6. CASE file[line].kind # "CAPABILITY"
      <3>1. boot' = "scan" /\ caps' = caps
        BY <1>2, <2>1, <2>6 DEF C!ScanLine
      <3>2. 2 \in Int /\ 2 <= n + 1 /\ file[n + 1].kind # "CAPABILITY"
        BY <2>2, <2>6
      <3>3. Kinds(file, "CAPABILITY", 2, n + 1) = Kinds(file, "CAPABILITY", 2, n)
        BY <3>2, OtherKind
      <3>4. NoneBefore(file', line' - 1)
        BY <2>1, <2>2, <3>3 DEF NoneBefore
      <3>. QED  BY <2>1, <2>3, <3>1, <3>4 DEF CapReadInv
    <2>. QED  BY <2>5, <2>6
  <1>3. CASE C!BodyLine
    BY <1>3, ReadsLine
  <1>4. CASE C!ParseEnd
    <2>1. /\ boot \in {"scan", "body"} /\ line > last /\ boot' = "record"
          /\ UNCHANGED <<file, line, last, slot, caps>> /\ line \in 2 .. last + 1
      BY <1>4 DEF C!ParseEnd, CapReadInv
    <2>2. line = last + 1 /\ line - 1 = last
      BY <1>0, <2>1
    <2>3. NoneBefore(file, last) \/ OneRead(file, caps[1], last)
      BY <2>1, <2>2 DEF CapReadInv
    <2>. QED  BY <2>1, <2>2, <2>3 DEF CapReadInv
  <1>5. CASE C!init_capabilities_record
    <2>1. /\ boot = "record" /\ boot' \in {"record", "ready", "fault"} /\ UNCHANGED <<line, last>>
          /\ boot' = "record" => slot' = slot + 1
      BY <1>5 DEF C!init_capabilities_record
    <2>2. boot' = "record" => slot' # 1
      BY <1>0, <2>1, CapFacts DEF CapIInv, C!CapInv, C!RecordInv
    <2>. QED  BY <2>1, <2>2 DEF CapReadInv
  <1>. QED  BY <1>1, <1>2, <1>3, <1>4, <1>5

\* A system call comes when the file has been read.
LEMMA CapReadCall ==
  ASSUME CapReadInv, CapIInv, NEW c \in Core, C!CoreStep(c)
  PROVE  CapReadInv'
  <1>1. C!Running
    BY DEF CapIInv, C!CapInv, C!RecordInv, C!CoreStep, C!syscall_stub, C!syscall_handler,
       C!get_capability, C!release_capability, C!Running
  <1>2. boot' = boot
    BY DEF C!CoreStep, C!syscall_stub, C!syscall_handler,
       C!get_capability, C!release_capability, C!parseVars
  <1>. QED  BY <1>1, <1>2 DEF C!Running, CapReadInv

\* The other parts leave the file and the records alone.
LEMMA CapReadStutter ==
  ASSUME CapReadInv, UNCHANGED capVars
  PROVE  CapReadInv'
  BY DEF CapReadInv, capVars

\* The number of elements is the same in Capabilities.
LEMMA SameCardinality == \A S : C!Cardinality(S) = Cardinality(S)
  BY DEF C!Cardinality, Cardinality

\* A section with one CAPABILITY is recorded as it stands.
LEMMA CapReadMeans ==
  ASSUME CapReadInv, CapIInv
  PROVE  C!ParsesOne
  <1>. SUFFICES ASSUME boot = "record", slot = 1, C!Cardinality(C!InSection("CAPABILITY", 2)) = 1
                PROVE  C!ParsesOne
    BY DEF C!ParsesOne
  <1>1. \A kind, a : C!InSection(kind, a) = Kinds(file, kind, a, last)
    BY DEF C!InSection, Kinds
  <1>2. Cardinality(Kinds(file, "CAPABILITY", 2, last)) = 1
    BY <1>1, SameCardinality
  <1>3. last \in Int
    BY FileFacts DEF CapIInv, C!TypeOK
  <1>4. IsFiniteSet(Kinds(file, "CAPABILITY", 2, last))
    <2>1. IsFiniteSet(2 .. last)
      BY <1>3, FS_Interval
    <2>2. Kinds(file, "CAPABILITY", 2, last) \in SUBSET (2 .. last)
      BY DEF Kinds
    <2>. QED  BY <2>1, <2>2, FS_Subset
  <1>5. PICK x : Kinds(file, "CAPABILITY", 2, last) = {x}
    BY <1>2, <1>4, FS_Singleton
  <1>6. OneRead(file, caps[1], last)
    BY <1>5 DEF CapReadInv, NoneBefore
  <1>7. PICK a \in 2 .. last :
          /\ file[a].kind = "CAPABILITY" /\ caps[1].name = file[a].name
          /\ AddressRead(file, caps[1].begin, caps[1].end, a, last)
          /\ PermsRead(file, caps[1].IOperms, a, last)
    BY <1>6 DEF OneRead
  <1>8. a = x
    BY <1>5, <1>7 DEF Kinds
  <1>9. C!Greatest(C!InSection("CAPABILITY", 2)) = a
    <2>1. C!InSection("CAPABILITY", 2) = {a} /\ a \in Int
      BY <1>1, <1>3, <1>5, <1>8
    <2>2. \E i \in {a} : \A j \in {a} : j <= i
      BY <2>1
    <2>. QED  BY <2>1, <2>2 DEF C!Greatest
  <1>. QED  BY <1>1, <1>7, <1>9 DEF C!ParsesOne, AddressRead, PermsRead

-----------------------------------------------------------------------------
(* What the init file says.                                                *)

\* The text of an init file up to the end of its line k, and how long it is.
Front(d) == (IF d.cores = I!None THEN <<I!Letter(1)>> ELSE <<I!CORES, d.cores>>) \o <<I!Newline>>
Ahead(d, k) == Front(d) \o I!FlattenSeq([i \in 1 .. k |-> I!LineText(d.lines[i])])
LineEnd(d, k) == Len(Ahead(d, k))

\* The lines of an init file.
LEMMA DocFacts ==
  ASSUME NEW d \in Docs
  PROVE  /\ d.cores \in Nat \cup {I!None} /\ Len(d.lines) \in Nat
         /\ \A k \in 1 .. Len(d.lines) :
              d.lines[k] \in [index : Nat \cup {I!None}, sep : Seq(Int), name : Seq(Int)]
  <1>1. /\ d.cores \in Nat \cup {I!None}
        /\ d.lines \in Seq([index : Nat \cup {I!None}, sep : Seq(Int), name : Seq(Int)])
    BY SetupAssumption DEF I!InitFilesAssumption
  <1>2. PICK n \in Nat : n = Len(d.lines)
    BY <1>1
  <1>3. \A k \in 1 .. n : d.lines[k] \in [index : Nat \cup {I!None}, sep : Seq(Int), name : Seq(Int)]
    BY <1>1, <1>2, Elements
  <1>. QED  BY <1>1, <1>2, <1>3

\* The first line of a file that names the number of cores.
LEMMA FrontIs ==
  ASSUME NEW d \in Docs, d.cores # I!None
  PROVE  /\ Front(d) \in Seq(Int) /\ Len(Front(d)) = 3
         /\ Front(d)[1] = I!CORES /\ Front(d)[2] = d.cores /\ Front(d)[3] = I!Newline
  <1>1. d.cores \in Nat
    BY DocFacts
  <1>2. PICK c \in Int : c = d.cores
    BY <1>1
  <1>3. Front(d) = <<I!CORES, c>> \o <<I!Newline>>
    BY <1>2 DEF Front
  <1>4. I!CORES \in Int /\ I!Newline \in Int
    BY DEF I!CORES, I!Newline
  <1>5. PICK u \in Int, v \in Int : u = I!CORES /\ v = I!Newline
    BY <1>4
  <1>6. Front(d) = <<u, c>> \o <<v>>
    BY <1>3, <1>5
  <1>7. PICK x : x = <<u, c>> \o <<v>>
    OBVIOUS
  <1>8. x \in Seq(Int) /\ Len(x) = 3 /\ x[1] = u /\ x[2] = c /\ x[3] = v
    BY <1>7
  <1>. QED  BY <1>2, <1>5, <1>6, <1>7, <1>8

\* The text of a line.
LEMMA LineIs ==
  ASSUME NEW l \in [index : Nat \cup {I!None}, sep : Seq(Int), name : Seq(Int)]
  PROVE  /\ I!LineText(l) \in Seq(Int)
         /\ l.index # I!None /\ Len(l.sep) = 1 =>
              /\ Len(I!LineText(l)) = 3 + Len(l.name)
              /\ I!LineText(l)[1] = l.index
              /\ \A j \in 1 .. Len(l.name) : I!LineText(l)[2 + j] = l.name[j]
              /\ I!LineText(l)[3 + Len(l.name)] = I!Newline
         /\ l.index = I!None /\ l.name = <<>> =>
              Len(I!LineText(l)) = 1 /\ I!LineText(l)[1] = I!Newline
  <1>1. I!Newline \in Int
    BY DEF I!Newline
  <1>2. PICK e \in Int : e = I!Newline
    BY <1>1
  <1>3. PICK m \in Seq(Int) : m = l.name
    OBVIOUS
  <1>4. PICK s \in Seq(Int) : s = l.sep
    OBVIOUS
  <1>5. CASE l.index = I!None
    <2>1. I!LineText(l) = <<>> \o m \o <<e>>
      BY <1>2, <1>3, <1>5 DEF I!LineText
    <2>2. PICK x : x = <<>> \o m \o <<e>>
      OBVIOUS
    <2>3. x \in Seq(Int)
      BY <2>2
    <2>4. m = <<>> => Len(x) = 1 /\ x[1] = e
      BY <2>2
    <2>. QED  BY <1>2, <1>3, <1>5, <2>1, <2>2, <2>3, <2>4
  <1>6. CASE l.index # I!None
    <2>1. PICK i \in Int : i = l.index
      BY <1>6
    <2>2. I!LineText(l) = (<<i>> \o s) \o m \o <<e>>
      BY <1>2, <1>3, <1>4, <1>6, <2>1 DEF I!LineText
    <2>3. PICK h : h = <<i>> \o s
      OBVIOUS
    <2>4. h \in Seq(Int) /\ h[1] = i /\ Len(h) = 1 + Len(s)
      BY <2>3
    <2>5. PICK g : g = h \o m
      OBVIOUS
    <2>a. g \in Seq(Int)
      BY <2>4, <2>5, Behind
    <2>6. PICK x : x = g \o <<e>>
      OBVIOUS
    <2>b. x \in Seq(Int)
      BY <2>a, <2>6
    <2>7. I!LineText(l) = x
      BY <2>2, <2>3, <2>5, <2>6
    <2>c. /\ Len(g) = Len(h) + Len(m) /\ \A j \in 1 .. Len(h) : g[j] = h[j]
          /\ \A j \in 1 .. Len(m) : g[Len(h) + j] = m[j]
      <3>1. h \in Seq(Int)
        BY <2>4
      <3>. QED  BY ONLY <2>5, <3>1, Behind
    <2>8. Len(g) = Len(h) + Len(m) /\ g[1] = i /\ \A j \in 1 .. Len(m) : g[Len(h) + j] = m[j]
      <3>1. 1 \in 1 .. Len(h)
        BY <2>4
      <3>. QED  BY <2>4, <2>c, <3>1
    <2>9. Len(x) = Len(g) + 1 /\ x[Len(g) + 1] = e /\ \A j \in 1 .. Len(g) : x[j] = g[j]
      BY <2>a, <2>6
    <2>10. ASSUME Len(s) = 1
           PROVE  /\ Len(x) = 3 + Len(m) /\ x[1] = i /\ x[3 + Len(m)] = e
                  /\ \A j \in 1 .. Len(m) : x[2 + j] = m[j]
      <3>1. Len(m) \in Nat /\ Len(h) = 2 /\ Len(g) = 2 + Len(m)
        BY <2>4, <2>8, <2>10
      <3>2. Len(x) = 3 + Len(m) /\ x[3 + Len(m)] = e
        BY <2>9, <3>1
      <3>3. x[1] = i
        BY <2>8, <2>9, <3>1
      <3>4. \A j \in 1 .. Len(m) : 2 + j \in 1 .. Len(g) /\ g[2 + j] = m[j]
        BY <2>8, <3>1
      <3>. QED  BY <2>9, <3>2, <3>3, <3>4
    <2>. QED  BY <1>2, <1>3, <1>4, <1>6, <2>1, <2>7, <2>b, <2>10
  <1>. QED  BY <1>5, <1>6

\* The file grows by a line at a time.
LEMMA AheadGrows ==
  ASSUME NEW d \in Docs, d.cores # I!None, NEW n \in Nat, n = Len(d.lines)
  PROVE  /\ Ahead(d, 0) = Front(d) /\ Ahead(d, n) = I!Text(d)
         /\ \A k \in 0 .. n : Ahead(d, k) \in Seq(Int)
         /\ \A k \in 1 .. n : /\ I!LineText(d.lines[k]) \in Seq(Int)
                              /\ Ahead(d, k) = Ahead(d, k - 1) \o I!LineText(d.lines[k])
  <1>. DEFINE L(i) == I!LineText(d.lines[i])
              A(k) == I!FlattenSeq([i \in 1 .. k |-> L(i)])
  <1>1. Front(d) \in Seq(Int)
    BY FrontIs
  <1>2. \A i \in 1 .. n : L(i) \in Seq(Int)
    <2>. TAKE i \in 1 .. n
    <2>1. d.lines[i] \in [index : Nat \cup {I!None}, sep : Seq(Int), name : Seq(Int)]
      BY DocFacts
    <2>. QED  BY <2>1, LineIs
  <1>3. \A k : Ahead(d, k) = Front(d) \o A(k)
    BY DEF Ahead
  <1>. HIDE DEF L
  <1>4. ASSUME NEW k \in 1 .. n
        PROVE  A(k - 1) \in Seq(Int) /\ A(k) \in Seq(Int) /\ A(k) = A(k - 1) \o L(k)
    <2>1. PICK j \in Nat : k = j + 1 /\ k - 1 = j
      OBVIOUS
    <2>. DEFINE m == [i \in 1 .. j + 1 |-> L(i)]
    <2>2. m \in [1 .. j + 1 -> Seq(Int)]
      BY <1>2, <2>1
    <2>3. [i \in 1 .. j |-> m[i]] = [i \in 1 .. j |-> L(i)]
          /\ [i \in 1 .. j + 1 |-> m[i]] = [i \in 1 .. j + 1 |-> L(i)] /\ m[j + 1] = L(j + 1)
      OBVIOUS
    <2>. HIDE DEF m
    <2>4. /\ Flattened([i \in 1 .. j |-> m[i]]) \in Seq(Int)
          /\ Flattened([i \in 1 .. j + 1 |-> m[i]]) = Flattened([i \in 1 .. j |-> m[i]]) \o m[j + 1]
      BY <2>2, FlatStep
    <2>5. A(j) \in Seq(Int) /\ A(j + 1) = A(j) \o L(j + 1)
      BY <2>3, <2>4, SameFlat
    <2>6. L(j + 1) \in Seq(Int)
      BY <1>2, <2>1
    <2>. HIDE DEF A
    <2>7. A(j + 1) \in Seq(Int)
      BY <2>5, <2>6, Behind
    <2>. QED  BY <2>1, <2>5, <2>7
  <1>5. A(0) = <<>>
    <2>1. PICK s : s = [i \in 1 .. 0 |-> L(i)]
      OBVIOUS
    <2>2. s = <<>> /\ Len(s) = 0
      BY <2>1
    <2>3. Flattened(s) = <<>>
      BY <2>2 DEF Flattened
    <2>. QED  BY <2>1, <2>3, SameFlat
  <1>6. A(n) = I!FlattenSeq([i \in 1 .. Len(d.lines) |-> I!LineText(d.lines[i])])
    BY DEF L
  <1>7. I!Text(d) = Front(d) \o A(n)
    BY <1>6 DEF I!Text, Front
  <1>. HIDE DEF A
  <1>8. Ahead(d, 0) = Front(d)
    <2>1. PICK t \in Seq(Int) : t = Front(d)
      BY <1>1
    <2>2. t \o <<>> = t
      OBVIOUS
    <2>. QED  BY <1>3, <1>5, <2>1, <2>2
  <1>9. \A k \in 0 .. n : A(k) \in Seq(Int)
    <2>. TAKE k \in 0 .. n
    <2>1. <<>> \in Seq(Int)
      OBVIOUS
    <2>2. k = 0 \/ k \in 1 .. n
      OBVIOUS
    <2>. QED  BY <1>4, <1>5, <2>1, <2>2
  <1>10. \A k \in 0 .. n : Ahead(d, k) \in Seq(Int)
    <2>. TAKE k \in 0 .. n
    <2>1. PICK x \in Seq(Int), y \in Seq(Int) : x = Front(d) /\ y = A(k)
      BY <1>1, <1>9
    <2>2. x \o y \in Seq(Int)
      BY Behind
    <2>. QED  BY <1>3, <2>1, <2>2
  <1>11. ASSUME NEW k \in 1 .. n PROVE Ahead(d, k) = Ahead(d, k - 1) \o L(k)
    <2>1. PICK x \in Seq(Int), y \in Seq(Int), z \in Seq(Int) : x = Front(d) /\ y = A(k - 1) /\ z = L(k)
      BY <1>1, <1>2, <1>4
    <2>2. A(k) = y \o z
      BY <1>4, <2>1
    <2>3. (x \o y) \o z = x \o (y \o z)
      <3>1. x \in Seq(Int) /\ y \in Seq(Int) /\ z \in Seq(Int)
        OBVIOUS
      <3>. QED  BY ONLY <3>1, SMTT(30)
    <2>. QED  BY <1>3, <2>1, <2>2, <2>3
  <1>. QED  BY <1>2, <1>3, <1>7, <1>8, <1>10, <1>11 DEF L

\* Where the lines end, and what is in them.
LEMMA Layout ==
  ASSUME NEW d \in Docs, d.cores # I!None, NEW n \in Nat, n = Len(d.lines)
  PROVE  /\ LineEnd(d, 0) = 3 /\ LineEnd(d, n) = Len(I!Text(d))
         /\ I!Text(d)[1] = I!CORES /\ I!Text(d)[2] = d.cores /\ I!Text(d)[3] = I!Newline
         /\ \A k \in 0 .. n : LineEnd(d, k) \in Nat
         /\ \A k \in 0 .. n : \A m \in k .. n : LineEnd(d, k) <= LineEnd(d, m)
         /\ \A k \in 1 .. n : LET l == I!LineText(d.lines[k]) IN
              /\ LineEnd(d, k) = LineEnd(d, k - 1) + Len(l)
              /\ \A j \in 1 .. Len(l) : I!Text(d)[LineEnd(d, k - 1) + j] = l[j]
  <1>1. /\ Ahead(d, 0) = Front(d) /\ Ahead(d, n) = I!Text(d)
        /\ \A k \in 0 .. n : Ahead(d, k) \in Seq(Int)
        /\ \A k \in 1 .. n : /\ I!LineText(d.lines[k]) \in Seq(Int)
                             /\ Ahead(d, k) = Ahead(d, k - 1) \o I!LineText(d.lines[k])
    BY AheadGrows
  <1>. DEFINE f == [k \in 0 .. n |-> Ahead(d, k)]
              s == [k \in 1 .. n |-> I!LineText(d.lines[k])]
  <1>2. f \in [0 .. n -> Seq(Int)] /\ s \in [1 .. n -> Seq(Int)]
    BY <1>1
  <1>3. Grows(f, s, n)
    <2>1. ASSUME NEW k \in 1 .. n PROVE f[k] = f[k - 1] \o s[k]
      <3>1. k \in 0 .. n /\ k - 1 \in 0 .. n
        OBVIOUS
      <3>. QED  BY <1>1, <3>1
    <2>. QED  BY <2>1 DEF Grows
  <1>4. /\ \A k \in 0 .. n : f[k] = Ahead(d, k) /\ LineEnd(d, k) = Len(f[k])
        /\ \A k \in 1 .. n : s[k] = I!LineText(d.lines[k])
        /\ f[0] = Front(d) /\ f[n] = I!Text(d)
    BY <1>1 DEF LineEnd
  <1>. HIDE DEF f, s
  <1>5. \A k \in 0 .. n : \A m \in k .. n : Keeps(f, k, m)
    BY <1>2, <1>3, Prefixes
  <1>6. /\ Len(f[0]) = 3 /\ f[0][1] = I!CORES /\ f[0][2] = d.cores /\ f[0][3] = I!Newline
    BY <1>4, FrontIs
  <1>7. 0 \in 0 .. n /\ n \in 0 .. n /\ \A k \in 0 .. n : n \in k .. n
    OBVIOUS
  <1>8. f[n][1] = I!CORES /\ f[n][2] = d.cores /\ f[n][3] = I!Newline
    <2>1. \A i \in 1 .. 3 : f[n][i] = f[0][i]
      <3>1. Keeps(f, 0, n)
        BY <1>5, <1>7
      <3>. QED  BY <1>6, <3>1 DEF Keeps
    <2>. QED  BY <1>6, <2>1
  <1>9. ASSUME NEW k \in 1 .. n
        PROVE  /\ Len(f[k]) = Len(f[k - 1]) + Len(s[k])
               /\ \A j \in 1 .. Len(s[k]) : f[n][Len(f[k - 1]) + j] = s[k][j]
    <2>1. k \in 0 .. n /\ k - 1 \in 0 .. n
      OBVIOUS
    <2>2. PICK a \in Seq(Int), b \in Seq(Int) : a = f[k - 1] /\ b = s[k] /\ f[k] = a \o b
      BY <1>2, <1>3, <2>1 DEF Grows
    <2>3. Len(f[k]) = Len(a) + Len(b) /\ \A j \in 1 .. Len(b) : f[k][Len(a) + j] = b[j]
      <3>1. Len(a \o b) = Len(a) + Len(b) /\ \A j \in 1 .. Len(b) : (a \o b)[Len(a) + j] = b[j]
        BY Behind
      <3>. QED  BY <2>2, <3>1
    <2>4. \A i \in 1 .. Len(f[k]) : f[n][i] = f[k][i]
      <3>1. Keeps(f, k, n)
        BY <1>5, <1>7, <2>1
      <3>. QED  BY <3>1 DEF Keeps
    <2>5. \A j \in 1 .. Len(b) : Len(a) + j \in 1 .. Len(f[k])
      BY <2>3
    <2>. QED  BY <2>2, <2>3, <2>4, <2>5
  <1>10. \A k \in 0 .. n : Len(f[k]) \in Nat
    BY <1>2
  <1>11. \A k \in 1 .. n : k \in 0 .. n /\ k - 1 \in 0 .. n
    OBVIOUS
  <1>12. \A k \in 0 .. n : \A m \in k .. n : m \in 0 .. n
    OBVIOUS
  <1>13. \A k \in 0 .. n : \A m \in k .. n : LineEnd(d, k) <= LineEnd(d, m)
    BY <1>4, <1>5, <1>12 DEF Keeps
  <1>14. \A k \in 1 .. n : LineEnd(d, k) = Len(f[k]) /\ LineEnd(d, k - 1) = Len(f[k - 1])
    BY <1>4, <1>11
  <1>15. LineEnd(d, 0) = 3 /\ LineEnd(d, n) = Len(I!Text(d))
    BY <1>4, <1>6, <1>7
  <1>16. \A k \in 1 .. n : LET l == I!LineText(d.lines[k]) IN
              /\ LineEnd(d, k) = LineEnd(d, k - 1) + Len(l)
              /\ \A j \in 1 .. Len(l) : I!Text(d)[LineEnd(d, k - 1) + j] = l[j]
    <2>. TAKE k \in 1 .. n
    <2>1. s[k] = I!LineText(d.lines[k]) /\ f[n] = I!Text(d)
      BY <1>4
    <2>2. LineEnd(d, k) = Len(f[k]) /\ LineEnd(d, k - 1) = Len(f[k - 1])
      BY <1>14
    <2>3. /\ Len(f[k]) = Len(f[k - 1]) + Len(s[k])
          /\ \A j \in 1 .. Len(s[k]) : f[n][Len(f[k - 1]) + j] = s[k][j]
      BY <1>9
    <2>. QED  BY ONLY <2>1, <2>2, <2>3
  <1>17. \A k \in 0 .. n : LineEnd(d, k) \in Nat
    BY <1>4, <1>10
  <1>. QED  BY <1>4, <1>8, <1>13, <1>15, <1>16, <1>17

\* A line l of a well formed file lies behind s and ends with e.
Spanned(t, s, e, l) ==
    /\ s \in Nat /\ e \in Nat /\ 3 <= s /\ s < e /\ e <= Len(t)
    /\ Len(l.name) \in Nat /\ t[e] = I!Newline
    /\ l.index = I!None => e = s + 1
    /\ l.index # I!None =>
         /\ l.index \in Nat /\ l.index < MaxCore /\ e = s + 3 + Len(l.name)
         /\ t[s + 1] = l.index
         /\ \A j \in 1 .. Len(l.name) : /\ t[s + 2 + j] = l.name[j]
                                        /\ l.name[j] # I!Newline /\ l.name[j] # I!Nul

\* What is known of a line of a well formed file.
LEMMA Spans ==
  ASSUME NEW d \in Docs, I!WellFormed(d), NEW k \in 1 .. Len(d.lines),
         NEW s, s = LineEnd(d, k - 1), NEW e, e = LineEnd(d, k), NEW l, l = d.lines[k]
  PROVE  Spanned(I!Text(d), s, e, l)
  <1>1. PICK n \in Nat : n = Len(d.lines)
    BY DocFacts
  <1>2. k \in 1 .. n /\ k - 1 \in 0 .. n /\ k \in 0 .. n /\ 0 \in 0 .. n /\ k - 1 \in 0 .. n
        /\ n \in k .. n
    BY <1>1
  <1>3. l \in [index : Nat \cup {I!None}, sep : Seq(Int), name : Seq(Int)]
    BY DocFacts
  <1>4. /\ d.cores # I!None
        /\ \/ /\ l.index \in 0 .. MaxCore - 1 /\ Len(l.sep) = 1
              /\ \A j \in 1 .. Len(l.name) : l.name[j] \notin {I!Newline, I!Nul}
           \/ l.index = I!None /\ l.name = <<>>
    BY DEF I!WellFormed
  <1>5. PICK x \in Seq(Int) : x = I!LineText(l)
    BY <1>3, LineIs
  <1>6. PICK t : t = I!Text(d)
    OBVIOUS
  <1>7. s \in Nat /\ e \in Nat /\ 3 <= s /\ e <= Len(t)
    <2>1. /\ LineEnd(d, 0) = 3 /\ LineEnd(d, n) = Len(t)
          /\ \A i \in 0 .. n : LineEnd(d, i) \in Nat
          /\ \A i \in 0 .. n : \A h \in i .. n : LineEnd(d, i) <= LineEnd(d, h)
      BY <1>1, <1>4, <1>6, Layout
    <2>2. k - 1 \in 0 .. n
      BY <1>2
    <2>. QED  BY <1>2, <2>1, <2>2
  <1>8. e = s + Len(x) /\ \A j \in 1 .. Len(x) : t[s + j] = x[j]
    <2>1. LET y == I!LineText(d.lines[k])
          IN  /\ LineEnd(d, k) = LineEnd(d, k - 1) + Len(y)
              /\ \A j \in 1 .. Len(y) : I!Text(d)[LineEnd(d, k - 1) + j] = y[j]
      BY <1>1, <1>2, <1>4, Layout
    <2>. QED  BY ONLY <1>5, <1>6, <2>1, s = LineEnd(d, k - 1), e = LineEnd(d, k), l = d.lines[k]
  <1>9. PICK m \in Nat : m = Len(l.name)
    <2>1. l.name \in Seq(Int)
      BY <1>3
    <2>. QED  BY <2>1
  <1>10. PICK z \in Nat : z = Len(x)
    OBVIOUS
  <1>11. MaxCore \in Nat
    BY SetupAssumption DEF I!InitFilesAssumption
  <1>12. CASE l.index = I!None
    <2>1. z = 1 /\ x[1] = I!Newline
      <3>1. l.name = <<>>
        BY <1>4, <1>12 DEF I!None
      <3>. QED  BY <1>3, <1>5, <1>10, <1>12, <3>1, LineIs
    <2>2. e = s + 1 /\ t[e] = I!Newline
      BY <1>7, <1>8, <1>10, <2>1
    <2>a. s < e
      BY <1>7, <2>2
    <2>3. 3 <= s /\ s < e /\ e <= Len(t)
      BY <1>7, <2>a
    <2>. QED  BY <1>6, <1>7, <1>9, <1>12, <2>2, <2>3 DEF Spanned
  <1>13. CASE l.index # I!None
    <2>1. /\ l.index \in 0 .. MaxCore - 1 /\ Len(l.sep) = 1
          /\ \A j \in 1 .. Len(l.name) : l.name[j] \notin {I!Newline, I!Nul}
      BY <1>4, <1>13
    <2>2. /\ z = 3 + m /\ x[1] = l.index /\ x[3 + m] = I!Newline
          /\ \A j \in 1 .. m : x[2 + j] = l.name[j]
      BY <1>3, <1>5, <1>9, <1>10, <1>13, <2>1, LineIs
    <2>3. e = s + 3 + m /\ e = s + (3 + m)
      BY <1>7, <1>8, <1>10, <2>2
    <2>4. t[e] = I!Newline /\ t[s + 1] = l.index
      <3>1. 3 + m \in 1 .. z /\ 1 \in 1 .. z
        BY <2>2
      <3>. QED  BY <1>8, <1>10, <2>2, <2>3, <3>1
    <2>5. ASSUME NEW j \in 1 .. m PROVE t[s + 2 + j] = l.name[j]
      <3>0. s \in Nat /\ z = 3 + m
        BY <1>7, <2>2
      <3>1. 2 + j \in 1 .. z /\ s + 2 + j = s + (2 + j)
        BY <3>0
      <3>. QED  BY <1>8, <1>10, <2>2, <3>1
    <2>a. s < e
      BY <1>7, <2>3
    <2>b. l.index \in Nat /\ l.index < MaxCore
      BY <1>11, <2>1
    <2>6. 3 <= s /\ s < e /\ e <= Len(t) /\ l.index \in Nat /\ l.index < MaxCore
      BY <1>7, <2>a, <2>b
    <2>7. \A j \in 1 .. m : l.name[j] # I!Newline /\ l.name[j] # I!Nul
      BY <1>9, <2>1
    <2>. QED  BY <1>6, <1>7, <1>9, <1>13, <2>3, <2>4, <2>5, <2>6, <2>7 DEF Spanned
  <1>. QED  BY <1>12, <1>13

\* Line k in a text that is being cut into strings: the cell behind the number is left
\* open, it becomes a 0 when the line is parsed.
LineAt(d, t, k) ==
    LET l == d.lines[k]
        s == LineEnd(d, k - 1)
    IN  /\ t[LineEnd(d, k)] = I!Nul
        /\ l.index # I!None => /\ t[s + 1] = l.index
                               /\ \A j \in 1 .. Len(l.name) : t[s + 2 + j] = l.name[j]
LaidOut(d, t) ==
    t \in Seq(Int) /\ Len(t) = Len(I!Text(d)) /\ \A k \in 1 .. Len(d.lines) : LineAt(d, t, k)

\* The text behind the newlines becoming 0.
LEMMA CutLaid ==
  ASSUME NEW d \in Docs, I!WellFormed(d), NEW t,
         t = [i \in DOMAIN I!Text(d) |-> IF I!Text(d)[i] = I!Newline THEN I!Nul ELSE I!Text(d)[i]]
  PROVE  LaidOut(d, t) /\ t[2] = d.cores /\ t[3] = I!Nul /\ 3 <= Len(t)
  <1>1. PICK n \in Nat : n = Len(d.lines)
    BY DocFacts
  <1>2. d.cores # I!None /\ d.cores \in Nat
    BY DocFacts DEF I!WellFormed
  <1>3. PICK x \in Seq(Int) : x = I!Text(d)
    BY TextOf
  <1>a. PICK z \in Nat : z = Len(x)
    OBVIOUS
  <1>4. /\ t \in Seq(Int) /\ Len(t) = z
        /\ \A i \in 1 .. z : t[i] = IF x[i] = I!Newline THEN I!Nul ELSE x[i]
    <2>1. t = [i \in 1 .. z |-> IF x[i] = I!Newline THEN I!Nul ELSE x[i]]
      BY <1>3, <1>a
    <2>2. I!Nul \in Int /\ \A i \in 1 .. z : x[i] \in Int
      BY <1>a DEF I!Nul
    <2>3. t \in [1 .. z -> Int]
      BY <2>1, <2>2
    <2>. QED  BY <2>1, <2>3, FunSeq
  <1>5. x[2] = d.cores /\ x[3] = I!Newline /\ 3 <= z
    <2>1. /\ LineEnd(d, 0) = 3 /\ LineEnd(d, n) = z /\ x[2] = d.cores /\ x[3] = I!Newline
          /\ \A k \in 0 .. n : \A m \in k .. n : LineEnd(d, k) <= LineEnd(d, m)
      BY <1>1, <1>2, <1>3, <1>a, Layout
    <2>2. 0 \in 0 .. n /\ n \in 0 .. n
      OBVIOUS
    <2>. QED  BY <2>1, <2>2
  <1>6. t[2] = d.cores /\ t[3] = I!Nul
    BY <1>2, <1>4, <1>5 DEF I!Newline
  <1>7. ASSUME NEW k \in 1 .. n PROVE LineAt(d, t, k)
    <2>1. PICK l : l = d.lines[k]
      OBVIOUS
    <2>2. PICK s : s = LineEnd(d, k - 1)
      OBVIOUS
    <2>3. PICK e : e = LineEnd(d, k)
      OBVIOUS
    <2>4. k \in 1 .. Len(d.lines)
      BY <1>1
    <2>a. Spanned(x, s, e, l)
      BY <1>3, <2>1, <2>2, <2>3, <2>4, Spans
    <2>5. PICK m \in Nat : m = Len(l.name)
      BY <2>a DEF Spanned
    <2>6. /\ s \in Nat /\ e \in Nat /\ 3 <= s /\ s < e /\ e <= z /\ x[e] = I!Newline
          /\ l.index # I!None =>
              /\ l.index \in Nat /\ e = s + 3 + m /\ x[s + 1] = l.index
              /\ \A j \in 1 .. m : x[s + 2 + j] = l.name[j] /\ l.name[j] # I!Newline
      BY <1>a, <2>a, <2>5 DEF Spanned
    <2>7. t[e] = I!Nul
      <3>1. e \in 1 .. z
        BY <2>6
      <3>. QED  BY <1>4, <2>6, <3>1
    <2>8. ASSUME l.index # I!None
          PROVE  t[s + 1] = l.index /\ \A j \in 1 .. m : t[s + 2 + j] = l.name[j]
      <3>0. s \in Nat /\ s + 3 + m <= z
        BY <2>6, <2>8
      <3>1. s + 1 \in 1 .. z /\ \A j \in 1 .. m : s + 2 + j \in 1 .. z
        BY <3>0
      <3>2. x[s + 1] # I!Newline
        BY <2>6, <2>8 DEF I!Newline
      <3>. QED  BY <1>4, <2>6, <2>8, <3>1, <3>2
    <2>. QED  BY <2>1, <2>2, <2>3, <2>5, <2>7, <2>8 DEF LineAt
  <1>. QED  BY <1>1, <1>3, <1>a, <1>4, <1>5, <1>6, <1>7 DEF LaidOut

\* A 0 behind the number of a line leaves what is said of the lines.
LEMMA LaidKept ==
  ASSUME NEW d \in Docs, I!WellFormed(d), NEW t, LaidOut(d, t), NEW k \in 1 .. Len(d.lines),
         d.lines[k].index # I!None, NEW q, q = LineEnd(d, k - 1) + 2
  PROVE  q \in 1 .. Len(t) /\ LaidOut(d, [t EXCEPT ![q] = I!Nul])
  <1>. DEFINE u == [t EXCEPT ![q] = I!Nul]
  <1>1. PICK n \in Nat : n = Len(d.lines)
    BY DocFacts
  <1>2. PICK x \in Seq(Int) : x = t /\ Len(x) = Len(I!Text(d))
    BY DEF LaidOut
  <1>3. PICK z \in Nat : z = Len(x)
    OBVIOUS
  <1>4. \A i \in 1 .. n : Spanned(I!Text(d), LineEnd(d, i - 1), LineEnd(d, i), d.lines[i])
    BY <1>1, Spans
  <1>5. PICK s \in Nat : s = LineEnd(d, k - 1)
    BY <1>1, <1>4 DEF Spanned
  <1>6. PICK e \in Nat : e = LineEnd(d, k)
    BY <1>1, <1>4 DEF Spanned
  <1>7. s + 3 <= e /\ e <= z /\ q = s + 2
    <2>1. Spanned(I!Text(d), s, e, d.lines[k])
      BY <1>1, <1>4, <1>5, <1>6
    <2>2. PICK m \in Nat : m = Len(d.lines[k].name)
      BY <2>1 DEF Spanned
    <2>3. e = s + 3 + m /\ e <= z
      BY <1>2, <1>3, <2>1, <2>2 DEF Spanned
    <2>4. q = s + 2
      BY <1>5
    <2>5. s + 3 <= e
      BY <2>3
    <2>. QED  BY <2>3, <2>4, <2>5
  <1>8. q \in 1 .. z /\ q < e /\ q > s
    BY <1>7
  <1>9. u \in Seq(Int) /\ Len(u) = z /\ \A i \in 1 .. z : i # q => u[i] = x[i]
    <2>1. x \in [1 .. z -> Int] /\ I!Nul \in Int
      BY <1>3 DEF I!Nul
    <2>2. u \in [1 .. z -> Int] /\ \A i \in 1 .. z : i # q => u[i] = x[i]
      BY <1>2, <1>8, <2>1
    <2>. HIDE DEF u
    <2>. QED  BY <2>2, FunSeq
  <1>. HIDE DEF u
  <1>10. ASSUME NEW i \in 1 .. n PROVE LineAt(d, u, i)
    <2>1. PICK l : l = d.lines[i]
      OBVIOUS
    <2>2. PICK a : a = LineEnd(d, i - 1)
      OBVIOUS
    <2>3. PICK b : b = LineEnd(d, i)
      OBVIOUS
    <2>4. Spanned(I!Text(d), a, b, l)
      BY <1>4, <2>1, <2>2, <2>3
    <2>5. PICK m \in Nat : m = Len(l.name)
      BY <2>4 DEF Spanned
    <2>6. /\ a \in Nat /\ b \in Nat /\ a < b /\ b <= z
          /\ l.index # I!None => b = a + 3 + m
      BY <1>2, <1>3, <2>4, <2>5 DEF Spanned
    <2>7. LineAt(d, t, i)
      BY <1>1 DEF LaidOut
    <2>8. /\ x[b] = I!Nul
          /\ l.index # I!None => x[a + 1] = l.index /\ \A j \in 1 .. m : x[a + 2 + j] = l.name[j]
      BY <1>2, <2>1, <2>2, <2>3, <2>5, <2>7 DEF LineAt
    <2>9. (b <= s) \/ (e <= a) \/ (a = s /\ b = e)
      <3>0. /\ d.cores # I!None
            /\ \A f \in 0 .. n : \A g \in f .. n : LineEnd(d, f) <= LineEnd(d, g)
        BY <1>1, Layout DEF I!WellFormed
      <3>1. CASE i < k
        <4>1. i \in 0 .. n /\ k - 1 \in i .. n
          BY <1>1, <3>1
        <4>. QED  BY <1>5, <2>3, <3>0, <4>1
      <3>2. CASE k < i
        <4>1. k \in 0 .. n /\ i - 1 \in k .. n
          BY <1>1, <3>2
        <4>. QED  BY <1>6, <2>2, <3>0, <4>1
      <3>3. CASE i = k
        BY <1>5, <1>6, <2>2, <2>3, <3>3
      <3>4. i < k \/ k < i \/ i = k
        BY <1>1
      <3>. QED  BY <3>1, <3>2, <3>3, <3>4
    <2>10. u[b] = I!Nul
      <3>1. b \in 1 .. z /\ b # q
        BY <1>8, <2>6, <2>9
      <3>. QED  BY <1>9, <2>8, <3>1
    <2>11. ASSUME l.index # I!None
           PROVE  u[a + 1] = l.index /\ \A j \in 1 .. m : u[a + 2 + j] = l.name[j]
      <3>1. a + 1 \in 1 .. z /\ a + 1 # q
        BY <1>7, <1>8, <2>6, <2>9, <2>11
      <3>2. ASSUME NEW j \in 1 .. m PROVE a + 2 + j \in 1 .. z /\ a + 2 + j # q
        BY <1>7, <1>8, <2>6, <2>9, <2>11
      <3>. QED  BY <1>9, <2>8, <2>11, <3>1, <3>2
    <2>. QED  BY <2>1, <2>2, <2>3, <2>5, <2>10, <2>11 DEF LineAt
  <1>11. LaidOut(d, u)
    BY <1>1, <1>2, <1>3, <1>9, <1>10 DEF LaidOut
  <1>. QED  BY <1>2, <1>3, <1>8, <1>11 DEF u

\* get_next_line finds the first 0.
LEMMA NextIs ==
  ASSUME NEW t \in Seq(Int), NEW p \in Nat \ {0}, NEW e \in p .. Len(t), t[e] = I!Nul,
         \A j \in p .. e - 1 : t[j] # I!Nul
  PROVE  I!get_next_line(t, p) = e + 1
  <1>. DEFINE ends == {i \in p .. Len(t) : t[i] = I!Nul}
  <1>1. e \in ends /\ \A i \in ends : i \in Int /\ e <= i
    OBVIOUS
  <1>2. I!get_next_line(t, p) = IF ends = {} THEN 0 ELSE (CHOOSE i \in ends : \A j \in ends : i <= j) + 1
    BY DEF I!get_next_line
  <1>. HIDE DEF ends
  <1>3. \A i \in ends : (\A j \in ends : i <= j) => i = e
    BY <1>1
  <1>4. (CHOOSE i \in ends : \A j \in ends : i <= j) = e
    BY <1>1, <1>3
  <1>. QED  BY <1>1, <1>2, <1>4

\* What the program q of core i is when the lines before line k have been parsed: 0, or
\* the place of the name on the last of them with this index.
LastSaid(d, i, q, k) ==
    \/ q = 0 /\ \A m \in 1 .. k - 1 : d.lines[m].index # i
    \/ \E m \in 1 .. k - 1 : /\ d.lines[m].index = i /\ q = LineEnd(d, m - 1) + 3
                             /\ \A l \in m + 1 .. k - 1 : d.lines[l].index # i

\* A line says nothing of other cores.
LEMMA SaysNothing ==
  ASSUME NEW d, NEW i, NEW q, NEW k \in Nat \ {0}, LastSaid(d, i, q, k), d.lines[k].index # i
  PROVE  LastSaid(d, i, q, k + 1)
  <1>1. \A a \in Nat : \A m \in a .. (k + 1) - 1 : m \in a .. k - 1 \/ m = k
    OBVIOUS
  <1>2. \A m \in 1 .. k - 1 : m \in 1 .. (k + 1) - 1 /\ m + 1 \in Nat
    OBVIOUS
  <1>. QED  BY <1>1, <1>2 DEF LastSaid

\* A line is the last one for its core.
LEMMA SaysLast ==
  ASSUME NEW d, NEW k \in Nat \ {0}
  PROVE  LastSaid(d, d.lines[k].index, LineEnd(d, k - 1) + 3, k + 1)
  <1>1. k \in 1 .. (k + 1) - 1 /\ \A l \in k + 1 .. (k + 1) - 1 : FALSE
    OBVIOUS
  <1>. QED  BY <1>1 DEF LastSaid

\* The text t has been read up to its place p, and pg is what the lines before say.
ReadTo(d, t, p, pg, done) ==
    /\ LaidOut(d, t) /\ DOMAIN pg = 0 .. MaxCore - 1
    /\ \E k \in 1 .. Len(d.lines) + 1 :
         /\ p = LineEnd(d, k - 1) + 1 /\ (done => k = Len(d.lines) + 1)
         /\ \A i \in 0 .. MaxCore - 1 : LastSaid(d, i, pg[i], k)

\* A place in the text is where a line begins, and one behind it is the end.
LEMMA AtLine ==
  ASSUME NEW d \in Docs, I!WellFormed(d), NEW t, NEW n \in Nat, n = Len(d.lines), LaidOut(d, t),
         NEW k \in 1 .. n + 1, NEW p, p = LineEnd(d, k - 1) + 1
  PROVE  p \in 1 .. Len(t) <=> k \in 1 .. n
  <1>1. PICK z \in Nat : z = Len(t) /\ z = Len(I!Text(d))
    BY DEF LaidOut
  <1>2. CASE k \in 1 .. n
    <2>1. Spanned(I!Text(d), LineEnd(d, k - 1), LineEnd(d, k), d.lines[k])
      BY <1>2, Spans
    <2>2. PICK s \in Nat, e \in Nat : s = LineEnd(d, k - 1) /\ s < e /\ e <= z
      BY <1>1, <2>1 DEF Spanned
    <2>. QED  BY <1>1, <1>2, <2>2
  <1>3. CASE k \notin 1 .. n
    <2>1. k - 1 = n
      BY <1>3
    <2>2. d.cores # I!None
      BY DEF I!WellFormed
    <2>3. LineEnd(d, n) = z
      BY <1>1, <2>2, Layout
    <2>4. p = z + 1
      BY <2>1, <2>3
    <2>. QED  BY <1>1, <1>3, <2>4
  <1>. QED  BY <1>2, <1>3

\* The pointer behind the last line.
LEMMA EndRead ==
  ASSUME NEW d \in Docs, I!WellFormed(d), NEW t, NEW p, NEW pg, ReadTo(d, t, p, pg, FALSE),
         p \notin 1 .. Len(t)
  PROVE  ReadTo(d, t, p, pg, TRUE)
  <1>1. PICK n \in Nat : n = Len(d.lines)
    BY DocFacts
  <1>2. LaidOut(d, t) /\ DOMAIN pg = 0 .. MaxCore - 1
    BY DEF ReadTo
  <1>3. PICK k \in 1 .. n + 1 : p = LineEnd(d, k - 1) + 1
                                /\ \A i \in 0 .. MaxCore - 1 : LastSaid(d, i, pg[i], k)
    BY <1>1 DEF ReadTo
  <1>4. k \notin 1 .. n
    BY <1>1, <1>2, <1>3, AtLine
  <1>5. k = n + 1
    BY <1>4
  <1>. QED  BY <1>1, <1>2, <1>3, <1>5 DEF ReadTo

\* The pointer at the 0 of a blank line.
LEMMA BlankRead ==
  ASSUME NEW d \in Docs, I!WellFormed(d), NEW t, NEW p, NEW pg, ReadTo(d, t, p, pg, FALSE),
         p \in 1 .. Len(t), t[p] = I!Nul
  PROVE  ReadTo(d, t, I!get_next_line(t, p), pg, FALSE)
  <1>1. PICK n \in Nat : n = Len(d.lines)
    BY DocFacts
  <1>2. LaidOut(d, t) /\ DOMAIN pg = 0 .. MaxCore - 1 /\ t \in Seq(Int)
    BY DEF ReadTo, LaidOut
  <1>3. PICK k \in 1 .. n + 1 : p = LineEnd(d, k - 1) + 1
                                /\ \A i \in 0 .. MaxCore - 1 : LastSaid(d, i, pg[i], k)
    BY <1>1 DEF ReadTo
  <1>4. k \in 1 .. n
    BY <1>1, <1>2, <1>3, AtLine
  <1>5. PICK l : l = d.lines[k]
    OBVIOUS
  <1>6. Spanned(I!Text(d), LineEnd(d, k - 1), LineEnd(d, k), l)
    BY <1>1, <1>4, <1>5, Spans
  <1>7. PICK s \in Nat, e \in Nat : s = LineEnd(d, k - 1) /\ e = LineEnd(d, k)
                                    /\ (l.index = I!None => e = s + 1)
    BY <1>6 DEF Spanned
  <1>8. l.index = I!None
    <2>1. SUFFICES ASSUME l.index # I!None PROVE FALSE
      OBVIOUS
    <2>2. t[p] = l.index
      BY <1>1, <1>2, <1>3, <1>4, <1>5, <2>1 DEF LaidOut, LineAt
    <2>3. l.index \in Nat
      BY <1>6, <2>1 DEF Spanned
    <2>. QED  BY <2>2, <2>3 DEF I!Nul
  <1>9. p = e /\ p \in Nat \ {0}
    BY <1>3, <1>7, <1>8
  <1>10. p \in p .. Len(t) /\ \A j \in p .. p - 1 : t[j] # I!Nul
    BY <1>2, <1>9
  <1>11. I!get_next_line(t, p) = p + 1
    BY <1>2, <1>9, <1>10, NextIs
  <1>12. (k + 1) - 1 = k /\ k + 1 \in 1 .. n + 1 /\ k \in Nat \ {0}
    BY <1>4
  <1>13. I!get_next_line(t, p) = LineEnd(d, (k + 1) - 1) + 1
    BY <1>7, <1>9, <1>11, <1>12
  <1>14. ASSUME NEW i \in 0 .. MaxCore - 1 PROVE LastSaid(d, i, pg[i], k + 1)
    <2>1. l.index # i
      BY <1>8 DEF I!None
    <2>. QED  BY <1>3, <1>5, <1>12, <2>1, SaysNothing
  <1>. QED  BY <1>1, <1>2, <1>12, <1>13, <1>14 DEF ReadTo

\* The pointer at the number of a line.
LEMMA LineRead ==
  ASSUME NEW d \in Docs, I!WellFormed(d), NEW t, NEW p, NEW pg, ReadTo(d, t, p, pg, FALSE),
         p \in 1 .. Len(t), t[p] # I!Nul
  PROVE  /\ t[p] \in Nat /\ t[p] < MaxCore /\ p + 1 \in 1 .. Len(t)
         /\ LET u == [t EXCEPT ![p + 1] = I!Nul]
            IN  ReadTo(d, u, I!get_next_line(u, p + 2), [pg EXCEPT ![t[p]] = p + 2], FALSE)
  <1>1. PICK n \in Nat : n = Len(d.lines)
    BY DocFacts
  <1>2. LaidOut(d, t) /\ DOMAIN pg = 0 .. MaxCore - 1
    BY DEF ReadTo
  <1>3. PICK k \in 1 .. n + 1 : p = LineEnd(d, k - 1) + 1
                                /\ \A i \in 0 .. MaxCore - 1 : LastSaid(d, i, pg[i], k)
    BY <1>1 DEF ReadTo
  <1>4. k \in 1 .. n
    BY <1>1, <1>2, <1>3, AtLine
  <1>5. PICK l : l = d.lines[k]
    OBVIOUS
  <1>6. Spanned(I!Text(d), LineEnd(d, k - 1), LineEnd(d, k), l)
    BY <1>1, <1>4, <1>5, Spans
  <1>7. PICK s \in Nat, e \in Nat, m \in Nat :
          /\ s = LineEnd(d, k - 1) /\ e = LineEnd(d, k) /\ m = Len(l.name)
          /\ l.index = I!None => e = s + 1
          /\ e <= Len(I!Text(d))
    BY <1>6 DEF Spanned
  <1>8. l.index # I!None
    <2>1. SUFFICES ASSUME l.index = I!None PROVE FALSE
      OBVIOUS
    <2>2. t[e] = I!Nul
      BY <1>1, <1>2, <1>4, <1>7 DEF LaidOut, LineAt
    <2>3. p = e
      BY <1>3, <1>7, <2>1
    <2>. QED  BY <2>2, <2>3
  <1>9. /\ l.index \in Nat /\ l.index < MaxCore /\ e = s + 3 + m
        /\ \A j \in 1 .. m : l.name[j] # I!Nul
    <2>1. Spanned(I!Text(d), s, e, l)
      BY <1>6, <1>7
    <2>2. l.index \in Nat /\ l.index < MaxCore /\ e = s + 3 + Len(l.name)
      BY <1>8, <2>1 DEF Spanned
    <2>3. \A j \in 1 .. Len(l.name) : l.name[j] # I!Nul
      BY <1>8, <2>1 DEF Spanned
    <2>. QED  BY <1>7, <2>2, <2>3
  <1>10. t[p] = l.index
    BY <1>1, <1>2, <1>3, <1>4, <1>5, <1>8 DEF LaidOut, LineAt
  <1>11. p = s + 1 /\ p + 1 = s + 2 /\ p + 2 = s + 3 /\ p + 2 \in Nat \ {0}
    <2>1. p = LineEnd(d, k - 1) + 1
      BY <1>3
    <2>2. s = LineEnd(d, k - 1)
      BY <1>7
    <2>3. p = s + 1
      BY <2>1, <2>2
    <2>. QED  BY <2>3
  <1>. DEFINE u == [t EXCEPT ![p + 1] = I!Nul]
              g == [pg EXCEPT ![t[p]] = p + 2]
  <1>12. p + 1 \in 1 .. Len(t) /\ LaidOut(d, u)
    <2>1. p + 1 = LineEnd(d, k - 1) + 2 /\ d.lines[k].index # I!None /\ k \in 1 .. Len(d.lines)
      BY <1>1, <1>4, <1>5, <1>7, <1>8, <1>11
    <2>. QED  BY <1>2, <2>1, LaidKept
  <1>13. t[p] \in 0 .. MaxCore - 1
    <2>1. MaxCore \in Nat
      BY SetupAssumption DEF I!InitFilesAssumption
    <2>. QED  BY <1>9, <1>10, <2>1
  <1>14. DOMAIN g = 0 .. MaxCore - 1 /\ g[t[p]] = p + 2
         /\ \A i \in 0 .. MaxCore - 1 : i # t[p] => g[i] = pg[i]
    BY <1>2, <1>13
  <1>. HIDE DEF u, g
  <1>15. /\ u \in Seq(Int) /\ Len(u) = Len(I!Text(d)) /\ u[e] = I!Nul
         /\ \A j \in 1 .. m : u[s + 2 + j] = l.name[j]
    BY <1>1, <1>4, <1>5, <1>7, <1>8, <1>12 DEF LaidOut, LineAt
  <1>16. I!get_next_line(u, p + 2) = e + 1
    <2>1. e \in p + 2 .. Len(u)
      <3>1. PICK z \in Nat : z = Len(u) /\ e <= z
        BY <1>7, <1>15
      <3>. QED  BY <1>9, <1>11, <3>1
    <2>2. ASSUME NEW j \in p + 2 .. e - 1 PROVE u[j] # I!Nul
      <3>1. j - (s + 2) \in 1 .. m /\ s + 2 + (j - (s + 2)) = j
        BY <1>9, <1>11
      <3>. QED  BY <1>9, <1>15, <3>1
    <2>. QED  BY <1>11, <1>15, <2>1, <2>2, NextIs
  <1>17. (k + 1) - 1 = k /\ k + 1 \in 1 .. n + 1 /\ k \in Nat \ {0}
    BY <1>4
  <1>18. I!get_next_line(u, p + 2) = LineEnd(d, (k + 1) - 1) + 1
    BY <1>7, <1>16, <1>17
  <1>19. ASSUME NEW i \in 0 .. MaxCore - 1 PROVE LastSaid(d, i, g[i], k + 1)
    <2>1. CASE i = t[p]
      <3>1. i = d.lines[k].index /\ g[i] = LineEnd(d, k - 1) + 3
        BY <1>5, <1>7, <1>10, <1>11, <1>14, <2>1
      <3>. QED  BY <1>17, <3>1, SaysLast
    <2>2. CASE i # t[p]
      <3>1. d.lines[k].index # i /\ g[i] = pg[i]
        BY <1>5, <1>10, <1>14, <2>2
      <3>. QED  BY <1>3, <1>17, <3>1, SaysNothing
    <2>. QED  BY <2>1, <2>2
  <1>20. ReadTo(d, u, I!get_next_line(u, p + 2), g, FALSE)
    BY <1>1, <1>12, <1>14, <1>17, <1>18, <1>19 DEF ReadTo
  <1>. QED  BY <1>9, <1>10, <1>12, <1>20 DEF u, g

\* What parse_init has returned so far, if the file is well formed.
ParseInv ==
    /\ doc \in Docs
    /\ pc = "register" => /\ text = I!Text(doc) /\ ~past
                          /\ \A i \in 0 .. MaxCore - 1 : programs[i] = 0
    /\ pc \in {"lines", "done"} /\ I!WellFormed(doc) =>
         /\ required = doc.cores /\ ~past
         /\ ReadTo(doc, text, ptr, programs, pc = "done")

\* The parser has not begun.
LEMMA ParseInvInit ==
  ASSUME I!Init
  PROVE  ParseInv
  BY DEF I!Init, ParseInv

\* The parts that come after the parser and before it leave its text alone.
LEMMA ParseInvStutter ==
  ASSUME ParseInv, UNCHANGED initVars
  PROVE  ParseInv'
  BY DEF ParseInv, initVars

\* The first line: the newlines become 0, and the number of cores is read.
LEMMA HeadInv ==
  ASSUME ParseInv, FilesIInv, I!ParseHead
  PROVE  ParseInv'
  <1>1. pc = "register" /\ UNCHANGED <<doc, programs, past>>
    BY DEF I!ParseHead
  <1>2. CASE pc' = "panic"
    BY <1>1, <1>2 DEF ParseInv
  <1>3. CASE pc' # "panic"
    <2>1. /\ pc' = "lines" /\ required' = I!atou(text', 2) /\ ptr' = I!get_next_line(text', 2)
          /\ text' = [i \in DOMAIN text |-> IF text[i] = I!Newline THEN I!Nul ELSE text[i]]
      BY <1>3 DEF I!ParseHead
    <2>2. /\ doc \in Docs /\ text = I!Text(doc) /\ ~past
          /\ \A i \in 0 .. MaxCore - 1 : programs[i] = 0
          /\ DOMAIN programs = 0 .. MaxCore - 1
      BY <1>1 DEF ParseInv, FilesIInv, I!TextInv
    <2>3. ASSUME I!WellFormed(doc)
          PROVE  required' = doc.cores /\ ReadTo(doc, text', ptr', programs, FALSE)
      <3>1. PICK t : t = text'
        OBVIOUS
      <3>2. PICK n \in Nat : n = Len(doc.lines)
        BY <2>2, DocFacts
      <3>3. LaidOut(doc, t) /\ t[2] = doc.cores /\ t[3] = I!Nul /\ 3 <= Len(t)
        BY <2>1, <2>2, <2>3, <3>1, CutLaid
      <3>4. t \in Seq(Int) /\ doc.cores \in Nat /\ doc.cores # I!None
        BY <2>2, <2>3, <3>3, DocFacts DEF LaidOut, I!WellFormed
      <3>5. I!get_next_line(t, 2) = 4
        <4>1. 3 \in 2 .. Len(t) /\ 2 \in Nat \ {0}
          BY <3>3, <3>4
        <4>2. \A j \in 2 .. 3 - 1 : t[j] # I!Nul
          BY <3>3, <3>4 DEF I!Nul
        <4>3. I!get_next_line(t, 2) = 3 + 1
          BY <3>3, <3>4, <4>1, <4>2, NextIs
        <4>. QED  BY <4>3
      <3>6. LineEnd(doc, 0) = 3
        BY <2>2, <3>2, <3>4, Layout
      <3>7. 1 \in 1 .. n + 1 /\ 1 - 1 = 0
        BY <3>2
      <3>8. \A i \in 0 .. MaxCore - 1 : LastSaid(doc, i, programs[i], 1)
        <4>1. \A m \in 1 .. 1 - 1 : FALSE
          OBVIOUS
        <4>. QED  BY <2>2, <4>1 DEF LastSaid
      <3>9. ptr' = LineEnd(doc, 1 - 1) + 1
        BY <2>1, <3>1, <3>5, <3>6, <3>7
      <3>10. required' = doc.cores
        BY <2>1, <3>1, <3>3, <3>4 DEF I!atou
      <3>. QED  BY <2>2, <3>1, <3>2, <3>3, <3>7, <3>8, <3>9, <3>10 DEF ReadTo
    <2>4. pc' # "register" /\ pc' # "done"
      BY <2>1
    <2>5. (pc' = "done") = FALSE
      BY <2>4
    <2>. QED  BY <1>1, <2>1, <2>2, <2>3, <2>4, <2>5 DEF ParseInv
  <1>. QED  BY <1>2, <1>3

\* Each line of a well formed file is read as it stands.
LEMMA ParseInvStep ==
  ASSUME ParseInv, FilesIInv,
         I!register_new_file \/ I!ParseHead \/ I!ParseBlank \/ I!ParseLine \/ I!ParseEnd
  PROVE  ParseInv'
  <1>1. CASE I!register_new_file
    BY <1>1 DEF I!register_new_file, ParseInv
  <1>2. CASE I!ParseHead
    BY <1>2, HeadInv
  <1>3. CASE I!ParseBlank \/ I!ParseLine \/ I!ParseEnd
    <2>1. /\ pc = "lines" /\ UNCHANGED <<doc, required>> /\ pc' \in {"lines", "done"}
          /\ doc \in Docs /\ Len(text) \in Nat
      BY <1>3 DEF I!ParseBlank, I!ParseLine, I!ParseEnd, ParseInv, FilesIInv, I!TextInv
    <2>2. SUFFICES ASSUME I!WellFormed(doc)
                   PROVE  ~past' /\ ReadTo(doc, text', ptr', programs', pc' = "done")
                          /\ required' = doc.cores
      BY <2>1 DEF ParseInv
    <2>3. /\ required = doc.cores /\ ~past /\ (pc = "done") = FALSE
          /\ ReadTo(doc, text, ptr, programs, pc = "done")
      BY <2>1, <2>2 DEF ParseInv
    <2>4. ReadTo(doc, text, ptr, programs, FALSE)
      BY <2>3
    <2>5. CASE I!ParseBlank
      <3>1. /\ ptr \in 1 .. Len(text) /\ text[ptr] = I!Nul /\ ptr' = I!get_next_line(text, ptr)
            /\ UNCHANGED <<text, programs, past>> /\ (pc' = "done") = FALSE
        BY <2>1, <2>5 DEF I!ParseBlank, I!Inside
      <3>2. ReadTo(doc, text, I!get_next_line(text, ptr), programs, FALSE)
        BY <2>1, <2>2, <2>4, <3>1, BlankRead
      <3>. QED  BY <2>1, <2>3, <3>1, <3>2
    <2>6. CASE I!ParseLine
      <3>1. ptr \in 1 .. Len(text) /\ text[ptr] # I!Nul /\ (pc' = "done") = FALSE
        BY <2>1, <2>6 DEF I!ParseLine, I!Inside
      <3>. DEFINE u == [text EXCEPT ![ptr + 1] = I!Nul]
                  g == [programs EXCEPT ![text[ptr]] = ptr + 2]
      <3>2. /\ text[ptr] \in Nat /\ text[ptr] < MaxCore /\ ptr + 1 \in 1 .. Len(text)
            /\ ReadTo(doc, u, I!get_next_line(u, ptr + 2), g, FALSE)
        BY <2>1, <2>2, <2>4, <3>1, LineRead
      <3>3. MaxCore \in Nat /\ ptr \in Int /\ (ptr + 1) + 1 = ptr + 2 /\ text[ptr] >= 0
            /\ ~(text[ptr] >= MaxCore)
        BY <3>1, <3>2, SetupAssumption DEF I!InitFilesAssumption
      <3>4. I!atou(text, ptr) = text[ptr]
        BY <3>3 DEF I!atou
      <3>5. I!Inside(ptr + 1)
        BY <3>2 DEF I!Inside
      <3>6. text' = u /\ ptr' = I!get_next_line(u, (ptr + 1) + 1)
        BY <2>6, <3>3, <3>5 DEF I!ParseLine
      <3>7. programs' = [programs EXCEPT ![text[ptr]] = (ptr + 1) + 1]
        BY <2>6, <3>2, <3>3, <3>4 DEF I!ParseLine
      <3>8. past' = (past \/ text[ptr] >= MaxCore \/ ~I!Inside(ptr + 1))
        BY <2>6, <3>3, <3>4 DEF I!ParseLine
      <3>9. ~past'
        BY <2>3, <3>3, <3>5, <3>8, Zenon
      <3>10. programs' = g
        BY <3>3, <3>7
      <3>. HIDE DEF u, g
      <3>. QED  BY <2>1, <2>3, <3>1, <3>2, <3>3, <3>6, <3>9, <3>10
    <2>7. CASE I!ParseEnd
      <3>1. /\ ptr \notin 1 .. Len(text) /\ UNCHANGED <<text, ptr, programs, past>>
            /\ (pc' = "done") = TRUE
        BY <2>1, <2>7 DEF I!ParseEnd, I!Inside
      <3>2. ReadTo(doc, text, ptr, programs, TRUE)
        BY <2>1, <2>2, <2>4, <3>1, EndRead
      <3>. QED  BY <2>1, <2>3, <3>1, <3>2
    <2>. QED  BY <1>3, <2>5, <2>6, <2>7
  <1>. QED  BY <1>1, <1>2, <1>3

\* The string behind the number of a line is its name.
LEMMA NameIs ==
  ASSUME NEW k \in 1 .. Len(doc.lines), doc \in Docs, I!WellFormed(doc), LaidOut(doc, text),
         doc.lines[k].index # I!None
  PROVE  I!String(LineEnd(doc, k - 1) + 3) = doc.lines[k].name
  <1>1. PICK l : l = doc.lines[k]
    OBVIOUS
  <1>2. Spanned(I!Text(doc), LineEnd(doc, k - 1), LineEnd(doc, k), l)
    BY <1>1, Spans
  <1>3. PICK s \in Nat, e \in Nat, m \in Nat :
          /\ s = LineEnd(doc, k - 1) /\ e = LineEnd(doc, k) /\ m = Len(l.name)
          /\ e = s + 3 + m /\ e <= Len(I!Text(doc))
          /\ \A j \in 1 .. m : l.name[j] # I!Nul
    <2>1. PICK s, e : s = LineEnd(doc, k - 1) /\ e = LineEnd(doc, k)
      OBVIOUS
    <2>2. Spanned(I!Text(doc), s, e, l) /\ l.index # I!None
      BY <1>1, <1>2, <2>1
    <2>3. s \in Nat /\ e \in Nat /\ Len(l.name) \in Nat /\ e <= Len(I!Text(doc))
      BY <2>2 DEF Spanned
    <2>4. /\ e = s + 3 + Len(l.name)
          /\ \A j \in 1 .. Len(l.name) : l.name[j] # I!Nul
      BY <2>2 DEF Spanned
    <2>. QED  BY <2>1, <2>3, <2>4
  <1>4. PICK t \in Seq(Int) : t = text
    BY DEF LaidOut
  <1>5. PICK z \in Nat : z = Len(t) /\ e <= z
    BY <1>3, <1>4 DEF LaidOut
  <1>6. t[e] = I!Nul /\ \A j \in 1 .. m : t[s + 2 + j] = l.name[j]
    BY <1>1, <1>3, <1>4 DEF LaidOut, LineAt
  <1>7. PICK q \in Nat : q = s + 3 /\ q = LineEnd(doc, k - 1) + 3
    BY <1>3
  <1>a. e = s + 3 + m /\ q = s + 3 /\ e <= z
    BY ONLY <1>3, <1>5, <1>7
  <1>. DEFINE ends == {i \in q .. Len(text) : text[i] = I!Nul}
  <1>8. e \in ends /\ \A i \in ends : e <= i
    <2>0. ends = {i \in q .. z : t[i] = I!Nul}
      BY <1>4, <1>5
    <2>1. e \in ends
      <3>1. e \in q .. z
        BY <1>a
      <3>. QED  BY <1>6, <2>0, <3>1
    <2>2. ASSUME NEW i \in ends, i < e PROVE FALSE
      <3>0. i \in q .. z /\ t[i] = I!Nul
        BY <2>0, <2>2
      <3>1. i - (s + 2) \in 1 .. m /\ s + 2 + (i - (s + 2)) = i /\ t[i] = I!Nul
        BY <1>a, <2>2, <3>0
      <3>. QED  BY <1>3, <1>6, <3>1
    <2>3. \A i \in ends : i \in Int
      BY <1>4, <1>5
    <2>. QED  BY <2>1, <2>2, <2>3
  <1>9. \A i \in ends : i \in Int
    BY <1>4, <1>5
  <1>10. I!String(q) = SubSeq(text, q, (CHOOSE i \in ends : \A j \in ends : i <= j) - 1)
    BY DEF I!String
  <1>. HIDE DEF ends
  <1>11. (CHOOSE i \in ends : \A j \in ends : i <= j) = e
    <2>1. \A i \in ends : (\A j \in ends : i <= j) => i = e
      BY <1>8, <1>9
    <2>. QED  BY <1>8, <2>1
  <1>12. I!String(q) = SubSeq(t, q, e - 1)
    BY <1>4, <1>10, <1>11
  <1>13. PICK x \in Seq(Int) : x = l.name /\ Len(x) = m
    <2>1. l \in [index : Nat \cup {I!None}, sep : Seq(Int), name : Seq(Int)]
      BY <1>1, DocFacts
    <2>. QED  BY <1>3, <2>1
  <1>14. SubSeq(t, q, e - 1) = x
    <2>1. q \in Nat \ {0} /\ e - 1 \in Int /\ e - 1 = q + m - 1
      BY <1>a
    <2>2. \A j \in 1 .. m : q + j - 1 = s + 2 + j
      BY <1>a
    <2>3. \A j \in 1 .. m : t[q + j - 1] = x[j]
      BY <1>6, <1>13, <2>2
    <2>. QED  BY <1>13, <2>1, <2>3, Slice
  <1>. QED  BY <1>1, <1>7, <1>12, <1>13, <1>14

\* At the end the pointers stand for the names on the last lines.
LEMMA ParseMeans ==
  ASSUME ParseInv
  PROVE  I!ParsesMeaning
  <1>1. SUFFICES ASSUME pc = "done", I!WellFormed(doc)
                 PROVE  /\ required = doc.cores /\ ~past
                        /\ \A i \in DOMAIN programs :
                             IF I!LinesOf(i) = {} THEN programs[i] = 0
                             ELSE I!String(programs[i]) =
                                    doc.lines[CHOOSE k \in I!LinesOf(i) : \A j \in I!LinesOf(i) : j <= k].name
    BY DEF I!ParsesMeaning
  <1>2. /\ doc \in Docs /\ required = doc.cores /\ ~past
        /\ (pc = "done") = TRUE /\ ReadTo(doc, text, ptr, programs, pc = "done")
    BY <1>1 DEF ParseInv
  <1>3. ReadTo(doc, text, ptr, programs, TRUE)
    BY <1>2
  <1>4. PICK n \in Nat : n = Len(doc.lines)
    BY <1>2, DocFacts
  <1>5. /\ LaidOut(doc, text) /\ DOMAIN programs = 0 .. MaxCore - 1
        /\ \A i \in 0 .. MaxCore - 1 : LastSaid(doc, i, programs[i], n + 1)
    BY <1>3, <1>4 DEF ReadTo
  <1>6. ASSUME NEW i \in 0 .. MaxCore - 1
        PROVE  IF I!LinesOf(i) = {} THEN programs[i] = 0
               ELSE I!String(programs[i]) =
                      doc.lines[CHOOSE k \in I!LinesOf(i) : \A j \in I!LinesOf(i) : j <= k].name
    <2>1. (n + 1) - 1 = n /\ LastSaid(doc, i, programs[i], n + 1)
      BY <1>5
    <2>2. I!LinesOf(i) = {k \in 1 .. n : doc.lines[k].index = i}
      BY <1>4 DEF I!LinesOf
    <2>3. CASE programs[i] = 0 /\ \A m \in 1 .. n : doc.lines[m].index # i
      <3>1. I!LinesOf(i) = {}
        BY <2>2, <2>3
      <3>. QED  BY <2>3, <3>1
    <2>4. ASSUME NEW m \in 1 .. n, doc.lines[m].index = i, programs[i] = LineEnd(doc, m - 1) + 3,
                 \A l \in m + 1 .. n : doc.lines[l].index # i
          PROVE  /\ I!LinesOf(i) # {}
                 /\ I!String(programs[i]) =
                      doc.lines[CHOOSE k \in I!LinesOf(i) : \A j \in I!LinesOf(i) : j <= k].name
      <3>1. m \in I!LinesOf(i) /\ \A j \in I!LinesOf(i) : j \in Int /\ j <= m
        <4>1. ASSUME NEW j \in I!LinesOf(i) PROVE j \in Int /\ j <= m
          <5>1. j \in 1 .. n /\ doc.lines[j].index = i
            BY <2>2
          <5>2. j \notin m + 1 .. n
            BY <2>4, <5>1
          <5>. QED  BY <5>1, <5>2
        <4>. QED  BY <2>2, <2>4, <4>1
      <3>2. \A k \in I!LinesOf(i) : (\A j \in I!LinesOf(i) : j <= k) => k = m
        BY <3>1
      <3>3. (CHOOSE k \in I!LinesOf(i) : \A j \in I!LinesOf(i) : j <= k) = m
        BY <3>1, <3>2
      <3>4. I!String(LineEnd(doc, m - 1) + 3) = doc.lines[m].name
        <4>1. doc.lines[m].index # I!None
          BY <2>4 DEF I!None
        <4>2. m \in 1 .. Len(doc.lines)
          BY <1>4
        <4>. QED  BY <1>1, <1>2, <1>5, <4>1, <4>2, NameIs
      <3>. QED  BY <2>4, <3>1, <3>3, <3>4
    <2>. QED  BY <2>1, <2>3, <2>4 DEF LastSaid
  <1>. QED  BY <1>2, <1>5, <1>6

-----------------------------------------------------------------------------
(* The machine.                                                            *)

LEMMA InitIInv ==
  ASSUME Init
  PROVE  IInv
  BY FilesTypeInit, FirmwareTypeInit, CapTypeInit DEF Init, IInv

LEMMA NextIInv ==
  ASSUME IInv, [Next]_vars
  PROVE  IInv'
  <1>. USE DEF IInv
  <1>1. CASE /\ \/ I!register_new_file \/ I!ParseHead \/ I!ParseBlank \/ I!ParseLine
                \/ I!ParseEnd
             /\ ByI
    BY <1>1, FilesType, FirmwareTypeStutter, CapTypeStutter DEF ByI
  <1>2. CASE /\ F!BootStep \/ F!Tick \/ (\E c \in Core : F!CoreStep(c))
             /\ ByF
    BY <1>2, FilesTypeStutter, FirmwareType, CapTypeStutter DEF ByF
  <1>3. CASE /\ \/ C!get_section \/ C!ScanLine \/ C!BodyLine \/ C!ParseEnd
                \/ C!init_capabilities_record
             /\ ByC
    BY <1>3, FilesTypeStutter, FirmwareTypeStutter, SetupType DEF ByC
  <1>4. CASE (\E c \in Core : C!CoreStep(c)) /\ ByC
    BY <1>4, FilesTypeStutter, FirmwareTypeStutter, CoreType DEF ByC
  <1>5. CASE UNCHANGED vars
    BY <1>5, FilesTypeStutter, FirmwareTypeStutter, CapTypeStutter DEF vars
  <1>. QED  BY <1>1, <1>2, <1>3, <1>4, <1>5, Frames

\* The three invariants hold of every machine, whatever the tables, the files,
\* the names and the number of cores, in every interleaving of the system calls.
THEOREM Invariance == Spec => []IInv
  BY InitIInv, NextIInv, PTL DEF Spec

\* In every machine a name fits struct file, apic_info has room for the cores and the
\* overrides of the MADT, an address of the capability file fits a word however many
\* digits it has, and the pointers of the three parsers stay in what they read.
THEOREM TypeCorrect == Spec => []TypeOK
  <1>1. IInv => TypeOK
    BY DEF IInv, FilesIInv, FirmwareIInv, CapIInv, TypeOK
  <1>. QED  BY <1>1, Invariance, PTL

\* In an initrd of any modules, get_file answers a name that fits struct file
\* with the first module of that name and with no other.
THEOREM Lookups == Spec => []LookupExact
  <1>1. IInv => LookupExact
    BY Lookup DEF IInv, FilesIInv, LookupExact
  <1>. QED  BY <1>1, Invariance, PTL

\* No core, of any number, reaches for an APIC or the HPET that its own page map
\* does not have.
THEOREM DevicesSafe == Spec => []DevicesMapped
  <1>1. IInv => DevicesMapped
    BY DEF IInv, FirmwareIInv, DevicesMapped, F!FirmwareInv
  <1>. QED  BY <1>1, Invariance, PTL

\* A timer that init_APIC_timer has started was measured over the whole wait,
\* whatever the rate, the wait and the state the HPET was found in.
THEOREM TimersCalibrated == Spec => []Calibrated
  <1>1. IInv => Calibrated
    BY DEF IInv, FirmwareIInv, Calibrated, F!FirmwareInv
  <1>. QED  BY <1>1, Invariance, PTL

\* For any number of cores, records and names, a record names no core that
\* get_capability did not answer 1, and a core holds nothing that a record gives to
\* another, unless two cores were between the test and the store of that record.
THEOREM RecordsHeld == Spec => []RecordsAgree
  <1>1. IInv => RecordsAgree
    BY DEF IInv, CapIInv, RecordsAgree, C!CapInv
  <1>. QED  BY <1>1, Invariance, PTL

\* A step of a part keeps what the walks have recorded, and a system call does too.
LEMMA TablesStep ==
  ASSUME IInv, MadtInv, CapReadInv, [Next]_vars
  PROVE  MadtInv' /\ CapReadInv'
  <1>. USE DEF IInv
  <1>1. CASE ByI
    BY <1>1, MadtStutter, CapReadStutter DEF ByI
  <1>2. CASE /\ F!BootStep \/ F!Tick \/ (\E c \in Core : F!CoreStep(c))
             /\ ByF
    BY <1>2, MadtStep, CapReadStutter DEF ByF
  <1>3. CASE /\ \/ C!get_section \/ C!ScanLine \/ C!BodyLine \/ C!ParseEnd
                \/ C!init_capabilities_record
             /\ ByC
    BY <1>3, MadtStutter, CapReadStep DEF ByC
  <1>4. CASE (\E c \in Core : C!CoreStep(c)) /\ ByC
    BY <1>4, MadtStutter, CapReadCall DEF ByC
  <1>5. CASE UNCHANGED vars
    BY <1>5, MadtStutter, CapReadStutter DEF vars
  <1>. QED  BY <1>1, <1>2, <1>3, <1>4, <1>5, Frames

\* Whatever the tables and the capability file, apic_info has the enabled cores, the
\* overrides and the NMIs of the MADT in their order, all of them and no others, once the
\* tables have been walked; and the record of a section with one CAPABILITY has the name
\* of that line and the last address and permissions behind it.
THEOREM TablesKept == Spec => []TablesRecorded
  <1>1. Init => MadtInv /\ CapReadInv
    BY MadtInit, CapReadInit DEF Init
  <1>2. IInv /\ MadtInv /\ CapReadInv /\ [Next]_vars => MadtInv' /\ CapReadInv'
    BY TablesStep
  <1>3. IInv /\ MadtInv /\ CapReadInv => TablesRecorded
    BY MadtMeans, CapReadMeans DEF IInv, TablesRecorded
  <1>. QED  BY <1>1, <1>2, <1>3, Invariance, PTL DEF Spec

\* No other part disturbs what the parser has read.
LEMMA ParsedStep ==
  ASSUME IInv, ParseInv, [Next]_vars
  PROVE  ParseInv'
  <1>1. CASE /\ \/ I!register_new_file \/ I!ParseHead \/ I!ParseBlank \/ I!ParseLine
                \/ I!ParseEnd
             /\ ByI
    BY <1>1, ParseInvStep DEF IInv
  <1>2. CASE ByF \/ ByC
    BY <1>2, ParseInvStutter DEF ByF, ByC
  <1>3. CASE UNCHANGED vars
    BY <1>3, ParseInvStutter DEF vars
  <1>. QED  BY <1>1, <1>2, <1>3, Frames

\* For a well formed init file of any number of lines, whatever their order, their names
\* and the blank lines between them, parse_init returns the number of cores of the first
\* line and, for each core, a pointer to the name on the last line with its number or
\* NULL, and it writes nothing behind the file or the array.
THEOREM InitFileRead == Spec => []ParsesMeaning
  <1>1. Init => ParseInv
    BY ParseInvInit DEF Init
  <1>2. IInv /\ ParseInv /\ [Next]_vars => ParseInv'
    BY ParsedStep
  <1>3. ParseInv => ParsesMeaning
    BY ParseMeans DEF ParsesMeaning
  <1>. QED  BY <1>1, <1>2, <1>3, Invariance, PTL DEF Spec
====
