------------------------------ MODULE Firmware ------------------------------
(***************************************************************************)
(* What the kernel makes of the machine's ACPI tables (rsdt.c) and how     *)
(* each core sets up its interrupt controller (apic.c) and the boot core   *)
(* measures its timer with the HPET (hpet.c).  The boot core goes first,   *)
(* then the others one at a time, with a page map of their own.            *)
(***************************************************************************)
EXTENDS Integers, Sequences

CONSTANTS
    Aps,            \* the other cores; the boot core is 0
    Roots,          \* RSDTs: sequences of tables [name, valid, space]
    Madts,          \* sequences of MADT entries [type, a, b]
    MaxCore,        \* MAX_CORE, the length of lapics and interrupt
    MaxRedirection, \* what the I/O APIC says of itself
    TicksToWait,    \* HPET ticks in 10 ms
    Rate            \* LAPIC timer ticks in a tick of the HPET

Cores == {0} \cup Aps
Tables(r, name) == {k \in 1 .. Len(r) : r[k].name = name}

\* The entries of m at the places ks, in order, among the first n.
Picked(m, ks, n) ==
    LET picked[k \in 0 .. Len(m)] ==
            IF k = 0 THEN <<>>
            ELSE IF k \in ks THEN Append(picked[k - 1], m[k]) ELSE picked[k - 1]
    IN  picked[n]
TypePlaces(m, type) == {k \in 1 .. Len(m) : m[k].type = type}
OfType(m, type) == Picked(m, TypePlaces(m, type), Len(m))
EnabledPlaces(m) == {k \in TypePlaces(m, "lapic") : m[k].b = 1}

\* The firmware has one of both tables and no more cores and overrides than the kernel
\* has room for.
FirmwareAssumption ==
    /\ Aps \subseteq Nat \ {0}
    /\ \A r \in Roots : \A name \in {"APIC", "HPET"} :
          \E k \in 1 .. Len(r) : Tables(r, name) = {k}
    /\ \A r \in Roots : Len(r) \in Nat
    /\ \A m \in Madts : Len(m) \in 0 .. MaxCore /\ Len(OfType(m, "ioapic")) = 1
    /\ TicksToWait \in Nat \ {0} /\ Rate \in Nat \ {0}

VARIABLES
    root, madt,   \* the tables of this machine
    low,          \* whether the byte at the address Revision has in a null RSDP is set
    step,         \* where each core is
    pos, ptr,     \* the table of the RSDT, the entry of the MADT
    desc, info,   \* desc_rsdp_20 and apic_info
    once,         \* the functions whose ONCE has run
    maps,         \* the devices each core's page map has
    missed,       \* accesses of a core to a device it has not mapped
    redir,        \* redirection entries of the I/O APIC
    lapic,        \* per core: on, lint entries, timer count
    hpet          \* the HPET: on, count, and LAPIC ticks counted in the wait

tables == <<root, madt, low>>
parsed == <<pos, ptr, desc, info>>
devices == <<redir, lapic, hpet>>
vars == <<tables, parsed, devices, step, once, maps, missed>>

Init ==
    /\ root \in Roots /\ madt \in Madts /\ low \in BOOLEAN
    /\ step = [c \in Cores |-> IF c = 0 THEN "rsdp" ELSE "down"]
    /\ pos = 1 /\ ptr = 1 /\ desc = "null"
    /\ info = [lapics |-> <<>>, ovrs |-> <<>>, nmis |-> <<>>, base |-> 0, address |-> 0]
    /\ once = {} /\ maps = [c \in Cores |-> {}] /\ missed = {}
    /\ redir = [e \in 0 .. MaxRedirection |-> "masked"]
    /\ lapic = [c \in Cores |-> [on |-> FALSE, lint |-> [n \in {0, 1} |-> "masked"], timer |-> 0]]
    /\ \E on \in BOOLEAN : hpet = [on |-> on, count |-> 1, ticks |-> 0]

Go(c, s) == step' = [step EXCEPT ![c] = s]
Access(c, devs) == missed' = missed \cup ({c} \X (devs \ maps[c]))

-----------------------------------------------------------------------------
(* rsdt.c, on the boot core.                                               *)

\* The revision is read through desc_rsdp_20, which is still null.
parse_RSDP ==
    /\ step[0] = "rsdp" /\ Go(0, "rsdt")
    /\ desc' = IF low THEN "rsdp" ELSE desc
    /\ UNCHANGED <<tables, pos, ptr, info, devices, once, maps, missed>>

\* parse_RSDT follows a descriptor that is not there.
LostDesc ==
    /\ step[0] = "rsdt" /\ desc = "null" /\ Go(0, "lost")
    /\ UNCHANGED <<tables, parsed, devices, once, maps, missed>>

AtTable(name) ==
    /\ step[0] = "rsdt" /\ desc # "null" /\ pos <= Len(root)
    /\ root[pos].name = name /\ root[pos].valid

\* A wrong checksum halts, as does an HPET that is not in memory.
BadTable ==
    /\ step[0] = "rsdt" /\ desc # "null" /\ pos <= Len(root)
    /\ ~root[pos].valid \/ (root[pos].name = "HPET" /\ root[pos].space # 0)
    /\ Go(0, "halt")
    /\ UNCHANGED <<tables, parsed, devices, once, maps, missed>>
OtherTable ==
    /\ AtTable("FACP") /\ pos' = pos + 1
    /\ UNCHANGED <<tables, ptr, desc, info, devices, step, once, maps, missed>>
hpet_init ==
    /\ AtTable("HPET") /\ root[pos].space = 0
    /\ pos' = pos + 1 /\ maps' = [maps EXCEPT ![0] = @ \cup {"hpet"}]
    /\ UNCHANGED <<tables, ptr, desc, info, devices, step, once, missed>>
MadtTable ==
    /\ AtTable("APIC") /\ Go(0, "madt")
    /\ UNCHANGED <<tables, parsed, devices, once, maps, missed>>

\* A mutant: a core that cannot be enabled is recorded too.
EntryAny(i, e) ==
    CASE e.type = "lapic" -> [i EXCEPT !.lapics = Append(@, e)]
      [] e.type = "override" -> [i EXCEPT !.ovrs = Append(@, e)]
      [] e.type = "nmi" -> [i EXCEPT !.nmis = Append(@, e)]
      [] e.type = "ioapic" -> [i EXCEPT !.base = e.a]
      [] e.type = "address" -> [i EXCEPT !.address = e.a]
      [] OTHER -> i

\* An entry of the MADT; a LAPIC counts when its enabled bit, b, is set.
Entry(i, e) ==
    CASE e.type = "lapic" -> IF e.b = 1 THEN [i EXCEPT !.lapics = Append(@, e)] ELSE i
      [] e.type = "override" -> [i EXCEPT !.ovrs = Append(@, e)]
      [] e.type = "nmi" -> [i EXCEPT !.nmis = Append(@, e)]
      [] e.type = "ioapic" -> [i EXCEPT !.base = e.a]
      [] e.type = "address" -> [i EXCEPT !.address = e.a]
      [] OTHER -> i

\* ptr += ptr[1]
NextEntry(p) == p + 1

parse_MADT ==
    /\ step[0] = "madt"
    /\ IF ptr <= Len(madt)
       THEN info' = Entry(info, madt[ptr]) /\ ptr' = NextEntry(ptr) /\ UNCHANGED <<pos, step>>
       ELSE pos' = pos + 1 /\ Go(0, "rsdt") /\ UNCHANGED <<info, ptr>>
    /\ UNCHANGED <<tables, desc, devices, once, maps, missed>>
TablesEnd ==
    /\ step[0] = "rsdt" /\ desc # "null" /\ pos > Len(root) /\ Go(0, "enable")
    /\ UNCHANGED <<tables, parsed, devices, once, maps, missed>>

-----------------------------------------------------------------------------
(* apic.c and hpet.c, on every core.                                       *)

\* BEGIN_BOTTLENECK in _start_core; the core's page map is new.
StartCore(c) ==
    /\ c \in Aps /\ step[c] = "down" /\ step[0] = "done"
    /\ \A d \in Aps : step[d] \in {"down", "done"}
    /\ Go(c, "map")
    /\ UNCHANGED <<tables, parsed, devices, once, maps, missed>>
map_pics(c) ==
    /\ step[c] = "map" /\ "map_APIC" \in once /\ Go(c, "enable")
    /\ maps' = [maps EXCEPT ![c] = @ \cup {"lapic", "ioapic"}]
    /\ UNCHANGED <<tables, parsed, devices, once, missed>>

\* redirect_interrupts: the entry of the override's irq gets the vector irq + 32.
CanRedirect(o) == info.base < o.b /\ o.a <= MaxRedirection
redirect_interrupts ==
    [e \in DOMAIN redir |->
        IF \E k \in 1 .. Len(info.ovrs) : CanRedirect(info.ovrs[k]) /\ info.ovrs[k].a - info.base = e
        THEN "vector" ELSE redir[e]]

\* map_APIC, once, then the spurious vector and the redirections.
enable_APIC(c) ==
    /\ step[c] = "enable" /\ Go(c, "interrupt")
    /\ LET here == IF "map_APIC" \in once THEN maps[c] ELSE maps[c] \cup {"lapic", "ioapic"}
       IN  /\ maps' = [maps EXCEPT ![c] = here]
           /\ missed' = missed \cup ({c} \X ({"lapic", "ioapic"} \ here))
    /\ once' = once \cup {"map_APIC"}
    /\ redir' = redirect_interrupts
    /\ UNCHANGED <<tables, parsed, lapic, hpet>>

\* init_APIC_interrupt: the lines of NMIs for all processors, 255, get an entry
\* with the polarity and trigger mode but no delivery mode, which reads as fixed.
init_APIC_interrupt(c) ==
    /\ step[c] = "interrupt" /\ Go(c, "timer")
    /\ Access(c, {"lapic"})
    /\ lapic' = [lapic EXCEPT ![c].on = TRUE,
                              ![c].lint = [n \in DOMAIN @ |->
                                  IF \E k \in 1 .. Len(info.nmis) :
                                         info.nmis[k].a = 255 /\ info.nmis[k].b = n
                                  THEN "fixed" ELSE @[n]]]
    /\ UNCHANGED <<tables, parsed, redir, hpet, once, maps>>

\* Mutants: the counter is not set to 0; it is never started; every core
\* measures its timer.
ResetKeeps(h) == [h EXCEPT !.on = FALSE]
StartNot(h) == h
MeasuresAlways == TRUE

hpet_reset(h) == [h EXCEPT !.on = FALSE, !.count = 0]
hpet_start(h) == [h EXCEPT !.on = TRUE]
Measures == "init_APIC_timer" \notin once

\* init_APIC_timer: ONCE, then the LAPIC counts while the HPET's 10 ms go by.
init_APIC_timer(c) ==
    /\ step[c] = "timer"
    /\ IF Measures
       THEN /\ Go(c, "wait") /\ Access(c, {"hpet", "lapic"})
            /\ hpet' = hpet_start([hpet_reset(hpet) EXCEPT !.ticks = 0])
       ELSE Go(c, "done") /\ UNCHANGED <<missed, hpet>>
    /\ once' = once \cup {"init_APIC_timer"}
    /\ UNCHANGED <<tables, parsed, redir, lapic, maps>>
\* hpet_wait_tick ends; the timer is started with 300 times what was counted.
TimerSet(c) ==
    /\ step[c] = "wait" /\ hpet.count >= TicksToWait /\ Go(c, "done")
    /\ lapic' = [lapic EXCEPT ![c].timer = 300 * hpet.ticks]
    /\ UNCHANGED <<tables, parsed, redir, hpet, once, maps, missed>>

\* The hardware counts; a core that waits reads late by one tick at most.
Tick ==
    /\ hpet.on /\ hpet.count <= TicksToWait
    /\ hpet' = [hpet EXCEPT !.count = @ + 1, !.ticks = @ + Rate]
    /\ UNCHANGED <<tables, parsed, redir, lapic, step, once, maps, missed>>

BootStep ==
    \/ parse_RSDP \/ LostDesc \/ BadTable \/ OtherTable \/ hpet_init \/ MadtTable
    \/ parse_MADT \/ TablesEnd
CoreStep(c) ==
    \/ StartCore(c) \/ map_pics(c) \/ enable_APIC(c)
    \/ init_APIC_interrupt(c) \/ init_APIC_timer(c) \/ TimerSet(c)
Next == BootStep \/ Tick \/ \E c \in Cores : CoreStep(c)

\* A core goes on when it can, and the HPET counts while it is on.
Spec ==
    /\ Init /\ [][Next]_vars
    /\ WF_vars(BootStep) /\ WF_vars(Tick) /\ \A c \in Cores : WF_vars(CoreStep(c))

-----------------------------------------------------------------------------
(* Properties.                                                             *)

\* What is recorded fits the arrays of apic_info, the walks stay in their tables and
\* every core is at a step.
TypeOK ==
    /\ Len(info.lapics) <= MaxCore /\ Len(info.ovrs) <= MaxCore
    /\ pos \in 1 .. Len(root) + 1 /\ ptr \in 1 .. Len(madt) + 1
    /\ hpet.count \in 0 .. TicksToWait + 1
    /\ \A c \in Cores : step[c] \in
           {"down", "rsdp", "rsdt", "madt", "map", "enable", "interrupt", "timer", "wait",
            "done", "halt", "lost"}

\* Past parse_RSDT, apic_info holds the cores that can be enabled, the overrides
\* and the NMIs in the order of the MADT, whatever lies between them.
MadtRecorded ==
    step[0] \notin {"rsdp", "rsdt", "madt", "halt", "lost"} =>
        /\ info.lapics = Picked(madt, EnabledPlaces(madt), Len(madt))
        /\ info.ovrs = OfType(madt, "override")
        /\ info.nmis = OfType(madt, "nmi")

\* A core reaches for a device only when its own page map has it: map_pics maps
\* the APICs again for each core, and the HPET, which only the boot core mapped,
\* is kept from the others by the ONCE of init_APIC_timer.
DevicesMapped == missed = {}

\* A timer that runs was measured over no less than the 10 ms of hpet_ms_to_tick,
\* whatever the firmware left in the counter of the HPET.
Calibrated ==
    \A c \in Cores : lapic[c].timer > 0 => lapic[c].timer >= 300 * Rate * TicksToWait

\* Every core comes out of its set-up, or the machine halted on a bad table.
AllUp == <>(step[0] \in {"halt", "lost"} \/ \A c \in Cores : step[c] = "done")
-----------------------------------------------------------------------------
(* The inductive invariant behind DevicesMapped, Calibrated and TypeOK.    *)

Reading == {"rsdp", "rsdt", "madt", "halt", "lost"}
SettingUp == {"enable", "interrupt", "timer", "wait", "done"}
Apics == {"lapic", "ioapic"}

\* The others start when the boot core is done, and each ONCE has run by then.
StepInv ==
    /\ step \in [Cores -> Reading \cup SettingUp \cup {"down", "map"}]
    /\ step[0] \in Reading \cup SettingUp
    /\ \A c \in Aps : step[c] \in (SettingUp \ {"wait"}) \cup {"down", "map"}
    /\ step[0] # "done" => \A c \in Aps : step[c] = "down"
    /\ "map_APIC" \in once <=> step[0] \in SettingUp \ {"enable"}
    /\ "init_APIC_timer" \in once <=> step[0] \in {"wait", "done"}

\* The walk maps the HPET when it comes to its table, and a core has the APICs
\* where it reaches for them.
MapsInv ==
    /\ root \in Roots /\ pos \in Nat \ {0}
    /\ maps \in [Cores -> SUBSET (Apics \cup {"hpet"})]
    /\ \A k \in Tables(root, "HPET") : k < pos => "hpet" \in maps[0]
    /\ step[0] = "madt" => pos <= Len(root) /\ root[pos].name = "APIC"
    /\ step[0] \in SettingUp => "hpet" \in maps[0]
    /\ \A c \in Cores : step[c] \in {"interrupt", "timer", "wait"} => Apics \subseteq maps[c]
    /\ \A c \in Aps : step[c] = "enable" => Apics \subseteq maps[c]

Lapic == [on : BOOLEAN, lint : [{0, 1} -> {"masked", "fixed"}], timer : Nat]

\* From the reset on, the LAPIC has counted Rate ticks in each tick of the HPET.
TicksInv ==
    /\ hpet \in [on : BOOLEAN, count : Nat, ticks : Nat]
    /\ lapic \in [Cores -> Lapic]
    /\ "init_APIC_timer" \in once => hpet.ticks = Rate * hpet.count

\* apic_info has no more entries than the walk has passed.
InfoInv ==
    /\ madt \in Madts /\ ptr \in Nat \ {0}
    /\ DOMAIN info = {"lapics", "ovrs", "nmis", "base", "address"}
    /\ \A list \in {info.lapics, info.ovrs} :
           list \in Seq({madt[k] : k \in 1 .. Len(madt)}) /\ Len(list) < ptr

FirmwareInv == StepInv /\ MapsInv /\ TicksInv /\ DevicesMapped /\ Calibrated
=============================================================================
