------------------------------- MODULE Setup -------------------------------
(***************************************************************************)
(* The set-up of a machine, composed of InitFiles, Firmware and            *)
(* Capabilities in the order of bootstrap_arch and kernel_main: the modules *)
(* are registered, the ACPI tables read and the interrupt controllers set  *)
(* up on every core, then the init file is parsed, the capabilities are    *)
(* recorded and the programs make their system calls.                      *)
(***************************************************************************)
EXTENDS Integers, Sequences, FiniteSets

CONSTANTS
    Machines,   \* records of what the parts start from
    MaxFiles, NameSize, MaxCore,
    Aps, MaxRedirection, TicksToWait, Rate,
    MaxCap, System, Wanted, Word

Modules == {m.mods : m \in Machines}
Docs == {m.doc : m \in Machines}
Roots == {m.root : m \in Machines}
Madts == {m.madt : m \in Machines}
Files == {m.file : m \in Machines}
Core == {0} \cup Aps

VARIABLES
    doc, mods, files, text, ptr, pc, required, programs, past,          \* InitFiles
    root, madt, low, step, pos, entry, desc, info, once, maps, missed,  \* Firmware
    redir, lapic, hpet,
    file, boot, line, last, slot, caps, at, call, held, raced,          \* Capabilities
    calls       \* whether the programs of this machine make system calls

I == INSTANCE InitFiles
F == INSTANCE Firmware WITH ptr <- entry
C == INSTANCE Capabilities WITH pc <- at

initVars == <<doc, mods, files, text, ptr, pc, required, programs, past>>
firmwareVars ==
    <<root, madt, low, step, pos, entry, desc, info, once, maps, missed, redir, lapic, hpet>>
capVars == <<file, boot, line, last, slot, caps, at, call, held, raced>>
vars == <<initVars, firmwareVars, capVars, calls>>

ASSUME SetupAssumption ==
    I!InitFilesAssumption /\ F!FirmwareAssumption /\ C!CapabilitiesAssumption

Init ==
    \E m \in Machines :
        /\ doc = m.doc /\ mods = m.mods /\ root = m.root /\ madt = m.madt /\ file = m.file
        /\ calls = m.calls
        /\ I!Init /\ F!Init /\ C!Init
        /\ low = m.low /\ hpet.on = m.hpetOn /\ boot \in m.records

Registered == pc = "register" /\ Len(files) = Len(mods)
CoresUp == \A c \in Core : step[c] = "done"
Parsed == pc = "done" /\ CoresUp

ByI == UNCHANGED <<firmwareVars, capVars, calls>>
ByF == UNCHANGED <<initVars, capVars, calls>>
ByC == UNCHANGED <<initVars, firmwareVars, calls>>

Register == I!register_new_file /\ ByI

\* From parse_RSDP to the end of launch_APs.
Tables == Registered /\ F!BootStep /\ ByF
SetUp(c) == Registered /\ F!CoreStep(c) /\ ByF
Tick == Registered /\ ~CoresUp /\ F!Tick /\ ByF

\* kernel_main behind bootstrap_arch.
ParseInit == CoresUp /\ (I!ParseHead \/ I!ParseBlank \/ I!ParseLine \/ I!ParseEnd) /\ ByI

\* init_capabilities_record, in machines that call it.
Record ==
    /\ Parsed
    /\ C!get_section \/ C!ScanLine \/ C!BodyLine \/ C!ParseEnd \/ C!init_capabilities_record
    /\ ByC
Programs(c) == Parsed /\ calls /\ C!CoreStep(c) /\ ByC

\* A PANIC, a fault, or programs that do not come back to the kernel.
Ended ==
    \/ pc = "panic" \/ step[0] \in {"halt", "lost"}
    \/ Parsed /\ boot \in {"none", "ready", "panic", "fault"}
Stopped == Ended /\ UNCHANGED vars

Next ==
    \/ Register \/ Tables \/ Tick \/ ParseInit \/ Record \/ Stopped
    \/ \E c \in Core : SetUp(c) \/ Programs(c)

\* A core goes on when it can, and the HPET counts while it is on; programs need
\* not make a system call.
Spec ==
    /\ Init /\ [][Next]_vars
    /\ WF_vars(Register) /\ WF_vars(Tables) /\ WF_vars(Tick)
    /\ WF_vars(ParseInit) /\ WF_vars(Record)
    /\ \A c \in Core : WF_vars(SetUp(c))

-----------------------------------------------------------------------------
(* Properties.                                                             *)

\* The arrays of the three parts hold what is put in them and their cursors stay
\* in their texts and tables.
TypeOK == I!TypeOK /\ F!TypeOK /\ C!TypeOK

\* A lookup finds the first module with a name, whatever was registered.
LookupExact == I!LookupExact

\* parse_init returns what a well formed init file says.
ParsesMeaning == I!ParsesMeaning

\* The walks over the MADT and over the capability file record what is there:
\* the cores, overrides and NMIs in order, and the one capability as it stands,
\* whatever entries and lines lie between.
TablesRecorded == F!MadtRecorded /\ C!ParsesOne

\* A core reaches for a device only when its own page map has it (map_pics, and
\* the ONCE of init_APIC_timer for the HPET).
DevicesMapped == F!DevicesMapped

\* A timer that runs was measured over no less than 10 ms, whatever the firmware
\* left in the HPET.
Calibrated == F!Calibrated

\* The record and the programs agree: the core in a record was given that capability
\* and has not given it back, and a capability has no other holder unless two cores
\* were between the test and the store of its record.
RecordsAgree == C!RecordedHolds /\ C!HeldIsRecorded

\* The set-up ends: every core is up and the files are parsed, or a PANIC, a bad
\* table or the lost descriptor of parse_RSDP has stopped the boot core.  No wait
\* for the HPET, no walk of a parser goes on for ever.
SetupEnds == <>Ended
-----------------------------------------------------------------------------
\* The invariants of the parts, which no step of another part disturbs.
FilesIInv == I!FilesInv /\ I!TextInv /\ I!TypeOK
FirmwareIInv == F!FirmwareInv /\ F!InfoInv /\ F!TypeOK
CapIInv == C!CapInv /\ C!TypeOK /\ file \in Files
IInv == FilesIInv /\ FirmwareIInv /\ CapIInv
=============================================================================
