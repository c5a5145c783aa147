---------------------------- MODULE Capabilities ----------------------------
(***************************************************************************)
(* The capability map: its parser (parse_capability_map.c), the record     *)
(* filled from it (capability_recorder.c) and the two system calls that    *)
(* take and give back a capability (syscall_stub.s, syscall.c,             *)
(* syscall_handler.c) on several cores, with no lock around the record.    *)
(* The file is a sequence of lines, each with its kind and its words.      *)
(***************************************************************************)
EXTENDS Integers, Sequences, SequencesExt, FiniteSets

CONSTANTS
    Core,      \* the cores that run programs
    MaxCap,    \* MAX_CAPABILITIES, 64 in the code
    System,    \* the name of the running system, a sequence of letters
    Files,     \* capability files
    Wanted,    \* names that programs ask for
    Word       \* 2^64 in the code

Framebuffer == [begin |-> 5, end |-> 6]   \* interface->framebuffer

\* An address is written in hexadecimal digits, permissions are read and write.
CapabilitiesAssumption ==
    /\ Core \subseteq Nat /\ MaxCap \in Nat \ {0} /\ Word \in Nat \ 0 .. Framebuffer.end
    /\ \A f \in Files :
        /\ Len(f) \in Nat \ {0}
        /\ \A k \in 1 .. Len(f) :
            /\ f[k].kind = "ADDRESS" => f[k].begin \in Seq(0 .. 15) /\ f[k].end \in Seq(0 .. 15)
            /\ f[k].kind = "IOperms" => f[k].perms \subseteq {"r", "w"}

NULL == "NULL"
NoCore == -1
NoCall == [id |-> 0, name |-> NULL]

VARIABLES
    file,      \* the lines of the file
    boot,      \* where init_capabilities_record is
    line,      \* the line ptr is on
    last,      \* the line of bounds.end
    slot,      \* the record of the loop of init_capabilities_record
    caps,      \* the records
    pc, call,  \* the cores and their system calls
    held,      \* the names for which get answered 1 and release has not since
    raced      \* the records on which two cores were between test and store

parseVars == <<file, boot, line, last, slot>>
coreVars == <<pc, call, held, raced>>
vars == <<parseVars, caps, coreVars>>

\* In this commit nothing calls init_capabilities_record ("none"): the record
\* is the zeroed array.  The cores run programs once it is over.
Init ==
    /\ file \in Files
    /\ boot \in {"none", "section"}
    /\ line = 1 /\ last = 0 /\ slot = 1
    /\ caps = [i \in 1 .. MaxCap |->
                [name |-> NULL, begin |-> 0, end |-> 0, IOperms |-> {}, core_number |-> 0]]
    /\ pc = [c \in Core |-> "user"]
    /\ call = [c \in Core |-> NoCall]
    /\ held = [c \in Core |-> {}]
    /\ raced = {}

-----------------------------------------------------------------------------
(* parse_capability_map.c                                                  *)

\* strtoul(ptr, &ptr, 16) of a run of digits.
strtoul(digits) ==
    LET value[n \in 0 .. Len(digits)] ==
            IF n = 0 THEN 0 ELSE (value[n - 1] * 16 + digits[n]) % Word
    IN  value[Len(digits)]

\* The lines that end a section begun on the first line: "\0END" is searched
\* from the start of the second line on, so an END there is not seen.
Ends == {i \in 3 .. Len(file) : file[i].kind = "END"}

\* get_section, and what fill_capabilities makes of its bounds.  The name of
\* the system only has to be a prefix of the name in the file.
get_section ==
    /\ boot = "section"
    /\ IF \/ file[1].kind # "BEGIN" \/ ~IsPrefix(System, file[1].name) \/ Len(file) = 1
          \/ Ends = {}
          \/ file[2].kind = "blank" /\ 3 \in Ends
       THEN boot' = "panic" /\ UNCHANGED <<line, last>>
       ELSE /\ boot' = "scan"
            /\ line' = 2
            /\ last' = (CHOOSE i \in Ends : \A j \in Ends : i <= j) - 1
    /\ UNCHANGED <<file, slot, caps, coreVars>>

\* The outer loop of fill_capabilities: other text is skipped, a CAPABILITY
\* gives record 0 its name.  current_index stays 0.
ScanLine ==
    /\ boot = "scan" /\ line <= last
    /\ line' = line + 1
    /\ IF file[line].kind = "CAPABILITY"
       THEN boot' = "body" /\ caps' = [caps EXCEPT ![1].name = file[line].name]
       ELSE UNCHANGED <<boot, caps>>
    /\ UNCHANGED <<file, last, slot, coreVars>>

\* The inner loop, which runs to the end of the section: ADDRESS, IOperms with
\* its two PANICs, and any other line, a further CAPABILITY too, skipped.
BodyLine ==
    /\ boot = "body" /\ line <= last
    /\ line' = line + 1
    /\ \/ /\ file[line].kind = "ADDRESS"
          /\ caps' = [caps EXCEPT ![1].begin = strtoul(file[line].begin),
                                  ![1].end = strtoul(file[line].end)]
          /\ UNCHANGED boot
       \/ /\ file[line].kind = "IOperms"
          /\ IF file[line].perms = {} \/ file[line].more
             THEN boot' = "panic" ELSE UNCHANGED boot
          /\ caps' = [caps EXCEPT ![1].IOperms = IF file[line].perms = {} THEN @ ELSE file[line].perms]
       \/ /\ file[line].kind \notin {"ADDRESS", "IOperms"}
          /\ UNCHANGED <<boot, caps>>
    /\ UNCHANGED <<file, last, slot, coreVars>>

ParseEnd ==
    /\ boot \in {"scan", "body"} /\ line > last
    /\ boot' = "record"
    /\ UNCHANGED <<file, line, last, slot, caps, coreVars>>

-----------------------------------------------------------------------------
(* capability_recorder.c                                                   *)

\* One turn of the loop of init_capabilities_record.  second_strcmp reads
\* address 0 for a record with no name: a fault, or a byte that differs if the
\* boot loader's tables map that page.
init_capabilities_record ==
    /\ boot = "record"
    /\ \/ caps[slot].name = NULL /\ boot' = "fault" /\ UNCHANGED <<slot, caps>>
       \/ /\ caps' = [caps EXCEPT
                        ![slot].begin = IF caps[slot].name = "framebuffer" THEN Framebuffer.begin ELSE @,
                        ![slot].end = IF caps[slot].name = "framebuffer" THEN Framebuffer.end ELSE @,
                        ![slot].core_number = NoCore]
          /\ slot' = slot + 1
          /\ boot' = IF slot = MaxCap THEN "ready" ELSE boot
    /\ UNCHANGED <<file, line, last, coreVars>>

Running == boot \in {"none", "ready"}

\* The record at which the search for a name ends: the first with that name, or
\* with none, where second_strcmp faults in a program's address space.
Hits(name) == {i \in 1 .. MaxCap : caps[i].name \in {name, NULL}}
Find(name) == CHOOSE i \in Hits(name) : \A j \in Hits(name) : i <= j

\* A mutant: get_capability does not look at the owner.
MayTakeAlways(i) == TRUE
\* The test of get_capability.
MayTake(i) == caps[i].core_number = NoCore

\* syscall_stub and arch_syscall_handler: the registers of the program become
\* a struct syscall_pack.
syscall_stub(c) ==
    /\ Running /\ pc[c] = "user"
    /\ \E id \in 1 .. 3, name \in Wanted : call' = [call EXCEPT ![c] = [id |-> id, name |-> name]]
    /\ pc' = [pc EXCEPT ![c] = "handler"]
    /\ UNCHANGED <<parseVars, caps, held, raced>>

\* Back to the program.
Sysret(c) ==
    /\ pc' = [pc EXCEPT ![c] = "user"]
    /\ call' = [call EXCEPT ![c] = NoCall]

\* syscall_handler up to the test of core_number.  It answers 0 to a name that
\* is not there or a test that fails, and an unknown number with its argument.
syscall_handler(c) ==
    /\ pc[c] = "handler"
    /\ IF call[c].id \notin {1, 2} THEN Sysret(c) /\ UNCHANGED raced
       ELSE IF Hits(call[c].name) = {} THEN Sysret(c) /\ UNCHANGED raced
       ELSE LET i == Find(call[c].name)
                passes == IF call[c].id = 1 THEN MayTake(i) ELSE caps[i].core_number = c
            IN  IF caps[i].name = NULL
                THEN pc' = [pc EXCEPT ![c] = "fault"] /\ UNCHANGED <<call, raced>>
                ELSE IF ~passes THEN Sysret(c) /\ UNCHANGED raced
                ELSE /\ pc' = [pc EXCEPT ![c] = "store"]
                     /\ raced' = raced \cup
                            {k \in {i} : \E d \in Core \ {c} :
                                pc[d] = "store" /\ Find(call[d].name) = k}
                     /\ UNCHANGED call
    /\ UNCHANGED <<parseVars, caps, held>>

\* A mutant: the owner stays in the record of a released capability.
ReleaseKeeps(c) ==
    /\ pc[c] = "store" /\ call[c].id = 2
    /\ held' = [held EXCEPT ![c] = @ \ {call[c].name}]
    /\ Sysret(c)
    /\ UNCHANGED <<parseVars, caps, raced>>

\* get_capability and release_capability: the store, and return 1.
get_capability(c) ==
    /\ pc[c] = "store" /\ call[c].id = 1
    /\ caps' = [caps EXCEPT ![Find(call[c].name)].core_number = c]
    /\ held' = [held EXCEPT ![c] = @ \cup {call[c].name}]
    /\ Sysret(c)
    /\ UNCHANGED <<parseVars, raced>>

release_capability(c) ==
    /\ pc[c] = "store" /\ call[c].id = 2
    /\ caps' = [caps EXCEPT ![Find(call[c].name)].core_number = NoCore]
    /\ held' = [held EXCEPT ![c] = @ \ {call[c].name}]
    /\ Sysret(c)
    /\ UNCHANGED <<parseVars, raced>>

\* The boot core or every core has stopped.
Stopped ==
    /\ boot \in {"panic", "fault"} \/ \A c \in Core : pc[c] = "fault"
    /\ UNCHANGED vars

CoreStep(c) ==
    syscall_stub(c) \/ syscall_handler(c) \/ get_capability(c) \/ release_capability(c)

Next ==
    \/ get_section \/ ScanLine \/ BodyLine \/ ParseEnd \/ init_capabilities_record
    \/ \E c \in Core : CoreStep(c)
    \/ Stopped

Spec == Init /\ [][Next]_vars

-----------------------------------------------------------------------------
(* Properties.                                                             *)

\* The walk stays in its section, an address fits a word, and a record belongs to
\* a core or to nobody.
TypeOK ==
    /\ boot \in {"none", "section", "scan", "body", "record", "ready", "panic", "fault"}
    /\ line \in 1 .. Len(file) /\ last \in 0 .. Len(file) - 1 /\ slot \in 1 .. MaxCap + 1
    /\ \A i \in 1 .. MaxCap :
        /\ caps[i].core_number \in Core \cup {NoCore, 0}
        /\ caps[i].begin \in 0 .. Word - 1 /\ caps[i].end \in 0 .. Word - 1
        /\ caps[i].IOperms \subseteq {"r", "w"}
    /\ pc \in [Core -> {"user", "handler", "store", "fault"}]
    /\ held \in [Core -> SUBSET Wanted] /\ raced \subseteq 1 .. MaxCap

\* The core in a record was given that capability and has not given it back,
\* however get_capability and release_capability interleave: a record is never
\* stuck on a core that cannot release it.
RecordedHolds ==
    boot = "ready" =>
        \A i \in 1 .. MaxCap, c \in Core :
            caps[i].name # NULL /\ caps[i].core_number = c => caps[i].name \in held[c]

\* A capability has one holder, the core in its record, as long as no two cores
\* were between the test and the store of get_capability or release_capability
\* at once.
HeldIsRecorded ==
    \A c \in Core : \A name \in held[c] :
        Find(name) \in raced \/ caps[Find(name)].core_number = c

\* The lines of the section with this kind, behind the line from.
InSection(kind, from) == {i \in from .. last : file[i].kind = kind}
Greatest(S) == CHOOSE i \in S : \A j \in S : j <= i

\* A section with one CAPABILITY is read as it stands: its name, and the last
\* address and permissions that follow it before the END.
ParsesOne ==
    boot = "record" /\ slot = 1 /\ Cardinality(InSection("CAPABILITY", 2)) = 1 =>
        LET at == Greatest(InSection("CAPABILITY", 2))
            addresses == InSection("ADDRESS", at)
            perms == InSection("IOperms", at)
        IN  /\ caps[1].name = file[at].name
            /\ IF addresses = {} THEN caps[1].begin = 0 /\ caps[1].end = 0
               ELSE LET a == file[Greatest(addresses)]
                    IN  /\ caps[1].begin = strtoul(a.begin)
                        /\ caps[1].end = strtoul(a.end)
            /\ caps[1].IOperms = IF perms = {} THEN {} ELSE file[Greatest(perms)].perms
-----------------------------------------------------------------------------
(* The inductive invariant behind RecordedHolds and HeldIsRecorded.        *)

Found(name) == Hits(name) # {} /\ caps[Find(name)].name = name
Storing(c) == pc[c] = "store"
Target(c) == Find(call[c].name)

\* The records are records, and every core waits until they are set up.
RecordInv ==
    /\ caps = [i \in 1 .. MaxCap |-> caps[i]]
    /\ \A i \in 1 .. MaxCap :
        caps[i] = [name |-> caps[i].name, begin |-> caps[i].begin, end |-> caps[i].end,
                   IOperms |-> caps[i].IOperms, core_number |-> caps[i].core_number]
    /\ pc \in [Core -> {"user", "handler", "store", "fault"}]
    /\ call \in [Core -> [id : 0 .. 3, name : Wanted \cup {NULL}]]
    /\ held \in [Core -> SUBSET Wanted]
    /\ \A c \in Core : pc[c] # "user" => call[c].name \in Wanted
    /\ ~Running => \A c \in Core : pc[c] = "user" /\ held[c] = {}
    /\ boot \in {"section", "scan", "body"} => slot = 1
    /\ boot = "record" => slot \in 1 .. MaxCap
    /\ boot = "record" => \A i \in 1 .. slot - 1 : caps[i].core_number = NoCore
    /\ boot = "none" => \A i \in 1 .. MaxCap : caps[i].name = NULL

\* A core between the test and the store of a record has found it, and unless
\* another core is there too, the record is as the test saw it.
StoreInv ==
    /\ \A c \in Core : Storing(c) => Found(call[c].name) /\ call[c].id \in {1, 2}
    /\ \A c, d \in Core :
        Storing(c) /\ Storing(d) /\ Target(c) = Target(d) /\ c # d => Target(c) \in raced
    /\ \A c \in Core : Storing(c) /\ Target(c) \notin raced =>
        caps[Target(c)].core_number = IF call[c].id = 1 THEN NoCore ELSE c

\* What a core holds was found, and a core is only in records that a search
\* finds.
HoldInv ==
    /\ \A c \in Core : \A name \in held[c] : Found(name)
    /\ boot = "ready" =>
        \A i \in 1 .. MaxCap : caps[i].core_number \in Core => i = Find(caps[i].name)

CapInv == RecordInv /\ StoreInv /\ HoldInv /\ RecordedHolds /\ HeldIsRecorded
=============================================================================
