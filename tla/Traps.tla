------------------------------- MODULE Traps -------------------------------
(***************************************************************************)
(* Exceptions and the timer interrupt of the kernel: the stubs (stubs.s),  *)
(* the dispatch (idt.c), the handlers (kernel_exceptions.c) and the timer  *)
(* (apic.c), with the LOGs that the handlers and the interrupted code run. *)
(* A core is a stack of activations, the kernel's own code at the bottom;  *)
(* an activation is its vector, the RFLAGS.IF it returns to and the steps  *)
(* it still has to do.                                                     *)
(***************************************************************************)
EXTENDS Integers, Sequences, FiniteSets

CONSTANTS
    Core,        \* the cores
    Boot,        \* the one that runs kernel_main
    Exceptions,  \* the exception vectors that kernel code raises
    MaxDepth     \* a bound on the activations of a core

ASSUME TrapsAssumption ==
    /\ Boot \in Core
    /\ Exceptions \subseteq 0 .. 31 \cup {127, 129}
    /\ MaxDepth \in Nat \ {0}

VARIABLES
    st,       \* the activations, the running one last
    level,    \* lock_level[COREID]
    ints,     \* RFLAGS.IF
    print,    \* the print lock
    once,     \* the ONCE of init_APIC_timer
    timer,    \* the cores whose LAPIC timer runs
    service,  \* the cores whose LAPIC waits for the end of the timer's interrupt
    main,     \* how far kernel_main's lock_ints is: before it, raised or locked
    debug     \* the cores whose interrupted code has the trap flag

vars == <<st, level, ints, print, once, timer, service, main, debug>>

-----------------------------------------------------------------------------
(* The tables.                                                             *)

\* A LOG with what lock_ints and unlock_ints do in two steps each: the level, then
\* RFLAGS.IF.
LOG == <<"lock_ints", "cli", "get_print", "print", "set_print", "unlock_ints", "sti">>

\* log_stackframe is one LOG.
log_stackframe == LOG
panic_common_stub == LOG \o log_stackframe \o <<"hlt">>

\* A mutant: an exception for which the processor pushes an error code that its
\* stub does not expect gets a handler that returns.
AttachAlignment ==
    [v \in {0, 1, 3, 6, 13, 14, 17, 127} |->
        CASE v \in {0, 6, 13} -> LOG \o panic_common_stub
          [] v = 14 -> LOG \o LOG \o LOG \o panic_common_stub
          [] v \in {1, 3, 17} -> LOG \o log_stackframe \o LOG
          [] v = 127 -> LOG \o <<"toggle">>]

\* attach_kernel_exceptions, with the steps of each handler: k_div_by_zero, k_gpf
\* and k_invalid_opcode; k_page_fault; k_debug and k_breakpoint;
\* change_debug_mode.  The timer's handler is not attached.
attach_kernel_exceptions ==
    [v \in {0, 1, 3, 6, 13, 14, 127} |->
        CASE v \in {0, 6, 13} -> LOG \o panic_common_stub
          [] v = 14 -> LOG \o LOG \o LOG \o panic_common_stub
          [] v \in {1, 3} -> LOG \o log_stackframe \o LOG
          [] v = 127 -> LOG \o <<"toggle">>]

\* isr_handler and irq_handler: the attached handler, or LOG_PANIC("Calling null
\* isr"), the registers and a halt.
Dispatch(v) ==
    IF v \in DOMAIN attach_kernel_exceptions THEN attach_kernel_exceptions[v]
    ELSE LOG \o log_stackframe \o <<"hlt">>

TimerVector == 32
isr_handler(v) == Dispatch(v) \o <<"iretq">>

\* cpu_send_EOI and the return of irq_common_stub are behind a handler that the
\* timer does not have, so its interrupt stays in service.
irq_handler == Dispatch(TimerVector)

\* Words on the stack above struct stackframe's general registers: what the
\* processor pushes, then the stub's ISR_ERRCODE, ISR_NOERRCODE or IRQ.
CpuWords(v) == IF v \in {8, 10, 11, 12, 13, 14, 17, 21, 29, 30} THEN 6 ELSE 5
StubWords(v) == IF v \in {8, 10, 11, 12, 13, 14} THEN 1 ELSE 2
FrameWords == 7      \* int_no, err_code, rip, cs, rflags, useresp, ss

-----------------------------------------------------------------------------
(* The running activation.                                                 *)

Top(c) == st[c][Len(st[c])]
Head1(c) == IF Top(c).todo = <<>> THEN "-" ELSE Head(Top(c).todo)
Does(c, step) == Head1(c) = step
Pop(c) == st' = [st EXCEPT ![c][Len(st[c])].todo = Tail(@)]

\* The kernel's own code runs, outside a LOG and outside kernel_main's lock_ints.
Idle(c) == Len(st[c]) = 1 /\ Does(c, "-") /\ ~(c = Boot /\ main = "raised")

\* An interrupt gate: IF is saved and cleared.
Push(c, v, todo) ==
    /\ Len(st[c]) < MaxDepth
    /\ st' = [st EXCEPT ![c] = Append(@, [vec |-> v, iff |-> ints[c], todo |-> todo])]
    /\ ints' = [ints EXCEPT ![c] = FALSE]

Init ==
    /\ st = [c \in Core |-> <<[vec |-> -1, iff |-> FALSE, todo |-> <<>>]>>]
    /\ level = [c \in Core |-> 0]
    /\ ints = [c \in Core |-> FALSE]
    /\ print = FALSE
    /\ once = FALSE /\ timer = {} /\ service = {} /\ main = "before" /\ debug = {}

\* The kernel's code logs something.
KernelLog(c) ==
    /\ Idle(c)
    /\ st' = [st EXCEPT ![c][1].todo = LOG]
    /\ UNCHANGED <<level, ints, print, once, timer, service, main, debug>>

\* The boot core arms its periodic timer with vector 32; the other cores find
\* once set.
init_APIC_timer(c) ==
    /\ Idle(c)
    /\ c = Boot \/ once
    /\ once' = TRUE
    /\ timer' = IF once THEN timer ELSE timer \cup {c}
    /\ UNCHANGED <<st, level, ints, print, service, main, debug>>

\* lock_ints at the start of kernel_main, behind bootstrap_arch: the level goes up
\* and interrupts, which are still on, go off.
EnterMain ==
    /\ Idle(Boot) /\ once /\ main = "before"
    /\ main' = "raised"
    /\ level' = [level EXCEPT ![Boot] = @ + 1]
    /\ UNCHANGED <<st, ints, print, once, timer, service, debug>>

MainDisables ==
    /\ Len(st[Boot]) = 1 /\ main = "raised"
    /\ main' = "locked"
    /\ ints' = [ints EXCEPT ![Boot] = @ /\ level[Boot] # 1]
    /\ UNCHANGED <<st, level, print, once, timer, service, debug>>

-----------------------------------------------------------------------------
(* The steps of a LOG and of the handlers.                                 *)

\* A mutant: lock_ints is counted only when interrupts are on.
LockIntsOnce(c) ==
    /\ Does(c, "lock_ints") /\ Pop(c)
    /\ level' = [level EXCEPT ![c] = IF ints[c] THEN @ + 1 ELSE @]
    /\ UNCHANGED <<ints, print, once, timer, service, main, debug>>

\* The level is raised with interrupts as they are: the timer can come before the
\* next step.
lock_ints(c) ==
    /\ Does(c, "lock_ints") /\ Pop(c)
    /\ level' = [level EXCEPT ![c] = @ + 1]
    /\ UNCHANGED <<ints, print, once, timer, service, main, debug>>

\* The test for the first level, and disable_ints.
disable_ints(c) ==
    /\ Does(c, "cli") /\ Pop(c)
    /\ ints' = [ints EXCEPT ![c] = @ /\ level[c] # 1]
    /\ UNCHANGED <<level, print, once, timer, service, main, debug>>

get_lock_print(c) ==
    /\ Does(c, "get_print") /\ ~print /\ Pop(c)
    /\ print' = TRUE
    /\ UNCHANGED <<level, ints, once, timer, service, main, debug>>

PrintText(c) ==
    /\ Does(c, "print") /\ Pop(c)
    /\ UNCHANGED <<level, ints, print, once, timer, service, main, debug>>

\* A mutant: the lock is not given back.
SetPrintKeeps(c) ==
    /\ Does(c, "set_print") /\ Pop(c)
    /\ UNCHANGED <<level, ints, print, once, timer, service, main, debug>>

set_lock_print(c) ==
    /\ Does(c, "set_print") /\ Pop(c)
    /\ print' = FALSE
    /\ UNCHANGED <<level, ints, once, timer, service, main, debug>>

unlock_ints(c) ==
    /\ Does(c, "unlock_ints") /\ Pop(c)
    /\ level' = [level EXCEPT ![c] = @ - 1]
    /\ UNCHANGED <<ints, print, once, timer, service, main, debug>>

\* A mutant: interrupts come back at every level.
EnableAlways(c) ==
    /\ Does(c, "sti") /\ Pop(c)
    /\ ints' = [ints EXCEPT ![c] = TRUE]
    /\ UNCHANGED <<level, print, once, timer, service, main, debug>>

\* The test for the last level, and enable_ints.
enable_ints(c) ==
    /\ Does(c, "sti") /\ Pop(c)
    /\ ints' = [ints EXCEPT ![c] = @ \/ level[c] = 0]
    /\ UNCHANGED <<level, print, once, timer, service, main, debug>>

\* change_debug_mode flips the trap flag of the frame it returns to.
change_debug_mode(c) ==
    /\ Does(c, "toggle") /\ Pop(c)
    /\ debug' = IF c \in debug THEN debug \ {c} ELSE debug \cup {c}
    /\ UNCHANGED <<level, ints, print, once, timer, service, main>>

\* load_context, add rsp 16 and iretq.
iretq(c) ==
    /\ Does(c, "iretq")
    /\ st' = [st EXCEPT ![c] = SubSeq(@, 1, Len(@) - 1)]
    /\ ints' = [ints EXCEPT ![c] = Top(c).iff]
    /\ UNCHANGED <<level, print, once, timer, service, main, debug>>

-----------------------------------------------------------------------------
(* Exceptions and the timer.                                               *)

\* The kernel's code faults: outside a LOG, or on a pointer it prints.  With the
\* trap flag, k_debug runs behind any of its instructions, at whatever step.
Faults(c) == IF Idle(c) \/ Does(c, "print") THEN Exceptions ELSE {}

Exception(c) ==
    /\ Len(st[c]) = 1
    /\ \E v \in Faults(c) \cup (IF c \in debug THEN {1} ELSE {}) : Push(c, v, isr_handler(v))
    /\ UNCHANGED <<level, print, once, timer, service, main, debug>>

\* The timer is delivered, also to a core that halts or spins.
TimerInterrupt(c) ==
    /\ c \in timer /\ ints[c] /\ c \notin service
    /\ Push(c, TimerVector, irq_handler)
    /\ service' = service \cup {c}
    /\ UNCHANGED <<level, print, once, timer, main, debug>>

\* A handler's while(1) hlt, or get_lock_print on a lock that stays taken.
Waits(c) ==
    /\ Does(c, "hlt") \/ (Does(c, "get_print") /\ print)
    /\ UNCHANGED vars

CoreStep(c) ==
    \/ lock_ints(c) \/ disable_ints(c) \/ get_lock_print(c) \/ PrintText(c)
    \/ set_lock_print(c) \/ unlock_ints(c) \/ enable_ints(c) \/ change_debug_mode(c) \/ iretq(c)

Next ==
    \E c \in Core :
        \/ CoreStep(c) \/ KernelLog(c) \/ init_APIC_timer(c) \/ EnterMain \/ MainDisables
        \/ Exception(c) \/ TimerInterrupt(c) \/ Waits(c)

Spec == Init /\ [][Next]_vars

\* Cores run; nothing has to fault or to be interrupted.
FairSpec == Spec /\ \A c \in Core : WF_vars(CoreStep(c))

-----------------------------------------------------------------------------
(* Properties.                                                             *)

\* An activation that has returned from a LOG's lock_ints and not reached its
\* unlock_ints, and one that counts in the level: it may still be in front of cli.
Masked(a) == a.todo # <<>> /\ Head(a.todo) \in {"get_print", "print", "set_print", "unlock_ints"}
InLog(a) == Masked(a) \/ (a.todo # <<>> /\ Head(a.todo) = "cli")
Printing(a) == a.todo # <<>> /\ Head(a.todo) \in {"print", "set_print"}

\* lock_level stays in its byte and nothing is below the kernel's own code on a
\* stack of activations.
TypeOK ==
    /\ \A c \in Core :
        /\ Len(st[c]) \in 1 .. MaxDepth
        /\ level[c] \in 0 .. 255
    /\ ints \in [Core -> BOOLEAN] /\ print \in BOOLEAN /\ once \in BOOLEAN
    /\ main \in {"before", "raised", "locked"}
    /\ timer \subseteq Core /\ service \subseteq timer /\ debug \subseteq Core

\* Whatever faults inside a LOG, the level of a core counts the LOGs open on its
\* stack of handlers, and kernel_main's lock_ints: the handlers' own LOGs never
\* turn interrupts on inside the LOG they interrupted.
LevelCountsLogs ==
    \A c \in Core :
        level[c] = Cardinality({i \in 1 .. Len(st[c]) : InLog(st[c][i])})
                    + (IF main # "before" /\ c = Boot THEN 1 ELSE 0)

\* The timer never interrupts code that has returned from lock_ints, neither the
\* code that runs nor what it has interrupted, up to its unlock_ints.  (Inside
\* lock_ints, between the level and cli, it can.)
MaskedNotInterrupted ==
    [][\A c \in Core : Len(st'[c]) > Len(st[c]) /\ st'[c][Len(st'[c])].vec = TimerVector
            => /\ \A n \in 1 .. Len(st[c]) : ~Masked(st[c][n])
               /\ ~(c = Boot /\ main = "locked")]_vars

\* An iretq takes rip, cs and rflags from where the processor put them: every
\* vector whose stub gets the error code wrong has no handler that returns.
ReturnAligned ==
    \A c \in Core : Does(c, "iretq") => CpuWords(Top(c).vec) + StubWords(Top(c).vec) = FrameWords

\* The print lock comes back, whatever the handlers log, unless code faulted on a
\* pointer that its own LOG prints: then the LOG keeps the lock under the handler
\* that waits for it (panic_common_stub's "Here is a dump of the registers").
Orphaned == \E c \in Core : \E i \in 1 .. Len(st[c]) - 1 : Printing(st[c][i])
PrintComesBack == print ~> (~print \/ Orphaned)

=============================================================================
