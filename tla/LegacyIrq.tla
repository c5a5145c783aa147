----------------------------- MODULE LegacyIrq -----------------------------
(***************************************************************************)
(* Interrupts of the 32-bit boot stage: the gates of bootload/idt.c, the   *)
(* stubs of start.s, the handlers of isr.c and irq.c and the two 8259      *)
(* controllers that Irq_remap programs.  They interrupt the code start.s   *)
(* runs behind lmain's sti, and the handlers print on the screen.          *)
(***************************************************************************)
EXTENDS Integers, Sequences, FiniteSets

CONSTANTS
    Width, Height, TabStop,   \* of the screen
    Irqs,                     \* lines that devices raise; 2 is the cascade
    MaxRaise,                 \* bound on the times a device raises its line
    MaxNmi,                   \* bound on the non-maskable interrupts
    Text                      \* what an exception's handler prints

ASSUME LegacyAssumption ==
    /\ Irqs \subseteq 0 .. 15 \ {2}
    /\ MaxRaise \in Nat /\ MaxNmi \in Nat /\ Len(Text) > 0

VARIABLES
    scr,              \* the screen
    tab,              \* tab[1], the number that change_args stores
    cpu,              \* "off", "run", "halt", "reset" or "wild", a jump off a table
    pc,               \* where start.s is
    eax, cr0, paging, \* registers of the code in start.s
    flag,             \* the interrupt flag
    stack,            \* the handlers that run, the innermost last
    irr, mis, sis,    \* 8259s: raised lines, in service on the master, on the slave
    left,             \* times each device may still raise its line
    blocked,          \* whether the processor holds NMIs back
    nmis              \* NMIs that may still come

picVars == <<irr, mis, sis, left>>
regVars == <<pc, eax, cr0, paging>>
nmiVars == <<blocked, nmis>>
vars == <<scr, tab, cpu, flag, stack, picVars, regVars, nmiVars>>

S == INSTANCE Screen

\* A mutant: every gate is a trap gate.
IdtTraps == [v \in 0 .. 255 |-> IF v \in 0 .. 19 \cup 32 .. 47 THEN "trap" ELSE "none"]

\* idt_format and idt_init: trap gates leave the interrupt flag alone.
idt_init ==
    [v \in 0 .. 255 |-> CASE v \in 0 .. 19 -> "trap"
                          [] v \in 32 .. 47 -> "interrupt"
                          [] OTHER -> "none"]

\* Irq_remap: ICW2 gives the slave's lines the vectors behind the master's, ICW3
\* wires the slave to the master's line 2, ICW4 leaves automatic EOI off.
Irq_remap == [offset |-> 32, slaveOffset |-> 40, cascade |-> 2]
Vector(i) ==
    IF i < 8 THEN Irq_remap.offset + i ELSE Irq_remap.slaveOffset + i - 8
Line(i) == IF i < 8 THEN i ELSE Irq_remap.cascade

\* The line the controllers offer: a line in service holds back those of its
\* controller that do not have priority over it.
Offered(i) ==
    /\ i \in irr
    /\ \A j \in mis : Line(i) < j
    /\ i >= 8 => \A j \in sis : i < j
Before(i, j) == Line(i) < Line(j) \/ (Line(i) = Line(j) /\ i < j)
First(i) == Offered(i) /\ \A j \in Irqs \ {i} : Offered(j) => Before(i, j)

\* A mutant: no end of interrupt.
NoEoi(m) == m
\* outb(0x20, 0x20): the master ends its line of highest priority.
Eoi(m) == {l \in m : \E k \in m : k < l}

Top == stack[Len(stack)]
SetTop(frame) == [stack EXCEPT ![Len(stack)] = frame]
Pop == SubSeq(stack, 1, Len(stack) - 1)

Init ==
    /\ scr = S!init_video /\ tab = 0 /\ cpu = "off"
    /\ pc = "lmain" /\ eax = "other" /\ cr0 = "protected" /\ paging = FALSE
    /\ flag = FALSE /\ stack = <<>>
    /\ irr = {} /\ mis = {} /\ sis = {} /\ left = [i \in Irqs |-> MaxRaise]
    /\ blocked = FALSE /\ nmis = MaxNmi

Raise ==
    \E i \in Irqs :
        /\ left[i] > 0 /\ i \notin irr
        /\ irr' = irr \cup {i} /\ left' = [left EXCEPT ![i] = @ - 1]
        /\ UNCHANGED <<scr, tab, cpu, flag, stack, mis, sis, regVars, nmiVars>>

\* The gate of a vector and its stub: change_args leaves its arguments in eax
\* before isr_handler or irq_handler saves the context with pusha.
Enter(v) ==
    /\ tab' = v
    /\ flag' = (flag /\ idt_init[v] = "trap")
    /\ stack' = Append(stack, [vec |-> v, at |-> "handler", ran |-> 0, pos |-> 1,
                               flag |-> flag, eax |-> "args"])

TakeIrq ==
    /\ cpu = "run" /\ flag
    /\ \E i \in Irqs :
           /\ First(i)
           /\ Enter(Vector(i))
           /\ irr' = irr \ {i} /\ mis' = mis \cup {Line(i)}
           /\ sis' = IF i < 8 THEN sis ELSE sis \cup {i}
    /\ UNCHANGED <<scr, cpu, left, regVars, nmiVars>>

\* Vector 2, whatever the interrupt flag, but no second one before an iret.
TakeNmi ==
    /\ cpu = "run" /\ ~blocked /\ nmis > 0
    /\ Enter(2)
    /\ blocked' = TRUE /\ nmis' = nmis - 1
    /\ UNCHANGED <<scr, cpu, picVars, regVars>>

Running(at) == cpu = "run" /\ stack # <<>> /\ Top.at = at

\* irqe0 .. irqe15: nothing, the keyboard's handler, or a line of text.
irqe(n) ==
    CASE n = 0 -> {scr}
      [] n = 1 -> UNION {S!keyboard_handling(scr, key) : key \in S!Keys}
      [] OTHER -> {S!putch(S!putch(scr, "a"), "nl")}

\* Basic_irq_handling: jumptableirq[tab[1]-32](), then the end of interrupt.
Basic_irq_handling ==
    /\ Running("handler") /\ Top.vec > 19
    /\ scr' \in irqe(tab - 32)
    /\ mis' = Eoi(mis)
    /\ stack' = SetTop([Top EXCEPT !.at = "return", !.ran = tab])
    /\ UNCHANGED <<tab, cpu, flag, irr, sis, left, regVars, nmiVars>>

\* popa and iret, which lets NMIs in again, also inside an NMI's handler that the
\* interrupt came to.
IrqReturn ==
    /\ Running("return")
    /\ stack' = Pop /\ flag' = Top.flag /\ eax' = Top.eax
    /\ blocked' = FALSE
    /\ UNCHANGED <<scr, tab, cpu, picVars, pc, cr0, paging, nmis>>

\* Basic_isr_handling: Regs_log prints on the serial line, then jumptable[tab[1]]().
Basic_isr_handling ==
    /\ Running("handler") /\ Top.vec <= 19
    /\ IF tab \in 0 .. 19
       THEN stack' = SetTop([Top EXCEPT !.at = "put", !.ran = tab]) /\ UNCHANGED cpu
       ELSE cpu' = "wild" /\ UNCHANGED stack
    /\ UNCHANGED <<scr, tab, flag, picVars, regVars, nmiVars>>

\* err0 .. err19: puts with the interrupt flag as it was, and each putch in two
\* steps, then cli and hlt.
PutAdvance ==
    /\ Running("put") /\ Top.pos <= Len(Text)
    /\ scr' = S!Advance(scr, Text[Top.pos])
    /\ stack' = SetTop([Top EXCEPT !.at = "scroll"])
    /\ UNCHANGED <<tab, cpu, flag, picVars, regVars, nmiVars>>
PutScroll ==
    /\ Running("scroll")
    /\ scr' = S!move_csr(S!scroll(scr))
    /\ stack' = SetTop([Top EXCEPT !.at = "put", !.pos = @ + 1])
    /\ UNCHANGED <<tab, cpu, flag, picVars, regVars, nmiVars>>
Halt ==
    /\ Running("put") /\ Top.pos > Len(Text)
    /\ cpu' = "halt" /\ flag' = FALSE
    /\ UNCHANGED <<scr, tab, stack, picVars, regVars, nmiVars>>

\* lmain: the screen, the gates and the controllers are set up, then sti.
lmain ==
    /\ cpu = "off"
    /\ cpu' = "run" /\ flag' = TRUE /\ pc' = "Disable_Paging"
    /\ UNCHANGED <<scr, tab, stack, picVars, eax, cr0, paging, nmiVars>>

Base(at) == cpu = "run" /\ stack = <<>> /\ pc = at

\* Disable_Paging: mov eax, cr0; the paging bit is cleared; mov cr0, eax.
Disable_Paging ==
    /\ Base("Disable_Paging")
    /\ eax' = "protected" /\ pc' = "mov_cr0"
    /\ UNCHANGED <<scr, tab, cpu, flag, stack, picVars, cr0, paging, nmiVars>>
MovCr0 ==
    /\ Base("mov_cr0")
    /\ cr0' = eax /\ pc' = "Set_Paging"
    /\ UNCHANGED <<scr, tab, cpu, flag, stack, picVars, eax, paging, nmiVars>>

\* There is no ret: Disable_Paging runs into Set_Paging, and the processor
\* fetches its next instruction through tables that Init_Paging has not built.
Set_Paging ==
    /\ Base("Set_Paging")
    /\ paging' = TRUE /\ cpu' = "reset" /\ pc' = "end"
    /\ UNCHANGED <<scr, tab, flag, stack, picVars, eax, cr0, nmiVars>>

Next ==
    \/ Raise \/ TakeIrq \/ TakeNmi \/ Basic_irq_handling \/ IrqReturn
    \/ Basic_isr_handling \/ PutAdvance \/ PutScroll \/ Halt
    \/ lmain \/ Disable_Paging \/ MovCr0 \/ Set_Paging
Spec == Init /\ [][Next]_vars

-----------------------------------------------------------------------------
(* Properties.                                                             *)

\* The values of the state; of the handlers in each other, however many NMIs there
\* are among them, one at most is a device's.
TypeOK ==
    /\ cpu \in {"off", "run", "halt", "reset", "wild"} /\ tab \in 0 .. 47
    /\ eax \in {"other", "protected", "args"} /\ cr0 \in {"protected", "args"}
    /\ mis \subseteq 0 .. 7 /\ sis \subseteq 8 .. 15 /\ irr \subseteq Irqs
    /\ \A j, k \in 1 .. Len(stack) : stack[j].vec > 19 /\ stack[k].vec > 19 => j = k

\* An interrupt gets its own handler although all of them pass their number in
\* the one tab: their gates mask each other, and an exception in between never
\* returns.  When no handler runs the master has no line in service, so that the
\* next interrupt is not held back (Basic_irq_handling and its outb(0x20, 0x20)).
IrqsServed ==
    /\ \A k \in 1 .. Len(stack) :
           stack[k].vec > 19 /\ stack[k].at = "return" => stack[k].ran = stack[k].vec
    /\ stack = <<>> => mis = {}
=============================================================================
