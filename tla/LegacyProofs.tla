---------------------------- MODULE LegacyProofs ----------------------------
(***************************************************************************)
(* Proofs about the boot stage: its interrupts, for every set of lines,    *)
(* exceptions and texts and for devices that raise their lines any number  *)
(* of times, its screen, by the theorems of ScreenProofs, and the numbers  *)
(* and formats that it and the kernel print, for every number and format.  *)
(***************************************************************************)
EXTENDS BootStage, Counting, TLAPS, FiniteSetTheorems

-----------------------------------------------------------------------------
(* The inductive invariant behind IrqsServed.                              *)

Vectors == 0 .. 19 \cup 32 .. 47
Frames ==
    [vec : Vectors, at : {"handler", "return", "put", "scroll"}, ran : 0 .. 47, pos : Nat,
     flag : BOOLEAN, eax : {"args"}]
IsIrq(frame) == frame.vec > 19

\* Any number of exceptions may be in each other; only a device's handler returns.
StackInv ==
    /\ stack \in Seq(Frames)
    /\ \A k \in 1 .. Len(stack) :
        IF IsIrq(stack[k])
        THEN \/ stack[k].at = "handler"
             \/ stack[k].at = "return" /\ stack[k].ran = stack[k].vec
        ELSE stack[k].at # "return"

\* One handler of a device at most is among them (the last part of TypeOK).
OneIrq == \A j, k \in 1 .. Len(stack) : IsIrq(stack[j]) /\ IsIrq(stack[k]) => j = k

\* While an interrupt's handler is anywhere on the stack the flag is clear; at its
\* start its number is in tab and its line alone in service, until its EOI.
ServeInv ==
    /\ \A k \in 1 .. Len(stack) : IsIrq(stack[k]) => ~flag
    /\ (\A k \in 1 .. Len(stack) : ~IsIrq(stack[k])) => mis = {}
    /\ stack # <<>> /\ IsIrq(Top) =>
        IF Top.at = "handler" THEN tab = Top.vec /\ \E l \in 0 .. 7 : mis = {l}
        ELSE mis = {}

IInv ==
    /\ TypeOK /\ StackInv /\ ServeInv
    /\ flag \in BOOLEAN /\ (cpu = "off" => stack = <<>>) /\ (pc = "mov_cr0" => eax # "other")
SP == INSTANCE ScreenProofs WITH
    scr <- page, Width <- PageWidth, Height <- PageHeight, TabStop <- PageTab

\* The vectors and the master's lines of the devices.
LEMMA Wiring ==
  ASSUME NEW i \in Irqs
  PROVE  Vector(i) \in 32 .. 47 /\ Line(i) \in 0 .. 7 /\ i \in 0 .. 15
  BY LegacyAssumption DEF Vector, Line, Irq_remap

\* The gates of the exceptions keep the interrupt flag, those of the devices clear it.
LEMMA Gates ==
  /\ \A v \in 0 .. 19 : idt_init[v] = "trap"
  /\ \A v \in 32 .. 47 : idt_init[v] # "trap"
  BY DEF idt_init

\* The end of interrupt ends a line that is alone in service.
LEMMA EoiLast ==
  ASSUME NEW l \in 0 .. 7
  PROVE  Eoi({l}) = {}
  BY DEF Eoi

\* How deep the handlers are in each other.
LEMMA Depth ==
  ASSUME StackInv
  PROVE  /\ stack \in Seq(Frames) /\ Len(stack) \in Nat
         /\ stack = <<>> <=> Len(stack) = 0
         /\ stack # <<>> => Len(stack) \in 1 .. Len(stack)
         /\ \A k \in 1 .. Len(stack) : k = Len(stack) \/ k \in 1 .. Len(stack) - 1
         /\ \A k \in 1 .. Len(stack) - 1 : k \in 1 .. Len(stack) /\ k # Len(stack)
  <1>1. stack \in Seq(Frames) /\ Len(stack) \in Nat
    BY DEF StackInv
  <1>2. stack = <<>> <=> Len(stack) = 0
    BY ONLY <1>1
  <1>3. \A n \in Nat :
          /\ n # 0 => n \in 1 .. n
          /\ \A k \in 1 .. n : k = n \/ k \in 1 .. n - 1
          /\ \A k \in 1 .. n - 1 : k \in 1 .. n /\ k # n
    OBVIOUS
  <1>. QED  BY <1>1, <1>2, <1>3

\* The frame on top, and what a step may make of it.
LEMMA TopFrame ==
  ASSUME StackInv, stack # <<>>
  PROVE  /\ Len(stack) \in Nat /\ Len(stack) >= 1 /\ Top \in Frames /\ Top = stack[Len(stack)]
         /\ \A f \in Frames :
              /\ SetTop(f) \in Seq(Frames) /\ Len(SetTop(f)) = Len(stack) /\ SetTop(f) # <<>>
              /\ SetTop(f)[Len(stack)] = f
              /\ \A k \in 1 .. Len(stack) - 1 : SetTop(f)[k] = stack[k]
  <1>1. stack \in Seq(Frames) /\ Len(stack) \in Nat /\ Len(stack) >= 1
    BY Depth
  <1>2. Top \in Frames /\ Top = stack[Len(stack)]
    BY <1>1 DEF Top
  <1>. QED  BY <1>1, <1>2 DEF SetTop

\* What changes no handler's kind adds no device's.
LEMMA SameKinds ==
  ASSUME TypeOK, Len(stack') = Len(stack), \A k \in 1 .. Len(stack) : IsIrq(stack'[k]) <=> IsIrq(stack[k])
  PROVE  OneIrq'
  BY DEF TypeOK, OneIrq, IsIrq

\* A handler that starts: the stack grows by its frame.
LEMMA EnterFrame ==
  ASSUME StackInv, NEW v \in Vectors, flag \in BOOLEAN, Enter(v)
  PROVE  /\ stack' \in Seq(Frames) /\ Len(stack') = Len(stack) + 1 /\ Len(stack) \in Nat
         /\ stack' # <<>> /\ Top' = stack'[Len(stack) + 1]
         /\ stack'[Len(stack) + 1].vec = v /\ stack'[Len(stack) + 1].at = "handler"
         /\ \A k \in 1 .. Len(stack) : stack'[k] = stack[k]
         /\ \A k \in 1 .. Len(stack') : k = Len(stack) + 1 \/ k \in 1 .. Len(stack)
  <1>1. stack \in Seq(Frames) /\ Len(stack) \in Nat
    BY DEF StackInv
  <1>2. PICK f : f = [vec |-> v, at |-> "handler", ran |-> 0, pos |-> 1,
                      flag |-> flag, eax |-> "args"]
    OBVIOUS
  <1>3. f \in Frames /\ f.vec = v /\ f.at = "handler"
    BY <1>2 DEF Frames
  <1>4. stack' = Append(stack, f)
    BY <1>2 DEF Enter
  <1>. QED  BY <1>1, <1>3, <1>4 DEF Top

\* An interrupt is taken only when no other is being served.
LEMMA TakesIrq ==
  ASSUME IInv, TakeIrq
  PROVE  IInv'
  <1>1. PICK i \in Irqs :
           /\ Enter(Vector(i)) /\ irr' = irr \ {i} /\ mis' = mis \cup {Line(i)}
           /\ sis' = IF i < 8 THEN sis ELSE sis \cup {i}
    BY DEF TakeIrq
  <1>2. /\ flag /\ cpu = "run"
        /\ UNCHANGED <<cpu, pc, eax, cr0>>
    BY DEF TakeIrq, regVars
  <1>3. Vector(i) \in 32 .. 47 /\ Vector(i) \in Vectors /\ Line(i) \in 0 .. 7 /\ i \in 0 .. 15
    BY Wiring DEF Vectors
  <1>4. /\ \A k \in 1 .. Len(stack) : ~IsIrq(stack[k])
        /\ mis = {}
    <2>1. \A k \in 1 .. Len(stack) : ~IsIrq(stack[k])
      BY <1>2 DEF IInv, ServeInv
    <2>. QED  BY <2>1 DEF IInv, ServeInv
  <1>5. /\ stack' \in Seq(Frames) /\ Len(stack') = Len(stack) + 1 /\ stack' # <<>>
        /\ Top' = stack'[Len(stack) + 1] /\ Len(stack) + 1 \in 1 .. Len(stack')
        /\ \A k \in 1 .. Len(stack') : k = Len(stack) + 1 \/ k \in 1 .. Len(stack)
        /\ stack'[Len(stack) + 1].vec = Vector(i) /\ stack'[Len(stack) + 1].at = "handler"
        /\ \A k \in 1 .. Len(stack) : stack'[k] = stack[k]
    BY <1>1, <1>3, EnterFrame DEF IInv
  <1>6. tab' = Vector(i) /\ flag' = FALSE
    BY <1>1, <1>3, Gates DEF Enter
  <1>7. StackInv'
    BY <1>3, <1>4, <1>5 DEF IInv, StackInv, IsIrq
  <1>8. ServeInv'
    BY <1>1, <1>3, <1>4, <1>5, <1>6 DEF ServeInv, IsIrq
  <1>9. OneIrq'
    BY <1>4, <1>5 DEF OneIrq
  <1>10. TypeOK'
    <2>1. mis' \subseteq 0 .. 7 /\ irr' \subseteq Irqs /\ tab' \in 0 .. 47
      <3>1. irr \subseteq Irqs
        BY DEF IInv, TypeOK
      <3>2. tab' \in 0 .. 47
        BY ONLY <1>3, <1>6
      <3>. QED  BY ONLY <1>1, <1>3, <1>4, <3>1, <3>2
    <2>2. sis' \subseteq 8 .. 15
      <3>1. sis \subseteq 8 .. 15 /\ (~(i < 8) => i \in 8 .. 15)
        BY <1>3 DEF IInv, TypeOK
      <3>. QED  BY ONLY <1>1, <3>1
    <2>. QED  BY <1>2, <1>9, <2>1, <2>2 DEF IInv, TypeOK, OneIrq, IsIrq
  <1>. QED  BY <1>2, <1>6, <1>7, <1>8, <1>10 DEF IInv

\* An exception leaves the flag as it is.
LEMMA TakesNmi ==
  ASSUME IInv, TakeNmi
  PROVE  IInv'
  <1>1. PICK v \in 0 .. 19 : v = 2 /\ Enter(v)
    BY DEF TakeNmi
  <1>2. v \in 0 .. 19 /\ v \in Vectors
    BY DEF Vectors
  <1>3. UNCHANGED <<cpu, pc, eax, cr0, mis, sis, irr>> /\ cpu = "run"
    BY DEF TakeNmi, regVars, picVars
  <1>5. /\ stack' \in Seq(Frames) /\ Len(stack') = Len(stack) + 1 /\ stack' # <<>>
        /\ Top' = stack'[Len(stack) + 1] /\ Len(stack) + 1 \in 1 .. Len(stack')
        /\ \A k \in 1 .. Len(stack') : k = Len(stack) + 1 \/ k \in 1 .. Len(stack)
        /\ stack'[Len(stack) + 1].vec = v /\ stack'[Len(stack) + 1].at = "handler"
        /\ \A k \in 1 .. Len(stack) : stack'[k] = stack[k]
    BY <1>1, <1>2, EnterFrame DEF IInv
  <1>6. tab' = v /\ flag' = flag
    BY <1>1, <1>2, Gates DEF Enter, IInv
  <1>7. StackInv'
    BY <1>2, <1>5 DEF IInv, StackInv, IsIrq
  <1>8. ServeInv'
    BY <1>2, <1>3, <1>5, <1>6 DEF IInv, ServeInv, IsIrq
  <1>9. TypeOK'
    <2>1. OneIrq'
      <3>1. ~IsIrq(stack'[Len(stack) + 1])
        BY <1>2, <1>5 DEF IsIrq
      <3>2. \A j, k \in 1 .. Len(stack) : IsIrq(stack[j]) /\ IsIrq(stack[k]) => j = k
        BY DEF IInv, TypeOK, IsIrq
      <3>. QED  BY <1>5, <3>1, <3>2 DEF OneIrq
    <2>. QED  BY <1>2, <1>3, <1>6, <2>1 DEF IInv, TypeOK, OneIrq, IsIrq
  <1>. QED  BY <1>3, <1>6, <1>7, <1>8, <1>9 DEF IInv

\* The handler runs the one of its own number and ends its line.
LEMMA HandlesIrq ==
  ASSUME IInv, Basic_irq_handling
  PROVE  IInv'
  <1>1. /\ stack # <<>> /\ Top.at = "handler" /\ IsIrq(Top)
        /\ stack' = SetTop([Top EXCEPT !.at = "return", !.ran = tab])
        /\ mis' = Eoi(mis) /\ UNCHANGED <<tab, cpu, flag, irr, sis, pc, eax, cr0>>
    BY DEF Basic_irq_handling, Running, IsIrq, regVars
  <1>2. PICK f : f = [Top EXCEPT !.at = "return", !.ran = tab]
    OBVIOUS
  <1>3. Top \in Frames /\ Top = stack[Len(stack)] /\ Len(stack) \in Nat /\ Len(stack) >= 1
    BY <1>1, TopFrame DEF IInv
  <1>4. tab = Top.vec /\ (\E l \in 0 .. 7 : mis = {l}) /\ tab \in 0 .. 47
    BY <1>1 DEF IInv, ServeInv, TypeOK
  <1>5. f \in Frames /\ f.vec = Top.vec /\ f.at = "return" /\ f.ran = f.vec
    BY <1>2, <1>3, <1>4 DEF Frames
  <1>6. /\ stack' \in Seq(Frames) /\ Len(stack') = Len(stack) /\ stack'[Len(stack)] = f
        /\ \A k \in 1 .. Len(stack) - 1 : stack'[k] = stack[k]
    BY <1>1, <1>2, <1>5, TopFrame DEF IInv
  <1>7. Top' = f /\ mis' = {}
    BY <1>1, <1>4, <1>6, EoiLast DEF Top
  <1>8. \A k \in 1 .. Len(stack) : IsIrq(stack'[k]) <=> IsIrq(stack[k])
    BY <1>3, <1>5, <1>6, Depth DEF IInv, IsIrq
  <1>9. StackInv'
    <2>1. \A k \in 1 .. Len(stack') : k = Len(stack) \/ k \in 1 .. Len(stack) - 1
      BY <1>3, <1>6, Depth DEF IInv
    <2>2. \A k \in 1 .. Len(stack) - 1 : k \in 1 .. Len(stack)
      BY Depth DEF IInv
    <2>. QED  BY <1>1, <1>3, <1>5, <1>6, <2>1, <2>2 DEF IInv, StackInv, IsIrq
  <1>10. ServeInv'
    BY <1>1, <1>5, <1>6, <1>7, <1>8 DEF IInv, ServeInv
  <1>11. TypeOK'
    <2>1. OneIrq'
      BY <1>6, <1>8, SameKinds DEF IInv
    <2>. QED  BY <1>1, <1>7, <2>1 DEF IInv, TypeOK, OneIrq, IsIrq
  <1>. QED  BY <1>1, <1>9, <1>10, <1>11 DEF IInv

\* A stack without its last frame.
LEMMA Shorter ==
  ASSUME NEW s \in Seq(Frames), Len(s) >= 1
  PROVE  /\ SubSeq(s, 1, Len(s) - 1) \in Seq(Frames)
         /\ Len(SubSeq(s, 1, Len(s) - 1)) = Len(s) - 1
         /\ \A k \in 1 .. Len(s) - 1 : SubSeq(s, 1, Len(s) - 1)[k] = s[k]
  <1>1. Len(s) \in Nat /\ Len(s) - 1 \in Nat /\ Len(s) - 1 <= Len(s)
    OBVIOUS
  <1>2. \A k \in 1 .. Len(s) - 1 : k \in 1 .. Len(s) /\ s[k] \in Frames
    BY <1>1
  <1>3. PICK n \in Nat : n = Len(s) - 1
    BY <1>1
  <1>4. SubSeq(s, 1, n) \in Seq(Frames)
    BY <1>2, <1>3
  <1>5. Len(SubSeq(s, 1, n)) = n
    BY <1>2, <1>3
  <1>6. \A k \in 1 .. n : SubSeq(s, 1, n)[k] = s[k]
    BY <1>2, <1>3
  <1>. QED  BY <1>3, <1>4, <1>5, <1>6

\* popa and iret, back to the boot stage or into an exception's handler.
LEMMA ReturnsIrq ==
  ASSUME IInv, IrqReturn
  PROVE  IInv'
  <1>1. /\ stack # <<>> /\ Top.at = "return" /\ stack' = Pop /\ flag' = Top.flag
        /\ eax' = Top.eax /\ UNCHANGED <<tab, cpu, irr, mis, sis, pc, cr0>>
    BY DEF IrqReturn, Running, picVars
  <1>2. Top \in Frames /\ Top = stack[Len(stack)] /\ Len(stack) \in Nat /\ Len(stack) >= 1
    BY <1>1, TopFrame DEF IInv
  <1>3. Top.flag \in BOOLEAN /\ Top.eax = "args"
    BY <1>2 DEF Frames
  <1>4. IsIrq(Top) /\ mis = {}
    <2>1. Len(stack) \in 1 .. Len(stack)
      BY <1>1, Depth DEF IInv
    <2>2. IsIrq(Top)
      BY <1>1, <1>2, <2>1 DEF IInv, StackInv
    <2>. QED  BY <1>1, <2>2 DEF IInv, ServeInv
  <1>5. /\ stack' \in Seq(Frames) /\ Len(stack') = Len(stack) - 1
        /\ \A k \in 1 .. Len(stack) - 1 : stack'[k] = stack[k]
    <2>1. stack \in Seq(Frames)
      BY DEF IInv, StackInv
    <2>2. stack' = SubSeq(stack, 1, Len(stack) - 1)
      BY <1>1 DEF Pop
    <2>3. /\ SubSeq(stack, 1, Len(stack) - 1) \in Seq(Frames)
          /\ Len(SubSeq(stack, 1, Len(stack) - 1)) = Len(stack) - 1
          /\ \A k \in 1 .. Len(stack) - 1 : SubSeq(stack, 1, Len(stack) - 1)[k] = stack[k]
      BY ONLY <1>2, <2>1, Shorter
    <2>. QED  BY ONLY <2>2, <2>3
  <1>6. \A k \in 1 .. Len(stack) - 1 : k \in 1 .. Len(stack) /\ ~IsIrq(stack[k])
    <2>1. Len(stack) \in 1 .. Len(stack)
      BY <1>1, Depth DEF IInv
    <2>2. \A k \in 1 .. Len(stack) - 1 : k \in 1 .. Len(stack) /\ k # Len(stack)
      BY Depth DEF IInv
    <2>. QED  BY <1>2, <1>4, <2>1, <2>2 DEF IInv, TypeOK, IsIrq
  <1>7. StackInv'
    BY <1>5, <1>6 DEF IInv, StackInv
  <1>8. ServeInv'
    <2>1. \A k \in 1 .. Len(stack') : ~IsIrq(stack'[k])
      BY <1>5, <1>6
    <2>2. stack' # <<>> => ~IsIrq(Top')
      <3>1. stack' # <<>> => Len(stack') # 0 /\ Len(stack') \in Nat
        BY <1>5
      <3>2. \A n \in Nat : n # 0 => n \in 1 .. n
        OBVIOUS
      <3>3. stack' # <<>> => Len(stack') \in 1 .. Len(stack')
        BY ONLY <3>1, <3>2
      <3>. QED  BY <2>1, <3>3 DEF Top
    <2>. QED  BY <1>1, <1>4, <2>1, <2>2 DEF ServeInv, IsIrq
  <1>9. TypeOK'
    <2>1. OneIrq'
      BY <1>5, <1>6 DEF OneIrq
    <2>. QED  BY <1>1, <1>3, <2>1 DEF IInv, TypeOK, OneIrq, IsIrq
  <1>. QED  BY <1>1, <1>3, <1>7, <1>8, <1>9 DEF IInv

\* A step of an exception's handler changes its own frame only.
LEMMA ExceptionFrame ==
  ASSUME IInv, NEW f \in Frames, stack # <<>>, ~IsIrq(Top), ~IsIrq(f), f.at # "return",
         stack' = SetTop(f), UNCHANGED <<tab, cpu, flag, irr, mis, sis, pc, eax, cr0>>
  PROVE  IInv'
  <1>1. Top \in Frames /\ Top = stack[Len(stack)] /\ Len(stack) \in Nat /\ Len(stack) >= 1
    BY TopFrame DEF IInv
  <1>2. /\ stack' \in Seq(Frames) /\ Len(stack') = Len(stack) /\ stack'[Len(stack)] = f
        /\ \A k \in 1 .. Len(stack) - 1 : stack'[k] = stack[k]
    BY TopFrame DEF IInv
  <1>3. Top' = f
    BY <1>2 DEF Top
  <1>4. /\ \A k \in 1 .. Len(stack') : k = Len(stack) \/ k \in 1 .. Len(stack) - 1
        /\ \A k \in 1 .. Len(stack) - 1 : k \in 1 .. Len(stack)
    BY <1>2, Depth DEF IInv
  <1>5. \A k \in 1 .. Len(stack) : IsIrq(stack'[k]) <=> IsIrq(stack[k])
    BY <1>1, <1>2, <1>4
  <1>6. StackInv'
    BY <1>1, <1>2, <1>4, <1>5 DEF IInv, StackInv
  <1>7. ServeInv'
    BY <1>2, <1>3, <1>5 DEF IInv, ServeInv
  <1>8. TypeOK'
    <2>1. OneIrq'
      BY <1>2, <1>5, SameKinds DEF IInv
    <2>. QED  BY <2>1 DEF IInv, TypeOK, OneIrq, IsIrq
  <1>. QED  BY <1>6, <1>7, <1>8 DEF IInv

\* A step of the handler of an exception.
LEMMA HandlesException ==
  ASSUME IInv, Basic_isr_handling \/ PutAdvance \/ PutScroll
  PROVE  IInv'
  <1>1. CASE Basic_isr_handling
    <2>1. /\ stack # <<>> /\ ~IsIrq(Top) /\ Top.at = "handler" /\ tab' = tab /\ tab \in 0 .. 47
          /\ UNCHANGED <<flag, irr, mis, sis, pc, eax, cr0>>
      <3>1. stack # <<>> /\ Top.vec <= 19 /\ Top.at = "handler"
        BY <1>1 DEF Basic_isr_handling, Running
      <3>2. Top \in Frames
        BY <3>1, TopFrame DEF IInv
      <3>3. ~IsIrq(Top)
        <4>1. Top.vec \in Int
          BY <3>2 DEF Frames, Vectors
        <4>. QED  BY ONLY <3>1, <4>1 DEF IsIrq
      <3>. QED  BY <1>1, <3>1, <3>3 DEF Basic_isr_handling, picVars, regVars, IInv, TypeOK
    <2>2. CASE tab \in 0 .. 19
      <3>1. PICK f : f = [Top EXCEPT !.at = "put", !.ran = tab]
        OBVIOUS
      <3>2. stack' = SetTop(f) /\ cpu' = cpu
        BY <1>1, <2>2, <3>1 DEF Basic_isr_handling
      <3>3. f \in Frames /\ f.vec = Top.vec /\ f.at = "put"
        BY <2>1, <3>1, TopFrame DEF IInv, Frames
      <3>. QED  BY <2>1, <3>2, <3>3, ExceptionFrame DEF IsIrq
    <2>3. CASE tab \notin 0 .. 19
      <3>1. cpu' = "wild" /\ stack' = stack
        BY <1>1, <2>3 DEF Basic_isr_handling
      <3>. QED  BY <2>1, <3>1 DEF IInv, TypeOK, StackInv, ServeInv, Top
    <2>. QED  BY <2>2, <2>3
  <1>2. CASE PutAdvance \/ PutScroll
    <2>1. /\ stack # <<>> /\ Top.at \in {"put", "scroll"}
          /\ UNCHANGED <<tab, cpu, flag, irr, mis, sis, pc, eax, cr0>>
      BY <1>2 DEF PutAdvance, PutScroll, Running, picVars, regVars
    <2>2. Top \in Frames /\ Top = stack[Len(stack)] /\ Len(stack) \in 1 .. Len(stack)
      BY <2>1, TopFrame, Depth DEF IInv
    <2>3. ~IsIrq(Top)
      BY <2>1, <2>2 DEF IInv, StackInv
    <2>4. CASE PutAdvance
      <3>1. PICK f : f = [Top EXCEPT !.at = "scroll"]
        OBVIOUS
      <3>2. stack' = SetTop(f)
        BY <2>4, <3>1 DEF PutAdvance
      <3>3. f \in Frames /\ f.vec = Top.vec /\ f.at = "scroll"
        BY <2>2, <3>1 DEF Frames
      <3>. QED  BY <2>1, <2>3, <3>2, <3>3, ExceptionFrame DEF IsIrq
    <2>5. CASE PutScroll
      <3>0. PICK t : t = Top
        OBVIOUS
      <3>1. PICK f : f = [t EXCEPT !.at = "put", !.pos = t.pos + 1]
        OBVIOUS
      <3>2. stack' = SetTop(f)
        BY <2>5, <3>0, <3>1 DEF PutScroll
      <3>3. f \in Frames /\ f.vec = Top.vec /\ f.at = "put"
        <4>1. t.pos \in Nat /\ t \in Frames
          BY ONLY <2>2, <3>0 DEF Frames
        <4>2. PICK n \in Nat : n = t.pos + 1
          BY <4>1
        <4>3. f = [t EXCEPT !.at = "put", !.pos = n]
          BY <3>1, <4>2
        <4>4. f \in Frames /\ f.vec = t.vec /\ f.at = "put"
          BY ONLY <4>1, <4>2, <4>3 DEF Frames
        <4>. QED  BY <3>0, <4>4
      <3>. QED  BY <2>1, <2>3, <3>2, <3>3, ExceptionFrame DEF IsIrq
    <2>. QED  BY <1>2, <2>4, <2>5
  <1>. QED  BY <1>1, <1>2

\* The other steps: the devices, the code of start.s, and a halt.
LEMMA OtherSteps ==
  ASSUME IInv, Raise \/ Halt \/ lmain \/ Disable_Paging \/ MovCr0 \/ Set_Paging \/ UNCHANGED vars
  PROVE  IInv'
  <1>. USE DEF IInv, TypeOK, StackInv, ServeInv, Top, picVars, regVars
  <1>1. CASE Raise
    BY <1>1 DEF Raise
  <1>2. CASE Halt
    BY <1>2 DEF Halt
  <1>3. CASE lmain
    <2>1. stack = <<>> /\ Len(stack) = 0
      BY <1>3 DEF lmain
    <2>. QED  BY <1>3, <2>1 DEF lmain
  <1>4. CASE Disable_Paging
    BY <1>4 DEF Disable_Paging
  <1>5. CASE MovCr0
    BY <1>5 DEF MovCr0, Base
  <1>6. CASE Set_Paging
    BY <1>6 DEF Set_Paging
  <1>7. CASE UNCHANGED vars
    BY <1>7 DEF vars
  <1>. QED  BY <1>1, <1>2, <1>3, <1>4, <1>5, <1>6, <1>7

\* The invariant of the interrupts holds at the start.
LEMMA InitIInv ==
  ASSUME Init
  PROVE  IInv
  <1>1. stack = <<>> /\ Len(stack) = 0 /\ stack \in Seq(Frames)
    BY DEF Init
  <1>2. StackInv /\ ServeInv
    BY <1>1 DEF Init, StackInv, ServeInv
  <1>3. TypeOK
    BY <1>1 DEF Init, TypeOK
  <1>. QED  BY <1>1, <1>2, <1>3 DEF Init, IInv

\* Every step keeps it.
LEMMA NextIInv ==
  ASSUME IInv, [Next]_vars
  PROVE  IInv'
  BY TakesIrq, TakesNmi, HandlesIrq, ReturnsIrq, HandlesException, OtherSteps DEF Next

\* The stack, the flag, tab and the controllers keep together.
THEOREM Invariance == Spec => []IInv
  BY InitIInv, NextIInv, PTL DEF Spec

\* Of the handlers in each other one at most is a device's, and the controllers and registers hold what
\* they can hold, however often the devices interrupt.
THEOREM TypeCorrect == Spec => []TypeOK
  <1>1. IInv => TypeOK
    BY DEF IInv
  <1>. QED  BY <1>1, Invariance, PTL

\* Every interrupt gets its own handler, although all pass their number in the one
\* tab, and leaves no line of the master in service behind it.
THEOREM Served == Spec => []IrqsServed
  <1>1. ASSUME IInv PROVE IrqsServed
    <2>1. ASSUME NEW k \in 1 .. Len(stack), stack[k].vec > 19, stack[k].at = "return"
          PROVE  stack[k].ran = stack[k].vec
      BY <1>1, <2>1 DEF IInv, StackInv, IsIrq
    <2>2. stack = <<>> => mis = {}
      BY <1>1 DEF IInv, ServeInv
    <2>. QED  BY <2>1, <2>2 DEF IrqsServed
  <1>. QED  BY <1>1, Invariance, PTL

-----------------------------------------------------------------------------
(* The boot stage.                                                         *)

\* Each part moves alone.
LEMMA Parts == BootSpec => Spec /\ P!Spec
  <1>1. BootInit => Init /\ P!Init
    BY DEF BootInit
  <1>2. [BootNext]_bootVars => [Next]_vars /\ [P!Next]_page
    BY DEF BootNext, bootVars
  <1>. QED  BY <1>1, <1>2, PTL DEF BootSpec, Spec, P!Spec

\* The screen of the proofs is the screen of BootStage.
LEMMA SameScreen ==
  /\ SP!ScreenAssumption <=> P!ScreenAssumption
  /\ SP!Init <=> P!Init
  /\ SP!Next <=> P!Next
  /\ SP!IInv <=> P!IInv
  <1>1. SP!Cells = P!Cells /\ SP!Signs = P!Signs /\ SP!Blank = P!Blank
        /\ SP!Controls = P!Controls /\ SP!Keys = P!Keys
    BY DEF SP!Cells, P!Cells, SP!Signs, P!Signs, SP!Blank, P!Blank, SP!Controls, P!Controls, SP!Keys, P!Keys
  <1>2. \A s : SP!move_csr(s) = P!move_csr(s)
    BY DEF SP!move_csr, P!move_csr
  <1>3. \A s : SP!scroll(s) = P!scroll(s)
    BY <1>1, Zenon DEF SP!scroll, P!scroll
  <1>4. \A s, c : SP!Write(s, c) = P!Write(s, c)
    BY <1>1, Zenon DEF SP!Write, P!Write
  <1>5. \A s : SP!Wrap(s) = P!Wrap(s)
    BY DEF SP!Wrap, P!Wrap
  <1>6. \A s : SP!Tab(s) = P!Tab(s)
    BY DEF SP!Tab, P!Tab
  <1>7. \A s, c : SP!Advance(s, c) = P!Advance(s, c)
    BY <1>4, <1>5, <1>6, Zenon DEF SP!Advance, P!Advance
  <1>8. \A s, c : SP!putch(s, c) = P!putch(s, c)
    BY <1>2, <1>3, <1>7, Zenon DEF SP!putch, P!putch
  <1>9. \A s : SP!suppr(s) = P!suppr(s)
    BY <1>1, <1>2, <1>8, Zenon DEF SP!suppr, P!suppr
  <1>10. \A s : SP!supprl(s) = P!supprl(s)
    BY <1>9, Zenon DEF SP!supprl, P!supprl
  <1>11. \A s, c : SP!puts4(s, c) = P!puts4(s, c)
    BY <1>8, Zenon DEF SP!puts4, P!puts4
  <1>12. \A s : SP!cls(s) = P!cls(s)
    BY <1>1, <1>2, Zenon DEF SP!cls, P!cls
  <1>13. SP!Init <=> P!Init
    BY <1>1, <1>12, Zenon DEF SP!Init, P!Init, SP!init_video, P!init_video
  <1>14. \A s, key : SP!keyboard_handling(s, key) = P!keyboard_handling(s, key)
    BY <1>1, <1>8, <1>9, <1>10, <1>11, Zenon DEF SP!keyboard_handling, P!keyboard_handling
  <1>15. SP!Next <=> P!Next
    BY <1>1, <1>8, <1>12, <1>14, Zenon
    DEF SP!Next, P!Next, SP!PrintChar, P!PrintChar, SP!Key, P!Key, SP!Clear, P!Clear
  <1>16. SP!ScreenAssumption <=> P!ScreenAssumption
    BY DEF SP!ScreenAssumption, P!ScreenAssumption
  <1>17. SP!IInv <=> P!IInv
    BY <1>1, Zenon DEF SP!IInv, P!IInv, SP!Screens, P!Screens, SP!TypeOK, P!TypeOK, SP!BelowBlank, P!BelowBlank
  <1>. QED  BY <1>13, <1>15, <1>16, <1>17

\* So the screen of BootStage moves as theirs.
LEMMA SameSpec == P!Spec => SP!Spec
  <1>1. P!Init => SP!Init
    BY SameScreen
  <1>2. [P!Next]_page => [SP!Next]_page
    BY SameScreen
  <1>. QED  BY <1>1, <1>2, PTL DEF P!Spec, SP!Spec

\* The terminal of the proofs is the terminal of BootStage.
LEMMA SameTerminal ==
  /\ SP!Shows(page) = P!Shows(page)
  /\ SP!T!Init <=> P!T!Init
  /\ SP!T!Next <=> P!T!Next
  <1>1. /\ \A s : SP!Shows(s) = P!Shows(s)
        /\ SP!T!Columns = P!T!Columns /\ SP!Signs = P!Signs /\ SP!Blank = P!Blank
    BY DEF SP!Shows, P!Shows, SP!T!Columns, P!T!Columns, SP!Signs, P!Signs, SP!Blank, P!Blank
  <1>2. SP!T!Fresh = P!T!Fresh
    BY <1>1, Zenon DEF SP!T!Fresh, P!T!Fresh
  <1>3. \A t : SP!T!LineFeed(t) = P!T!LineFeed(t)
    BY <1>2, Zenon DEF SP!T!LineFeed, P!T!LineFeed
  <1>4. \A t, col : SP!T!Goto(t, col) = P!T!Goto(t, col)
    BY <1>3, Zenon DEF SP!T!Goto, P!T!Goto
  <1>5. \A t, sign : SP!T!Typed(t, sign) = P!T!Typed(t, sign)
    BY <1>4, Zenon DEF SP!T!Typed, P!T!Typed
  <1>6. SP!T!Init <=> P!T!Init
    BY <1>1, <1>2, Zenon DEF SP!T!Init, P!T!Init
  <1>7. SP!Shows(page) = P!Shows(page) /\ SP!Shows(page)' = P!Shows(page)'
    BY DEF SP!Shows, P!Shows
  <1>8. (SP!T!Type <=> P!T!Type) /\ (SP!T!Word <=> P!T!Word) /\ (SP!T!Return <=> P!T!Return)
    BY <1>1, <1>5, <1>7, Zenon
    DEF SP!T!Type, P!T!Type, SP!T!Word, P!T!Word, SP!T!Return, P!T!Return
  <1>9. /\ SP!T!NextStop <=> P!T!NextStop
        /\ SP!T!NextLine <=> P!T!NextLine
        /\ SP!T!RubOut <=> P!T!RubOut
        /\ SP!T!Clear <=> P!T!Clear
    BY <1>1, <1>2, <1>3, <1>4, <1>7, Zenon
    DEF SP!T!NextStop, P!T!NextStop, SP!T!NextLine, P!T!NextLine, SP!T!RubOut, P!T!RubOut,
        SP!T!Clear, P!T!Clear
  <1>. QED  BY <1>6, <1>7, <1>8, <1>9, Zenon DEF SP!T!Next, P!T!Next

\* The screen of the boot stage, of any size, implements the terminal.
THEOREM ScreenShows == BootSpec => ScreenImplements
  <1>1. P!Spec => SP!Spec
    BY SameSpec
  <1>2. SP!Spec => SP!ScreenImplements
    BY SP!Implementation, SameScreen, BootStageAssumption
  <1>3. SP!ScreenImplements => ScreenImplements
    <2>1. SP!T!Init => P!T!Init
      BY SameTerminal
    <2>2. [SP!T!Next]_(SP!Shows(page)) => [P!T!Next]_(P!Shows(page))
      BY SameTerminal DEF SP!Shows, P!Shows
    <2>. QED
      BY <2>1, <2>2, PTL
      DEF ScreenImplements, SP!ScreenImplements, P!ScreenImplements, SP!T!Spec, P!T!Spec
  <1>. QED  BY <1>1, <1>2, <1>3, Parts, PTL

\* The types of the interrupts' part hold in the boot stage, the cursor of the screen
\* stays on it, no cell outside the buffer is written, and the rows below the cursor's are blank.
THEOREM BootTypeCorrect == BootSpec => []BootTypeOK
  <1>1. P!Spec => SP!Spec
    BY SameSpec
  <1>2. SP!Spec => []SP!IInv
    BY SP!Invariance, SameScreen, BootStageAssumption
  <1>3. TypeOK /\ SP!IInv => BootTypeOK
    BY SameScreen DEF BootTypeOK
  <1>. QED  BY <1>1, <1>2, <1>3, Parts, TypeCorrect, PTL

-----------------------------------------------------------------------------
(* Numbers.                                                                *)

\* The powers by which the loops multiply, divide and shift.
LEMMA Powers ==
  ASSUME NEW b \in 2 .. 16
  PROVE  /\ F!Pow(b, 0) = 1
         /\ \A k \in Nat : F!Pow(b, k) \in Nat \ {0} /\ F!Pow(b, k + 1) = b * F!Pow(b, k)
  <1>. DEFINE V == Nat \ {0}
              p == [i \in Nat \ {0} |-> i - 1]
              g == [x \in (Nat \ {0}) \X V |-> b * x[2]]
              Value(f) == f = [k \in Nat |-> IF k = 0 THEN 1 ELSE b * f[k - 1]]
              v == CHOOSE f : Value(f)
              T == {k \in Nat : v[k] \in V}
  <1>1. \A n : F!Pow(b, n) = v[n]
    BY DEF F!Pow
  <1>2. \A x \in V : b * x \in V
    <2>1. \A x, y \in Nat \ {0} : x * y \in Nat \ {0}
      OBVIOUS
    <2>. QED  BY <2>1
  <1>3. p \in [Nat \ {0} -> Nat] /\ (\A i \in Nat \ {0} : p[i] < i) /\ 1 \in V
    OBVIOUS
  <1>4. g \in [(Nat \ {0}) \X V -> V] /\ \A i \in Nat \ {0}, x \in V : g[<<i, x>>] = b * x
    BY <1>2
  <1>5. PICK f : Unwinds(f, V, 1, p, g)
    <2>. HIDE DEF g, p, V
    <2>. QED  BY <1>3, <1>4, RecurBack
  <1>6. Value(f)
    <2>1. ASSUME NEW k \in Nat PROVE f[k] = IF k = 0 THEN 1 ELSE b * f[k - 1]
      <3>1. CASE k = 0
        BY <1>5, <3>1 DEF Unwinds
      <3>2. CASE k # 0
        <4>1. p[k] = k - 1 /\ k - 1 \in Nat
          BY <3>2
        <4>2. f[k] = g[<<k, f[k - 1]>>] /\ f[k - 1] \in V
          BY <1>5, <3>2, <4>1 DEF Unwinds
        <4>. QED  BY <1>4, <3>2, <4>2
      <3>. QED  BY <3>1, <3>2
    <2>2. f = [k \in Nat |-> f[k]]
      BY <1>5 DEF Unwinds
    <2>. QED  BY <2>1, <2>2
  <1>7. Value(v)
    BY <1>6
  <1>. HIDE DEF v
  <1>8. v[0] = 1 /\ \A k \in Nat : v[k + 1] = b * v[k]
    <2>1. v[0] = 1
      BY <1>7
    <2>2. ASSUME NEW k \in Nat PROVE v[k + 1] = b * v[k]
      <3>1. k + 1 \in Nat /\ k + 1 # 0 /\ (k + 1) - 1 = k
        OBVIOUS
      <3>. QED  BY <1>7, <3>1
    <2>. QED  BY <2>1, <2>2
  <1>9. ASSUME NEW k \in Nat, \A m \in 0 .. k - 1 : m \in T
        PROVE  k \in T
    <2>1. CASE k = 0
      BY <1>8, <2>1
    <2>2. CASE k # 0
      <3>1. k - 1 \in 0 .. k - 1 /\ k - 1 \in Nat /\ (k - 1) + 1 = k
        BY <2>2
      <3>2. v[k - 1] \in V /\ v[k] = b * v[k - 1]
        BY <1>8, <1>9, <3>1
      <3>. QED  BY <1>2, <3>2
    <2>. QED  BY <2>1, <2>2
  <1>10. \A k \in Nat : k \in T
    <2>. HIDE DEF T
    <2>. QED  BY <1>9, Strong
  <1>. QED  BY <1>1, <1>8, <1>10

\* A power is the product of the powers of its parts.
LEMMA PowersSplit ==
  ASSUME NEW b \in 2 .. 16, NEW i \in Nat
  PROVE  \A j \in Nat : F!Pow(b, i + j) = F!Pow(b, i) * F!Pow(b, j)
  <1>. DEFINE T == {j \in Nat : F!Pow(b, i + j) = F!Pow(b, i) * F!Pow(b, j)}
  <1>1. ASSUME NEW j \in Nat, \A m \in 0 .. j - 1 : m \in T
        PROVE  j \in T
    <2>1. CASE j = 0
      <3>1. F!Pow(b, 0) = 1 /\ F!Pow(b, i) \in Nat
        BY Powers
      <3>. QED  BY <2>1, <3>1
    <2>2. CASE j # 0
      <3>1. j - 1 \in 0 .. j - 1 /\ j - 1 \in Nat /\ i + (j - 1) \in Nat
            /\ (j - 1) + 1 = j /\ (i + (j - 1)) + 1 = i + j
        BY <2>2
      <3>2. F!Pow(b, i + (j - 1)) = F!Pow(b, i) * F!Pow(b, j - 1)
        BY <1>1, <3>1
      <3>3. F!Pow(b, j) = b * F!Pow(b, j - 1) /\ F!Pow(b, i + j) = b * F!Pow(b, i + (j - 1))
        BY Powers, <3>1
      <3>4. \A x, y, z \in Nat : x * (y * z) = y * (x * z)
        OBVIOUS
      <3>5. F!Pow(b, i) \in Nat /\ F!Pow(b, j - 1) \in Nat
        BY Powers, <3>1
      <3>6. F!Pow(b, i + j) = F!Pow(b, i) * F!Pow(b, j)
        BY ONLY <3>2, <3>3, <3>4, <3>5, b \in Nat
      <3>. QED  BY <3>6
    <2>. QED  BY <2>1, <2>2
  <1>2. \A j \in Nat : j \in T
    <2>. HIDE DEF T
    <2>. QED  BY <1>1, Strong
  <1>. QED  BY <1>2

\* The powers grow.
LEMMA PowersGrow ==
  ASSUME NEW b \in 2 .. 16
  PROVE  \A j \in Nat, k \in Nat : j <= k => F!Pow(b, j) <= F!Pow(b, k)
  <1>1. SUFFICES ASSUME NEW j \in Nat, NEW k \in Nat, j <= k PROVE F!Pow(b, j) <= F!Pow(b, k)
    OBVIOUS
  <1>2. k - j \in Nat /\ j + (k - j) = k
    BY <1>1
  <1>3. F!Pow(b, j + (k - j)) = F!Pow(b, j) * F!Pow(b, k - j)
    BY <1>2, PowersSplit
  <1>4. PICK x \in Nat \ {0}, y \in Nat \ {0} : x = F!Pow(b, j) /\ y = F!Pow(b, k - j)
    BY <1>2, Powers
  <1>5. \A u, w \in Nat \ {0} : u <= u * w
    OBVIOUS
  <1>. QED  BY <1>2, <1>3, <1>4, <1>5

\* The characters of the digits differ, and their values are the digits.
LEMMA DigitOf ==
  ASSUME NEW d \in 0 .. 15
  PROVE  F!DigitValue[F!Digit(d)] = d
         /\ (F!Digit(d) = "0" => d = 0)
  <1>1. \A e \in 0 .. 15 : F!Digit(e) = F!Digit(d) => e = d
    BY DEF F!Digit
  <1>2. F!Digit(0) = "0"
    BY DEF F!Digit
  <1>3. F!DigitValue[F!Digit(d)] = d
    BY <1>1 DEF F!DigitValue
  <1>. QED  BY <1>1, <1>2, <1>3

\* A text is worth what its digits are worth one behind the other.
LEMMA WorthIs ==
  ASSUME NEW C, NEW b \in Nat, NEW t \in Seq(C), NEW h,
         h[0] = 0, \A k \in 1 .. Len(t) : h[k] = h[k - 1] * b + F!DigitValue[t[k]]
  PROVE  F!Worth(b, t) = h[Len(t)]
  <1>. DEFINE n == Len(t)
              Value(f) == f = [k \in 0 .. n |->
                                 IF k = 0 THEN 0 ELSE f[k - 1] * b + F!DigitValue[t[k]]]
              v == CHOOSE f : Value(f)
              e == [k \in 0 .. n |-> h[k]]
              T == {k \in 0 .. n : v[k] = h[k]}
  <1>1. F!Worth(b, t) = v[n] /\ n \in Nat
    BY DEF F!Worth
  <1>. HIDE DEF n
  <1>2. Value(e)
    <2>1. ASSUME NEW k \in 0 .. n
          PROVE  h[k] = IF k = 0 THEN 0 ELSE e[k - 1] * b + F!DigitValue[t[k]]
      <3>1. CASE k = 0
        BY <3>1
      <3>2. CASE k # 0
        <4>1. k \in 1 .. n /\ k - 1 \in 0 .. n
          BY <1>1, <3>2
        <4>2. e[k - 1] = h[k - 1]
          BY <4>1
        <4>. QED  BY <3>2, <4>1, <4>2 DEF n
      <3>. QED  BY <3>1, <3>2
    <2>. QED  BY <2>1
  <1>3. Value(v)
    BY <1>2
  <1>. HIDE DEF v
  <1>4. 0 \in T
    BY <1>1, <1>3
  <1>5. ASSUME NEW k \in 1 .. n, k - 1 \in T PROVE k \in T
    <2>1. v[k] = v[k - 1] * b + F!DigitValue[t[k]]
      BY <1>1, <1>3
    <2>. QED  BY <1>1, <1>5, <2>1 DEF n
  <1>6. \A k \in 0 .. n : k \in T
    <2>. HIDE DEF T
    <2>. QED  BY <1>1, <1>4, <1>5, Induct
  <1>. QED  BY <1>1, <1>6 DEF n

\* A number and the number its digits but the last stand for.
LEMMA Division ==
  ASSUME NEW b \in 2 .. 16, NEW x \in Nat
  PROVE  /\ x \div b \in Nat /\ x % b \in 0 .. b - 1 /\ x = (x \div b) * b + (x % b)
         /\ x # 0 => x \div b < x
  <1>1. b \in Nat \ {0}
    OBVIOUS
  <1>2. PICK q \in Nat, r \in 0 .. b - 1 : q = x \div b /\ r = x % b /\ x = b * q + r
    BY <1>1, Dividing
  <1>3. b * q = q * b
    OBVIOUS
  <1>4. ASSUME x # 0 PROVE q < x
    <2>1. CASE q = 0
      BY <1>4, <2>1
    <2>2. CASE q # 0
      <3>1. \A c \in 2 .. 16, y \in Nat \ {0} : c * y > y /\ c * y \in Nat
        OBVIOUS
      <3>2. b * q > q /\ b * q \in Nat
        BY <2>2, <3>1
      <3>. QED  BY <1>2, <3>2
    <2>. QED  BY <2>1, <2>2
  <1>. QED  BY <1>2, <1>3, <1>4

\* The characters of the digits.
Chars == {F!Digit(d) : d \in 0 .. 15}

\* The recursion of the digits of dec and decX.
LEMMA DigitsStep ==
  ASSUME NEW b \in 2 .. 16
  PROVE  /\ F!Digits(b, 0) = <<>>
         /\ \A x \in Nat \ {0} : F!Digits(b, x) = Append(F!Digits(b, x \div b), F!Digit(x % b))
  <1>. DEFINE V == Seq(Chars)
              p == [i \in Nat \ {0} |-> i \div b]
              g == [x \in (Nat \ {0}) \X V |-> Append(x[2], F!Digit(x[1] % b))]
              Value(f) == f = [n \in Nat |-> IF n = 0 THEN <<>>
                                             ELSE Append(f[n \div b], F!Digit(n % b))]
              v == CHOOSE f : Value(f)
  <1>1. \A n : F!Digits(b, n) = v[n]
    BY DEF F!Digits
  <1>2. \A i \in Nat \ {0} : F!Digit(i % b) \in Chars
    <2>1. \A i \in Nat : i % b \in 0 .. b - 1
      BY Division
    <2>2. \A r \in 0 .. b - 1 : r \in 0 .. 15
      OBVIOUS
    <2>. QED  BY <2>1, <2>2 DEF Chars
  <1>. HIDE DEF Chars
  <1>3. p \in [Nat \ {0} -> Nat] /\ (\A i \in Nat \ {0} : p[i] < i) /\ <<>> \in V
    BY Division
  <1>4. g \in [(Nat \ {0}) \X V -> V]
        /\ \A i \in Nat \ {0}, x \in V : g[<<i, x>>] = Append(x, F!Digit(i % b))
    <2>1. \A x \in V, c \in Chars : Append(x, c) \in V
      OBVIOUS
    <2>. HIDE DEF V
    <2>. QED  BY <1>2, <2>1
  <1>5. PICK f : Unwinds(f, V, <<>>, p, g)
    <2>. HIDE DEF g, p, V
    <2>. QED  BY <1>3, <1>4, RecurBack
  <1>. HIDE DEF g, V
  <1>6. Value(f)
    <2>1. ASSUME NEW k \in Nat
          PROVE  f[k] = IF k = 0 THEN <<>> ELSE Append(f[k \div b], F!Digit(k % b))
      <3>1. CASE k = 0
        BY <1>5, <3>1 DEF Unwinds
      <3>2. CASE k # 0
        <4>1. p[k] = k \div b /\ k \div b \in Nat
          BY <3>2, Division
        <4>2. f[k] = g[<<k, f[k \div b]>>] /\ f[k \div b] \in V
          BY <1>5, <3>2, <4>1 DEF Unwinds
        <4>. QED  BY <1>4, <3>2, <4>2
      <3>. QED  BY <3>1, <3>2
    <2>2. f = [k \in Nat |-> f[k]]
      BY <1>5 DEF Unwinds
    <2>. QED  BY <2>1, <2>2
  <1>7. Value(v)
    BY <1>6
  <1>. HIDE DEF v
  <1>8. v[0] = <<>> /\ \A x \in Nat \ {0} : v[x] = Append(v[x \div b], F!Digit(x % b))
    BY <1>7
  <1>. QED  BY <1>1, <1>8

\* The turns that count the places of a number.
LEMMA PlacesStep ==
  F!Places(0) = 0 /\ \A x \in Nat \ {0} : F!Places(x) = F!Places(x \div 10) + 1
  <1>. DEFINE V == Nat
              p == [i \in Nat \ {0} |-> i \div 10]
              g == [x \in (Nat \ {0}) \X V |-> x[2] + 1]
              Value(f) == f = [n \in Nat |-> IF n = 0 THEN 0 ELSE f[n \div 10] + 1]
              v == CHOOSE f : Value(f)
  <1>1. \A n : F!Places(n) = v[n]
    BY DEF F!Places
  <1>3. p \in [Nat \ {0} -> Nat] /\ (\A i \in Nat \ {0} : p[i] < i) /\ 0 \in V
    BY Division
  <1>4. g \in [(Nat \ {0}) \X V -> V] /\ \A i \in Nat \ {0}, x \in V : g[<<i, x>>] = x + 1
    OBVIOUS
  <1>5. PICK f : Unwinds(f, V, 0, p, g)
    <2>. HIDE DEF g, p, V
    <2>. QED  BY <1>3, <1>4, RecurBack
  <1>. HIDE DEF g, V
  <1>6. Value(f)
    <2>1. ASSUME NEW k \in Nat
          PROVE  f[k] = IF k = 0 THEN 0 ELSE f[k \div 10] + 1
      <3>1. CASE k = 0
        BY <1>5, <3>1 DEF Unwinds
      <3>2. CASE k # 0
        <4>1. p[k] = k \div 10 /\ k \div 10 \in Nat
          BY <3>2, Division
        <4>2. f[k] = g[<<k, f[k \div 10]>>] /\ f[k \div 10] \in V
          BY <1>5, <3>2, <4>1 DEF Unwinds
        <4>. QED  BY <1>4, <3>2, <4>2
      <3>. QED  BY <3>1, <3>2
    <2>2. f = [k \in Nat |-> f[k]]
      BY <1>5 DEF Unwinds
    <2>. QED  BY <2>1, <2>2
  <1>7. Value(v)
    BY <1>6
  <1>. HIDE DEF v
  <1>8. v[0] = 0 /\ \A x \in Nat \ {0} : v[x] = v[x \div 10] + 1
    BY <1>7
  <1>. QED  BY <1>1, <1>8

\* t has the digits of x, most significant first, and room for all of them.
Spells(b, x, t) ==
    /\ t \in Seq(Chars) /\ x < F!Pow(b, Len(t))
    /\ \A k \in 1 .. Len(t) : t[k] = F!Digit((x \div F!Pow(b, Len(t) - k)) % b)

\* Such a text is worth x.
LEMMA SpelledWorth ==
  ASSUME NEW b \in 2 .. 16, NEW x \in Nat, NEW t, Spells(b, x, t)
  PROVE  F!Worth(b, t) = x
  <1>. DEFINE n == Len(t)
              h == [k \in 0 .. n |-> x \div F!Pow(b, n - k)]
  <1>0. /\ t \in Seq(Chars) /\ n \in Nat /\ x < F!Pow(b, n)
        /\ \A k \in 1 .. n : t[k] = F!Digit((x \div F!Pow(b, n - k)) % b)
    BY DEF Spells
  <1>. HIDE DEF n
  <1>1. ASSUME NEW k \in 0 .. n PROVE F!Pow(b, n - k) \in Nat \ {0}
    <2>1. n - k \in Nat
      BY <1>0
    <2>. QED  BY <2>1, Powers
  <1>2. h[0] = 0
    <2>1. \A y \in Nat, z \in Nat : y < z => y \div z = 0
      OBVIOUS
    <2>2. h[0] = x \div F!Pow(b, n) /\ F!Pow(b, n) \in Nat
      BY <1>0, <1>1
    <2>. QED  BY <1>0, <2>1, <2>2
  <1>3. h[n] = x
    <2>1. h[n] = x \div 1
      <3>1. n - n = 0 /\ n \in 0 .. n
        BY <1>0
      <3>. QED  BY <3>1, Powers
    <2>. QED  BY <2>1
  <1>4. ASSUME NEW k \in 1 .. n
        PROVE  h[k] = h[k - 1] * b + F!DigitValue[t[k]]
    <2>1. PICK W \in Nat \ {0} : W = F!Pow(b, n - k)
      BY <1>0, <1>1
    <2>2. F!Pow(b, n - (k - 1)) = b * W
      <3>1. n - k \in Nat /\ (n - k) + 1 = n - (k - 1)
        BY <1>0
      <3>2. F!Pow(b, (n - k) + 1) = b * F!Pow(b, n - k)
        BY <3>1, Powers
      <3>. QED  BY <2>1, <3>1, <3>2
    <2>3. PICK y \in Nat : y = x \div W
      <3>1. \A a \in Nat, c \in Nat \ {0} : a \div c \in Nat
        OBVIOUS
      <3>. QED  BY <3>1
    <2>4. x \div (b * W) = y \div b
      <3>1. b \in Nat \ {0}
        OBVIOUS
      <3>. QED  BY <2>3, <3>1, DivDivides
    <2>5. h[k] = y /\ h[k - 1] = y \div b
      <3>1. k \in 0 .. n /\ k - 1 \in 0 .. n
        BY <1>0
      <3>2. h[k] = x \div F!Pow(b, n - k) /\ h[k - 1] = x \div F!Pow(b, n - (k - 1))
        BY <3>1
      <3>. QED  BY <2>1, <2>2, <2>3, <2>4, <3>2
    <2>6. y % b \in 0 .. 15 /\ y = (y \div b) * b + (y % b)
      <3>1. y % b \in 0 .. b - 1 /\ y = (y \div b) * b + (y % b)
        BY Division
      <3>2. \A r \in 0 .. b - 1 : r \in 0 .. 15
        OBVIOUS
      <3>. QED  BY <3>1, <3>2
    <2>7. F!DigitValue[t[k]] = y % b
      BY <1>0, <2>1, <2>3, <2>6, DigitOf
    <2>. QED  BY <2>5, <2>6, <2>7
  <1>. HIDE DEF h
  <1>. QED  BY <1>0, <1>2, <1>3, <1>4, WorthIs DEF n

\* It has no zero in front when x has as many digits.
LEMMA SpelledFirst ==
  ASSUME NEW b \in 2 .. 16, NEW x \in Nat, NEW t, Spells(b, x, t), Len(t) > 0,
         F!Pow(b, Len(t) - 1) <= x
  PROVE  t[1] # "0"
  <1>1. Len(t) \in Nat /\ 1 \in 1 .. Len(t) /\ Len(t) - 1 \in Nat /\ (Len(t) - 1) + 1 = Len(t)
    BY DEF Spells
  <1>2. PICK W \in Nat \ {0} : W = F!Pow(b, Len(t) - 1)
    BY <1>1, Powers
  <1>3. F!Pow(b, Len(t)) = b * W
    BY <1>1, <1>2, Powers
  <1>4. x < b * W /\ W <= x
    BY <1>2, <1>3 DEF Spells
  <1>5. x \div W \in 1 .. b - 1
    BY ONLY <1>2, <1>4, b \in 2 .. 16, x \in Nat
  <1>6. (x \div W) % b \in 1 .. 15
    BY ONLY <1>5, b \in 2 .. 16
  <1>7. t[1] = F!Digit((x \div W) % b)
    BY <1>1, <1>2 DEF Spells
  <1>8. PICK d \in 0 .. 15 : d = (x \div W) % b /\ d # 0
    BY <1>6
  <1>9. F!Digit(d) = "0" => d = 0
    BY DigitOf
  <1>. QED  BY <1>7, <1>8, <1>9

\* The elements of a text with one character more.
LEMMA Appended ==
  ASSUME NEW C, NEW s \in Seq(C), NEW c \in C
  PROVE  /\ Append(s, c) \in Seq(C) /\ Len(Append(s, c)) = Len(s) + 1
         /\ Append(s, c)[Len(s) + 1] = c /\ \A k \in 1 .. Len(s) : Append(s, c)[k] = s[k]
  OBVIOUS

\* What dec and decX write has the digits of its number and no zero in front.
LEMMA DigitsSpell ==
  ASSUME NEW b \in 2 .. 16, NEW x \in Nat
  PROVE  /\ Spells(b, x, F!Digits(b, x))
         /\ x # 0 => Len(F!Digits(b, x)) > 0 /\ F!Pow(b, Len(F!Digits(b, x)) - 1) <= x
  <1>. DEFINE Good(y) ==
                /\ Spells(b, y, F!Digits(b, y))
                /\ y # 0 => Len(F!Digits(b, y)) > 0 /\ F!Pow(b, Len(F!Digits(b, y)) - 1) <= y
              T == {y \in Nat : Good(y)}
  <1>0. F!Pow(b, 0) = 1 /\ b \in Nat \ {0}
    <2>1. b \in Nat \ {0}
      OBVIOUS
    <2>. QED  BY <2>1, Powers
  <1>1. ASSUME NEW y \in Nat, \A m \in 0 .. y - 1 : m \in T
        PROVE  Good(y)
    <2>1. CASE y = 0
      <3>1. F!Digits(b, y) = <<>> /\ <<>> \in Seq(Chars) /\ Len(<<>>) = 0
        <4>1. \A C : <<>> \in Seq(C) /\ Len(<<>>) = 0
          OBVIOUS
        <4>. QED  BY <2>1, <4>1, DigitsStep
      <3>2. PICK t : t = F!Digits(b, y)
        OBVIOUS
      <3>3. Spells(b, 0, t)
        BY <1>0, <3>1, <3>2 DEF Spells
      <3>. QED  BY <2>1, <3>2, <3>3
    <2>2. CASE y # 0
      <3>1. PICK q \in Nat, r \in 0 .. b - 1 :
              q = y \div b /\ r = y % b /\ y = q * b + r /\ q < y
        BY <2>2, Division
      <3>2. PICK s : s = F!Digits(b, q)
        OBVIOUS
      <3>3. PICK t : t = Append(s, F!Digit(r)) /\ t = F!Digits(b, y)
        BY <2>2, <3>1, <3>2, DigitsStep
      <3>4. Good(q)
        BY <1>1, <3>1
      <3>5. s \in Seq(Chars) /\ Len(s) \in Nat /\ r \in 0 .. 15
        BY <3>2, <3>4 DEF Spells
      <3>6. F!Digit(r) \in Chars
        BY <3>5 DEF Chars
      <3>7. /\ t \in Seq(Chars) /\ Len(t) = Len(s) + 1 /\ t[Len(s) + 1] = F!Digit(r)
            /\ \A k \in 1 .. Len(s) : t[k] = s[k]
        <4>1. PICK c \in Chars : c = F!Digit(r)
          BY <3>6
        <4>2. t = Append(s, c) /\ s \in Seq(Chars)
          BY <3>3, <3>5, <4>1
        <4>. QED  BY ONLY <4>1, <4>2, c \in Chars, Appended
      <3>8. PICK W \in Nat \ {0} : W = F!Pow(b, Len(s))
        BY <3>5, Powers
      <3>9. F!Pow(b, Len(t)) = b * W
        BY <3>5, <3>7, <3>8, Powers
      <3>10. y < b * W
        <4>1. q < W
          BY <3>2, <3>4, <3>8 DEF Spells
        <4>2. \A u, w \in Nat : u < w => u * b + b <= b * w
          <5>1. \A u, w \in Nat, c \in 2 .. 16 : u < w => u * c + c <= c * w
            OBVIOUS
          <5>. QED  BY <5>1
        <4>3. q * b + b <= b * W /\ q * b \in Nat /\ b * W \in Nat
          BY <4>1, <4>2
        <4>. QED  BY <3>1, <4>3
      <3>11. ASSUME NEW k \in 1 .. Len(t)
             PROVE  t[k] = F!Digit((y \div F!Pow(b, Len(t) - k)) % b)
        <4>1. CASE k = Len(s) + 1
          <5>1. Len(t) - k = 0 /\ y \div 1 = y
            BY <3>5, <3>7, <4>1
          <5>. QED  BY <1>0, <3>1, <3>7, <4>1, <5>1
        <4>2. CASE k # Len(s) + 1
          <5>1. k \in 1 .. Len(s) /\ Len(s) - k \in Nat /\ (Len(s) - k) + 1 = Len(t) - k
            BY <3>5, <3>7, <4>2
          <5>2. PICK Q \in Nat \ {0} : Q = F!Pow(b, Len(s) - k)
            BY <5>1, Powers
          <5>3. F!Pow(b, Len(t) - k) = b * Q
            BY <5>1, <5>2, Powers
          <5>4. s[k] = F!Digit((q \div Q) % b)
            BY <3>2, <3>4, <5>1, <5>2 DEF Spells
          <5>5. (y \div b) \div Q = y \div (Q * b) /\ Q * b = b * Q
            BY <1>0, DivDivides
          <5>. QED  BY <3>1, <3>7, <5>1, <5>3, <5>4, <5>5
        <4>. QED  BY <4>1, <4>2
      <3>12. Spells(b, y, t)
        BY <3>7, <3>9, <3>10, <3>11 DEF Spells
      <3>13. Len(t) > 0 /\ Len(t) - 1 = Len(s)
        BY <3>5, <3>7
      <3>14. W <= y
        <4>1. CASE q = 0
          <5>1. s = <<>> /\ Len(<<>>) = 0
            BY <3>2, <4>1, DigitsStep
          <5>2. W = 1
            BY <1>0, <3>8, <5>1
          <5>. QED  BY <2>2, <5>2
        <4>2. CASE q # 0
          <5>1. Len(s) - 1 \in Nat /\ (Len(s) - 1) + 1 = Len(s) /\ F!Pow(b, Len(s) - 1) <= q
            BY <3>2, <3>4, <3>5, <4>2
          <5>2. PICK Q \in Nat \ {0} : Q = F!Pow(b, Len(s) - 1) /\ W = b * Q
            BY <3>8, <5>1, Powers
          <5>3. \A u, w \in Nat, c \in 2 .. 16 : u <= w => c * u <= w * c
            OBVIOUS
          <5>4. b * Q <= q * b /\ b * Q \in Nat /\ q * b \in Nat
            BY <5>1, <5>2, <5>3
          <5>. QED  BY <3>1, <5>2, <5>4
        <4>. QED  BY <4>1, <4>2
      <3>. QED  BY <3>3, <3>8, <3>12, <3>13, <3>14
    <2>. QED  BY <2>1, <2>2
  <1>2. \A y \in Nat : y \in T
    <2>1. ASSUME NEW y \in Nat, \A m \in 0 .. y - 1 : m \in T
          PROVE  y \in T
      BY <1>1, <2>1
    <2>. HIDE DEF T
    <2>. QED  BY <2>1, Strong
  <1>. QED  BY <1>2

\* The power of ten that count reaches is the one above the number.
LEMMA PlacesAbove ==
  ASSUME NEW x \in Nat
  PROVE  /\ F!Places(x) \in Nat /\ x < F!Pow(10, F!Places(x))
         /\ x # 0 => F!Places(x) > 0 /\ F!Pow(10, F!Places(x) - 1) <= x
  <1>. DEFINE Good(y) ==
                /\ F!Places(y) \in Nat /\ y < F!Pow(10, F!Places(y))
                /\ y # 0 => F!Places(y) > 0 /\ F!Pow(10, F!Places(y) - 1) <= y
              T == {y \in Nat : Good(y)}
  <1>0. F!Pow(10, 0) = 1
    BY Powers
  <1>1. ASSUME NEW y \in Nat, \A m \in 0 .. y - 1 : m \in T
        PROVE  Good(y)
    <2>1. CASE y = 0
      BY <1>0, <2>1, PlacesStep
    <2>2. CASE y # 0
      <3>1. PICK q \in Nat : q = y \div 10 /\ q < y /\ 10 * q <= y /\ y < 10 * q + 10
        BY <2>2
      <3>2. Good(q)
        BY <1>1, <3>1
      <3>3. PICK n \in Nat : n = F!Places(q) /\ F!Places(y) = n + 1
        BY <2>2, <3>1, <3>2, PlacesStep
      <3>4. PICK W \in Nat \ {0} : W = F!Pow(10, n) /\ F!Pow(10, n + 1) = 10 * W
        <4>1. 10 \in 2 .. 16
          OBVIOUS
        <4>. QED  BY <4>1, Powers
      <3>5. q < W
        BY <3>2, <3>3, <3>4
      <3>6. W <= y
        <4>1. CASE q = 0
          <5>1. W = 1
            BY <1>0, <3>3, <3>4, <4>1, PlacesStep
          <5>. QED  BY <2>2, <5>1
        <4>2. CASE q # 0
          <5>1. n - 1 \in Nat /\ (n - 1) + 1 = n /\ F!Pow(10, n - 1) <= q
            BY <3>2, <3>3, <4>2
          <5>2. PICK Q \in Nat \ {0} : Q = F!Pow(10, n - 1) /\ W = 10 * Q
            BY <3>4, <5>1, Powers
          <5>. QED  BY <3>1, <5>1, <5>2
        <4>. QED  BY <4>1, <4>2
      <3>7. n + 1 \in Nat /\ (n + 1) - 1 = n /\ n + 1 > 0 /\ y < 10 * W
        BY <3>1, <3>5
      <3>. QED  BY <3>3, <3>4, <3>6, <3>7
    <2>. QED  BY <2>1, <2>2
  <1>2. \A y \in Nat : y \in T
    <2>1. ASSUME NEW y \in Nat, \A m \in 0 .. y - 1 : m \in T
          PROVE  y \in T
      BY <1>1, <2>1
    <2>. HIDE DEF T
    <2>. QED  BY <2>1, Strong
  <1>. QED  BY <1>2

\* A power of ten has one place more than zeros, and divided by ten loses one.
LEMMA TenPlaces ==
  ASSUME NEW n \in Nat
  PROVE  /\ F!Places(F!Pow(10, n)) = n + 1
         /\ F!Pow(10, n + 1) \div 10 = F!Pow(10, n)
  <1>. DEFINE T == {j \in Nat : F!Places(F!Pow(10, j)) = j + 1}
  <1>0. 10 \in 2 .. 16
    OBVIOUS
  <1>1. ASSUME NEW j \in Nat
        PROVE  F!Pow(10, j) \in Nat \ {0} /\ F!Pow(10, j + 1) \in Nat \ {0}
               /\ F!Pow(10, j + 1) \div 10 = F!Pow(10, j)
    <2>1. PICK W \in Nat \ {0} : W = F!Pow(10, j) /\ F!Pow(10, j + 1) = 10 * W
      BY <1>0, Powers
    <2>2. (10 * W) \div 10 = W /\ 10 * W \in Nat \ {0}
      OBVIOUS
    <2>. QED  BY <2>1, <2>2
  <1>2. ASSUME NEW j \in Nat, \A m \in 0 .. j - 1 : m \in T
        PROVE  j \in T
    <2>1. CASE j = 0
      <3>1. F!Pow(10, 0) = 1 /\ 1 \div 10 = 0
        BY <1>0, Powers
      <3>2. F!Places(1) = F!Places(0) + 1 /\ F!Places(0) = 0
        BY <3>1, PlacesStep
      <3>. QED  BY <2>1, <3>1, <3>2
    <2>2. CASE j # 0
      <3>1. j - 1 \in 0 .. j - 1 /\ j - 1 \in Nat /\ (j - 1) + 1 = j
        BY <2>2
      <3>2. F!Places(F!Pow(10, j - 1)) = j
        BY <1>2, <3>1
      <3>3. F!Pow(10, j) \in Nat \ {0} /\ F!Pow(10, j) \div 10 = F!Pow(10, j - 1)
        BY <1>1, <3>1
      <3>4. F!Places(F!Pow(10, j)) = F!Places(F!Pow(10, j - 1)) + 1
        BY <3>3, PlacesStep
      <3>. QED  BY <3>2, <3>4
    <2>. QED  BY <2>1, <2>2
  <1>3. \A j \in Nat : j \in T
    <2>. HIDE DEF T
    <2>. QED  BY <1>2, Strong
  <1>. QED  BY <1>1, <1>3

\* The powers of ten on which count comes down from that of the first digit.
LEMMA CountDown ==
  ASSUME NEW n \in Nat, NEW k \in 1 .. n
  PROVE  F!Pow(10, n - 1) \div F!Pow(10, k - 1) = F!Pow(10, n - k)
  <1>0. 10 \in 2 .. 16 /\ n - k \in Nat /\ k - 1 \in Nat /\ (n - k) + (k - 1) = n - 1
    OBVIOUS
  <1>1. PICK W \in Nat \ {0}, V \in Nat \ {0} : W = F!Pow(10, n - k) /\ V = F!Pow(10, k - 1)
    BY <1>0, Powers
  <1>2. F!Pow(10, n - 1) = W * V
    <2>1. F!Pow(10, (n - k) + (k - 1)) = F!Pow(10, n - k) * F!Pow(10, k - 1)
      BY <1>0, PowersSplit
    <2>. QED  BY <1>0, <1>1, <2>1
  <1>3. PICK x \in Nat : x = W * V /\ V * W = x
    OBVIOUS
  <1>4. x \div V = W
    <2>1. V * W <= x /\ x < V * W + V
      BY <1>3
    <2>. QED  BY <2>1, DivIs
  <1>. QED  BY <1>1, <1>2, <1>3, <1>4

\* Of a number that is not negative, saved is the rest behind the digits printed.
LEMMA SpelledSpells ==
  ASSUME NEW x \in Nat, NEW n \in Nat, n > 0, x < F!Pow(10, n)
  PROVE  Spells(10, x, F!Spelled(x, F!Pow(10, n - 1))) /\ Len(F!Spelled(x, F!Pow(10, n - 1))) = n
  <1>. DEFINE p == F!Places(F!Pow(10, n - 1))
              count(k) == F!Pow(10, n - 1) \div F!Pow(10, k - 1)
              Value(f) ==
                f = [k \in 0 .. p |->
                       IF k = 0 THEN x ELSE f[k - 1] - F!Quot(f[k - 1], count(k)) * count(k)]
              v == CHOOSE f : Value(f)
              h == [k \in 0 .. n |-> x % F!Pow(10, n - k)]
              T == {k \in 0 .. n : v[k] = h[k]}
  <1>0. ASSUME NEW k \in 1 .. n PROVE count(k) = F!Pow(10, n - k)
    BY CountDown
  <1>1. F!Spelled(x, F!Pow(10, n - 1)) = [k \in 1 .. n |-> F!Shown(F!Quot(v[k - 1], count(k)))]
        /\ p = n
    <2>1. F!Spelled(x, F!Pow(10, n - 1)) = [k \in 1 .. p |-> F!Shown(F!Quot(v[k - 1], count(k)))]
      BY DEF F!Spelled
    <2>2. p = n
      <3>1. n - 1 \in Nat /\ (n - 1) + 1 = n
        OBVIOUS
      <3>. QED  BY <3>1, TenPlaces
    <2>. HIDE DEF p, v
    <2>. QED  BY <2>1, <2>2
  <1>. HIDE DEF p
  <1>2. ASSUME NEW k \in 1 .. n
        PROVE  /\ h[k] = h[k - 1] - F!Quot(h[k - 1], F!Pow(10, n - k)) * F!Pow(10, n - k)
               /\ F!Quot(h[k - 1], F!Pow(10, n - k)) = (x \div F!Pow(10, n - k)) % 10
               /\ (x \div F!Pow(10, n - k)) % 10 \in 0 .. 9
    <2>1. n - k \in Nat /\ (n - k) + 1 = n - (k - 1) /\ 10 \in 2 .. 16 /\ k - 1 \in 0 .. n
      OBVIOUS
    <2>2. PICK W \in Nat \ {0} : W = F!Pow(10, n - k) /\ F!Pow(10, n - (k - 1)) = 10 * W
      BY <2>1, Powers
    <2>3. PICK q \in Nat, r \in 0 .. W - 1 : q = x \div W /\ r = x % W /\ x = W * q + r
      BY Dividing
    <2>4. PICK u \in Nat, d \in 0 .. 9 : u = q \div 10 /\ d = q % 10 /\ q = 10 * u + d
      OBVIOUS
    <2>5. PICK z \in Nat : z = W * d /\ z = d * W /\ z + r < 10 * W
      <3>1. \A c \in 0 .. 9 : c * W <= 9 * W /\ W * c = c * W /\ W * c \in Nat
        OBVIOUS
      <3>. QED  BY <2>3, <3>1
    <2>6. PICK w \in Nat : w = (10 * W) * u /\ W * q = w + z
      <3>1. W * (10 * u + d) = W * (10 * u) + W * d
        OBVIOUS
      <3>2. W * (10 * u) = (10 * W) * u /\ (10 * W) * u \in Nat
        OBVIOUS
      <3>. QED  BY <2>4, <2>5, <3>1, <3>2
    <2>7. 10 * W \in Nat \ {0} /\ w <= x /\ x < w + 10 * W
      BY <2>3, <2>5, <2>6
    <2>8. x % (10 * W) = z + r
      <3>1. x % (10 * W) = x - (10 * W) * u
        <4>1. (10 * W) * u <= x /\ x < (10 * W) * u + 10 * W
          BY <2>6, <2>7
        <4>2. PICK Y \in Nat \ {0} : Y = 10 * W
          BY <2>7
        <4>3. Y * u <= x /\ x < Y * u + Y /\ u \in Int
          BY ONLY <4>1, <4>2, u \in Nat
        <4>4. x % Y = x - Y * u
          BY ONLY <4>3, DivIs, x \in Nat, Y \in Nat \ {0}
        <4>. QED  BY ONLY <4>2, <4>4
      <3>. QED  BY <2>3, <2>5, <2>6, <3>1
    <2>9. h[k - 1] = z + r /\ h[k] = r
      BY <2>1, <2>2, <2>3, <2>8
    <2>10. (z + r) \div W = d
      <3>1. W * d <= z + r /\ z + r < W * d + W /\ z + r \in Nat /\ d \in Int
        BY <2>3, <2>5
      <3>. QED  BY <3>1, DivIs
    <2>11. F!Quot(z + r, W) = d
      BY <2>10 DEF F!Quot
    <2>12. F!Quot(h[k - 1], F!Pow(10, n - k)) = d
      BY <2>2, <2>9, <2>11
    <2>13. (z + r) - d * W = r
      BY <2>5
    <2>14. h[k] = h[k - 1] - d * W
      BY <2>9, <2>13
    <2>15. (x \div F!Pow(10, n - k)) % 10 = d
      BY <2>2, <2>3, <2>4
    <2>. HIDE DEF h
    <2>. QED  BY <2>2, <2>12, <2>14, <2>15
  <1>3. h[0] = x
    <2>1. PICK W \in Nat \ {0} : W = F!Pow(10, n)
      <3>1. 10 \in 2 .. 16
        OBVIOUS
      <3>. QED  BY <3>1, Powers
    <2>2. x % W = x
      BY <2>1
    <2>3. h[0] = x % F!Pow(10, n)
      OBVIOUS
    <2>. QED  BY <2>1, <2>2, <2>3
  <1>. HIDE DEF h
  <1>4. Value(h)
    <2>1. ASSUME NEW k \in 0 .. n
          PROVE  h[k] = IF k = 0 THEN x ELSE h[k - 1] - F!Quot(h[k - 1], count(k)) * count(k)
      <3>1. CASE k = 0
        BY <1>3, <3>1
      <3>2. CASE k # 0
        <4>1. k \in 1 .. n
          BY <3>2
        <4>2. count(k) = F!Pow(10, n - k)
          BY <1>0, <4>1
        <4>. HIDE DEF count
        <4>. QED  BY <1>2, <3>2, <4>1, <4>2
      <3>. QED  BY <3>1, <3>2
    <2>2. h = [k \in 0 .. p |-> h[k]]
      BY <1>1 DEF h
    <2>. QED  BY <1>1, <2>1, <2>2
  <1>5. Value(v)
    BY <1>4
  <1>. HIDE DEF v
  <1>6. \A k \in 0 .. n : k \in T
    <2>1. 0 \in T
      BY <1>1, <1>3, <1>5
    <2>2. ASSUME NEW k \in 1 .. n, k - 1 \in T
          PROVE  k \in T
      <3>1. v[k] = v[k - 1] - F!Quot(v[k - 1], F!Pow(10, n - k)) * F!Pow(10, n - k)
        <4>1. k \in 0 .. n /\ k # 0
          OBVIOUS
        <4>2. v[k] = v[k - 1] - F!Quot(v[k - 1], count(k)) * count(k)
          BY <1>1, <1>5, <4>1
        <4>3. count(k) = F!Pow(10, n - k)
          BY <1>0
        <4>. HIDE DEF count
        <4>. QED  BY <4>2, <4>3
      <3>2. v[k - 1] = h[k - 1]
        BY <2>2
      <3>3. v[k] = h[k]
        BY <1>2, <3>1, <3>2
      <3>. QED  BY <3>3
    <2>. HIDE DEF T
    <2>. QED  BY <2>1, <2>2, Induct
  <1>7. PICK t : t = F!Spelled(x, F!Pow(10, n - 1))
    OBVIOUS
  <1>8. ASSUME NEW k \in 1 .. n
        PROVE  t[k] = F!Digit((x \div F!Pow(10, n - k)) % 10) /\ t[k] \in Chars
    <2>1. PICK d \in 0 .. 9 : d = (x \div F!Pow(10, n - k)) % 10
      BY <1>2
    <2>2. v[k - 1] = h[k - 1]
      <3>1. k - 1 \in 0 .. n
        OBVIOUS
      <3>. QED  BY <1>6, <3>1
    <2>3. t[k] = F!Shown(d)
      <3>1. t[k] = F!Shown(F!Quot(v[k - 1], count(k))) /\ count(k) = F!Pow(10, n - k)
        BY <1>0, <1>1, <1>7
      <3>. HIDE DEF count
      <3>. QED  BY <1>2, <2>1, <2>2, <3>1
    <2>4. F!Shown(d) = F!Digit(d)
      <3>1. d % 256 = d
        OBVIOUS
      <3>. QED  BY <3>1 DEF F!Shown
    <2>5. F!Digit(d) \in Chars
      <3>1. d \in 0 .. 15
        OBVIOUS
      <3>. QED  BY <3>1 DEF Chars
    <2>. QED  BY <2>1, <2>3, <2>4, <2>5
  <1>9. t \in Seq(Chars) /\ Len(t) = n
    <2>1. t = [k \in 1 .. n |-> t[k]]
      BY <1>1, <1>7
    <2>2. t \in [1 .. n -> Chars]
      BY <1>8, <2>1
    <2>. QED  BY <2>2, FunSeq
  <1>. QED  BY <1>7, <1>8, <1>9 DEF Spells

\* The array of sputhex, read backwards, has the hexadecimal digits.
LEMMA HexSpells ==
  ASSUME NEW m \in Nat, NEW u \in Nat, u < F!Pow(16, m)
  PROVE  Spells(16, u, F!Backwards(F!Filled(F!Zeros(m), u)))
  <1>1. PICK z : z = F!Zeros(m)
    OBVIOUS
  <1>2. Len(z) = m /\ \A k \in 1 .. m : z[k] = "0"
    BY <1>1 DEF F!Zeros
  <1>3. PICK f : f = F!Filled(z, u)
    OBVIOUS
  <1>4. ASSUME NEW k \in 1 .. m
        PROVE  f[k] = F!Digit((u \div F!Pow(16, k - 1)) % 16) /\ f[k] \in Chars
    <2>1. PICK W \in Nat \ {0} : W = F!Pow(16, k - 1)
      <3>1. k - 1 \in Nat /\ 16 \in 2 .. 16
        OBVIOUS
      <3>. QED  BY <3>1, Powers
    <2>2. f[k] = IF u >= W THEN F!Digit((u \div W) % 16) ELSE z[k]
      BY <1>2, <1>3, <2>1 DEF F!Filled
    <2>3. u < W => (u \div W) % 16 = 0
      <3>1. \A y \in Nat, c \in Nat : y < c => y \div c = 0
        OBVIOUS
      <3>. QED  BY <3>1
    <2>4. F!Digit(0) = "0"
      BY DEF F!Digit
    <2>5. PICK d \in 0 .. 15 : d = (u \div W) % 16
      <3>1. u \div W \in Nat
        BY Dividing
      <3>. QED  BY <3>1
    <2>6. f[k] = F!Digit(d)
      <3>1. CASE u >= W
        BY <2>2, <2>5, <3>1
      <3>2. CASE ~(u >= W)
        <4>1. u < W
          BY <3>2
        <4>. QED  BY <1>2, <2>2, <2>3, <2>4, <2>5, <3>2, <4>1
      <3>. QED  BY <3>1, <3>2
    <2>7. F!Digit(d) \in Chars
      BY DEF Chars
    <2>. QED  BY <2>1, <2>5, <2>6, <2>7
  <1>5. f = [k \in 1 .. m |-> f[k]]
    BY <1>2, <1>3 DEF F!Filled
  <1>6. f \in [1 .. m -> Chars]
    BY <1>4, <1>5
  <1>7. Len(f) = m
    BY <1>6, FunSeq
  <1>8. PICK t : t = F!Backwards(f)
    OBVIOUS
  <1>9. t = [i \in 1 .. m |-> f[(m - i) + 1]]
    BY <1>7, <1>8 DEF F!Backwards, F!Reverse
  <1>10. ASSUME NEW i \in 1 .. m
         PROVE  t[i] = F!Digit((u \div F!Pow(16, m - i)) % 16) /\ t[i] \in Chars
    <2>1. (m - i) + 1 \in 1 .. m /\ ((m - i) + 1) - 1 = m - i
      OBVIOUS
    <2>2. f[(m - i) + 1] = F!Digit((u \div F!Pow(16, ((m - i) + 1) - 1)) % 16)
          /\ f[(m - i) + 1] \in Chars
      BY <1>4, <2>1
    <2>. QED  BY <1>9, <2>1, <2>2
  <1>11. t \in Seq(Chars) /\ Len(t) = m
    <2>1. t \in [1 .. m -> Chars]
      <3>1. t = [i \in 1 .. m |-> t[i]]
        BY <1>9
      <3>. QED  BY <1>10, <3>1
    <2>. QED  BY <2>1, FunSeq
  <1>12. Spells(16, u, t)
    BY <1>10, <1>11 DEF Spells
  <1>. QED  BY <1>1, <1>3, <1>8, <1>12

\* Four bits are a hexadecimal digit.
LEMMA Nibbles ==
  ASSUME NEW m \in Nat
  PROVE  F!Pow(2, 4 * m) = F!Pow(16, m)
  <1>. DEFINE T == {n \in Nat : F!Pow(2, 4 * n) = F!Pow(16, n)}
  <1>0. 2 \in 2 .. 16 /\ 16 \in 2 .. 16
    OBVIOUS
  <1>1. ASSUME NEW n \in Nat, \A k \in 0 .. n - 1 : k \in T
        PROVE  n \in T
    <2>1. CASE n = 0
      <3>1. F!Pow(2, 0) = 1 /\ F!Pow(16, 0) = 1
        BY <1>0, Powers
      <3>. QED  BY <2>1, <3>1
    <2>2. CASE n # 0
      <3>1. n - 1 \in 0 .. n - 1 /\ n - 1 \in Nat /\ (n - 1) + 1 = n
        BY <2>2
      <3>2. PICK a \in Nat : a = 4 * (n - 1) /\ 4 * n = (((a + 1) + 1) + 1) + 1
        BY <3>1
      <3>3. PICK W \in Nat : W = F!Pow(2, a) /\ W = F!Pow(16, n - 1)
        <4>1. F!Pow(2, 4 * (n - 1)) = F!Pow(16, n - 1)
          BY <1>1, <3>1
        <4>2. F!Pow(2, a) \in Nat
          BY <1>0, Powers
        <4>. QED  BY <3>2, <4>1, <4>2
      <3>4. F!Pow(2, a + 1) = 2 * W
        BY <1>0, <3>3, Powers
      <3>5. F!Pow(2, (a + 1) + 1) = 2 * (2 * W)
        BY <1>0, <3>4, Powers
      <3>6. F!Pow(2, ((a + 1) + 1) + 1) = 2 * (2 * (2 * W))
        BY <1>0, <3>5, Powers
      <3>7. F!Pow(2, (((a + 1) + 1) + 1) + 1) = 2 * (2 * (2 * (2 * W)))
        BY <1>0, <3>6, Powers
      <3>8. F!Pow(16, (n - 1) + 1) = 16 * W
        BY <1>0, <3>1, <3>3, Powers
      <3>9. F!Pow(2, 4 * n) = F!Pow(16, n)
        BY <3>1, <3>2, <3>7, <3>8
      <3>. QED  BY <3>9
    <2>. QED  BY <2>1, <2>2
  <1>2. \A n \in Nat : n \in T
    <2>. HIDE DEF T
    <2>. QED  BY <1>1, Strong
  <1>. QED  BY <1>2

\* The bits below the nth do not depend on those above.
LEMMA LowBits ==
  ASSUME NEW n \in Nat, NEW k \in 1 .. n, NEW u \in Nat
  PROVE  (u \div F!Pow(2, n - k)) % 2 = ((u % F!Pow(2, n)) \div F!Pow(2, n - k)) % 2
  <1>0. 2 \in 2 .. 16 /\ n - k \in Nat /\ k - 1 \in Nat /\ (k - 1) + 1 = k /\ (n - k) + k = n
    OBVIOUS
  <1>1. PICK W \in Nat \ {0}, H \in Nat \ {0} :
          W = F!Pow(2, n - k) /\ H = F!Pow(2, k - 1) /\ F!Pow(2, k) = 2 * H
    <2>1. F!Pow(2, n - k) \in Nat \ {0} /\ F!Pow(2, k - 1) \in Nat \ {0}
      BY <1>0, Powers
    <2>2. F!Pow(2, k) = 2 * F!Pow(2, k - 1)
      BY <1>0, Powers
    <2>. QED  BY <2>1, <2>2
  <1>2. F!Pow(2, n) = W * (2 * H)
    <2>1. k \in Nat
      OBVIOUS
    <2>2. F!Pow(2, (n - k) + k) = F!Pow(2, n - k) * F!Pow(2, k)
      BY <1>0, <2>1, PowersSplit
    <2>. QED  BY <1>0, <1>1, <2>2
  <1>3. PICK M \in Nat \ {0} : M = W * (2 * H)
    <2>1. \A a, c \in Nat \ {0} : a * (2 * c) \in Nat \ {0}
      OBVIOUS
    <2>. QED  BY <2>1
  <1>4. PICK q \in Nat, r \in 0 .. M - 1 : q = u \div M /\ r = u % M /\ u = M * q + r
    BY Dividing
  <1>5. PICK s \in Nat, t \in 0 .. W - 1 : s = r \div W /\ t = r % W /\ r = W * s + t
    <2>1. r \in Nat
      OBVIOUS
    <2>. QED  BY <2>1, Dividing
  <1>6. PICK w \in Nat : w = H * q /\ M * q = W * (2 * w)
    <2>1. (W * (2 * H)) * q = W * (2 * (H * q)) /\ H * q \in Nat
      OBVIOUS
    <2>. QED  BY <1>3, <2>1
  <1>7. u = W * (2 * w + s) + t
    <2>1. W * (2 * w) + W * s = W * (2 * w + s) /\ W * s \in Nat /\ W * (2 * w) \in Nat
      OBVIOUS
    <2>2. PICK a \in Nat, c \in Nat : a = W * (2 * w) /\ c = W * s /\ a + c = W * (2 * w + s)
      BY <2>1
    <2>3. u = a + r /\ r = c + t
      BY <1>4, <1>5, <1>6, <2>2
    <2>4. u = (a + c) + t
      BY ONLY <2>3, a \in Nat, c \in Nat, t \in 0 .. W - 1, W \in Nat \ {0}
    <2>. QED  BY ONLY <2>2, <2>4
  <1>8. u \div W = 2 * w + s
    <2>1. PICK c \in Nat : c = 2 * w + s
      OBVIOUS
    <2>2. W * c <= u /\ u < W * c + W
      <3>1. W * c \in Nat /\ u = W * c + t
        BY <1>7, <2>1
      <3>. QED  BY <3>1
    <2>3. u \div W = c
      BY <2>2, DivIs
    <2>. QED  BY <2>1, <2>3
  <1>9. (2 * w + s) % 2 = s % 2
    OBVIOUS
  <1>. QED  BY <1>1, <1>2, <1>3, <1>4, <1>5, <1>8, <1>9

\* Zero is the digit 0.
LEMMA ZeroNumeral ==
  ASSUME NEW b \in 2 .. 16
  PROVE  F!Numeral(b, 0, <<"0">>)
  <1>1. PICK t : t = <<"0">>
    OBVIOUS
  <1>2. Len(t) = 1 /\ t[1] = "0" /\ t[1] = F!Digit(0) /\ t \in Seq({t[1]})
    BY <1>1 DEF F!Digit
  <1>3. F!Pow(b, 0) = 1 /\ F!Pow(b, 1) = b * 1
    <2>1. F!Pow(b, 0) = 1 /\ F!Pow(b, 0 + 1) = b * F!Pow(b, 0)
      BY Powers
    <2>. QED  BY <2>1
  <1>4. F!Digit(0) \in Chars
    BY DEF Chars
  <1>5. t \in Seq(Chars)
    BY <1>1, <1>2, <1>4
  <1>6. Spells(b, 0, t)
    <2>1. 0 < F!Pow(b, Len(t))
      BY <1>2, <1>3
    <2>2. (0 \div 1) % b = 0
      OBVIOUS
    <2>3. ASSUME NEW k \in 1 .. Len(t)
          PROVE  t[k] = F!Digit((0 \div F!Pow(b, Len(t) - k)) % b)
      <3>1. k = 1 /\ Len(t) - k = 0
        BY <1>2
      <3>. QED  BY <1>2, <1>3, <2>2, <3>1
    <2>. QED  BY <1>5, <2>1, <2>3 DEF Spells
  <1>7. F!Worth(b, t) = 0
    BY <1>6, SpelledWorth
  <1>. QED  BY <1>1, <1>2, <1>7 DEF F!Numeral

\* The numbers of bits that %b and %B print.
LEMMA BitPowers == F!Pow(2, 8) = 256 /\ F!Pow(2, 16) = 65536
  <1>0. 2 \in 2 .. 16
    OBVIOUS
  <1>1. F!Pow(2, 0) = 1
    BY <1>0, Powers
  <1>2. F!Pow(2, 0 + 1) = 2 /\ F!Pow(2, 1 + 1) = 2 * F!Pow(2, 1) /\ F!Pow(2, 2 + 1) = 2 * F!Pow(2, 2)
        /\ F!Pow(2, 3 + 1) = 2 * F!Pow(2, 3)
    BY <1>0, <1>1, Powers
  <1>3. F!Pow(2, 4) = 16
    BY <1>2
  <1>4. F!Pow(2, 4 + 4) = F!Pow(2, 4) * F!Pow(2, 4)
    BY <1>0, PowersSplit
  <1>5. F!Pow(2, 8) = 256
    BY <1>3, <1>4
  <1>6. F!Pow(2, 8 + 8) = F!Pow(2, 8) * F!Pow(2, 8)
    BY <1>0, PowersSplit
  <1>. QED  BY <1>5, <1>6

\* The bits of a number that has n of them.
LEMMA BitSpells ==
  ASSUME NEW n \in Nat, NEW x \in Nat, x < F!Pow(2, n),
         NEW t, t = [k \in 1 .. n |-> F!Digit((x \div F!Pow(2, n - k)) % 2)]
  PROVE  Spells(2, x, t)
  <1>1. ASSUME NEW k \in 1 .. n PROVE t[k] \in Chars
    <2>1. F!Pow(2, n - k) \in Nat \ {0}
      <3>1. 2 \in 2 .. 16 /\ n - k \in Nat
        OBVIOUS
      <3>. QED  BY <3>1, Powers
    <2>2. x \div F!Pow(2, n - k) \in Nat
      BY <2>1, Dividing
    <2>3. PICK y \in Nat : y = x \div F!Pow(2, n - k)
      BY <2>2
    <2>4. PICK d \in 0 .. 15 : d = y % 2
      OBVIOUS
    <2>. QED  BY <2>3, <2>4 DEF Chars
  <1>2. t \in [1 .. n -> Chars]
    BY <1>1
  <1>3. t \in Seq(Chars) /\ Len(t) = n
    BY <1>2, FunSeq
  <1>. QED  BY <1>3 DEF Spells

\* What dec and decX return is the shortest numeral.
LEMMA DecNumeral ==
  ASSUME NEW x \in Nat
  PROVE  F!Numeral(10, x, F!dec(x)) /\ F!Numeral(16, x, F!decX(x))
  <1>1. ASSUME NEW b \in 2 .. 16, x # 0
        PROVE  F!Numeral(b, x, F!Digits(b, x))
    <2>1. PICK t : t = F!Digits(b, x)
      OBVIOUS
    <2>2. Spells(b, x, t) /\ Len(t) > 0 /\ F!Pow(b, Len(t) - 1) <= x
      BY <1>1, <2>1, DigitsSpell
    <2>3. F!Worth(b, t) = x /\ t[1] # "0"
      BY <2>2, SpelledWorth, SpelledFirst
    <2>. QED  BY <2>1, <2>2, <2>3 DEF F!Numeral
  <1>2. ASSUME NEW b \in 2 .. 16
        PROVE  F!Numeral(b, 0, <<"0">>)
    BY ZeroNumeral
  <1>3. 10 \in 2 .. 16 /\ 16 \in 2 .. 16
    OBVIOUS
  <1>4. CASE x = 0
    BY <1>2, <1>3, <1>4 DEF F!dec, F!decX
  <1>5. CASE x # 0
    BY <1>1, <1>3, <1>5 DEF F!dec, F!decX
  <1>. QED  BY <1>4, <1>5

\* An int has whole hexadecimal digits, and the numbers printed are ints.
LEMMA Widths ==
  /\ Bits \in Nat /\ Bits - 1 \in Nat /\ \E m \in Nat : Bits = 4 * m /\ Bits \div 4 = m
  /\ F!Pow(2, Bits - 1) \in Nat \ {0} /\ F!Pow(2, Bits) = 2 * F!Pow(2, Bits - 1)
  /\ \A v \in Values : v \in Int /\ v < F!Pow(2, Bits - 1)
  <1>1. Bits \in Nat /\ Bits % 4 = 0 /\ Bits > 4 /\ Values \subseteq F!Least .. -F!Least - 1
    BY BootStageAssumption DEF F!FormatAssumption
  <1>2. Bits - 1 \in Nat /\ (Bits - 1) + 1 = Bits /\ 2 \in 2 .. 16
    BY ONLY <1>1
  <1>3. F!Pow(2, Bits - 1) \in Nat \ {0} /\ F!Pow(2, (Bits - 1) + 1) = 2 * F!Pow(2, Bits - 1)
    BY <1>2, Powers
  <1>4. Bits \div 4 \in Nat /\ Bits = 4 * (Bits \div 4)
    BY ONLY <1>1
  <1>5. ASSUME NEW v \in Values PROVE v \in Int /\ v < F!Pow(2, Bits - 1)
    BY <1>1, <1>3 DEF F!Least
  <1>. QED  BY <1>1, <1>2, <1>3, <1>4, <1>5

\* %d and %u print the decimal of a number that is not negative and does not let
\* count overflow.
LEMMA IntNumeral ==
  ASSUME NEW x \in Nat, F!Pow(10, F!Places(x)) < -F!Least, NEW text \in F!putint(x)
  PROVE  F!Numeral(10, x, text)
  <1>0. 10 \in 2 .. 16
    OBVIOUS
  <1>1. CASE x = 0
    <2>1. F!putint(x) = {<<"0">>}
      BY <1>1, Zenon DEF F!putint
    <2>. QED  BY <1>0, <1>1, <2>1, ZeroNumeral
  <1>2. CASE x # 0
    <2>1. PICK n \in Nat : n = F!Places(x) /\ x < F!Pow(10, n) /\ n > 0 /\ F!Pow(10, n - 1) <= x
      BY <1>2, PlacesAbove
    <2>2. PICK t : t = F!Spelled(x, F!Pow(10, n - 1))
      OBVIOUS
    <2>3. Spells(10, x, t) /\ Len(t) = n
      BY <2>1, <2>2, SpelledSpells
    <2>4. F!Worth(10, t) = x /\ t[1] # "0" /\ Len(t) > 0
      BY <1>0, <2>1, <2>3, SpelledWorth, SpelledFirst
    <2>5. text = t
      <3>1. ~(x < 0) /\ F!Absolute(x) = x
        BY DEF F!Absolute
      <3>2. x # F!Least
        <4>1. 2 \in 2 .. 16 /\ Bits - 1 \in Nat
          BY Widths
        <4>2. F!Pow(2, Bits - 1) \in Nat \ {0}
          BY <4>1, Powers
        <4>. QED  BY <4>2 DEF F!Least
      <3>3. F!Turns(x) = {n}
        BY <2>1, <3>1, <3>2 DEF F!Turns
      <3>4. F!Counts(n) = {F!Pow(10, n - 1)}
        <4>1. n - 1 \in Nat /\ (n - 1) + 1 = n
          BY <2>1
        <4>2. F!Pow(10, n) \div 10 = F!Pow(10, n - 1)
          BY <4>1, TenPlaces
        <4>3. F!Pow(10, n) < -F!Least
          BY <2>1
        <4>. QED  BY <4>2, <4>3 DEF F!Counts
      <3>5. UNION {F!Counts(m) : m \in F!Turns(x)} = {F!Pow(10, n - 1)}
        BY <3>3, <3>4
      <3>6. text = <<>> \o t
        <4>1. F!putint(x)
                = {<<>> \o F!Spelled(x, c) : c \in UNION {F!Counts(m) : m \in F!Turns(x)}}
          BY <1>2, <3>1, Zenon DEF F!putint
        <4>2. F!putint(x) = {<<>> \o F!Spelled(x, c) : c \in {F!Pow(10, n - 1)}}
          BY <3>5, <4>1
        <4>. QED  BY <2>2, <4>2
      <3>7. t \in Seq(Chars)
        BY <2>3 DEF Spells
      <3>. QED  BY <3>6, <3>7, EmptyBefore
    <2>. QED  BY <2>4, <2>5 DEF F!Numeral
  <1>. QED  BY <1>1, <1>2

\* The screen's %x ends in the numeral of a positive number, whatever its literal
\* held before.
LEMMA LiteralNumeral ==
  ASSUME NEW m \in Nat, NEW v \in Nat, v > 0, v < F!Pow(16, m), NEW a \in [1 .. m -> Chars]
  PROVE  /\ F!Filled(a, v) \in [1 .. m -> Chars]
         /\ \E tail \in F!Suffixes(F!Backwards(F!Filled(a, v))) : F!Numeral(16, v, tail)
  <1>0. 16 \in 2 .. 16 /\ Len(a) = m
    BY FunSeq
  <1>1. PICK f : f = F!Filled(a, v)
    OBVIOUS
  <1>2. ASSUME NEW k \in 1 .. m
        PROVE  /\ f[k] \in Chars
               /\ v >= F!Pow(16, k - 1) => f[k] = F!Digit((v \div F!Pow(16, k - 1)) % 16)
    <2>1. PICK W \in Nat \ {0} : W = F!Pow(16, k - 1)
      <3>1. k - 1 \in Nat
        OBVIOUS
      <3>. QED  BY <1>0, <3>1, Powers
    <2>2. f[k] = IF v >= W THEN F!Digit((v \div W) % 16) ELSE a[k]
      BY <1>0, <1>1, <2>1 DEF F!Filled
    <2>3. PICK d \in 0 .. 15 : d = (v \div W) % 16
      <3>1. v \div W \in Nat
        BY Dividing
      <3>. QED  BY <3>1
    <2>4. F!Digit(d) \in Chars /\ a[k] \in Chars
      BY DEF Chars
    <2>. QED  BY <2>1, <2>2, <2>3, <2>4
  <1>3. f = [k \in 1 .. m |-> f[k]]
    BY <1>0, <1>1 DEF F!Filled
  <1>4. f \in [1 .. m -> Chars] /\ Len(f) = m
    <2>1. f \in [1 .. m -> Chars]
      BY <1>2, <1>3
    <2>. QED  BY <2>1, FunSeq
  <1>5. PICK t : t = F!Backwards(f)
    OBVIOUS
  <1>6. t = [i \in 1 .. m |-> f[(m - i) + 1]]
    BY <1>4, <1>5 DEF F!Backwards, F!Reverse
  <1>7. t \in Seq(Chars) /\ Len(t) = m
    <2>1. ASSUME NEW i \in 1 .. m PROVE f[(m - i) + 1] \in Chars
      BY <1>2
    <2>2. t \in [1 .. m -> Chars]
      BY <1>6, <2>1
    <2>. QED  BY <2>2, FunSeq
  <1>8. PICK x : x = F!Digits(16, v)
    OBVIOUS
  <1>9. PICK n \in Nat \ {0} :
          n = Len(x) /\ Spells(16, v, x) /\ x \in Seq(Chars) /\ F!Pow(16, n - 1) <= v
    <2>1. Spells(16, v, x) /\ Len(x) > 0 /\ F!Pow(16, Len(x) - 1) <= v
      <3>1. v \in Nat /\ v # 0
        OBVIOUS
      <3>2. /\ Spells(16, v, F!Digits(16, v))
            /\ v # 0 => Len(F!Digits(16, v)) > 0 /\ F!Pow(16, Len(F!Digits(16, v)) - 1) <= v
        BY <1>0, <3>1, DigitsSpell
      <3>. QED  BY <1>8, <3>1, <3>2
    <2>2. x \in Seq(Chars)
      BY <2>1 DEF Spells
    <2>3. PICK n \in Nat : n = Len(x)
      BY <2>2
    <2>4. n \in Nat \ {0} /\ F!Pow(16, n - 1) <= v
      BY <2>1, <2>3
    <2>. QED  BY <2>1, <2>2, <2>3, <2>4
  <1>10. \A j \in Nat, k \in Nat : j <= k => F!Pow(16, j) <= F!Pow(16, k)
    BY <1>0, PowersGrow
  <1>11. n <= m
    <2>1. CASE n > m
      <3>1. m <= n - 1 /\ n - 1 \in Nat
        BY <2>1
      <3>2. F!Pow(16, m) <= F!Pow(16, n - 1)
        BY <1>10, <3>1
      <3>3. F!Pow(16, m) \in Nat /\ F!Pow(16, n - 1) \in Nat
        BY <1>0, <3>1, Powers
      <3>. QED  BY <1>9, <3>2, <3>3
    <2>. QED  BY <2>1
  <1>12. PICK b \in Nat \ {0} : b = (m - n) + 1 /\ m = b + n - 1 /\ b \in 1 .. m
    BY <1>11
  <1>13. ASSUME NEW j \in 1 .. n PROVE t[b + j - 1] = x[j]
    <2>1. b + j - 1 \in 1 .. m /\ (m - (b + j - 1)) + 1 \in 1 .. m
          /\ ((m - (b + j - 1)) + 1) - 1 = n - j /\ n - j \in Nat /\ n - 1 \in Nat /\ n - j <= n - 1
      BY <1>11, <1>12
    <2>2. F!Pow(16, n - j) <= v
      <3>1. F!Pow(16, n - j) <= F!Pow(16, n - 1)
        BY <1>10, <2>1
      <3>2. F!Pow(16, n - j) \in Nat /\ F!Pow(16, n - 1) \in Nat
        BY <1>0, <2>1, Powers
      <3>. QED  BY <1>9, <3>1, <3>2
    <2>3. v >= F!Pow(16, n - j)
      <3>1. F!Pow(16, n - j) \in Nat
        BY <1>0, <2>1, Powers
      <3>. QED  BY <2>2, <3>1
    <2>4. f[(m - (b + j - 1)) + 1] = F!Digit((v \div F!Pow(16, n - j)) % 16)
      BY <1>2, <2>1, <2>3
    <2>5. x[j] = F!Digit((v \div F!Pow(16, n - j)) % 16)
      BY <1>9 DEF Spells
    <2>. QED  BY <1>6, <2>1, <2>4, <2>5
  <1>14. SubSeq(t, b, Len(t)) = x
    <2>1. /\ n \in Nat /\ x \in Seq(Chars) /\ Len(x) = n /\ t \in Seq(Chars)
          /\ Len(t) \in Int /\ Len(t) = b + n - 1
      BY <1>7, <1>9, <1>12
    <2>. QED  BY ONLY <1>13, <2>1, Slice, b \in Nat \ {0}
  <1>15. x \in F!Suffixes(t)
    <2>1. b \in 1 .. Len(t)
      BY <1>7, <1>12
    <2>. QED  BY <1>14, <2>1 DEF F!Suffixes
  <1>16. F!Numeral(16, v, x)
    <2>1. F!Worth(16, x) = v /\ x[1] # "0" /\ Len(x) > 0
      BY <1>0, <1>9, SpelledWorth, SpelledFirst
    <2>. QED  BY <2>1 DEF F!Numeral
  <1>. QED  BY <1>1, <1>4, <1>5, <1>15, <1>16

\* Of a number that is not positive, no digit is taken.
LEMMA LiteralStays ==
  ASSUME NEW m \in Nat, NEW v \in Int, ~(v > 0), NEW a \in [1 .. m -> Chars]
  PROVE  F!Filled(a, v) \in [1 .. m -> Chars]
  <1>0. 16 \in 2 .. 16 /\ Len(a) = m
    BY FunSeq
  <1>1. ASSUME NEW k \in 1 .. m PROVE ~(v >= F!Pow(16, k - 1))
    <2>1. k - 1 \in Nat
      OBVIOUS
    <2>2. F!Pow(16, k - 1) \in Nat \ {0}
      BY <1>0, <2>1, Powers
    <2>. QED  BY <2>2
  <1>. QED  BY <1>0, <1>1 DEF F!Filled

\* The low bits of a word.
LEMMA BitNumeral ==
  ASSUME NEW n \in Nat, NEW v \in Int
  PROVE  F!Worth(2, [k \in 1 .. n |-> F!Digit(((v % F!Pow(2, n)) \div F!Pow(2, n - k)) % 2)])
           = v % F!Pow(2, n)
  <1>0. 2 \in 2 .. 16
    OBVIOUS
  <1>1. F!Pow(2, n) \in Nat \ {0}
    BY <1>0, Powers
  <1>2. \A c \in Nat \ {0} : v % c \in Nat /\ v % c < c
    OBVIOUS
  <1>3. PICK x \in Nat : x = v % F!Pow(2, n) /\ x < F!Pow(2, n)
    BY <1>1, <1>2
  <1>4. PICK t : t = [k \in 1 .. n |-> F!Digit((x \div F!Pow(2, n - k)) % 2)]
    OBVIOUS
  <1>5. Spells(2, x, t)
    BY <1>3, <1>4, BitSpells
  <1>. QED  BY <1>0, <1>3, <1>4, <1>5, SpelledWorth

\* %x and %X print the whole value, %b and %B the low bits.
LEMMA WordNumeral ==
  ASSUME NEW v \in Int
  PROVE  /\ F!Worth(16, F!sputhex(v)) = F!Unsigned(v)
         /\ F!Worth(16, F!sputHex(v)) = F!Unsigned(v)
         /\ F!Worth(2, F!putbin(v)) = F!Unsigned(v) % 2^8
         /\ F!Worth(2, F!putBin(v)) = v % 2^16
  <1>0. 2 \in 2 .. 16 /\ 16 \in 2 .. 16
    OBVIOUS
  <1>1. PICK m \in Nat : Bits = 4 * m /\ Bits \div 4 = m /\ Bits \div 2 = m + m
    <2>1. Bits \in Nat /\ Bits % 4 = 0
      BY BootStageAssumption DEF F!FormatAssumption
    <2>2. Bits \div 4 \in Nat /\ Bits = 4 * (Bits \div 4) /\ Bits \div 2 = Bits \div 4 + Bits \div 4
      BY ONLY <2>1
    <2>. QED  BY <2>2
  <1>2. PICK M \in Nat \ {0} : M = F!Pow(2, Bits) /\ M = F!Pow(16, m)
    <2>1. F!Pow(16, m) \in Nat \ {0}
      BY <1>0, Powers
    <2>2. F!Pow(2, Bits) = F!Pow(16, m)
      BY <1>1, Nibbles
    <2>. QED  BY <2>1, <2>2
  <1>3. PICK u \in 0 .. M - 1 : u = F!Unsigned(v)
    <2>1. \A c \in Nat \ {0} : v % c \in 0 .. c - 1
      OBVIOUS
    <2>. QED  BY <1>2, <2>1 DEF F!Unsigned
  <1>4. u \in Nat /\ u < F!Pow(16, m)
    BY <1>2
  <1>5. u < F!Pow(16, m + m)
    <2>1. F!Pow(16, m + m) = M * M
      BY <1>0, <1>2, PowersSplit
    <2>2. M <= M * M /\ M * M \in Nat
      OBVIOUS
    <2>. QED  BY <2>1, <2>2
  <1>6. F!Worth(16, F!sputhex(v)) = u
    <2>1. Spells(16, u, F!sputhex(v))
      BY <1>1, <1>3, <1>4, HexSpells DEF F!sputhex
    <2>. QED  BY <1>0, <1>4, <2>1, SpelledWorth
  <1>7. F!Worth(16, F!sputHex(v)) = u
    <2>1. m + m \in Nat
      OBVIOUS
    <2>2. Spells(16, u, F!sputHex(v))
      BY <1>1, <1>3, <1>4, <1>5, <2>1, HexSpells DEF F!sputHex
    <2>. QED  BY <1>0, <1>4, <2>2, SpelledWorth
  <1>8. F!Worth(2, F!putbin(v)) = u % 2^8
    <2>1. F!Pow(2, 8) = 256
      BY BitPowers
    <2>2. PICK x \in 0 .. 255 : x = u % 256
      BY <1>4
    <2>3. ASSUME NEW k \in 1 .. 8
          PROVE  (u \div F!Pow(2, 8 - k)) % 2 = (x \div F!Pow(2, 8 - k)) % 2
      BY <1>4, <2>1, <2>2, LowBits
    <2>4. PICK t : t = F!putbin(v)
      OBVIOUS
    <2>5. t = [k \in 1 .. 8 |-> F!Digit((x \div F!Pow(2, 8 - k)) % 2)]
      BY <1>3, <2>3, <2>4 DEF F!putbin, F!BitOrder
    <2>6. 8 \in Nat /\ x \in Nat /\ x < F!Pow(2, 8)
      BY <2>1
    <2>7. Spells(2, x, t)
      BY <2>5, <2>6, BitSpells
    <2>8. F!Worth(2, t) = x
      BY <1>0, <2>6, <2>7, SpelledWorth
    <2>. QED  BY <2>2, <2>4, <2>8
  <1>9. F!Worth(2, F!putBin(v)) = v % 2^16
    <2>1. F!Pow(2, 16) = 65536
      BY BitPowers
    <2>2. F!Pow(2, 16) = 2^16
      BY <2>1
    <2>3. 16 \in Nat
      OBVIOUS
    <2>4. F!putBin(v) = [k \in 1 .. 16 |-> F!Digit(((v % F!Pow(2, 16)) \div F!Pow(2, 16 - k)) % 2)]
      BY <2>2 DEF F!putBin, F!BitOrder
    <2>5. F!Worth(2, F!putBin(v)) = v % F!Pow(2, 16)
      BY <2>3, <2>4, BitNumeral
    <2>. QED  BY <2>2, <2>5
  <1>. QED  BY <1>3, <1>6, <1>7, <1>8, <1>9

-----------------------------------------------------------------------------
(* Formats.                                                                *)

\* A brace, a character and a closing brace.
Braces(i) == i + 2 <= Len(format) /\ format[i] = "{" /\ format[i + 2] = "}"

\* There is one set of places at which a directive starts, as they are found from
\* left to right.
LEMMA StartsAre ==
  ASSUME NEW C, format \in Seq(C)
  PROVE  /\ F!Starts \in SUBSET (1 .. Len(format))
         /\ \A i \in 1 .. Len(format) :
              i \in F!Starts <=> Braces(i) /\ i - 1 \notin F!Starts /\ i - 2 \notin F!Starts
  <1>. DEFINE n == Len(format)
              V == SUBSET (1 .. n)
              New(i, D) == Braces(i) /\ i - 1 \notin D /\ i - 2 \notin D
              g == [x \in (1 .. n) \X V |-> IF New(x[1], x[2]) THEN x[2] \cup {x[1]} ELSE x[2]]
              All(D) == \A i \in 1 .. n : i \in D <=> New(i, D)
  <1>1. n \in Nat
    OBVIOUS
  <1>2. F!Starts = CHOOSE D \in V : All(D)
    BY DEF F!Starts, Braces
  <1>. HIDE DEF n, New
  <1>3. /\ g \in [(1 .. n) \X V -> V] /\ {} \in V
        /\ \A i \in 1 .. n, D \in V : g[<<i, D>>] = IF New(i, D) THEN D \cup {i} ELSE D
    BY <1>1
  <1>4. PICK f : Iterates(f, n, V, {}, g)
    <2>. HIDE DEF g, V
    <2>. QED  BY <1>1, <1>3, Recur
  <1>. HIDE DEF g
  <1>5. /\ f \in [0 .. n -> V] /\ f[0] = {}
        /\ \A i \in 1 .. n : f[i] = IF New(i, f[i - 1]) THEN f[i - 1] \cup {i} ELSE f[i - 1]
    <2>1. f \in [0 .. n -> V] /\ f[0] = {} /\ \A i \in 1 .. n : f[i] = g[<<i, f[i - 1]>>]
      BY <1>4 DEF Iterates
    <2>2. \A i \in 1 .. n : i - 1 \in 0 .. n
      BY <1>1
    <2>3. \A i \in 1 .. n : f[i - 1] \in V
      <3>. HIDE DEF V
      <3>. QED  BY <2>1, <2>2
    <2>. HIDE DEF V
    <2>. QED  BY <1>3, <2>1, <2>3
  <1>. DEFINE T == {j \in 0 .. n : f[j] \subseteq 1 .. j /\ \A i \in 0 .. j : f[i] = f[j] \cap (1 .. i)}
  <1>6. 0 \in T
    BY <1>1, <1>5
  <1>7. ASSUME NEW j \in 1 .. n, j - 1 \in T PROVE j \in T
    <2>1. f[j - 1] \subseteq 1 .. j - 1 /\ \A i \in 0 .. j - 1 : f[i] = f[j - 1] \cap (1 .. i)
      BY <1>7
    <2>2. f[j] = f[j - 1] \/ f[j] = f[j - 1] \cup {j}
      BY <1>5
    <2>3. f[j] \subseteq 1 .. j
      BY <2>1, <2>2
    <2>4. ASSUME NEW i \in 0 .. j PROVE f[i] = f[j] \cap (1 .. i)
      <3>1. CASE i = j
        BY <2>3, <3>1
      <3>2. CASE i # j
        <4>1. i \in 0 .. j - 1 /\ j \notin 1 .. i
          BY <3>2
        <4>. QED  BY <2>1, <2>2, <4>1
      <3>. QED  BY <3>1, <3>2
    <2>. QED  BY <2>3, <2>4
  <1>8. \A j \in 0 .. n : j \in T
    <2>. HIDE DEF T
    <2>. QED  BY <1>1, <1>6, <1>7, Induct
  <1>9. PICK D \in V : D = f[n] /\ \A i \in 0 .. n : f[i] = D \cap (1 .. i)
    <2>1. n \in 0 .. n
      BY <1>1
    <2>. QED  BY <1>5, <1>8, <2>1
  <1>10. ASSUME NEW i \in 1 .. n PROVE i \in D <=> New(i, D)
    <2>1. i \in 0 .. n /\ i - 1 \in 0 .. n
      BY <1>1
    <2>2. f[i] = D \cap (1 .. i) /\ f[i - 1] = D \cap (1 .. i - 1)
      BY <1>9, <2>1
    <2>3. (i \in D <=> i \in f[i]) /\ i \notin f[i - 1]
      BY <2>2
    <2>4. (i - 1 \in D <=> i - 1 \in f[i - 1]) /\ (i - 2 \in D <=> i - 2 \in f[i - 1])
      <3>1. \A k \in D : k \in 1 .. n
        BY <1>9
      <3>2. \A k \in 1 .. n : k <= i - 1 => k \in 1 .. i - 1
        OBVIOUS
      <3>3. i - 1 <= i - 1 /\ i - 2 <= i - 1
        OBVIOUS
      <3>. QED  BY <2>2, <3>1, <3>2, <3>3
    <2>5. New(i, D) <=> New(i, f[i - 1])
      BY <2>4 DEF New
    <2>. QED  BY <1>5, <2>3, <2>5
  <1>11. F!Starts \in V /\ All(F!Starts)
    BY <1>2, <1>9, <1>10
  <1>. QED  BY <1>11 DEF New, n

\* What the format stands for up to its k-th character.
Written(k) == F!FlattenSeq([i \in 1 .. k |-> F!Meant(i)])

\* The text's invariant: what is read of the format is written, it ends behind a
\* directive or a character of its own, and the arguments taken are those of the
\* directives before.
TextInv ==
    /\ format \in Formats /\ at \in 0 .. Len(format)
    /\ at \notin F!Starts /\ at - 1 \notin F!Starts
    /\ used = Cardinality(F!Before(at + 1))
    /\ buff = Written(at)

\* No character of a format is its end.
LEMMA FormatChars ==
  ASSUME format \in Formats
  PROVE  format \in Seq(STRING \ {"end"}) /\ Len(format) \in Nat
         /\ \A i \in 1 .. Len(format) : format[i] # "end" /\ format[i] \in STRING
  <1>1. format \in Seq(STRING \ {"end"})
    BY BootStageAssumption DEF F!FormatAssumption
  <1>. QED  BY <1>1

\* The number of elements is the same in Format.
LEMMA SameCardinality == \A T : F!Cardinality(T) = Cardinality(T)
  BY DEF F!Cardinality, Cardinality

\* There is an argument for every directive that takes one.
LEMMA Enough ==
  ASSUME format \in Formats
  PROVE  /\ \A i \in Int : /\ IsFiniteSet(F!Before(i)) /\ Cardinality(F!Before(i)) \in Nat
                           /\ Cardinality(F!Before(i)) <= Len(Args)
         /\ \A i \in F!Starts : format[i + 1] \in F!Taking => Cardinality(F!Before(i)) + 1 \in 1 .. Len(Args)
  <1>. DEFINE B == {i \in 1 .. Len(format) : format[i] = "{"}
  <1>1. format \in Seq(STRING \ {"end"}) /\ Len(format) \in Nat
    BY FormatChars
  <1>2. Cardinality(B) <= Len(Args) /\ Len(Args) \in Nat
    <2>1. Args \in Seq([n : Nat, s : Seq(STRING)])
      BY BootStageAssumption DEF F!FormatAssumption
    <2>2. \A f \in Formats : F!Cardinality({i \in 1 .. Len(f) : f[i] = "{"}) <= Len(Args)
      BY BootStageAssumption DEF F!FormatAssumption
    <2>3. F!Cardinality(B) <= Len(Args)
      BY <2>2
    <2>. HIDE DEF B
    <2>. QED  BY <2>1, <2>3, SameCardinality
  <1>3. IsFiniteSet(B) /\ Cardinality(B) \in Nat
    <2>1. IsFiniteSet(1 .. Len(format))
      BY <1>1, FS_Interval
    <2>2. B \in SUBSET (1 .. Len(format))
      OBVIOUS
    <2>3. IsFiniteSet(B)
      BY <2>1, <2>2, FS_Subset
    <2>. QED  BY <2>3, FS_CardinalityType
  <1>4. \A i \in F!Starts : i \in B
    BY <1>1, StartsAre DEF Braces
  <1>. HIDE DEF B
  <1>5. ASSUME NEW T \in SUBSET B
        PROVE  IsFiniteSet(T) /\ Cardinality(T) \in Nat /\ Cardinality(T) <= Len(Args)
    <2>1. IsFiniteSet(T) /\ Cardinality(T) <= Cardinality(B)
      BY <1>3, FS_Subset
    <2>2. Cardinality(T) \in Nat
      BY <2>1, FS_CardinalityType
    <2>. QED  BY <1>2, <1>3, <2>1, <2>2
  <1>6. ASSUME NEW i \in Int PROVE F!Before(i) \in SUBSET B
    BY <1>4 DEF F!Before
  <1>7. ASSUME NEW i \in F!Starts, format[i + 1] \in F!Taking
        PROVE  Cardinality(F!Before(i)) + 1 \in 1 .. Len(Args)
    <2>1. i \in Int
      BY <1>1, StartsAre
    <2>2. F!Before(i) \cup {i} \in SUBSET B
      BY <1>4, <1>6, <2>1
    <2>3. i \notin F!Before(i)
      BY <2>1 DEF F!Before
    <2>4. IsFiniteSet(F!Before(i)) /\ Cardinality(F!Before(i)) \in Nat
      BY <1>5, <1>6, <2>1
    <2>5. Cardinality(F!Before(i) \cup {i}) = Cardinality(F!Before(i)) + 1
      BY <2>3, <2>4, FS_AddElement
    <2>. QED  BY <1>2, <1>5, <2>2, <2>4, <2>5
  <1>. QED  BY <1>5, <1>6, <1>7

\* The characters that sprintf writes.
Letters == STRING \cup Chars \cup {"x"}

\* Zero has a digit.
LEMMA ZeroDigit == "0" \in Chars
  <1>1. F!Digit(0) = "0" /\ 0 \in 0 .. 15
    BY DEF F!Digit
  <1>. QED  BY <1>1 DEF Chars

\* The elements of a sequence.
LEMMA Elements ==
  ASSUME NEW R, NEW s \in Seq(R), NEW k \in 1 .. Len(s)
  PROVE  s[k] \in R
  OBVIOUS

\* What dec and decX write, what an argument or a directive stands for.
LEMMA ArgIs ==
  ASSUME NEW k \in 1 .. Len(Args)
  PROVE  Args[k].n \in Nat /\ Args[k].s \in Seq(STRING)
  <1>1. Args \in Seq([n : Nat, s : Seq(STRING)])
    BY BootStageAssumption DEF F!FormatAssumption
  <1>2. Args[k] \in [n : Nat, s : Seq(STRING)]
    BY <1>1, Elements
  <1>. QED  BY <1>2

\* A text over some characters is one over more of them.
LEMMA Longer ==
  ASSUME NEW A, NEW B, A \subseteq B, NEW s \in Seq(A)
  PROVE  s \in Seq(B)
  OBVIOUS

\* dec and decX write digits.
LEMMA DecChars ==
  ASSUME NEW x \in Nat
  PROVE  F!dec(x) \in Seq(Chars) /\ F!decX(x) \in Seq(Chars)
  <1>1. ASSUME NEW b \in 2 .. 16
        PROVE  F!Digits(b, x) \in Seq(Chars)
    BY DigitsSpell DEF Spells
  <1>2. 10 \in 2 .. 16 /\ 16 \in 2 .. 16
    OBVIOUS
  <1>4. <<"0">> \in Seq(Chars)
    BY ZeroDigit
  <1>. QED  BY <1>1, <1>2, <1>4 DEF F!dec, F!decX

\* What a directive stands for is a text.
LEMMA ConvertedIs ==
  ASSUME NEW kind, NEW k, kind \in F!Taking => k \in 1 .. Len(Args)
  PROVE  F!Converted(kind, Args[k]) \in Seq(Letters)
  <1>0. Chars \subseteq Letters /\ STRING \subseteq Letters /\ "x" \in Letters /\ "0" \in Letters
    BY ZeroDigit DEF Letters
  <1>1. CASE kind = "d"
    <2>1. Args[k].n \in Nat
      BY <1>1, ArgIs DEF F!Taking
    <2>2. F!Converted(kind, Args[k]) = F!dec(Args[k].n)
      BY <1>1 DEF F!Converted
    <2>3. F!dec(Args[k].n) \in Seq(Chars)
      BY <2>1, DecChars
    <2>. QED  BY <1>0, <2>2, <2>3, Longer
  <1>2. CASE kind = "x"
    <2>1. Args[k].n \in Nat
      BY <1>2, ArgIs DEF F!Taking
    <2>2. F!Converted(kind, Args[k]) = <<"0", "x">> \o F!decX(Args[k].n)
      BY <1>2 DEF F!Converted
    <2>3. F!decX(Args[k].n) \in Seq(Letters)
      BY <1>0, <2>1, DecChars, Longer
    <2>4. <<"0", "x">> \in Seq(Letters)
      BY <1>0
    <2>. QED  BY <2>2, <2>3, <2>4
  <1>3. CASE kind = "s"
    <2>1. Args[k].s \in Seq(STRING)
      BY <1>3, ArgIs DEF F!Taking
    <2>2. F!Converted(kind, Args[k]) = Args[k].s
      BY <1>3 DEF F!Converted
    <2>. QED  BY <1>0, <2>1, <2>2, Longer
  <1>4. CASE kind \notin F!Taking
    <2>1. F!Converted(kind, Args[k]) = <<>>
      BY <1>4 DEF F!Converted, F!Taking
    <2>. QED  BY <2>1
  <1>. QED  BY <1>1, <1>2, <1>3, <1>4 DEF F!Taking

\* Every character of a format stands for a text.
LEMMA MeantIs ==
  ASSUME format \in Formats, NEW i \in 1 .. Len(format)
  PROVE  F!Meant(i) \in Seq(Letters)
  <1>0. format[i] \in STRING
    BY FormatChars
  <1>1. CASE i \in F!Starts
    <2>1. F!Meant(i) = F!Converted(format[i + 1], Args[Cardinality(F!Before(i)) + 1])
      BY <1>1, SameCardinality DEF F!Meant
    <2>2. format[i + 1] \in F!Taking => Cardinality(F!Before(i)) + 1 \in 1 .. Len(Args)
      BY <1>1, Enough
    <2>. QED  BY <2>1, <2>2, ConvertedIs
  <1>2. CASE i \notin F!Starts
    <2>1. F!Meant(i) = <<>> \/ F!Meant(i) = <<format[i]>>
      BY <1>2 DEF F!Meant
    <2>2. <<>> \in Seq(Letters) /\ <<format[i]>> \in Seq(Letters)
      BY <1>0 DEF Letters
    <2>. QED  BY <2>1, <2>2
  <1>. QED  BY <1>1, <1>2

\* What one character of the format more stands for.
LEMMA WrittenStep ==
  ASSUME format \in Formats, NEW k \in Nat, k + 1 <= Len(format)
  PROVE  Written(k) \in Seq(Letters) /\ Written(k + 1) = Written(k) \o F!Meant(k + 1)
  <1>. DEFINE m == [i \in 1 .. k + 1 |-> F!Meant(i)]
  <1>1. ASSUME NEW i \in 1 .. k + 1 PROVE F!Meant(i) \in Seq(Letters)
    <2>1. i \in 1 .. Len(format)
      BY FormatChars
    <2>. QED  BY <2>1, MeantIs
  <1>2. m \in [1 .. k + 1 -> Seq(Letters)]
    BY <1>1
  <1>3. [i \in 1 .. k |-> m[i]] = [i \in 1 .. k |-> F!Meant(i)]
        /\ [i \in 1 .. k + 1 |-> m[i]] = [i \in 1 .. k + 1 |-> F!Meant(i)]
        /\ m[k + 1] = F!Meant(k + 1)
    OBVIOUS
  <1>. HIDE DEF m
  <1>4. F!FlattenSeq([i \in 1 .. k |-> m[i]]) \in Seq(Letters)
        /\ F!FlattenSeq([i \in 1 .. k + 1 |-> m[i]])
             = F!FlattenSeq([i \in 1 .. k |-> m[i]]) \o m[k + 1]
    <2>1. \A s : F!FlattenSeq(s) = Flattened(s)
      BY DEF F!FlattenSeq, Flattened
    <2>. QED  BY <1>2, <2>1, FlatStep
  <1>. QED  BY <1>3, <1>4 DEF Written

\* The invariant of the text holds at the start.
LEMMA InitTextInv ==
  ASSUME F!Init
  PROVE  TextInv
  <1>1. format \in Formats /\ at = 0 /\ used = 0 /\ buff = <<>>
    BY DEF F!Init
  <1>2. format \in Seq(STRING \ {"end"}) /\ Len(format) \in Nat
    BY <1>1, FormatChars
  <1>3. F!Starts \in SUBSET (1 .. Len(format))
    BY <1>2, StartsAre
  <1>4. at \in 0 .. Len(format) /\ at \notin F!Starts /\ at - 1 \notin F!Starts
    BY <1>1, <1>2, <1>3
  <1>5. F!Before(at + 1) = {}
    <2>1. \A j \in F!Starts : ~(j < at + 1)
      BY <1>1, <1>2, <1>3
    <2>. QED  BY <2>1 DEF F!Before
  <1>6. Written(0) = <<>>
    <2>1. PICK s : s = [i \in 1 .. 0 |-> F!Meant(i)]
      OBVIOUS
    <2>2. s = <<>>
      BY <2>1
    <2>. QED  BY <2>1, <2>2 DEF Written, F!FlattenSeq
  <1>. QED  BY <1>1, <1>4, <1>5, <1>6, FS_EmptySet DEF TextInv

\* The format, and so its directives, stay what they are.
LEMMA SameFormat ==
  ASSUME format' = format
  PROVE  /\ F!Starts' = F!Starts /\ \A i : F!Before(i)' = F!Before(i)
         /\ \A k : Written(k)' = Written(k)
  <1>1. F!Starts' = F!Starts
    BY DEF F!Starts
  <1>2. \A i : F!Before(i)' = F!Before(i)
    BY <1>1 DEF F!Before
  <1>3. \A i : F!Meant(i)' = F!Meant(i)
    BY <1>1, <1>2 DEF F!Meant
  <1>. QED  BY <1>1, <1>2, <1>3 DEF Written

\* A directive is read where one starts.
LEMMA Reads ==
  ASSUME TextInv, F!Peek(1) # "end"
  PROVE  /\ at + 1 \in 1 .. Len(format) /\ F!Peek(1) = format[at + 1]
         /\ F!Directive <=> at + 1 \in F!Starts
         /\ F!Directive => at + 3 \in 1 .. Len(format) /\ F!Peek(2) = format[at + 2]
  <1>1. format \in Formats /\ at \in 0 .. Len(format) /\ at \notin F!Starts /\ at - 1 \notin F!Starts
    BY DEF TextInv
  <1>2. Len(format) \in Nat /\ format \in Seq(STRING \ {"end"})
        /\ \A i \in 1 .. Len(format) : format[i] # "end"
    BY <1>1, FormatChars
  <1>3. at + 1 \in 1 .. Len(format) /\ F!Peek(1) = format[at + 1]
    BY <1>1, <1>2 DEF F!Peek
  <1>4. at + 1 \in F!Starts <=> Braces(at + 1)
    <2>1. at + 1 - 1 = at /\ at + 1 - 2 = at - 1
      BY <1>1
    <2>. QED  BY <1>1, <1>2, <1>3, <2>1, StartsAre
  <1>5. Braces(at + 1) <=> at + 3 <= Len(format) /\ format[at + 1] = "{" /\ format[at + 3] = "}"
    <2>1. at + 1 + 2 = at + 3
      BY <1>1
    <2>. QED  BY <2>1 DEF Braces
  <1>6. ASSUME at + 3 <= Len(format)
        PROVE  /\ at + 2 \in 1 .. Len(format) /\ at + 3 \in 1 .. Len(format)
               /\ F!Peek(2) = format[at + 2] /\ F!Peek(3) = format[at + 3]
    BY <1>1, <1>2, <1>6 DEF F!Peek
  <1>7. F!Peek(3) # "end" => at + 3 <= Len(format)
    BY DEF F!Peek
  <1>8. F!Directive <=> Braces(at + 1)
    BY <1>2, <1>3, <1>5, <1>6, <1>7 DEF F!Directive
  <1>9. F!Directive => at + 3 <= Len(format)
    BY <1>7 DEF F!Directive
  <1>. QED  BY <1>3, <1>4, <1>6, <1>8, <1>9

\* A turn of the loop that writes a character.
LEMMA WritesChar ==
  ASSUME TextInv, F!sprintf, ~F!Directive
  PROVE  TextInv'
  <1>1. F!Peek(1) # "end" /\ buff' = Append(buff, F!Peek(1)) /\ at' = at + 1
        /\ used' = used /\ format' = format
    BY DEF F!sprintf
  <1>2. /\ format \in Formats /\ at \in 0 .. Len(format) /\ at \notin F!Starts /\ at - 1 \notin F!Starts
        /\ used = Cardinality(F!Before(at + 1)) /\ buff = Written(at)
    BY DEF TextInv
  <1>3. at + 1 \in 1 .. Len(format) /\ F!Peek(1) = format[at + 1] /\ at + 1 \notin F!Starts
    BY <1>1, Reads
  <1>4. Len(format) \in Nat /\ format \in Seq(STRING \ {"end"})
    BY <1>2, FormatChars
  <1>5. F!Before(at + 2) = F!Before(at + 1)
    <2>1. F!Starts \in SUBSET (1 .. Len(format))
      BY <1>4, StartsAre
    <2>2. \A j \in F!Starts : j < at + 2 <=> j < at + 1
      BY <1>2, <1>3, <2>1
    <2>. QED  BY <2>2 DEF F!Before
  <1>6. F!Meant(at + 1) = <<format[at + 1]>>
    <2>1. at + 1 - 1 = at /\ at + 1 - 2 = at - 1
      BY <1>2
    <2>. QED  BY <1>2, <1>3, <2>1 DEF F!Meant
  <1>7. Written(at) \in Seq(Letters) /\ Written(at + 1) = Written(at) \o F!Meant(at + 1)
    <2>1. at \in Nat /\ at + 1 <= Len(format)
      BY <1>2, <1>3
    <2>. QED  BY <1>2, <2>1, WrittenStep
  <1>8. Append(Written(at), format[at + 1]) = Written(at) \o <<format[at + 1]>>
    BY <1>7
  <1>9. buff' = Written(at + 1)
    BY <1>1, <1>2, <1>3, <1>6, <1>7, <1>8
  <1>10. at' \in 0 .. Len(format) /\ at' \notin F!Starts /\ at' - 1 \notin F!Starts /\ at' + 1 = at + 2
    <2>1. at + 1 - 1 = at /\ at + 1 + 1 = at + 2 /\ at + 1 \in 0 .. Len(format)
      BY <1>2, <1>3
    <2>. QED  BY <1>1, <1>2, <1>3, <2>1
  <1>11. used' = Cardinality(F!Before(at' + 1))
    BY <1>1, <1>2, <1>5, <1>10
  <1>. QED  BY <1>1, <1>2, <1>9, <1>10, <1>11, SameFormat DEF TextInv

\* A turn of the loop that writes an argument, or nothing.
LEMMA WritesArgument ==
  ASSUME TextInv, F!sprintf, F!Directive
  PROVE  TextInv'
  <1>1. /\ F!Peek(1) # "end" /\ buff' = buff \o F!Converted(F!Peek(2), Args[used + 1])
        /\ used' = (IF F!Peek(2) \in F!Taking THEN used + 1 ELSE used)
        /\ at' = at + 3 /\ format' = format
    BY DEF F!sprintf
  <1>2. /\ format \in Formats /\ at \in 0 .. Len(format) /\ at \notin F!Starts /\ at - 1 \notin F!Starts
        /\ used = Cardinality(F!Before(at + 1)) /\ buff = Written(at)
    BY DEF TextInv
  <1>3. /\ at + 1 \in F!Starts /\ at + 3 \in 1 .. Len(format) /\ F!Peek(2) = format[at + 2]
    BY <1>1, Reads
  <1>4. Len(format) \in Nat /\ format \in Seq(STRING \ {"end"})
    BY <1>2, FormatChars
  <1>5. at \in Nat /\ at + 1 \in 1 .. Len(format) /\ at + 2 \in 1 .. Len(format)
        /\ at + 2 - 1 = at + 1 /\ at + 3 - 2 = at + 1 /\ at + 3 - 1 = at + 2
        /\ at + 1 + 1 = at + 2 /\ at + 2 + 1 = at + 3 /\ at + 3 + 1 = at + 4
    BY <1>2, <1>3, <1>4
  <1>6. at + 2 \notin F!Starts /\ at + 3 \notin F!Starts
    BY <1>3, <1>4, <1>5, StartsAre
  <1>7. F!Meant(at + 2) = <<>> /\ F!Meant(at + 3) = <<>>
    BY <1>3, <1>5, <1>6 DEF F!Meant
  <1>8. F!Meant(at + 1) = F!Converted(format[at + 2], Args[used + 1])
    BY <1>2, <1>3, <1>5, SameCardinality DEF F!Meant
  <1>9. /\ Written(at) \in Seq(Letters) /\ Written(at + 1) = Written(at) \o F!Meant(at + 1)
        /\ Written(at + 1) \in Seq(Letters) /\ Written(at + 2) = Written(at + 1) \o F!Meant(at + 2)
        /\ Written(at + 2) \in Seq(Letters) /\ Written(at + 3) = Written(at + 2) \o F!Meant(at + 3)
    <2>1. /\ at \in Nat /\ at + 1 \in Nat /\ at + 2 \in Nat /\ at + 1 <= Len(format)
          /\ at + 2 <= Len(format) /\ at + 3 <= Len(format)
      BY <1>3, <1>4, <1>5
    <2>2. \A k \in Nat : k + 1 <= Len(format) =>
            Written(k) \in Seq(Letters) /\ Written(k + 1) = Written(k) \o F!Meant(k + 1)
      BY <1>2, WrittenStep
    <2>. QED  BY <1>5, <2>1, <2>2
  <1>10. buff' = Written(at + 3)
    <2>1. \A s \in Seq(Letters) : s \o <<>> = s
      OBVIOUS
    <2>2. Written(at + 3) = Written(at + 1)
      BY <1>7, <1>9, <2>1
    <2>. QED  BY <1>1, <1>2, <1>3, <1>8, <1>9, <2>2
  <1>11. used' = Cardinality(F!Before(at + 4))
    <2>1. F!Starts \in SUBSET (1 .. Len(format))
      BY <1>4, StartsAre
    <2>2. \A j \in F!Starts : (j < at + 4 <=> j < at + 1 \/ j = at + 1)
      BY <1>2, <1>6, <2>1
    <2>3. at + 1 \notin F!Before(at + 1)
      BY <1>2 DEF F!Before
    <2>4. IsFiniteSet(F!Before(at + 1))
      BY <1>2, <1>5, Enough
    <2>5. CASE format[at + 2] \in F!Taking
      <3>1. F!Before(at + 4) = F!Before(at + 1) \cup {at + 1}
        BY <1>3, <1>5, <2>2, <2>5 DEF F!Before
      <3>. QED  BY <1>1, <1>2, <1>3, <2>3, <2>4, <2>5, <3>1, FS_AddElement
    <2>6. CASE format[at + 2] \notin F!Taking
      <3>1. F!Before(at + 4) = F!Before(at + 1)
        BY <1>3, <1>5, <2>2, <2>6 DEF F!Before
      <3>. QED  BY <1>1, <1>2, <1>3, <2>6, <3>1
    <2>. QED  BY <2>5, <2>6
  <1>12. at' \in 0 .. Len(format) /\ at' \notin F!Starts /\ at' - 1 \notin F!Starts /\ at' + 1 = at + 4
    BY <1>1, <1>3, <1>4, <1>5, <1>6
  <1>13. used' = Cardinality(F!Before(at' + 1))
    BY <1>11, <1>12
  <1>. QED  BY <1>1, <1>2, <1>10, <1>12, <1>13, SameFormat DEF TextInv

\* Every step keeps it.
LEMMA NextTextInv ==
  ASSUME TextInv, [F!Next]_textVars
  PROVE  TextInv'
  <1>1. CASE F!sprintf
    BY <1>1, WritesChar, WritesArgument
  <1>2. CASE UNCHANGED <<format, at, used, buff>>
    BY <1>2, SameFormat DEF TextInv
  <1>. QED  BY <1>1, <1>2 DEF F!Next, F!Puthex, F!PrintNumber, textVars

\* The literal of puthex, and the number that the boot stage has printed last.
NumberInv ==
    /\ arr \in [1 .. Bits \div 4 -> Chars]
    /\ last.how = "putint" /\ last.value >= 0 /\ F!Pow(10, F!Places(last.value)) < -F!Least
           => F!Numeral(10, last.value, last.text)
    /\ last.how = "puthex" /\ last.value > 0
           => \E tail \in F!Suffixes(last.text) : F!Numeral(16, last.value, tail)
    /\ last.how \in {"sputhex", "sputHex"} => F!Worth(16, last.text) = F!Unsigned(last.value)
    /\ last.how = "putbin" => F!Worth(2, last.text) = F!Unsigned(last.value) % 2^8
    /\ last.how = "putBin" => F!Worth(2, last.text) = last.value % 2^16

\* No number is printed at the start but zero.
LEMMA InitNumberInv ==
  ASSUME F!Init
  PROVE  NumberInv
  <1>1. last.how = "putint" /\ last.value = 0 /\ last.text = <<"0">>
    BY DEF F!Init
  <1>2. 10 \in 2 .. 16
    OBVIOUS
  <1>3. F!Numeral(10, 0, <<"0">>)
    BY <1>2, ZeroNumeral
  <1>4. arr \in [1 .. Bits \div 4 -> Chars]
    BY ZeroDigit DEF F!Init, F!Zeros
  <1>. QED  BY <1>1, <1>3, <1>4 DEF NumberInv

\* Every number printed is exact.
LEMMA NextNumberInv ==
  ASSUME NumberInv, [F!Next]_textVars
  PROVE  NumberInv'
  <1>1. CASE UNCHANGED <<last, arr>>
    <2>1. last' = last /\ arr' = arr
      BY <1>1
    <2>. QED  BY <2>1 DEF NumberInv
  <1>2. ASSUME NEW v \in Values, F!Puthex(v) PROVE NumberInv'
    <2>1. last'.how = "puthex" /\ last'.value = v /\ last'.text = F!Backwards(arr')
          /\ arr' = F!Filled(arr, v)
      BY <1>2 DEF F!Puthex, F!Printed
    <2>2. PICK m \in Nat : m = Bits \div 4 /\ Bits = 4 * m /\ v \in Int /\ v < F!Pow(16, m)
      <3>1. PICK m \in Nat : m = Bits \div 4 /\ Bits = 4 * m
        BY Widths
      <3>2. F!Pow(2, Bits) = F!Pow(16, m)
        BY <3>1, Nibbles
      <3>3. v \in Int /\ v < F!Pow(2, Bits)
        BY Widths
      <3>. QED  BY <3>1, <3>2, <3>3
    <2>3. arr \in [1 .. m -> Chars]
      BY <2>2 DEF NumberInv
    <2>4. CASE v > 0
      <3>1. F!Filled(arr, v) \in [1 .. m -> Chars]
            /\ \E tail \in F!Suffixes(F!Backwards(F!Filled(arr, v))) : F!Numeral(16, v, tail)
        BY <2>2, <2>3, <2>4, LiteralNumeral
      <3>. QED  BY <2>1, <2>2, <3>1 DEF NumberInv
    <2>5. CASE ~(v > 0)
      <3>1. F!Filled(arr, v) \in [1 .. m -> Chars]
        BY <2>2, <2>3, <2>5, LiteralStays
      <3>. QED  BY <2>1, <2>2, <2>5, <3>1 DEF NumberInv
    <2>. QED  BY <2>4, <2>5
  <1>3. ASSUME NEW v \in Values, F!PrintNumber(v) PROVE NumberInv'
    <2>0. v \in Int /\ arr' \in [1 .. Bits \div 4 -> Chars]
      BY <1>3, Widths DEF F!PrintNumber, NumberInv
    <2>1. ASSUME NEW text \in F!putint(v), F!Printed("putint", v, text) PROVE NumberInv'
      <3>1. last'.how = "putint" /\ last'.value = v /\ last'.text = text
        BY <2>1 DEF F!Printed
      <3>2. v >= 0 /\ F!Pow(10, F!Places(v)) < -F!Least => F!Numeral(10, v, text)
        BY <2>0, IntNumeral
      <3>. QED  BY <2>0, <3>1, <3>2 DEF NumberInv
    <2>2. CASE F!Printed("sputhex", v, F!sputhex(v))
      <3>1. last'.how = "sputhex" /\ last'.value = v /\ last'.text = F!sputhex(v)
        BY <2>2 DEF F!Printed
      <3>. QED  BY <2>0, <3>1, WordNumeral DEF NumberInv
    <2>3. CASE F!Printed("sputHex", v, F!sputHex(v))
      <3>1. last'.how = "sputHex" /\ last'.value = v /\ last'.text = F!sputHex(v)
        BY <2>3 DEF F!Printed
      <3>. QED  BY <2>0, <3>1, WordNumeral DEF NumberInv
    <2>4. CASE F!Printed("putbin", v, F!putbin(v))
      <3>1. last'.how = "putbin" /\ last'.value = v /\ last'.text = F!putbin(v)
        BY <2>4 DEF F!Printed
      <3>. QED  BY <2>0, <3>1, WordNumeral DEF NumberInv
    <2>5. CASE F!Printed("putBin", v, F!putBin(v))
      <3>1. last'.how = "putBin" /\ last'.value = v /\ last'.text = F!putBin(v)
        BY <2>5 DEF F!Printed
      <3>. QED  BY <2>0, <3>1, WordNumeral DEF NumberInv
    <2>. QED  BY <1>3, <2>1, <2>2, <2>3, <2>4, <2>5 DEF F!PrintNumber
  <1>. QED  BY <1>1, <1>2, <1>3 DEF F!Next, F!sprintf, textVars

\* Whatever braces a format has, sprintf writes every character and every argument
\* in its place and takes as many arguments as there are directives for one.
THEOREM SprintfMeans == BootSpec => []SprintfMeaning
  <1>1. ASSUME TextInv PROVE SprintfMeaning
    <2>1. /\ format \in Formats /\ at \in 0 .. Len(format)
          /\ used = Cardinality(F!Before(at + 1)) /\ buff = Written(at)
      BY <1>1 DEF TextInv
    <2>2. Len(format) \in Nat /\ format \in Seq(STRING \ {"end"})
      BY <2>1, FormatChars
    <2>3. F!Before(Len(format)) = F!Before(Len(format) + 1)
      <3>1. F!Starts \in SUBSET (1 .. Len(format)) /\ \A j \in F!Starts : Braces(j)
        BY <2>2, StartsAre
      <3>2. \A j \in F!Starts : j < Len(format) <=> j < Len(format) + 1
        <4>. SUFFICES ASSUME NEW j \in F!Starts PROVE j < Len(format)
          BY <2>2, <3>1
        <4>1. j \in Int
          BY <2>2, <3>1
        <4>2. Braces(j)
          BY <3>1
        <4>3. j + 2 <= Len(format)
          BY <4>2 DEF Braces
        <4>. QED  BY <2>2, <4>1, <4>3
      <3>. QED  BY <3>2 DEF F!Before
    <2>. QED  BY <2>1, <2>2, <2>3, SameCardinality DEF SprintfMeaning, F!SprintfMeaning, Written
  <1>2. BootInit => TextInv
    BY InitTextInv DEF BootInit
  <1>3. TextInv /\ [BootNext]_bootVars => TextInv'
    <2>1. [BootNext]_bootVars => [F!Next]_textVars
      BY DEF BootNext, bootVars
    <2>. QED  BY <2>1, NextTextInv
  <1>. QED  BY <1>1, <1>2, <1>3, PTL DEF BootSpec

\* The numbers of NumbersExact are exact, in ints of any width: dec and decX of the kernel
\* for every argument; in the boot stage the serial line's %x and %X and both %b and %B for
\* every number, the screen's %x for every positive one, and %d for those from zero on
\* that do not let count overflow.
THEOREM NumbersAreExact == BootSpec => []NumbersExact
  <1>1. ASSUME TextInv, NumberInv PROVE NumbersExact
    <2>1. ASSUME NEW k \in 1 .. used
          PROVE  F!Numeral(10, Args[k].n, F!dec(Args[k].n)) /\ F!Numeral(16, Args[k].n, F!decX(Args[k].n))
      <3>1. at + 1 \in Int /\ format \in Formats /\ used = Cardinality(F!Before(at + 1))
        BY <1>1 DEF TextInv
      <3>2. used <= Len(Args) /\ used \in Nat
        BY <3>1, Enough
      <3>3. k \in 1 .. Len(Args)
        <4>1. Args \in Seq([n : Nat, s : Seq(STRING)])
          BY BootStageAssumption DEF F!FormatAssumption
        <4>2. Len(Args) \in Nat
          BY <4>1
        <4>. QED  BY <3>2, <4>2
      <3>4. Args[k].n \in Nat
        BY <3>3, ArgIs
      <3>. QED  BY <3>4, DecNumeral
    <2>. QED  BY <1>1, <2>1 DEF NumbersExact, F!NumbersExact, NumberInv
  <1>2. BootInit => TextInv /\ NumberInv
    BY InitTextInv, InitNumberInv DEF BootInit
  <1>3. TextInv /\ NumberInv /\ [BootNext]_bootVars => (TextInv /\ NumberInv)'
    <2>1. [BootNext]_bootVars => [F!Next]_textVars
      BY DEF BootNext, bootVars
    <2>. QED  BY <2>1, NextTextInv, NextNumberInv
  <1>. QED  BY <1>1, <1>2, <1>3, PTL DEF BootSpec
=============================================================================
