---------------------------- MODULE TrapsProofs ----------------------------
(***************************************************************************)
(* Proofs, for every set of cores and of exception vectors and every bound *)
(* on the stacks, of the safety properties of module Traps.                *)
(***************************************************************************)
EXTENDS Traps, TLAPS, FiniteSetTheorems, SequenceTheorems

-----------------------------------------------------------------------------
(* The inductive invariant behind them.                                    *)

Steps == {"lock_ints", "cli", "get_print", "print", "set_print", "unlock_ints", "sti",
          "toggle", "hlt", "iretq"}
Activation == [vec : Int, iff : BOOLEAN, todo : Seq(Steps)]

\* The steps that can follow each step of a handler.
After ==
    [lock_ints |-> {"cli"}, cli |-> {"get_print"}, get_print |-> {"print"}, print |-> {"set_print"},
     set_print |-> {"unlock_ints"}, unlock_ints |-> {"sti"},
     sti |-> {"lock_ints", "toggle", "hlt", "iretq"},
     toggle |-> {"iretq"}, hlt |-> {"iretq"}, iretq |-> {}]

Ordered(s) == \A j \in 1 .. Len(s) - 1 : s[j + 1] \in After[s[j]]
Misframed(v) == CpuWords(v) + StubWords(v) # FrameWords

\* What is left of an activation ends where a LOG, a halt or a return does; only
\* an exception returns, and one with a wrong frame halts before it does.
WellFormed(a) ==
    LET s == a.todo IN
    /\ Ordered(s)
    /\ s # <<>> => s[Len(s)] \in {"sti", "hlt", "iretq"}
    /\ a.vec \in {-1, TimerVector} /\ s # <<>> => s[Len(s)] # "iretq"
    /\ Misframed(a.vec) => Len(s) > 1 /\ s[Len(s) - 1] = "hlt"

\* The kernel's own code is at the bottom, and the timer, which is never
\* acknowledged, comes once on top of it or of a handler.
StackInv ==
    /\ st \in [Core -> Seq(Activation)]
    /\ \A c \in Core :
        /\ Len(st[c]) \in 1 .. MaxDepth /\ Len(st[c]) <= 3
        /\ c \notin service => Len(st[c]) <= 2
        /\ st[c][1].vec = -1
        /\ \A n \in 1 .. Len(st[c]) : WellFormed(st[c][n])

\* The first n activations of core c have not returned from a lock_ints that they
\* have not undone; the n-th may be between the two steps of one.
Unmasked(c, n) ==
    /\ \A m \in 1 .. n : ~Masked(st[c][m]) /\ (InLog(st[c][m]) => m = n)
    /\ c = Boot => main # "locked" /\ (main = "raised" => n = 1)

\* Interrupts are on only in such code, now and in what a handler returns to.
MaskInv ==
    \A c \in Core :
        /\ ints[c] => Unmasked(c, Len(st[c]))
        /\ \A n \in 2 .. Len(st[c]) : st[c][n].iff => Unmasked(c, n - 1)

\* kernel_main logs nothing inside its lock_ints.
MainInv == main = "raised" => st[Boot][1].todo = <<>>

FlagInv ==
    /\ level \in [Core -> Int]
    /\ ints \in [Core -> BOOLEAN] /\ print \in BOOLEAN /\ once \in BOOLEAN
    /\ main \in {"before", "raised", "locked"}
    /\ timer \subseteq Core /\ service \subseteq timer /\ debug \subseteq Core

IInv == StackInv /\ FlagInv /\ LevelCountsLogs /\ MaskInv /\ MainInv
-----------------------------------------------------------------------------
(* The programs of the handlers.                                           *)

\* A piece of a program: in order, from its first step to its last one.
Block(s, first, last) ==
    /\ s \in Seq(Steps) /\ Len(s) > 0
    /\ s[1] = first /\ s[Len(s)] = last
    /\ Ordered(s)

\* The macro LOG is a piece from lock_ints to unlock_ints' sti.
LEMMA LogBlock == Block(LOG, "lock_ints", "sti")
  BY DEF Block, LOG, Steps, Ordered, After

\* One step is a piece.
LEMMA StepBlock ==
  ASSUME NEW x \in Steps
  PROVE  Block(<<x>>, x, x)
  BY DEF Block, Ordered

\* Two pieces that fit make one.
LEMMA JoinBlocks ==
  ASSUME NEW s, NEW t, NEW a, NEW b, NEW d, NEW e,
         Block(s, a, b), Block(t, d, e), d \in After[b]
  PROVE  Block(s \o t, a, e)
  <1>. DEFINE u == s \o t
  <1>1. /\ s \in Seq(Steps) /\ t \in Seq(Steps) /\ Len(s) \in Nat /\ Len(t) \in Nat
        /\ Len(s) > 0 /\ Len(t) > 0
    BY DEF Block
  <1>2. u \in Seq(Steps) /\ Len(u) = Len(s) + Len(t)
    BY <1>1
  <1>3. \A j \in 1 .. Len(s) : u[j] = s[j]
    BY <1>1
  <1>4. \A j \in Len(s) + 1 .. Len(s) + Len(t) : u[j] = t[j - Len(s)]
    BY <1>1
  <1>5. Ordered(u)
    <2>. SUFFICES ASSUME NEW j \in 1 .. Len(u) - 1 PROVE u[j + 1] \in After[u[j]]
      BY DEF Ordered
    <2>1. CASE j < Len(s)
      <3>1. u[j] = s[j] /\ u[j + 1] = s[j + 1] /\ j \in 1 .. Len(s) - 1
        BY <1>1, <1>3, <2>1
      <3>. QED  BY <3>1 DEF Block, Ordered
    <2>2. CASE j = Len(s)
      <3>1. u[j] = s[Len(s)] /\ u[j + 1] = t[1]
        BY <1>1, <1>3, <1>4, <2>2
      <3>. QED  BY <3>1 DEF Block
    <2>3. CASE j > Len(s)
      <3>1. j - Len(s) \in 1 .. Len(t) - 1
        BY <1>1, <1>2, <2>3
      <3>2. u[j] = t[j - Len(s)] /\ u[j + 1] = t[(j - Len(s)) + 1]
        BY <1>1, <1>2, <1>4, <2>3
      <3>. QED  BY <3>1, <3>2 DEF Block, Ordered
    <2>. QED  BY <1>1, <2>1, <2>2, <2>3
  <1>6. u[1] = a /\ u[Len(u)] = e
    BY <1>1, <1>2, <1>3, <1>4 DEF Block
  <1>. HIDE DEF u
  <1>7. Block(u, a, e)
    BY <1>1, <1>2, <1>5, <1>6 DEF Block
  <1>. QED  BY <1>7 DEF u

\* panic_common_stub logs and halts.
LEMMA PanicBlock == Block(panic_common_stub, "lock_ints", "hlt")
  <1>1. Block(<<"hlt">>, "hlt", "hlt")
    BY StepBlock DEF Steps
  <1>2. Block(LOG \o LOG, "lock_ints", "sti")
    BY LogBlock, JoinBlocks DEF After
  <1>. QED  BY <1>1, <1>2, JoinBlocks DEF After, panic_common_stub, log_stackframe

\* The dispatcher runs a program that logs first, and one that halts unless its
\* vector has a handler that returns.
LEMMA DispatchBlock ==
  ASSUME NEW v
  PROVE  \/ Block(Dispatch(v), "lock_ints", "hlt")
         \/ /\ v \in {1, 3, 127}
            /\ Block(Dispatch(v), "lock_ints", "sti")
               \/ Block(Dispatch(v), "lock_ints", "toggle")
  <1>1. Block(<<"hlt">>, "hlt", "hlt") /\ Block(<<"toggle">>, "toggle", "toggle")
    BY StepBlock DEF Steps
  <1>2. Block(LOG \o LOG, "lock_ints", "sti")
    BY LogBlock, JoinBlocks DEF After
  <1>3. Block((LOG \o LOG) \o LOG, "lock_ints", "sti")
    BY <1>2, LogBlock, JoinBlocks DEF After
  <1>4. Block((LOG \o LOG) \o <<"hlt">>, "lock_ints", "hlt")
    BY <1>1, <1>2, JoinBlocks DEF After
  <1>5. Block(LOG \o panic_common_stub, "lock_ints", "hlt")
    BY LogBlock, PanicBlock, JoinBlocks DEF After
  <1>6. Block(((LOG \o LOG) \o LOG) \o panic_common_stub, "lock_ints", "hlt")
    BY <1>3, PanicBlock, JoinBlocks DEF After
  <1>7. Block(LOG \o <<"toggle">>, "lock_ints", "toggle")
    BY <1>1, LogBlock, JoinBlocks DEF After
  <1>8. CASE v \notin {0, 1, 3, 6, 13, 14, 127}
    BY <1>4, <1>8 DEF Dispatch, attach_kernel_exceptions, log_stackframe
  <1>9. CASE v \in {0, 6, 13}
    BY <1>5, <1>9 DEF Dispatch, attach_kernel_exceptions
  <1>10. CASE v = 14
    BY <1>6, <1>10 DEF Dispatch, attach_kernel_exceptions
  <1>11. CASE v \in {1, 3}
    BY <1>3, <1>11 DEF Dispatch, attach_kernel_exceptions, log_stackframe
  <1>12. CASE v = 127
    BY <1>7, <1>12 DEF Dispatch, attach_kernel_exceptions
  <1>. QED  BY <1>8, <1>9, <1>10, <1>11, <1>12

\* What an exception pushes is a well-formed activation outside a LOG.
LEMMA IsrWellFormed ==
  ASSUME NEW v \in Int, v \notin {-1, TimerVector}, NEW f \in BOOLEAN, NEW a,
         a = [vec |-> v, iff |-> f, todo |-> isr_handler(v)]
  PROVE  a \in Activation /\ WellFormed(a) /\ ~InLog(a)
  <1>. DEFINE s == Dispatch(v)
              u == s \o <<"iretq">>
  <1>1. Block(<<"iretq">>, "iretq", "iretq")
    BY StepBlock DEF Steps
  <1>2. PICK last \in {"hlt", "sti", "toggle"} :
              Block(s, "lock_ints", last) /\ (last # "hlt" => v \in {1, 3, 127})
    BY DispatchBlock
  <1>3. Block(u, "lock_ints", "iretq")
    BY <1>1, <1>2, JoinBlocks DEF After
  <1>4. Len(u) = Len(s) + 1 /\ Len(s) > 0 /\ Len(s) \in Nat /\ u[Len(s)] = last
    BY <1>2 DEF Block
  <1>5. Misframed(v) => last = "hlt"
    BY <1>2 DEF Misframed, CpuWords, StubWords, FrameWords
  <1>. HIDE DEF s, u
  <1>6. a.todo = u /\ a.vec = v /\ a \in Activation
    BY <1>3 DEF Block, Activation, u, s, isr_handler
  <1>7. u # <<>> /\ Head(u) = "lock_ints"
    BY <1>3 DEF Block
  <1>8. WellFormed(a)
    BY <1>3, <1>4, <1>5, <1>6 DEF WellFormed, Block
  <1>9. ~InLog(a)
    BY <1>6, <1>7 DEF InLog, Masked
  <1>. QED  BY <1>6, <1>8, <1>9

\* So is what the timer pushes: a program that never returns.
LEMMA TimerWellFormed ==
  ASSUME NEW f \in BOOLEAN, NEW a,
         a = [vec |-> TimerVector, iff |-> f, todo |-> irq_handler]
  PROVE  a \in Activation /\ WellFormed(a) /\ ~InLog(a)
  <1>1. Block(irq_handler, "lock_ints", "hlt")
    BY DispatchBlock DEF irq_handler, TimerVector
  <1>2. ~Misframed(TimerVector)
    BY DEF Misframed, CpuWords, StubWords, FrameWords, TimerVector
  <1>3. a.todo = irq_handler /\ a.vec = TimerVector /\ a \in Activation
    BY <1>1 DEF Block, Activation, TimerVector
  <1>4. irq_handler # <<>> /\ Head(irq_handler) = "lock_ints"
    BY <1>1 DEF Block
  <1>. QED  BY <1>1, <1>2, <1>3, <1>4 DEF WellFormed, Block, InLog, Masked

\* What is left of a well-formed activation after one step that is neither a halt
\* nor a return: the next step follows the one done.
LEMMA TailWellFormed ==
  ASSUME NEW a \in Activation, WellFormed(a), a.todo # <<>>,
         Head(a.todo) \notin {"hlt", "iretq"},
         NEW b, b = [a EXCEPT !.todo = Tail(@)]
  PROVE  /\ b \in Activation /\ WellFormed(b) /\ b.vec = a.vec /\ b.iff = a.iff
         /\ b.todo = <<>> => Head(a.todo) = "sti"
         /\ b.todo # <<>> => Head(b.todo) \in After[Head(a.todo)]
  <1>. DEFINE s == a.todo
              t == Tail(s)
  <1>1. s \in Seq(Steps) /\ Len(s) \in Nat /\ Len(s) > 0 /\ Head(s) = s[1]
    BY DEF Activation
  <1>2. t \in Seq(Steps) /\ Len(t) = Len(s) - 1 /\ \A j \in 1 .. Len(t) : t[j] = s[j + 1]
    BY <1>1
  <1>3. b \in Activation /\ b.todo = t /\ b.vec = a.vec /\ b.iff = a.iff
    BY <1>2 DEF Activation
  <1>4. \A j \in 1 .. Len(s) - 1 : s[j + 1] \in After[s[j]]
    BY DEF WellFormed, Ordered
  <1>. HIDE DEF s, t
  <1>5. Ordered(t)
    BY <1>1, <1>2, <1>4, SMTT(20) DEF Ordered
  <1>6. t = <<>> => s[1] = s[Len(s)]
    <2>1. t = <<>> => Len(t) = 0
      OBVIOUS
    <2>2. Len(t) = 0 => Len(s) = 1
      BY <1>1, <1>2
    <2>. QED  BY <2>1, <2>2
  <1>7. t # <<>> => Len(t) > 0 /\ t[Len(t)] = s[Len(s)]
    BY <1>1, <1>2
  <1>8. Misframed(b.vec) => Len(t) > 1 /\ t[Len(t) - 1] = "hlt"
    <2>. SUFFICES ASSUME Misframed(a.vec) PROVE Len(t) > 1 /\ t[Len(t) - 1] = "hlt"
      BY <1>3
    <2>1. Len(s) > 1 /\ s[Len(s) - 1] = "hlt"
      BY DEF WellFormed, s
    <2>2. Len(s) = 2 => Len(s) - 1 = 1
      BY <1>1
    <2>3. s[1] # "hlt"
      BY <1>1 DEF s
    <2>4. Len(s) # 2
      BY <2>1, <2>2, <2>3
    <2>5. Len(t) - 1 \in 1 .. Len(t) /\ (Len(t) - 1) + 1 = Len(s) - 1 /\ Len(t) > 1
      BY <1>1, <1>2, <2>1, <2>4
    <2>. QED  BY <1>2, <2>1, <2>5
  <1>9. WellFormed(b)
    BY <1>3, <1>5, <1>6, <1>7, <1>8 DEF WellFormed, s
  <1>10. b.todo = <<>> => Head(a.todo) = "sti"
    BY <1>1, <1>3, <1>6 DEF WellFormed, s
  <1>11. b.todo # <<>> => Head(b.todo) \in After[Head(a.todo)]
    <2>. SUFFICES ASSUME t # <<>> PROVE Head(t) \in After[Head(s)]
      BY <1>3 DEF s
    <2>1. Len(t) > 0 /\ Head(t) = t[1]
      BY <1>2, <1>7
    <2>. QED  BY <1>1, <1>2, <1>4, <2>1
  <1>. QED  BY <1>3, <1>9, <1>10, <1>11

-----------------------------------------------------------------------------
(* The stacks of activations.                                              *)

\* The activations of core c that are inside a LOG.
Open(c) == {i \in 1 .. Len(st[c]) : InLog(st[c][i])}

\* The running activation of a core and the step it is at.
LEMMA TopFacts ==
  ASSUME StackInv, NEW c \in Core
  PROVE  /\ Len(st[c]) \in Nat /\ Len(st[c]) >= 1
         /\ Top(c) \in Activation /\ WellFormed(Top(c))
         /\ Top(c).todo = <<>> <=> Head1(c) = "-"
         /\ Top(c).todo # <<>> => Head1(c) = Head(Top(c).todo) /\ Head1(c) \in Steps
  <1>1. st[c] \in Seq(Activation) /\ Len(st[c]) \in Nat /\ Len(st[c]) >= 1
    BY DEF StackInv
  <1>2. Top(c) \in Activation /\ WellFormed(Top(c))
    BY <1>1 DEF Top, StackInv
  <1>3. Top(c).todo \in Seq(Steps)
    BY <1>2 DEF Activation
  <1>4. Top(c).todo # <<>> => Head(Top(c).todo) \in Steps
    BY <1>3
  <1>5. "-" \notin Steps
    BY DEF Steps
  <1>. QED  BY <1>1, <1>2, <1>4, <1>5 DEF Head1

\* A step that takes the next one of the running activation changes nothing else
\* of the stacks, and the activation is inside its LOG from lock_ints to
\* unlock_ints.
LEMMA PopFacts ==
  ASSUME StackInv, NEW c \in Core, Pop(c), Head1(c) \notin {"-", "hlt", "iretq"},
         NEW n, n = Len(st[c])
  PROVE  /\ st' \in [Core -> Seq(Activation)]
         /\ Len(st'[c]) = n /\ \A d \in Core \ {c} : st'[d] = st[d]
         /\ \A m \in 1 .. n - 1 : st'[c][m] = st[c][m]
         /\ WellFormed(st'[c][n]) /\ st'[c][n].vec = st[c][n].vec
         /\ st'[c][n].iff = st[c][n].iff
         /\ InLog(st[c][n]) <=> Head1(c) \in {"cli", "get_print", "print", "set_print", "unlock_ints"}
         /\ InLog(st'[c][n]) <=> Head1(c) \in {"lock_ints", "cli", "get_print", "print", "set_print"}
         /\ Masked(st[c][n]) <=> Head1(c) \in {"get_print", "print", "set_print", "unlock_ints"}
         /\ Masked(st'[c][n]) <=> Head1(c) \in {"cli", "get_print", "print", "set_print"}
  <1>. DEFINE b == [st[c][n] EXCEPT !.todo = Tail(@)]
  <1>1. n \in Nat /\ n >= 1 /\ Top(c) = st[c][n]
    BY TopFacts DEF Top
  <1>2. st[c] \in Seq(Activation) /\ st \in [Core -> Seq(Activation)]
    BY DEF StackInv
  <1>3. /\ st[c][n] \in Activation /\ WellFormed(st[c][n]) /\ st[c][n].todo # <<>>
        /\ Head1(c) = Head(st[c][n].todo) /\ Head1(c) \in Steps
    BY <1>1, TopFacts
  <1>4. st' = [st EXCEPT ![c] = [@ EXCEPT ![n] = b]]
    BY DEF Pop
  <1>5. /\ b \in Activation /\ WellFormed(b) /\ b.vec = st[c][n].vec
        /\ b.iff = st[c][n].iff
        /\ b.todo = <<>> => Head1(c) = "sti"
        /\ b.todo # <<>> => Head(b.todo) \in After[Head1(c)]
    BY <1>3, TailWellFormed
  <1>. HIDE DEF b
  <1>6. /\ [st[c] EXCEPT ![n] = b] \in Seq(Activation)
        /\ Len([st[c] EXCEPT ![n] = b]) = n
        /\ \A m \in 1 .. n - 1 : [st[c] EXCEPT ![n] = b][m] = st[c][m]
        /\ [st[c] EXCEPT ![n] = b][n] = b
    BY <1>1, <1>2, <1>5
  <1>7. st'[c] = [st[c] EXCEPT ![n] = b] /\ \A d \in Core \ {c} : st'[d] = st[d]
    BY <1>2, <1>4
  <1>8. st' \in [Core -> Seq(Activation)]
    BY <1>2, <1>4, <1>6
  <1>9. InLog(st[c][n]) <=> Head1(c) \in {"cli", "get_print", "print", "set_print", "unlock_ints"}
    BY <1>3 DEF InLog, Masked
  <1>10. InLog(b) <=> Head1(c) \in {"lock_ints", "cli", "get_print", "print", "set_print"}
    BY <1>3, <1>5 DEF InLog, Masked, Steps, After
  <1>11. Masked(st[c][n]) <=> Head1(c) \in {"get_print", "print", "set_print", "unlock_ints"}
    BY <1>3 DEF Masked
  <1>12. Masked(b) <=> Head1(c) \in {"cli", "get_print", "print", "set_print"}
    BY <1>3, <1>5 DEF Masked, Steps, After
  <1>. QED  BY <1>5, <1>6, <1>7, <1>8, <1>9, <1>10, <1>11, <1>12

\* An interrupt gate puts one activation on top.
LEMMA PushFacts ==
  ASSUME StackInv, NEW c \in Core, NEW a \in Activation, WellFormed(a), ~InLog(a),
         st' = [st EXCEPT ![c] = Append(@, a)], NEW n, n = Len(st[c])
  PROVE  /\ st' \in [Core -> Seq(Activation)]
         /\ Len(st'[c]) = n + 1 /\ \A d \in Core \ {c} : st'[d] = st[d]
         /\ \A m \in 1 .. n : st'[c][m] = st[c][m]
         /\ st'[c][n + 1] = a
         /\ Open(c)' = Open(c)
  <1>1. n \in Nat /\ n >= 1 /\ st[c] \in Seq(Activation) /\ st \in [Core -> Seq(Activation)]
    BY DEF StackInv
  <1>2. /\ Append(st[c], a) \in Seq(Activation) /\ Len(Append(st[c], a)) = n + 1
        /\ \A m \in 1 .. n : Append(st[c], a)[m] = st[c][m]
        /\ Append(st[c], a)[n + 1] = a
    BY <1>1
  <1>3. st'[c] = Append(st[c], a) /\ \A d \in Core \ {c} : st'[d] = st[d]
    BY <1>1
  <1>4. st' \in [Core -> Seq(Activation)]
    BY <1>1, <1>2
  <1>5. /\ Len(st'[c]) = n + 1 /\ \A m \in 1 .. n : st'[c][m] = st[c][m]
        /\ st'[c][n + 1] = a
    BY <1>2, <1>3
  <1>6. Open(c)' = Open(c)
    BY <1>1, <1>5 DEF Open
  <1>. QED  BY <1>3, <1>4, <1>5, <1>6

\* iretq takes the activation on top away, never the kernel's own code.
LEMMA ReturnFacts ==
  ASSUME StackInv, NEW c \in Core, iretq(c), NEW n, n = Len(st[c])
  PROVE  /\ st' \in [Core -> Seq(Activation)]
         /\ n >= 2 /\ Len(st'[c]) = n - 1 /\ \A d \in Core \ {c} : st'[d] = st[d]
         /\ \A m \in 1 .. n - 1 : st'[c][m] = st[c][m]
         /\ ~InLog(st[c][n])
         /\ Open(c)' = Open(c)
  <1>. DEFINE s == st[c][n].todo
  <1>1. /\ n \in Nat /\ n >= 1 /\ st[c] \in Seq(Activation) /\ st \in [Core -> Seq(Activation)]
        /\ Top(c) = st[c][n]
    BY DEF StackInv, Top
  <1>2. Head1(c) = "iretq"
    BY DEF iretq, Does
  <1>3. s # <<>> /\ Head(s) = "iretq" /\ st[c][n] \in Activation /\ WellFormed(st[c][n])
    BY <1>1, <1>2, TopFacts
  <1>4. s \in Seq(Steps) /\ Len(s) \in Nat /\ Len(s) > 0 /\ s[1] = "iretq"
    BY <1>3 DEF Activation
  <1>5. Len(s) = 1
    <2>1. SUFFICES ASSUME Len(s) # 1 PROVE FALSE
      OBVIOUS
    <2>2. 1 \in 1 .. Len(s) - 1
      <3>1. ASSUME NEW k \in Nat, k > 0, k # 1 PROVE 1 \in 1 .. k - 1
        BY <3>1
      <3>. HIDE DEF s
      <3>. QED  BY <1>4, <2>1, <3>1
    <2>3. s[1 + 1] \in After[s[1]]
      BY <1>3, <2>2 DEF WellFormed, Ordered, s
    <2>. QED  BY <1>4, <2>3 DEF After
  <1>6. st[c][n].vec # -1
    BY <1>3, <1>4, <1>5 DEF WellFormed
  <1>7. n >= 2
    BY <1>1, <1>6 DEF StackInv
  <1>8. ~InLog(st[c][n])
    BY <1>3 DEF InLog, Masked
  <1>9. /\ SubSeq(st[c], 1, n - 1) \in Seq(Activation)
        /\ Len(SubSeq(st[c], 1, n - 1)) = n - 1
        /\ \A m \in 1 .. n - 1 : SubSeq(st[c], 1, n - 1)[m] = st[c][m]
    BY <1>1, <1>7
  <1>10. /\ st'[c] = SubSeq(st[c], 1, n - 1) /\ \A d \in Core \ {c} : st'[d] = st[d]
         /\ st' \in [Core -> Seq(Activation)]
    BY <1>1, <1>9 DEF iretq
  <1>11. Len(st'[c]) = n - 1 /\ \A m \in 1 .. n - 1 : st'[c][m] = st[c][m]
    BY <1>9, <1>10
  <1>12. Open(c)' = Open(c)
    BY <1>1, <1>8, <1>11 DEF Open
  <1>. QED  BY <1>7, <1>8, <1>10, <1>11, <1>12

-----------------------------------------------------------------------------
(* Levels.                                                                 *)

\* A level is a number of activations, of which there are at most three, and one
\* more on the boot core.
LEMMA OpenFacts ==
  ASSUME StackInv, NEW c \in Core
  PROVE  /\ IsFiniteSet(Open(c)) /\ Cardinality(Open(c)) \in Nat /\ Cardinality(Open(c)) <= 3
         /\ Cardinality(Open(c)) = 0 <=> Open(c) = {}
  <1>1. Len(st[c]) \in Nat /\ Len(st[c]) <= 3
    BY DEF StackInv
  <1>2. IsFiniteSet(1 .. Len(st[c])) /\ Cardinality(1 .. Len(st[c])) <= 3
    <2>1. ASSUME NEW b \in Nat, b <= 3
          PROVE  IsFiniteSet(1 .. b) /\ Cardinality(1 .. b) <= 3
      <3>1. /\ IsFiniteSet(1 .. b)
            /\ Cardinality(1 .. b) = IF 1 > b THEN 0 ELSE b - 1 + 1
        BY FS_Interval
      <3>2. (IF 1 > b THEN 0 ELSE b - 1 + 1) <= 3
        BY <2>1
      <3>. QED  BY <3>1, <3>2
    <2>. QED  BY <1>1, <2>1
  <1>3. Open(c) \subseteq 1 .. Len(st[c])
    BY DEF Open
  <1>4. IsFiniteSet(Open(c)) /\ Cardinality(Open(c)) <= Cardinality(1 .. Len(st[c]))
    BY <1>2, <1>3, FS_Subset
  <1>5. Cardinality(Open(c)) \in Nat /\ Cardinality(1 .. Len(st[c])) \in Nat
    BY <1>2, <1>4, FS_CardinalityType
  <1>6. Cardinality(Open(c)) = 0 <=> Open(c) = {}
    BY <1>4, FS_EmptySet
  <1>. QED  BY <1>2, <1>4, <1>5, <1>6

\* What the level is in terms of the open LOGs.
LEMMA LevelFacts ==
  ASSUME IInv, NEW c \in Core
  PROVE  /\ level[c] = Cardinality(Open(c)) + (IF main # "before" /\ c = Boot THEN 1 ELSE 0)
         /\ level[c] \in Int /\ level[c] >= 0
         /\ level[c] = 0 <=> Open(c) = {} /\ ~(main # "before" /\ c = Boot)
  <1>1. level[c] = Cardinality(Open(c)) + (IF main # "before" /\ c = Boot THEN 1 ELSE 0)
    BY DEF IInv, LevelCountsLogs, Open
  <1>. QED  BY <1>1, OpenFacts DEF IInv

\* A step that takes the next one of a handler's: lock_ints opens a LOG,
\* unlock_ints closes one, and the others leave the open LOGs alone.
LEMMA PopOpen ==
  ASSUME StackInv, NEW c \in Core, Pop(c), Head1(c) \notin {"-", "hlt", "iretq"}
  PROVE  /\ Head1(c) = "lock_ints" =>
               Cardinality(Open(c)') = Cardinality(Open(c)) + 1
         /\ Head1(c) = "unlock_ints" =>
               Cardinality(Open(c)') = Cardinality(Open(c)) - 1 /\ Cardinality(Open(c)) >= 1
         /\ Head1(c) \notin {"lock_ints", "unlock_ints"} => Open(c)' = Open(c)
  <1>. DEFINE n == Len(st[c])
  <1>1. n \in Nat /\ n >= 1 /\ Head1(c) \in Steps
    BY TopFacts
  <1>2. /\ Len(st'[c]) = n /\ \A m \in 1 .. n - 1 : st'[c][m] = st[c][m]
        /\ InLog(st[c][n]) <=> Head1(c) \in {"cli", "get_print", "print", "set_print", "unlock_ints"}
        /\ InLog(st'[c][n]) <=> Head1(c) \in {"lock_ints", "cli", "get_print", "print", "set_print"}
    BY PopFacts
  <1>3. \A m \in 1 .. n : m # n => (m \in Open(c)' <=> m \in Open(c))
    BY <1>1, <1>2 DEF Open
  <1>4. n \in Open(c) <=> InLog(st[c][n])
    BY <1>1 DEF Open
  <1>5. n \in Open(c)' <=> InLog(st'[c][n])
    BY <1>1, <1>2 DEF Open
  <1>6. Open(c) \subseteq 1 .. n /\ Open(c)' \subseteq 1 .. n
    BY <1>2 DEF Open
  <1>7. IsFiniteSet(Open(c)) /\ Cardinality(Open(c)) \in Nat
    BY OpenFacts
  <1>. HIDE DEF n
  <1>8. CASE Head1(c) = "lock_ints"
    <2>1. n \notin Open(c) /\ Open(c)' = Open(c) \cup {n}
      BY <1>1, <1>2, <1>3, <1>4, <1>5, <1>6, <1>8
    <2>. QED  BY <1>7, <1>8, <2>1, FS_AddElement
  <1>9. CASE Head1(c) = "unlock_ints"
    <2>1. n \in Open(c) /\ Open(c)' = Open(c) \ {n}
      BY <1>1, <1>2, <1>3, <1>4, <1>5, <1>6, <1>9
    <2>2. Cardinality(Open(c)') = Cardinality(Open(c)) - 1
      BY <1>7, <2>1, FS_RemoveElement
    <2>3. Cardinality(Open(c)) # 0
      BY <1>7, <2>1, FS_EmptySet
    <2>. QED  BY <1>7, <1>9, <2>2, <2>3
  <1>10. CASE Head1(c) \notin {"lock_ints", "unlock_ints"}
    <2>1. n \in Open(c) <=> n \in Open(c)'
      BY <1>1, <1>2, <1>4, <1>5, <1>10 DEF Steps
    <2>. QED  BY <1>3, <1>6, <1>10, <2>1
  <1>. QED  BY <1>8, <1>9, <1>10

-----------------------------------------------------------------------------
(* Every step preserves the invariant.                                     *)

\* What a handler returns to has interrupts on only if no lock_ints masks it.
SavedInv == \A c \in Core : \A n \in 2 .. Len(st[c]) : st[c][n].iff => Unmasked(c, n - 1)

\* Code that stays as it is stays unmasked.
LEMMA UnmaskedKept ==
  ASSUME NEW c \in Core, NEW k \in Int, Unmasked(c, k), c = Boot => main' = main,
         \A m \in 1 .. k : st'[c][m] = st[c][m]
  PROVE  Unmasked(c, k)'
  BY DEF Unmasked

\* So does the running activation over a step that returns from no lock_ints.
LEMMA PopUnmasked ==
  ASSUME IInv, NEW c \in Core, Pop(c), Head1(c) \in {"lock_ints", "sti", "toggle"},
         main' = main, Unmasked(c, Len(st[c]))
  PROVE  Unmasked(c, Len(st[c]))'
  <1>. DEFINE n == Len(st[c])
  <1>1. n \in Nat /\ n >= 1
    BY TopFacts DEF IInv
  <1>2. /\ Len(st'[c]) = n /\ \A m \in 1 .. n - 1 : st'[c][m] = st[c][m]
        /\ ~Masked(st'[c][n])
    BY PopFacts DEF IInv
  <1>3. \A m \in 1 .. n : m # n => m \in 1 .. n - 1
    BY <1>1
  <1>. HIDE DEF n
  <1>4. Unmasked(c, n)
    BY DEF n
  <1>5. \A m \in 1 .. n : ~Masked(st'[c][m]) /\ (InLog(st'[c][m]) => m = n)
    BY <1>2, <1>3, <1>4 DEF Unmasked
  <1>. QED  BY <1>2, <1>4, <1>5 DEF Unmasked

\* On the other cores nothing changes.
LEMMA OtherMasks ==
  ASSUME IInv, NEW c \in Core, NEW d \in Core \ {c}, st'[d] = st[d], ints'[d] = ints[d],
         d = Boot => main' = main
  PROVE  /\ ints'[d] => Unmasked(d, Len(st[d]))'
         /\ \A n \in 2 .. Len(st'[d]) : st'[d][n].iff => Unmasked(d, n - 1)'
  <1>1. ASSUME ints'[d] PROVE Unmasked(d, Len(st[d]))'
    BY <1>1 DEF IInv, MaskInv, Unmasked
  <1>2. ASSUME NEW n \in 2 .. Len(st'[d]), st'[d][n].iff PROVE Unmasked(d, n - 1)'
    BY <1>2, UnmaskedKept DEF IInv, MaskInv
  <1>. QED  BY <1>1, <1>2

\* A step of an activation keeps the stacks well formed, and what is below the
\* running activation as it was.
LEMMA PopStack ==
  ASSUME IInv, NEW c \in Core, Pop(c), Head1(c) \notin {"-", "hlt", "iretq"},
         service' = service, main' = main
  PROVE  StackInv' /\ SavedInv' /\ MainInv'
  <1>. DEFINE n == Len(st[c])
  <1>1. n \in Nat /\ n >= 1
    BY TopFacts DEF IInv
  <1>2. /\ st' \in [Core -> Seq(Activation)]
        /\ Len(st'[c]) = n /\ \A d \in Core \ {c} : st'[d] = st[d]
        /\ \A m \in 1 .. n - 1 : st'[c][m] = st[c][m]
        /\ WellFormed(st'[c][n]) /\ st'[c][n].vec = st[c][n].vec
        /\ st'[c][n].iff = st[c][n].iff
    BY PopFacts DEF IInv
  <1>3. \A m \in 1 .. n : m # n => m \in 1 .. n - 1
    BY <1>1
  <1>4. \A m \in 1 .. n : st'[c][m].vec = st[c][m].vec /\ st'[c][m].iff = st[c][m].iff
    BY <1>1, <1>2, <1>3
  <1>5. \A m \in 1 .. n : WellFormed(st'[c][m])
    BY <1>1, <1>2, <1>3 DEF IInv, StackInv
  <1>6. StackInv'
    <2>. SUFFICES ASSUME NEW d \in Core
                  PROVE  /\ Len(st'[d]) \in 1 .. MaxDepth /\ Len(st'[d]) <= 3
                         /\ d \notin service => Len(st'[d]) <= 2
                         /\ st'[d][1].vec = -1
                         /\ \A m \in 1 .. Len(st'[d]) : WellFormed(st'[d][m])
      BY <1>2 DEF StackInv
    <2>1. CASE d = c
      BY <1>1, <1>2, <1>4, <1>5, <2>1 DEF IInv, StackInv
    <2>2. CASE d # c
      BY <1>2, <2>2 DEF IInv, StackInv
    <2>. QED  BY <2>1, <2>2
  <1>7. SavedInv'
    <2>. SUFFICES ASSUME NEW d \in Core, NEW k \in 2 .. Len(st'[d]), st'[d][k].iff
                  PROVE  Unmasked(d, k - 1)'
      BY DEF SavedInv
    <2>1. CASE d = c
      <3>1. k \in 1 .. n /\ k \in 2 .. n /\ st[c][k].iff
        BY <1>1, <1>2, <1>4, <2>1
      <3>2. Unmasked(c, k - 1)
        BY <3>1 DEF IInv, MaskInv
      <3>3. \A m \in 1 .. k - 1 : m \in 1 .. n - 1
        BY <1>1, <3>1
      <3>. QED  BY <1>2, <2>1, <3>2, <3>3, UnmaskedKept
    <2>2. CASE d # c
      <3>1. k \in 2 .. Len(st[d]) /\ st[d][k].iff
        BY <1>2, <2>2
      <3>2. Unmasked(d, k - 1)
        BY <3>1 DEF IInv, MaskInv
      <3>. QED  BY <1>2, <2>2, <3>2, UnmaskedKept
    <2>. QED  BY <2>1, <2>2
  <1>8. MainInv'
    <2>. SUFFICES ASSUME main = "raised" PROVE st'[Boot][1].todo = <<>>
      BY DEF MainInv
    <2>1. st[Boot][1].todo = <<>>
      BY DEF IInv, MainInv
    <2>2. ASSUME c = Boot PROVE n # 1
      <3>1. c = Boot /\ n = 1 => Head1(c) = "-"
        BY <2>1, TopFacts DEF IInv, Top
      <3>. QED  BY <2>2, <3>1
    <2>3. c = Boot => 1 \in 1 .. n - 1
      <3>1. ASSUME NEW k \in Nat, k >= 1, k # 1 PROVE 1 \in 1 .. k - 1
        BY <3>1
      <3>. HIDE DEF n
      <3>. QED  BY <1>1, <2>2, <3>1
    <2>. QED  BY <1>2, <2>1, <2>3, TrapsAssumption
  <1>. QED  BY <1>6, <1>7, <1>8

\* A level of another core is as it was.
LEMMA OtherLevels ==
  ASSUME IInv, NEW c \in Core, \A d \in Core \ {c} : st'[d] = st[d] /\ level'[d] = level[d],
         \A d \in Core \ {c} : (main' # "before" /\ d = Boot) <=> (main # "before" /\ d = Boot),
         level'[c] = Cardinality(Open(c)') + (IF main' # "before" /\ c = Boot THEN 1 ELSE 0)
  PROVE  LevelCountsLogs'
  <1>. SUFFICES ASSUME NEW d \in Core
                PROVE  level'[d] = Cardinality(Open(d)') + (IF main' # "before" /\ d = Boot THEN 1 ELSE 0)
    BY DEF LevelCountsLogs, Open
  <1>1. CASE d = c
    BY <1>1
  <1>2. CASE d # c
    <2>1. Open(d)' = Open(d)
      BY <1>2 DEF Open
    <2>. QED  BY <1>2, <2>1, LevelFacts
  <1>. QED  BY <1>1, <1>2

\* Code that has returned from a LOG's lock_ints runs with interrupts off.
LEMMA MaskedOff ==
  ASSUME IInv, NEW c \in Core, Pop(c), Head1(c) \in {"get_print", "print", "set_print", "unlock_ints"}
  PROVE  ~ints[c]
  <1>1. Len(st[c]) \in Nat /\ Len(st[c]) >= 1 /\ Masked(st[c][Len(st[c])])
    BY TopFacts, PopFacts DEF IInv
  <1>. QED  BY <1>1 DEF IInv, MaskInv, Unmasked

\* A step of an activation preserves the invariant if it keeps the levels and leaves
\* interrupts on in unmasked code only.
LEMMA PopStep ==
  ASSUME IInv, NEW c \in Core, Pop(c), Head1(c) \notin {"-", "hlt", "iretq"},
         service' = service, main' = main, FlagInv', LevelCountsLogs',
         \A d \in Core \ {c} : ints'[d] = ints[d],
         ints'[c] => Unmasked(c, Len(st[c]))'
  PROVE  IInv'
  <1>1. StackInv' /\ SavedInv' /\ MainInv'
    BY PopStack
  <1>2. \A d \in Core \ {c} : st'[d] = st[d]
    BY PopFacts DEF IInv
  <1>3. ASSUME NEW d \in Core, ints'[d] PROVE Unmasked(d, Len(st[d]))'
    <2>1. CASE d = c
      BY <1>3, <2>1
    <2>2. CASE d # c
      BY <1>2, <1>3, <2>2, OtherMasks
    <2>. QED  BY <2>1, <2>2
  <1>4. MaskInv'
    BY <1>1, <1>3 DEF MaskInv, SavedInv
  <1>. QED  BY <1>1, <1>4 DEF IInv

\* lock_ints raises the level and leaves the interrupt flag as it is.
LEMMA LockStep ==
  ASSUME IInv, NEW c \in Core, lock_ints(c)
  PROVE  IInv'
  <1>1. Head1(c) = "lock_ints" /\ Pop(c) /\ main' = main /\ ints' = ints /\ service' = service
        /\ level' = [level EXCEPT ![c] = @ + 1]
    BY DEF lock_ints, Does
  <1>2. FlagInv'
    BY DEF IInv, FlagInv, lock_ints
  <1>3. \A d \in Core \ {c} : st'[d] = st[d]
    BY <1>1, PopFacts DEF IInv
  <1>4. Cardinality(Open(c)') = Cardinality(Open(c)) + 1
    BY <1>1, PopOpen DEF IInv
  <1>5. level'[c] = Cardinality(Open(c)') + (IF main' # "before" /\ c = Boot THEN 1 ELSE 0)
    BY <1>1, <1>4, LevelFacts, OpenFacts DEF IInv, FlagInv
  <1>6. LevelCountsLogs'
    BY <1>1, <1>3, <1>5, OtherLevels DEF IInv, FlagInv
  <1>7. ints'[c] => Unmasked(c, Len(st[c]))'
    BY <1>1, PopUnmasked DEF IInv, MaskInv
  <1>. QED  BY <1>1, <1>2, <1>6, <1>7, PopStep

\* disable_ints turns interrupts off: where they are on, nothing else holds the level.
LEMMA DisableStep ==
  ASSUME IInv, NEW c \in Core, disable_ints(c)
  PROVE  IInv'
  <1>. DEFINE n == Len(st[c])
  <1>1. Head1(c) = "cli" /\ Pop(c) /\ main' = main /\ level' = level /\ service' = service
        /\ ints' = [ints EXCEPT ![c] = @ /\ level[c] # 1]
    BY DEF disable_ints, Does
  <1>2. FlagInv'
    BY DEF IInv, FlagInv, disable_ints
  <1>3. \A d \in Core \ {c} : st'[d] = st[d]
    BY <1>1, PopFacts DEF IInv
  <1>4. Open(c)' = Open(c)
    BY <1>1, PopOpen DEF IInv
  <1>5. LevelCountsLogs'
    BY <1>1, <1>3, <1>4, LevelFacts, OtherLevels
  <1>6. ASSUME ints[c] PROVE level[c] = 1
    <2>1. n \in Nat /\ n >= 1 /\ Unmasked(c, n)
      BY <1>6, TopFacts DEF IInv, MaskInv
    <2>2. InLog(st[c][n])
      BY <1>1, PopFacts DEF IInv
    <2>3. Open(c) = {n}
      BY <2>1, <2>2 DEF Open, Unmasked
    <2>4. Cardinality(Open(c)) = 1
      BY <2>3, FS_Singleton
    <2>5. ~(main # "before" /\ c = Boot)
      <3>. SUFFICES ASSUME main # "before", c = Boot PROVE FALSE
        OBVIOUS
      <3>1. main = "raised" /\ n = 1
        BY <2>1 DEF IInv, FlagInv, Unmasked
      <3>2. Top(c).todo = <<>>
        BY <3>1 DEF IInv, MainInv, Top
      <3>. QED  BY <1>1, <3>2, TopFacts DEF IInv
    <2>. QED  BY <2>4, <2>5, LevelFacts
  <1>7. ~ints'[c]
    BY <1>1, <1>6 DEF IInv, FlagInv
  <1>8. \A d \in Core \ {c} : ints'[d] = ints[d]
    BY <1>1 DEF IInv, FlagInv
  <1>. QED  BY <1>1, <1>2, <1>5, <1>7, <1>8, PopStep

\* unlock_ints drops the level of code that has interrupts off.
LEMMA UnlockStep ==
  ASSUME IInv, NEW c \in Core, unlock_ints(c)
  PROVE  IInv'
  <1>1. Head1(c) = "unlock_ints" /\ Pop(c) /\ main' = main /\ ints' = ints /\ service' = service
        /\ level' = [level EXCEPT ![c] = @ - 1]
    BY DEF unlock_ints, Does
  <1>2. FlagInv'
    BY DEF IInv, FlagInv, unlock_ints
  <1>3. \A d \in Core \ {c} : st'[d] = st[d]
    BY <1>1, PopFacts DEF IInv
  <1>4. Cardinality(Open(c)') = Cardinality(Open(c)) - 1 /\ Cardinality(Open(c)) >= 1
    BY <1>1, PopOpen DEF IInv
  <1>5. level'[c] = Cardinality(Open(c)') + (IF main' # "before" /\ c = Boot THEN 1 ELSE 0)
    BY <1>1, <1>4, LevelFacts, OpenFacts DEF IInv, FlagInv
  <1>6. LevelCountsLogs'
    BY <1>1, <1>3, <1>5, OtherLevels DEF IInv, FlagInv
  <1>7. ~ints'[c]
    BY <1>1, MaskedOff
  <1>. QED  BY <1>1, <1>2, <1>6, <1>7, PopStep

\* enable_ints turns interrupts on where no LOG is open.
LEMMA EnableStep ==
  ASSUME IInv, NEW c \in Core, enable_ints(c)
  PROVE  IInv'
  <1>1. Head1(c) = "sti" /\ Pop(c) /\ main' = main /\ level' = level /\ service' = service
        /\ ints' = [ints EXCEPT ![c] = @ \/ level[c] = 0]
    BY DEF enable_ints, Does
  <1>2. FlagInv'
    BY DEF IInv, FlagInv, enable_ints
  <1>3. \A d \in Core \ {c} : st'[d] = st[d]
    BY <1>1, PopFacts DEF IInv
  <1>4. Open(c)' = Open(c)
    BY <1>1, PopOpen DEF IInv
  <1>5. LevelCountsLogs'
    BY <1>1, <1>3, <1>4, LevelFacts, OtherLevels
  <1>6. ASSUME ints'[c] PROVE Unmasked(c, Len(st[c]))
    <2>1. CASE ints[c]
      BY <2>1 DEF IInv, MaskInv
    <2>2. CASE level[c] = 0
      <3>1. Open(c) = {} /\ ~(main # "before" /\ c = Boot)
        BY <2>2, LevelFacts
      <3>2. \A m \in 1 .. Len(st[c]) : ~InLog(st[c][m]) /\ ~Masked(st[c][m])
        BY <3>1 DEF Open, InLog
      <3>. QED  BY <3>1, <3>2 DEF Unmasked
    <2>. QED  BY <1>1, <1>6, <2>1, <2>2 DEF IInv, FlagInv
  <1>7. ints'[c] => Unmasked(c, Len(st[c]))'
    BY <1>1, <1>6, PopUnmasked
  <1>8. \A d \in Core \ {c} : ints'[d] = ints[d]
    BY <1>1 DEF IInv, FlagInv
  <1>. QED  BY <1>1, <1>2, <1>5, <1>7, <1>8, PopStep

\* The other steps of a handler change no level and no interrupt flag.
LEMMA PlainStep ==
  ASSUME IInv, NEW c \in Core,
         get_lock_print(c) \/ PrintText(c) \/ set_lock_print(c) \/ change_debug_mode(c)
  PROVE  IInv'
  <1>1. /\ Head1(c) \in {"get_print", "print", "set_print", "toggle"} /\ Pop(c)
        /\ level' = level /\ ints' = ints /\ main' = main /\ service' = service
    BY DEF get_lock_print, PrintText, set_lock_print, change_debug_mode, Does
  <1>2. FlagInv'
    BY DEF IInv, FlagInv, get_lock_print, PrintText, set_lock_print, change_debug_mode
  <1>3. \A d \in Core \ {c} : st'[d] = st[d]
    BY <1>1, PopFacts DEF IInv
  <1>4. Open(c)' = Open(c)
    BY <1>1, PopOpen DEF IInv
  <1>5. LevelCountsLogs'
    BY <1>1, <1>3, <1>4, LevelFacts, OtherLevels
  <1>6. ints'[c] => Unmasked(c, Len(st[c]))'
    <2>1. CASE Head1(c) = "toggle"
      BY <1>1, <2>1, PopUnmasked DEF IInv, MaskInv
    <2>2. CASE Head1(c) # "toggle"
      BY <1>1, <2>2, MaskedOff
    <2>. QED  BY <2>1, <2>2
  <1>. QED  BY <1>1, <1>2, <1>5, <1>6, PopStep

\* A return restores an interrupt flag that fits what it returns to.
LEMMA IretStep ==
  ASSUME IInv, NEW c \in Core, iretq(c)
  PROVE  IInv'
  <1>. DEFINE n == Len(st[c])
  <1>1. /\ st' \in [Core -> Seq(Activation)]
        /\ n \in Nat /\ n >= 2 /\ Len(st'[c]) = n - 1
        /\ \A d \in Core \ {c} : st'[d] = st[d]
        /\ \A m \in 1 .. n - 1 : st'[c][m] = st[c][m]
        /\ ~InLog(st[c][n]) /\ Open(c)' = Open(c)
    BY ReturnFacts, TopFacts DEF IInv
  <1>2. /\ ints' = [ints EXCEPT ![c] = st[c][n].iff]
        /\ level' = level /\ main' = main /\ service' = service
    BY DEF iretq, Top
  <1>3. st[c][n].iff \in BOOLEAN
    <2>1. st[c][n] \in Activation
      BY TopFacts DEF IInv, Top
    <2>. QED  BY <2>1 DEF Activation
  <1>4. FlagInv'
    BY <1>2, <1>3 DEF IInv, FlagInv, iretq
  <1>5. StackInv'
    <2>. SUFFICES ASSUME NEW d \in Core
                  PROVE  /\ Len(st'[d]) \in 1 .. MaxDepth /\ Len(st'[d]) <= 3
                         /\ d \notin service => Len(st'[d]) <= 2
                         /\ st'[d][1].vec = -1
                         /\ \A m \in 1 .. Len(st'[d]) : WellFormed(st'[d][m])
      BY <1>1, <1>2 DEF StackInv
    <2>1. CASE d = c
      <3>1. 1 \in 1 .. n - 1 /\ \A m \in 1 .. n - 1 : m \in 1 .. n
        BY <1>1
      <3>2. n - 1 \in 1 .. MaxDepth /\ n - 1 <= 3 /\ (c \notin service => n - 1 <= 2)
        BY <1>1, TrapsAssumption DEF IInv, StackInv
      <3>. QED  BY <1>1, <2>1, <3>1, <3>2 DEF IInv, StackInv
    <2>2. CASE d # c
      BY <1>1, <2>2 DEF IInv, StackInv
    <2>. QED  BY <2>1, <2>2
  <1>6. LevelCountsLogs'
    BY <1>1, <1>2, LevelFacts, OtherLevels
  <1>7. ASSUME NEW d \in Core, ints'[d] PROVE Unmasked(d, Len(st[d]))'
    <2>1. CASE d = c
      <3>1. st[c][n].iff
        BY <1>2, <1>7, <2>1 DEF IInv, FlagInv
      <3>2. Unmasked(c, n - 1)
        BY <1>1, <3>1 DEF IInv, MaskInv
      <3>. QED  BY <1>1, <1>2, <2>1, <3>2, UnmaskedKept
    <2>2. CASE d # c
      BY <1>1, <1>2, <1>7, <2>2, OtherMasks DEF IInv, FlagInv
    <2>. QED  BY <2>1, <2>2
  <1>8. ASSUME NEW d \in Core, NEW k \in 2 .. Len(st'[d]), st'[d][k].iff
        PROVE  Unmasked(d, k - 1)'
    <2>1. CASE d = c
      <3>1. k \in 2 .. n /\ st[c][k].iff /\ \A m \in 1 .. k - 1 : m \in 1 .. n - 1
        BY <1>1, <1>8, <2>1
      <3>2. Unmasked(c, k - 1)
        BY <3>1 DEF IInv, MaskInv
      <3>. QED  BY <1>1, <1>2, <2>1, <3>1, <3>2, UnmaskedKept
    <2>2. CASE d # c
      BY <1>1, <1>2, <1>8, <2>2, OtherMasks DEF IInv, FlagInv
    <2>. QED  BY <2>1, <2>2
  <1>9. MainInv'
    <2>1. 1 \in 1 .. n - 1
      BY <1>1
    <2>. QED  BY <1>1, <1>2, <2>1, TrapsAssumption DEF IInv, MainInv
  <1>. QED  BY <1>4, <1>5, <1>6, <1>7, <1>8, <1>9 DEF IInv, MaskInv

\* An interrupt gate turns interrupts off and saves a flag that fits the code.
LEMMA PushStep ==
  ASSUME IInv, NEW c \in Core, NEW a \in Activation, WellFormed(a), ~InLog(a),
         st' = [st EXCEPT ![c] = Append(@, a)], ints' = [ints EXCEPT ![c] = FALSE],
         a.iff = ints[c], Len(st[c]) < MaxDepth,
         Len(st[c]) = 1 \/ (c \notin service /\ c \in service'),
         service \subseteq service', service' \subseteq timer,
         UNCHANGED <<level, print, once, timer, main, debug>>
  PROVE  IInv'
  <1>. DEFINE n == Len(st[c])
  <1>2. /\ st' \in [Core -> Seq(Activation)] /\ n \in Nat /\ n >= 1
        /\ Len(st'[c]) = n + 1 /\ \A d \in Core \ {c} : st'[d] = st[d]
        /\ \A m \in 1 .. n : st'[c][m] = st[c][m]
        /\ st'[c][n + 1] = a /\ Open(c)' = Open(c)
    <2>1. StackInv /\ n \in Nat /\ n >= 1
      BY TopFacts DEF IInv
    <2>2. st' \in [Core -> Seq(Activation)] /\ Len(st'[c]) = n + 1
      BY <2>1, PushFacts
    <2>3. \A d \in Core \ {c} : st'[d] = st[d]
      BY <2>1, PushFacts
    <2>4. \A m \in 1 .. n : st'[c][m] = st[c][m]
      BY <2>1, PushFacts
    <2>5. st'[c][n + 1] = a
      <3>1. st[c] \in Seq(Activation) /\ st'[c] = Append(st[c], a)
        BY <2>1 DEF StackInv
      <3>2. Append(st[c], a)[Len(st[c]) + 1] = a
        BY <3>1
      <3>. QED  BY <3>1, <3>2
    <2>6. Open(c)' = Open(c)
      BY <2>1, PushFacts
    <2>. QED  BY <2>1, <2>2, <2>3, <2>4, <2>5, <2>6
  <1>3. \A m \in 1 .. n + 1 : m = n + 1 \/ m \in 1 .. n
    BY <1>2
  <1>4. FlagInv'
    BY DEF IInv, FlagInv
  <1>5. StackInv'
    <2>. SUFFICES ASSUME NEW d \in Core
                  PROVE  /\ Len(st'[d]) \in 1 .. MaxDepth /\ Len(st'[d]) <= 3
                         /\ d \notin service' => Len(st'[d]) <= 2
                         /\ st'[d][1].vec = -1
                         /\ \A m \in 1 .. Len(st'[d]) : WellFormed(st'[d][m])
      BY <1>2 DEF StackInv
    <2>1. CASE d = c
      <3>1. n + 1 \in 1 .. MaxDepth /\ 1 \in 1 .. n
        BY <1>2, TrapsAssumption
      <3>2. n + 1 <= 3 /\ (c \notin service' => n + 1 <= 2)
        BY <1>2 DEF IInv, StackInv
      <3>3. \A m \in 1 .. n + 1 : WellFormed(st'[c][m])
        BY <1>2, <1>3 DEF IInv, StackInv
      <3>4. st'[c][1].vec = -1
        BY <1>2, <3>1 DEF IInv, StackInv
      <3>. QED  BY <1>2, <2>1, <3>1, <3>2, <3>3, <3>4
    <2>2. CASE d # c
      BY <1>2, <2>2 DEF IInv, StackInv
    <2>. QED  BY <2>1, <2>2
  <1>6. LevelCountsLogs'
    BY <1>2, LevelFacts, OtherLevels
  <1>7. ASSUME NEW d \in Core, ints'[d] PROVE Unmasked(d, Len(st[d]))'
    <2>1. d # c
      BY <1>7 DEF IInv, FlagInv
    <2>. QED  BY <1>2, <1>7, <2>1, OtherMasks DEF IInv, FlagInv
  <1>8. ASSUME NEW d \in Core, NEW k \in 2 .. Len(st'[d]), st'[d][k].iff
        PROVE  Unmasked(d, k - 1)'
    <2>1. CASE d = c /\ k = n + 1
      <3>1. ints[c] /\ k - 1 = n
        BY <1>2, <1>8, <2>1
      <3>2. Unmasked(c, k - 1) /\ \A m \in 1 .. k - 1 : m \in 1 .. n
        BY <3>1 DEF IInv, MaskInv
      <3>. QED  BY <1>2, <2>1, <3>1, <3>2, UnmaskedKept
    <2>2. CASE d = c /\ k # n + 1
      <3>1. k \in 2 .. n /\ k \in 1 .. n /\ \A m \in 1 .. k - 1 : m \in 1 .. n
        BY <1>2, <2>2
      <3>2. Unmasked(c, k - 1)
        BY <1>2, <1>8, <2>2, <3>1 DEF IInv, MaskInv
      <3>. QED  BY <1>2, <2>2, <3>1, <3>2, UnmaskedKept
    <2>3. CASE d # c
      BY <1>2, <1>8, <2>3, OtherMasks DEF IInv, FlagInv
    <2>. QED  BY <2>1, <2>2, <2>3
  <1>9. MainInv'
    <2>1. 1 \in 1 .. n
      BY <1>2
    <2>. QED  BY <1>2, <2>1, TrapsAssumption DEF IInv, MainInv
  <1>. QED  BY <1>4, <1>5, <1>6, <1>7, <1>8, <1>9 DEF IInv, MaskInv

\* Exceptions come in the kernel's own code only.
LEMMA ExceptionStep ==
  ASSUME IInv, NEW c \in Core, Exception(c)
  PROVE  IInv'
  <1>1. PICK v \in Exceptions \cup {1} : Push(c, v, isr_handler(v))
    BY DEF Exception, Faults
  <1>2. v \in Int /\ v \notin {-1, TimerVector}
    BY TrapsAssumption DEF TimerVector
  <1>3. ints[c] \in BOOLEAN /\ service \subseteq timer
    BY DEF IInv, FlagInv
  <1>4. PICK a : a = [vec |-> v, iff |-> ints[c], todo |-> isr_handler(v)]
    OBVIOUS
  <1>5. a \in Activation /\ WellFormed(a) /\ ~InLog(a)
    BY <1>2, <1>3, <1>4, IsrWellFormed
  <1>6. /\ st' = [st EXCEPT ![c] = Append(@, a)] /\ ints' = [ints EXCEPT ![c] = FALSE]
        /\ a.iff = ints[c] /\ Len(st[c]) < MaxDepth
    BY <1>1, <1>4 DEF Push
  <1>7. /\ Len(st[c]) = 1 /\ UNCHANGED <<level, print, once, timer, main, debug>>
        /\ service \subseteq service' /\ service' \subseteq timer
    BY <1>3 DEF Exception
  <1>. QED  BY <1>5, <1>6, <1>7, PushStep

\* The timer comes once.
LEMMA TimerStep ==
  ASSUME IInv, NEW c \in Core, TimerInterrupt(c)
  PROVE  IInv'
  <1>1. ints[c] \in BOOLEAN /\ service \subseteq timer
    BY DEF IInv, FlagInv
  <1>2. PICK a : a = [vec |-> TimerVector, iff |-> ints[c], todo |-> irq_handler]
    OBVIOUS
  <1>3. a \in Activation /\ WellFormed(a) /\ ~InLog(a)
    BY <1>1, <1>2, TimerWellFormed
  <1>4. /\ st' = [st EXCEPT ![c] = Append(@, a)] /\ ints' = [ints EXCEPT ![c] = FALSE]
        /\ a.iff = ints[c] /\ Len(st[c]) < MaxDepth
    BY <1>2 DEF TimerInterrupt, Push
  <1>5. /\ c \notin service /\ c \in service'
        /\ UNCHANGED <<level, print, once, timer, main, debug>>
        /\ service \subseteq service' /\ service' \subseteq timer
    BY <1>1 DEF TimerInterrupt
  <1>. QED  BY <1>3, <1>4, <1>5, PushStep

\* The kernel's own code starts a LOG.
LEMMA KernelLogStep ==
  ASSUME IInv, NEW c \in Core, KernelLog(c)
  PROVE  IInv'
  <1>1. Len(st[c]) = 1 /\ st' = [st EXCEPT ![c][1].todo = LOG] /\ Head1(c) = "-"
    BY DEF KernelLog, Idle, Does
  <1>2. PICK a : a = [st[c][1] EXCEPT !.todo = LOG]
    OBVIOUS
  <1>3. st[c] \in Seq(Activation) /\ st \in [Core -> Seq(Activation)] /\ st[c][1].vec = -1
    BY DEF IInv, StackInv
  <1>4. st[c][1] \in Activation
    BY <1>1, TopFacts DEF IInv, Top
  <1>5. a \in Activation /\ a.vec = -1 /\ a.todo = LOG
    BY <1>2, <1>3, <1>4, LogBlock DEF Activation, Block
  <1>6. ~Misframed(-1)
    BY DEF Misframed, CpuWords, StubWords, FrameWords
  <1>7. LOG # <<>> /\ Head(LOG) = "lock_ints"
    BY LogBlock DEF Block
  <1>8. WellFormed(a) /\ ~InLog(a)
    BY <1>5, <1>6, <1>7, LogBlock DEF WellFormed, Block, InLog, Masked
  <1>9. /\ st'[c] = [st[c] EXCEPT ![1] = a] /\ \A d \in Core \ {c} : st'[d] = st[d]
    BY <1>1, <1>2, <1>3
  <1>10. /\ Len(st'[c]) = 1 /\ st'[c] \in Seq(Activation) /\ st'[c][1] = a
    BY <1>1, <1>3, <1>5, <1>9
  <1>11. st' \in [Core -> Seq(Activation)]
    <2>1. st' = [st EXCEPT ![c] = [st[c] EXCEPT ![1] = a]]
      BY <1>1, <1>2
    <2>2. [st[c] EXCEPT ![1] = a] \in Seq(Activation)
      BY <1>9, <1>10
    <2>. QED  BY <1>3, <2>1, <2>2
  <1>12. Top(c) = st[c][1]
    BY <1>1 DEF Top
  <1>13. ~InLog(st[c][1])
    BY <1>1, <1>12, TopFacts DEF IInv, InLog, Masked
  <1>14. Open(c)' = Open(c)
    BY <1>1, <1>8, <1>10, <1>13 DEF Open
  <1>15. UNCHANGED <<level, ints, print, once, timer, service, main, debug>>
    BY DEF KernelLog
  <1>16. LevelCountsLogs'
    BY <1>9, <1>14, <1>15, LevelFacts, OtherLevels
  <1>17. FlagInv'
    BY <1>15 DEF IInv, FlagInv
  <1>18. StackInv'
    <2>. SUFFICES ASSUME NEW d \in Core
                  PROVE  /\ Len(st'[d]) \in 1 .. MaxDepth /\ Len(st'[d]) <= 3
                         /\ d \notin service => Len(st'[d]) <= 2
                         /\ st'[d][1].vec = -1
                         /\ \A m \in 1 .. Len(st'[d]) : WellFormed(st'[d][m])
      BY <1>11, <1>15 DEF StackInv
    <2>1. CASE d = c
      <3>1. \A m \in 1 .. Len(st'[c]) : m = 1
        BY <1>10
      <3>2. Len(st'[c]) \in 1 .. MaxDepth /\ Len(st'[c]) <= 3 /\ Len(st'[c]) <= 2
        BY <1>10, TrapsAssumption
      <3>. QED  BY <1>5, <1>8, <1>10, <2>1, <3>1, <3>2
    <2>2. CASE d # c
      BY <1>9, <2>2 DEF IInv, StackInv
    <2>. QED  BY <2>1, <2>2
  <1>19. c = Boot => main # "raised"
    BY DEF KernelLog, Idle
  <1>20. ASSUME NEW d \in Core, ints'[d] PROVE Unmasked(d, Len(st[d]))'
    <2>1. CASE d = c
      <3>1. Unmasked(c, 1)
        BY <1>1, <1>15, <1>20, <2>1 DEF IInv, MaskInv
      <3>2. ~InLog(st'[c][1]) /\ ~Masked(st'[c][1])
        BY <1>8, <1>10 DEF InLog
      <3>. QED  BY <1>10, <1>15, <2>1, <3>1, <3>2 DEF Unmasked
    <2>2. CASE d # c
      BY <1>9, <1>15, <1>20, <2>2, OtherMasks
    <2>. QED  BY <2>1, <2>2
  <1>21. ASSUME NEW d \in Core, NEW k \in 2 .. Len(st'[d]), st'[d][k].iff
         PROVE  Unmasked(d, k - 1)'
    <2>1. d # c
      BY <1>10, <1>21
    <2>. QED  BY <1>9, <1>15, <1>21, <2>1, OtherMasks
  <1>22. MainInv'
    BY <1>9, <1>15, <1>19, TrapsAssumption DEF IInv, MainInv
  <1>. QED  BY <1>15, <1>16, <1>17, <1>18, <1>20, <1>21, <1>22 DEF IInv, MaskInv

\* Arming the timer touches no stack and no level.
LEMMA ArmStep ==
  ASSUME IInv, NEW c \in Core, init_APIC_timer(c)
  PROVE  IInv'
  <1>1. FlagInv'
    BY DEF IInv, FlagInv, init_APIC_timer
  <1>2. UNCHANGED <<st, level, ints, service, main>>
    BY DEF init_APIC_timer
  <1>. QED  BY <1>1, <1>2 DEF IInv, StackInv, LevelCountsLogs, MaskInv, MainInv, Unmasked

\* kernel_main's lock_ints raises the level of the boot core outside every LOG.
LEMMA MainStep ==
  ASSUME IInv, EnterMain
  PROVE  IInv'
  <1>1. /\ Len(st[Boot]) = 1 /\ Head1(Boot) = "-" /\ Boot \in Core
        /\ main = "before" /\ main' = "raised"
        /\ level' = [level EXCEPT ![Boot] = @ + 1] /\ ints' = ints
        /\ st' = st /\ UNCHANGED <<print, once, timer, service, debug>>
    BY TrapsAssumption DEF EnterMain, Idle, Does
  <1>2. FlagInv'
    BY <1>1 DEF IInv, FlagInv
  <1>3. StackInv'
    BY <1>1 DEF IInv, StackInv
  <1>4. Open(Boot)' = Open(Boot)
    BY <1>1 DEF Open
  <1>5. level'[Boot] = Cardinality(Open(Boot)') + (IF main' # "before" /\ Boot = Boot THEN 1 ELSE 0)
    BY <1>1, <1>4, LevelFacts, OpenFacts DEF IInv, FlagInv
  <1>6. \A d \in Core \ {Boot} : st'[d] = st[d] /\ level'[d] = level[d]
    BY <1>1 DEF IInv, FlagInv
  <1>7. LevelCountsLogs'
    BY <1>1, <1>5, <1>6, OtherLevels
  <1>8. ASSUME NEW d \in Core, ints'[d] PROVE Unmasked(d, Len(st[d]))'
    <2>1. Unmasked(d, Len(st[d]))
      BY <1>1, <1>8 DEF IInv, MaskInv
    <2>. QED  BY <1>1, <2>1 DEF Unmasked
  <1>9. ASSUME NEW d \in Core, NEW k \in 2 .. Len(st'[d]), st'[d][k].iff
        PROVE  Unmasked(d, k - 1)'
    <2>1. d # Boot
      BY <1>1, <1>9
    <2>. QED  BY <1>1, <1>9, <2>1, OtherMasks
  <1>10. MainInv'
    <2>1. Top(Boot) = st[Boot][1]
      BY <1>1 DEF Top
    <2>. QED  BY <1>1, <2>1, TopFacts DEF IInv, MainInv
  <1>. QED  BY <1>2, <1>3, <1>7, <1>8, <1>9, <1>10 DEF IInv, MaskInv

\* It turns interrupts off, since nothing else holds the level.
LEMMA MainDisablesStep ==
  ASSUME IInv, MainDisables
  PROVE  IInv'
  <1>1. /\ Len(st[Boot]) = 1 /\ Boot \in Core /\ main = "raised" /\ main' = "locked"
        /\ ints' = [ints EXCEPT ![Boot] = @ /\ level[Boot] # 1]
        /\ st' = st /\ UNCHANGED <<level, print, once, timer, service, debug>>
    BY TrapsAssumption DEF MainDisables
  <1>2. FlagInv'
    BY <1>1 DEF IInv, FlagInv
  <1>3. StackInv'
    BY <1>1 DEF IInv, StackInv
  <1>4. LevelCountsLogs'
    BY <1>1 DEF IInv, LevelCountsLogs
  <1>5. level[Boot] = 1
    <2>1. st[Boot][1].todo = <<>>
      BY <1>1 DEF IInv, MainInv
    <2>2. Open(Boot) = {}
      BY <1>1, <2>1 DEF Open, InLog, Masked
    <2>3. Cardinality(Open(Boot)) = 0
      BY <2>2, FS_EmptySet
    <2>. QED  BY <1>1, <2>3, LevelFacts
  <1>6. ~ints'[Boot] /\ \A d \in Core \ {Boot} : ints'[d] = ints[d]
    BY <1>1, <1>5 DEF IInv, FlagInv
  <1>7. ASSUME NEW d \in Core, ints'[d] PROVE Unmasked(d, Len(st[d]))'
    BY <1>1, <1>6, <1>7, OtherMasks
  <1>8. ASSUME NEW d \in Core, NEW k \in 2 .. Len(st'[d]), st'[d][k].iff
        PROVE  Unmasked(d, k - 1)'
    <2>1. d # Boot
      BY <1>1, <1>8
    <2>. QED  BY <1>1, <1>6, <1>8, <2>1, OtherMasks
  <1>9. MainInv'
    BY <1>1 DEF MainInv
  <1>. QED  BY <1>2, <1>3, <1>4, <1>7, <1>8, <1>9 DEF IInv, MaskInv

-----------------------------------------------------------------------------
(* The theorems.                                                           *)

\* The invariant holds before the first LOG.
LEMMA InitInv == Init => IInv
  <1>. SUFFICES ASSUME Init PROVE IInv
    OBVIOUS
  <1>. DEFINE a == [vec |-> -1, iff |-> FALSE, todo |-> <<>>]
  <1>1. a \in Activation
    BY DEF Activation
  <1>2. ~Misframed(-1)
    BY DEF Misframed, CpuWords, StubWords, FrameWords
  <1>3. WellFormed(a) /\ ~InLog(a)
    BY <1>2 DEF WellFormed, Ordered, InLog, Masked
  <1>4. a.vec = -1
    OBVIOUS
  <1>. HIDE DEF a
  <1>5. \A c \in Core : st[c] = <<a>> /\ Len(st[c]) = 1 /\ st[c][1] = a
    BY DEF Init, a
  <1>6. st \in [Core -> Seq(Activation)]
    BY <1>1 DEF Init, a
  <1>7. StackInv
    <2>1. ASSUME NEW c \in Core
          PROVE  /\ Len(st[c]) \in 1 .. MaxDepth /\ Len(st[c]) <= 3 /\ Len(st[c]) <= 2
                 /\ \A m \in 1 .. Len(st[c]) : m = 1
      <3>1. Len(st[c]) = 1
        BY <1>5
      <3>2. 1 \in 1 .. MaxDepth /\ \A m \in 1 .. 1 : m = 1
        BY TrapsAssumption
      <3>. QED  BY <3>1, <3>2
    <2>. QED  BY <1>3, <1>4, <1>5, <1>6, <2>1 DEF StackInv
  <1>8. \A c \in Core : Open(c) = {}
    BY <1>3, <1>5 DEF Open
  <1>9. LevelCountsLogs
    <2>1. \A c \in Core : level[c] = 0 /\ Cardinality(Open(c)) = 0 /\ main = "before"
      BY <1>8, FS_EmptySet DEF Init
    <2>. QED  BY <2>1 DEF LevelCountsLogs, Open
  <1>10. FlagInv
    <2>1. level = [c \in Core |-> 0] /\ ints = [c \in Core |-> FALSE] /\ main = "before"
      BY DEF Init
    <2>2. print \in BOOLEAN /\ once \in BOOLEAN /\ timer = {} /\ service = {} /\ debug = {}
      BY DEF Init
    <2>. QED  BY <2>1, <2>2 DEF FlagInv
  <1>11. MaskInv /\ MainInv
    BY <1>5 DEF MaskInv, MainInv, Init
  <1>. QED  BY <1>7, <1>9, <1>10, <1>11 DEF IInv

\* Every step preserves it.
LEMMA NextInv == IInv /\ [Next]_vars => IInv'
  <1>. SUFFICES ASSUME IInv, [Next]_vars PROVE IInv'
    OBVIOUS
  <1>1. CASE UNCHANGED vars
    BY <1>1 DEF vars, IInv, StackInv, FlagInv, LevelCountsLogs, MaskInv, MainInv, Unmasked
  <1>2. CASE Next
    <2>. PICK c \in Core :
           \/ CoreStep(c) \/ KernelLog(c) \/ init_APIC_timer(c) \/ EnterMain \/ MainDisables
           \/ Exception(c) \/ TimerInterrupt(c) \/ Waits(c)
      BY <1>2 DEF Next
    <2>1. CASE CoreStep(c)
      BY <2>1, LockStep, DisableStep, UnlockStep, EnableStep, PlainStep, IretStep DEF CoreStep
    <2>2. CASE Waits(c)
      BY <1>1, <2>2 DEF Waits
    <2>. QED  BY <2>1, <2>2, KernelLogStep, ArmStep, MainStep, MainDisablesStep,
              ExceptionStep, TimerStep
  <1>. QED  BY <1>1, <1>2

\* The inductive invariant of the traps.
THEOREM Invariance == Spec => []IInv
  BY InitInv, NextInv, PTL DEF Spec

\* The byte lock_level never wraps, whatever MaxDepth is: a core never has more
\* than three activations.
THEOREM TypeCorrect == Spec => []TypeOK
  <1>1. IInv => TypeOK
    <2>. SUFFICES ASSUME IInv PROVE TypeOK
      OBVIOUS
    <2>1. \A c \in Core : level[c] \in 0 .. 255
      BY LevelFacts, OpenFacts DEF IInv
    <2>. QED  BY <2>1 DEF IInv, StackInv, FlagInv, TypeOK
  <1>. QED  BY <1>1, Invariance, PTL

\* A core's level counts the LOGs open on its stack of handlers.
THEOREM LevelsCounted == Spec => []LevelCountsLogs
  <1>1. IInv => LevelCountsLogs
    BY DEF IInv
  <1>. QED  BY <1>1, Invariance, PTL

\* No exception whose stub gets the error code wrong ever reaches iretq.
THEOREM ReturnsAligned == Spec => []ReturnAligned
  <1>1. IInv => ReturnAligned
    <2>. SUFFICES ASSUME IInv, NEW c \in Core, Head1(c) = "iretq", Misframed(Top(c).vec)
                  PROVE  FALSE
      BY DEF ReturnAligned, Does, Misframed
    <2>1. /\ Top(c) \in Activation /\ WellFormed(Top(c)) /\ Top(c).todo # <<>>
          /\ Head(Top(c).todo) = "iretq"
      BY TopFacts DEF IInv
    <2>2. PICK s : s = Top(c).todo
      OBVIOUS
    <2>3. s \in Seq(Steps) /\ Len(s) \in Nat /\ s[1] = "iretq"
      BY <2>1, <2>2 DEF Activation
    <2>4. Len(s) > 1 /\ Ordered(s)
      BY <2>1, <2>2 DEF WellFormed
    <2>5. 1 \in 1 .. Len(s) - 1
      BY <2>3, <2>4
    <2>6. s[1 + 1] \in After["iretq"]
      BY <2>3, <2>4, <2>5 DEF Ordered
    <2>. QED  BY <2>6 DEF After
  <1>. QED  BY <1>1, Invariance, PTL

\* The timer interrupts no code that has returned from lock_ints: interrupts are
\* on in Unmasked code only.
THEOREM MaskedSafe == Spec => MaskedNotInterrupted
  <1>1. ASSUME IInv, Next, NEW c \in Core, Len(st'[c]) > Len(st[c]),
               st'[c][Len(st'[c])].vec = TimerVector
        PROVE  /\ \A n \in 1 .. Len(st[c]) : ~Masked(st[c][n])
               /\ ~(c = Boot /\ main = "locked")
    <2>. PICK d \in Core :
           \/ CoreStep(d) \/ KernelLog(d) \/ init_APIC_timer(d) \/ EnterMain \/ MainDisables
           \/ Exception(d) \/ TimerInterrupt(d) \/ Waits(d)
      BY <1>1 DEF Next
    <2>1. CASE TimerInterrupt(d)
      <3>1. d = c
        <4>1. st' = [st EXCEPT ![d] = Append(@, [vec |-> TimerVector, iff |-> ints[d],
                                                 todo |-> irq_handler])]
          BY <2>1 DEF TimerInterrupt, Push
        <4>. QED  BY <1>1, <4>1 DEF IInv, StackInv
      <3>2. ints[c]
        BY <2>1, <3>1 DEF TimerInterrupt
      <3>. QED  BY <1>1, <3>2 DEF IInv, MaskInv, Unmasked
    <2>2. CASE Exception(d)
      <3>1. PICK v \in Exceptions \cup {1} : Push(d, v, isr_handler(v))
        BY <2>2 DEF Exception, Faults
      <3>2. v # TimerVector
        BY TrapsAssumption DEF TimerVector
      <3>3. PICK a : a = [vec |-> v, iff |-> ints[d], todo |-> isr_handler(v)]
        OBVIOUS
      <3>4. st' = [st EXCEPT ![d] = Append(@, a)] /\ a.vec = v
        BY <3>1, <3>3 DEF Push
      <3>5. st[d] \in Seq(Activation) /\ st \in [Core -> Seq(Activation)]
        BY <1>1 DEF IInv, StackInv
      <3>6. d = c
        BY <1>1, <3>4, <3>5
      <3>7. st'[c][Len(st'[c])] = a
        <4>1. a \in Activation /\ WellFormed(a) /\ ~InLog(a)
          <5>1. v \in Int /\ v \notin {-1, TimerVector}
            BY TrapsAssumption DEF TimerVector
          <5>2. ints[d] \in BOOLEAN
            BY <1>1 DEF IInv, FlagInv
          <5>. QED  BY <3>3, <5>1, <5>2, IsrWellFormed
        <4>2. /\ Len(st'[c]) = Len(st[c]) + 1
              /\ st'[c][Len(st[c]) + 1] = a
          BY <1>1, <3>4, <3>6, <4>1, PushFacts DEF IInv
        <4>. QED  BY <4>2
      <3>. QED  BY <1>1, <3>2, <3>4, <3>7
    <2>3. CASE CoreStep(d)
      <3>1. CASE iretq(d)
        <4>1. \A e \in Core : Len(st'[e]) <= Len(st[e])
          <5>1. /\ Len(st[d]) \in Nat /\ Len(st'[d]) = Len(st[d]) - 1
                /\ \A e \in Core \ {d} : st'[e] = st[e]
            BY <1>1, <3>1, ReturnFacts, TopFacts DEF IInv
          <5>. QED  BY <1>1, <5>1, TopFacts DEF IInv
        <4>2. Len(st[c]) \in Nat /\ Len(st'[c]) \in Nat
          BY <1>1, NextInv, TopFacts DEF IInv, StackInv
        <4>. QED  BY <1>1, <4>1, <4>2
      <3>2. CASE ~iretq(d)
        <4>1. Pop(d) /\ Head1(d) \notin {"-", "hlt", "iretq"}
          BY <2>3, <3>2 DEF CoreStep, lock_ints, disable_ints, get_lock_print, PrintText,
             set_lock_print, unlock_ints, enable_ints, change_debug_mode, Does
        <4>2. \A e \in Core : Len(st'[e]) = Len(st[e])
          BY <1>1, <4>1, PopFacts DEF IInv
        <4>. QED  BY <1>1, <4>2, TopFacts DEF IInv
      <3>. QED  BY <3>1, <3>2
    <2>4. CASE KernelLog(d)
      <3>1. \A e \in Core : Len(st'[e]) = Len(st[e])
        BY <1>1, <2>4 DEF KernelLog, IInv, StackInv
      <3>. QED  BY <1>1, <3>1, TopFacts DEF IInv
    <2>5. CASE init_APIC_timer(d) \/ EnterMain \/ MainDisables \/ Waits(d)
      <3>1. st' = st
        BY <2>5 DEF init_APIC_timer, EnterMain, MainDisables, Waits, vars
      <3>. QED  BY <1>1, <3>1, TopFacts DEF IInv
    <2>. QED  BY <2>1, <2>2, <2>3, <2>4, <2>5
  <1>2. IInv /\ [Next]_vars =>
          [\A c \in Core : Len(st'[c]) > Len(st[c]) /\ st'[c][Len(st'[c])].vec = TimerVector
               => /\ \A n \in 1 .. Len(st[c]) : ~Masked(st[c][n])
                  /\ ~(c = Boot /\ main = "locked")]_vars
    BY <1>1
  <1>. QED  BY <1>2, Invariance, PTL DEF Spec, MaskedNotInterrupted
=============================================================================
