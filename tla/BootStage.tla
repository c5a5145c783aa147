----------------------------- MODULE BootStage -----------------------------
(***************************************************************************)
(* The 32-bit boot stage: its interrupts on a screen of their own, a       *)
(* screen that nothing interrupts, and the printing of formats and numbers *)
(* in the boot stage and the kernel.  The part chosen at the start moves,  *)
(* the others rest.                                                        *)
(***************************************************************************)
EXTENDS LegacyIrq

CONSTANTS
    PageWidth, PageHeight, PageTab,   \* the screen that nothing interrupts
    Formats, Args, Bits, Values       \* what is printed, see Format

VARIABLES
    part,                                  \* the one that moves
    page,                                  \* the screen
    format, at, used, buff, arr, last      \* Format

P == INSTANCE Screen WITH
    scr <- page, Width <- PageWidth, Height <- PageHeight, TabStop <- PageTab
F == INSTANCE Format

textVars == <<format, at, used, buff, arr, last>>
bootVars == <<vars, part, page, textVars>>

ASSUME BootStageAssumption ==
    S!ScreenAssumption /\ P!ScreenAssumption /\ F!FormatAssumption

BootInit ==
    /\ part \in {"irq", "screen", "text"}
    /\ Init /\ P!Init /\ F!Init
    /\ part # "text" => format = <<>>

BootNext ==
    \/ part = "irq" /\ Next /\ UNCHANGED <<part, page, textVars>>
    \/ part = "screen" /\ P!Next /\ UNCHANGED <<vars, part, textVars>>
    \/ part = "text" /\ F!Next /\ UNCHANGED <<vars, part, page>>

BootSpec == BootInit /\ [][BootNext]_bootVars

-----------------------------------------------------------------------------
(* Properties.                                                             *)

\* The types of the interrupts' part and of the screen's, and the blank rows the
\* screen's refinement rests on.
BootTypeOK == TypeOK /\ P!IInv

\* Whatever is typed and printed, the screen shows what an abstract terminal with
\* no buffer and no scrolling shows (putch, scroll, suppr, keyboard_handling).
ScreenImplements == P!ScreenImplements

\* The kernel's sprintf writes every character of a format and every argument in
\* its place, and takes as many arguments as the format has directives for one.
SprintfMeaning == F!SprintfMeaning

\* The numbers that the kernel and the boot stage print are the ones they were
\* given.
NumbersExact == F!NumbersExact
=============================================================================
