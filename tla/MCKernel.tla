------------------------------ MODULE MCKernel ------------------------------
(***************************************************************************)
(* Instances of KernelProperties for TLC.                                  *)
(***************************************************************************)
EXTENDS KernelProperties

File(n, p0, p1, p2) ==
    [cores |-> n, programs |-> [c \in Core |-> <<p0, p1, p2>>[c + 1]]]

\* "a" and "c" are executables, "b" is a file check_elf refuses, and "x"
\* is in no file.
MCSegments == [a |-> 1, b |-> 0, c |-> 2]

\* Three cores: all hanging, distinct programs, a program shared by two
\* application processors, one shared with the boot core, a missing file, fewer
\* cores than there are and more.
MCFiles ==
    {File(3, Hang, Hang, Hang), File(3, "a", "b", "c"), File(3, Hang, "a", "a"),
     File(3, "a", "a", "b"), File(2, "b", "x", Hang), File(1, "a", "a", "a"),
     File(4, Hang, "a", "b")}

\* A program of its own for the boot core and an application processor; the
\* other one polls.
MCLaunch == {File(3, "a", "c", Hang)}

\* One executable on the only application processor, the boot core hangs.
MCOneProgram == {File(2, Hang, "a", Hang)}

\* Two application processors with the same program, the boot core hangs.
MCSharedProgram == {File(3, Hang, "a", "a")}
=============================================================================
