------------------------------- MODULE Cells -------------------------------
(***************************************************************************)
(* The cells of an init file's text: a run of digits is its value, "CORES " *)
(* and every other character is negative.                                  *)
(***************************************************************************)
EXTENDS Integers

Nul == -1
Newline == -2
Space == -3
CORES == -4               \* "CORES "
Letter(i) == -10 - i
InitName == <<Letter(0)>> \* INIT_FILE_NAME
None == -1                \* no number
=============================================================================
