------------------------------ MODULE LineTexts --------------------------------
(***************************************************************************)
(* The texts the line scanners are checked on: all of up to seven bytes with*)
(* continuations, comments and blank lines, and all of up to six with both  *)
(* newlines and with whitespace that may not follow an escape byte.         *)
(***************************************************************************)
EXTENDS SequencesExt

Lines7 == SeqOf({"a", "sp", "lf", "hash", "esc"}, 7)
Newlines6 == SeqOf({"a", "sp", "lf", "cr", "ff", "esc"}, 6)

McInputs == Lines7 \cup Newlines6
================================================================================
