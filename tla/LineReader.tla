------------------------------- MODULE LineReader ------------------------------
(***************************************************************************)
(* What the calls that take the rest of a logical line as one argument have *)
(* in common: the text, as in Words, and how far it has been read.          *)
(***************************************************************************)
EXTENDS LogicalLine

VARIABLES
  text, \* what the callers leave to read; never changes
  s,    \* the position reached
  pc    \* where the call is; what it can be is the reader's
================================================================================
