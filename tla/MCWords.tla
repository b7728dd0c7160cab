------------------------------- MODULE MCWords ---------------------------------
(***************************************************************************)
(* Words on the texts of LineTexts.                                         *)
(***************************************************************************)
EXTENDS Words, LineTexts
================================================================================
