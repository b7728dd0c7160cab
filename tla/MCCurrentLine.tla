---------------------------- MODULE MCCurrentLine ------------------------------
(***************************************************************************)
(* CurrentLine on the texts of LineTexts.                                   *)
(***************************************************************************)
EXTENDS CurrentLine, LineTexts
================================================================================
