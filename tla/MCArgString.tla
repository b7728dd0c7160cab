----------------------------- MODULE MCArgString -------------------------------
(***************************************************************************)
(* ArgString on the texts of LineTexts.                                     *)
(***************************************************************************)
EXTENDS ArgString, LineTexts
================================================================================
