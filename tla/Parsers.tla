-------------------------------- MODULE Parsers --------------------------------
(***************************************************************************)
(* parse() and parse_iter() on the same text.  The two share no state but   *)
(* the input: the steps of the one call of parse() interleave with the      *)
(* calls of next() in every way, as when two threads, or a caller that      *)
(* holds both, read one &str.                                               *)
(***************************************************************************)
EXTENDS ParseDom, ParseIter

BothInit == Init /\ IterInit

BothNext ==
  \/ Next /\ UNCHANGED iterVars
  \/ IterNext /\ UNCHANGED vars

BothSpec == BothInit /\ [][BothNext]_<<vars, iterVars>>

-----------------------------------------------------------------------------
Finished == last = None \/ reported # <<>>

(* What the iterator returns is what parse() collects: never an instruction *)
(* beyond those of the Dockerfile, and all of them by the time it ends.     *)
SameInstructions ==
  pc = "ok" => /\ reported = <<>>
               /\ IsPrefix(yielded, instructions)
               /\ last = None => yielded = instructions

(* "Unlike parse function, the returned iterator doesn't error on duplicate *)
(* stage names" (doc of parse_iter), and on nothing else do the two differ: *)
(* the iterator's only error is the one parse() returns, at the same place, *)
(* and it has none where parse() succeeds or objects to a name only.        *)
SameErrors ==
  pc \in {"ok", "err"} /\ Finished =>
    reported = IF error = NotCalled \/ error.kind = "DuplicateName" THEN <<>> ELSE <<error>>
=============================================================================
