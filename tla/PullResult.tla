----------------------------- MODULE PullResult -----------------------------
(***************************************************************************)
(* What the iterator of parse_iter() promises to its caller, in terms of    *)
(* the text and of what the last call returned only: the instructions       *)
(* before the first fault one by one, then the error if there is one, then  *)
(* None for ever.                                                           *)
(***************************************************************************)
EXTENDS Instructions

VARIABLE last

Init == text \in Texts /\ last = NotCalled

(* Instructions have been returned up to position last.at.                  *)
Serving == last.kind \in {"NotCalled", "Some"}

Serve ==
  /\ Serving
  /\ last.at < Len(text)
  /\ ~Faulty(text, last.at + 1)
  /\ last' = Some(last.at + 1)

Report ==
  /\ Serving
  /\ last' = IF last.at < Len(text) THEN FaultError(text, last.at + 1) ELSE NoStage
  /\ last.at < Len(text) => Faulty(text, last.at + 1)
  /\ last.at = Len(text) => Froms(text) = {}

End ==
  /\ Serving => last.at = Len(text) /\ Froms(text) # {}
  /\ last' = None

Next == (Serve \/ Report \/ End) /\ UNCHANGED text

Spec == Init /\ [][Next]_<<text, last>>
=============================================================================
