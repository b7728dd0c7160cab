----------------------------- MODULE ParseResult -----------------------------
(***************************************************************************)
(* What parse() promises, with no loop in it: one step from a text to the   *)
(* only result it has.                                                      *)
(***************************************************************************)
EXTENDS Instructions

CONSTANT Pending

VARIABLE result

(* A stage runs from its FROM to the next one, or to the end of the text.   *)
StageEnd(t, i) == IF \E j \in Froms(t) : j > i
                  THEN CHOOSE e \in i..Len(t) : e + 1 \in Froms(t) /\ \A j \in i+1..e : j \notin Froms(t)
                  ELSE Len(t)

StageSet(t) == {[start |-> i - 1, end |-> StageEnd(t, i)] : i \in Froms(t)}

(* Which stage each name denotes, by the offset the stage starts at.        *)
NameSet(t) == {<<t[i].as_, i - 1>> : i \in {j \in Froms(t) : t[j].as_ # NoName}}

Failed(e) == [ok |-> FALSE, error |-> e]
Parsed(t) == [ok |-> TRUE, stages |-> StageSet(t), names |-> NameSet(t)]

(* The first fault decides; a text without one must have a stage, and must  *)
(* not use a name twice.                                                    *)
IsResult(t, r) ==
  \/ \E i \in DOMAIN t : FirstFault(t, i) /\ r = Failed(FaultError(t, i))
  \/ /\ \A i \in DOMAIN t : ~Faulty(t, i)
     /\ \/ Froms(t) = {} /\ r = Failed(NoStage)
        \/ \E i \in DOMAIN t : FirstReuse(t, i) /\ r = Failed(DuplicateName(i))
        \/ /\ Froms(t) # {}
           /\ \A i \in DOMAIN t : ~Reused(t, i)
           /\ r = Parsed(t)

Init == text \in Texts /\ result = Pending

Decide == result = Pending /\ IsResult(text, result') /\ UNCHANGED text

Spec == Init /\ [][Decide]_<<text, result>>
=============================================================================
