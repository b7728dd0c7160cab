----------------------------- MODULE Instructions -----------------------------
(***************************************************************************)
(* The vocabulary shared by the two ways of parsing a dockerfile: parse(),  *)
(* which builds a Dockerfile, and ParseIter, which hands instructions out   *)
(* one at a time (src/lib.rs).                                              *)
(*                                                                          *)
(* A text is abstracted to the sequence of outcomes parse_instruction has   *)
(* on it, one per call: an instruction of one of the three kinds the        *)
(* callers tell apart, or an error.  "Other" stands for every instruction   *)
(* that is neither FROM nor ARG, ONBUILD included whatever it wraps.  An    *)
(* instruction is identified by the position of its outcome in the text,    *)
(* which plays the part of instruction_span().start.                        *)
(***************************************************************************)
EXTENDS Naturals, Sequences, SequencesExt

CONSTANTS Name,     \* the stage names that can follow AS
          NoName,   \* a FROM without AS
          MaxLen    \* bound on the number of parse_instruction calls

VARIABLE text  \* the input; never changes

ASSUME NameAssumption == NoName \notin Name
ASSUME MaxLenAssumption == MaxLen \in Nat

(* What one call of parse_instruction returns.                              *)
Outcome == [kind : {"From"}, as_ : Name \cup {NoName}]
             \cup [kind : {"Arg", "Other", "Error"}, as_ : {NoName}]

Texts == SeqOf(Outcome, MaxLen)

(* The errors parse() and ParseIter::next() can return.  "Instruction" is   *)
(* whatever parse_instruction failed with.  An error carries the position   *)
(* it is reported at; NoStage has none and is reported at 0.                *)
ErrorKind == {"Instruction", "ExpectedFrom", "NoStage", "DuplicateName"}
Error == [kind : ErrorKind, at : 0..MaxLen]

InstructionError(i) == [kind |-> "Instruction", at |-> i]
ExpectedFrom(i) == [kind |-> "ExpectedFrom", at |-> i]
NoStage == [kind |-> "NoStage", at |-> 0]
DuplicateName(i) == [kind |-> "DuplicateName", at |-> i]

(* The results of ParseIter::next() that are not errors.                    *)
Some(i) == [kind |-> "Some", at |-> i]
None == [kind |-> "None", at |-> 0]
NotCalled == [kind |-> "NotCalled", at |-> 0]

-----------------------------------------------------------------------------
(* What a text means, said without a parser: used by the specifications of  *)
(* what both parsers promise.                                               *)

FromBefore(t, i) == \E j \in 1..i-1 : t[j].kind = "From"

(* Position i cannot be part of a dockerfile: it does not parse, or it is   *)
(* an instruction other than ARG with no stage to belong to.                *)
Faulty(t, i) == \/ t[i].kind = "Error"
                \/ t[i].kind = "Other" /\ ~FromBefore(t, i)

FirstFault(t, i) == /\ i \in DOMAIN t
                    /\ Faulty(t, i)
                    /\ \A j \in 1..i-1 : ~Faulty(t, j)

(* The error for a text with a fault at i.                                  *)
FaultError(t, i) == IF t[i].kind = "Error" THEN InstructionError(i) ELSE ExpectedFrom(i)

(* The FROM at i reuses the name of an earlier stage.                       *)
Reused(t, i) == /\ t[i].kind = "From"
                /\ t[i].as_ # NoName
                /\ \E j \in 1..i-1 : t[j].kind = "From" /\ t[j].as_ = t[i].as_

Froms(t) == {i \in DOMAIN t : t[i].kind = "From"}

FirstReuse(t, i) == i \in DOMAIN t /\ Reused(t, i) /\ \A j \in 1..i-1 : ~Reused(t, j)
=============================================================================
