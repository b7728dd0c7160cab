------------------------------- MODULE Location ---------------------------------
(***************************************************************************)
(* Where an error is: the line and the column of a position, as error.rs    *)
(* computes them, and what they mean.  t is the text.                       *)
(***************************************************************************)
EXTENDS Naturals, Sequences, SequencesExt

(* text.get(..pos).unwrap_or_default()                                      *)
UpTo(pos, t) == IF pos <= Len(t) THEN SubSeq(t, 1, pos) ELSE <<>>
NewlinesIn(bytes) == {k \in DOMAIN bytes : bytes[k] = "lf"}

find_line_from_pos(pos, t) == Cardinality(NewlinesIn(UpTo(pos, t))) + 1

(* Faulty variant of memrchr: the distance from the front.                  *)
memrchrFront(bytes) == Max(NewlinesIn(bytes))

(* The distance of the last newline from the end of bytes.                  *)
memrchr(bytes) == Len(bytes) - Max(NewlinesIn(bytes))

column(pos, t) ==
  (IF NewlinesIn(UpTo(pos, t)) = {} THEN pos ELSE memrchr(UpTo(pos, t))) + 1

find_location_from_pos(pos, t) == [line |-> find_line_from_pos(pos, t), column |-> column(pos, t)]

-----------------------------------------------------------------------------
(* The position a line and a column name.  Lines and columns count from 1,  *)
(* and the newline is the last byte of its line.                            *)
LineStartsOf(t) == {0} \cup NewlinesIn(t)
IsNthLine(l, n, t) == l \in LineStartsOf(t) /\ Cardinality({k \in LineStartsOf(t) : k <= l}) = n
Names(location, pos, t) ==
  \E l \in LineStartsOf(t) :
    /\ IsNthLine(l, location.line, t)
    /\ pos = l + location.column - 1
    /\ \A k \in LineStartsOf(t) : k > l => pos < k
=============================================================================
