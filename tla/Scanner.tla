-------------------------------- MODULE Scanner --------------------------------
(***************************************************************************)
(* What the byte scanners of lib.rs do.  A text is a sequence of bytes; a    *)
(* position in it is the number of bytes before s, as in                    *)
(* text.len() - s.len(), and every scanner is the position it leaves s at.  *)
(*                                                                          *)
(* Bytes are those the TABLE tells apart: "esc" is the escape byte in       *)
(* effect, "sp" a space or tab (and "tab" a tab where it matters), "ff" the *)
(* whitespace that is neither, and "a" (with "dash", "eq" and the like      *)
(* where they are used) an other byte.                                      *)
(***************************************************************************)
EXTENDS Naturals, Sequences, SequencesExt

CONSTANTS Char,    \* the bytes texts are made of
          MaxLen,  \* bound on the length of a text
          Inputs   \* the texts that are read

Space == {"sp", "tab"}
Whitespace == {"sp", "tab", "ff", "cr"}
PossibleLine == {"lf", "cr"}

ASSUME CharAssumption == Char \subseteq STRING
ASSUME MaxLenAssumption == MaxLen \in Nat
ASSUME InputsAssumption ==
  /\ Inputs \subseteq Seq(Char)
  /\ \A t \in Inputs : Len(t) <= MaxLen

-----------------------------------------------------------------------------
(* The byte at i is there and is in C.                                      *)
At(t, i, C) == i < Len(t) /\ t[i + 1] \in C

(* Past the bytes of C from i on.                                           *)
SkipWhile(t, i, C) == Min({j \in i..Len(t) : ~At(t, j, C)})

(* The bytes from i up to j, as their positions.                            *)
Piece(i, j) == [k \in 1..(j - i) |-> i + k - 1]

(* The positions before n that are in bytes, in the order of the text.      *)
Ordered(bytes, n) ==
  LET upto[i \in 0..n] ==
        IF i = 0 THEN <<>>
        ELSE IF i - 1 \in bytes THEN Append(upto[i - 1], i - 1)
        ELSE upto[i - 1]
  IN upto[n]

(* The string of those bytes, in the order of the text.                     *)
Spells(string, bytes) ==
  /\ \A j, k \in DOMAIN string : j < k => string[j] < string[k]
  /\ {string[k] : k \in DOMAIN string} = bytes

(* Faulty variant of Newline: a carriage return is a newline of its own.    *)
NewlineAnyCr(t, i) ==
  IF At(t, i, {"lf"}) THEN i + 1
  ELSE IF At(t, i, {"cr"}) /\ At(t, i + 1, {"lf"}) THEN i + 2
  ELSE IF At(t, i, {"cr"}) THEN i + 1
  ELSE i

(* consume_newline: past the newline at i, or i where there is none.        *)
Newline(t, i) ==
  IF At(t, i, {"lf"}) THEN i + 1
  ELSE IF At(t, i, {"cr"}) /\ At(t, i + 1, {"lf"}) THEN i + 2
  ELSE i

(* The positions a line starts at, from i on, the end of the text included. *)
LineStarts(t, i) == {i, Len(t)} \cup {k \in i + 1..Len(t) : t[k] = "lf"}

(* consume_current_line_no_line_continuation: past the next newline.        *)
NextLine(t, i) == Min({Len(t)} \cup {k \in i + 1..Len(t) : t[k] = "lf"})

(* Faulty variant of Skipped: a comment starts its line.                    *)
SkippedUnindented(t, k) ==
  At(t, k, {"hash"}) \/ At(t, SkipWhile(t, k, Whitespace), {"lf"})

(* followup: past the lines that are blank or a comment.  Whitespace at the *)
(* end of the text is no blank line.                                        *)
Skipped(t, k) == At(t, SkipWhile(t, k, Whitespace), {"hash", "lf"})

(* Faulty variant of Followup: a blank line ends the instruction.           *)
FollowupNoBlank(t, i) == Min({k \in LineStarts(t, i) : ~(Skipped(t, k) /\ ~At(t, k, {"lf"}))})

Followup(t, i) == Min({k \in LineStarts(t, i) : ~Skipped(t, k)})

(* Faulty variant of Continuation: nothing between escape byte and newline. *)
ContinuationStrict(t, i) ==
  LET n == Newline(t, i + 1)
  IN IF At(t, i, {"esc"}) /\ n # i + 1 THEN Followup(t, n) ELSE i

(* consume_line_continuation: past the continuation at i and the lines that *)
(* do not count after it, or i where there is none.  Whitespace between the *)
(* escape byte and the newline is allowed when it starts with a Space.      *)
Continuation(t, i) ==
  LET w == IF At(t, i + 1, Space) THEN SkipWhile(t, i + 1, Whitespace) ELSE i + 1
      n == Newline(t, w)
  IN IF At(t, i, {"esc"}) /\ n # w THEN Followup(t, n) ELSE i

Continues(t, i) == Continuation(t, i) # i
=============================================================================
