------------------------------ MODULE WordScanner ------------------------------
(***************************************************************************)
(* Reading a line word by word: collect_until, which collects a word up to  *)
(* a byte of its mask, and consume_whitespaces, which moves on to the next  *)
(* one.  Both step over continuations.  The modules that extend this one    *)
(* are the loops that alternate the two.                                    *)
(*                                                                          *)
(* A string is the sequence of the positions of its bytes in text, as in    *)
(* ArgString.                                                               *)
(***************************************************************************)
EXTENDS LogicalWords

VARIABLES
  text,       \* what the callers leave to read; never changes
  s,          \* the position reached
  has_space,  \* consume_whitespaces has found some
  start,      \* full_word_start
  word_start, \* start of the piece being scanned
  buf,        \* the pieces before it
  pc          \* where the loop is that calls; what it can be is the loop's

scanning == <<text, s, has_space, start, word_start, buf>>

(* UNTIL_MASK of collect_non_whitespace.                                    *)
WordEnd == Whitespace \cup PossibleLine

(* An UnescapedString.                                                      *)
Word == [value : Seq(0..MaxLen), start : 0..MaxLen, end : 0..MaxLen]

-----------------------------------------------------------------------------
(* The callers have consumed the whitespace and continuations before text.  *)
ScanInit ==
  /\ text \in Inputs
  /\ ~At(text, 0, Whitespace) /\ ~Continues(text, 0)
  /\ s = 0
  /\ has_space = FALSE
  /\ start = 0
  /\ word_start = 0
  /\ buf = <<>>

(* A word starts where s is left.                                           *)
WordStarts ==
  /\ start' = s'
  /\ word_start' = s'
  /\ buf' = <<>>

(* Faulty variant of WordContinued: the piece so far is dropped.            *)
WordContinuedLosing ==
  /\ Continues(text, s)
  /\ s' = Continuation(text, s)
  /\ word_start' = s'
  /\ UNCHANGED <<text, has_space, start, buf>>

WordContinued ==
  /\ Continues(text, s)
  /\ buf' = buf \o Piece(word_start, s)
  /\ s' = Continuation(text, s)
  /\ word_start' = s'
  /\ UNCHANGED <<text, has_space, start>>

WordByte(until) ==
  /\ s < Len(text)
  /\ ~At(text, s, until) /\ ~Continues(text, s)
  /\ s' = s + 1
  /\ UNCHANGED <<text, has_space, start, word_start, buf>>

WordOver(until) == s = Len(text) \/ At(text, s, until)

Value == IF start = word_start THEN Piece(word_start, s) ELSE buf \o Piece(word_start, s)

Unescaped == [value |-> Value, start |-> start, end |-> s]

-----------------------------------------------------------------------------
GapBlank ==
  /\ At(text, s, Whitespace)
  /\ s' = s + 1
  /\ has_space' = TRUE
  /\ UNCHANGED <<text, start, word_start, buf>>

(* Faulty variant of GapContinued: s is left where it is.                   *)
GapContinuedInPlace ==
  /\ Continues(text, s)
  /\ UNCHANGED scanning

GapContinued ==
  /\ Continues(text, s)
  /\ s' = Continuation(text, s)
  /\ UNCHANGED <<text, has_space, start, word_start, buf>>

GapOver == ~At(text, s, Whitespace) /\ ~Continues(text, s)

-----------------------------------------------------------------------------
ScanTypeOK ==
  /\ text \in Seq(Char) /\ Len(text) <= MaxLen
  /\ s \in 0..Len(text)
  /\ has_space \in BOOLEAN
  /\ start \in 0..Len(text) /\ word_start \in 0..Len(text)
  /\ buf \in Seq(0..MaxLen)
=============================================================================
