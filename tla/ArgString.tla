------------------------------- MODULE ArgString -------------------------------
(***************************************************************************)
(* The instructions whose argument is the rest of the line: ARG, ENV,       *)
(* LABEL, MAINTAINER, STOPSIGNAL, USER, WORKDIR.  text is what follows the  *)
(* keyword; the keyword must be separated from the argument                 *)
(* (consume_whitespaces_or_is_empty_line), the argument is collected        *)
(* (collect_until_line_consume_newline), trimmed (UnescapedString::trim_end)*)
(* and must not be empty.                                                   *)
(*                                                                          *)
(* A string is the sequence of the positions of its bytes in text, so that  *)
(* what a value is and where it comes from are both in it.                  *)
(***************************************************************************)
EXTENDS LineReader

(* pc is "separate", "collect", "trim", then "done", "empty" or "unknown".  *)
VARIABLES
  has_space,  \* whitespace was found after the keyword
  start,      \* full_word_start
  word_start, \* start of the piece being scanned
  buf,        \* the pieces before it
  value,      \* the value collected
  span_end    \* where its span ends; it starts at start

argVars == <<text, s, pc, has_space, start, word_start, buf, value, span_end>>

-----------------------------------------------------------------------------
ArgInit ==
  /\ text \in Inputs
  /\ s = 0
  /\ pc = "separate"
  /\ has_space = FALSE
  /\ start = 0
  /\ word_start = 0
  /\ buf = <<>>
  /\ value = <<>>
  /\ span_end = 0

SeparateBlank ==
  /\ pc = "separate"
  /\ At(text, s, Whitespace)
  /\ s' = s + 1
  /\ has_space' = TRUE
  /\ UNCHANGED <<text, pc, start, word_start, buf, value, span_end>>

SeparateContinued ==
  /\ pc = "separate"
  /\ Continues(text, s)
  /\ s' = Continuation(text, s)
  /\ UNCHANGED <<text, pc, has_space, start, word_start, buf, value, span_end>>

(* At the argument, or at the end of the line.                              *)
Separated ==
  /\ pc = "separate"
  /\ ~At(text, s, Whitespace) /\ ~Continues(text, s)
  /\ IF has_space \/ s = Len(text) \/ At(text, s, {"lf"})
     THEN pc' = "collect" /\ start' = s /\ word_start' = s
     ELSE pc' = "unknown" /\ UNCHANGED <<start, word_start>>
  /\ UNCHANGED <<text, s, has_space, buf, value, span_end>>

(* Faulty variant of Collected: one byte more is consumed.                  *)
CollectedPast(next) ==
  /\ value' = IF start = word_start THEN Piece(word_start, s) ELSE buf \o Piece(word_start, s)
  /\ span_end' = s
  /\ s' = next + 1
  /\ pc' = "trim"
  /\ UNCHANGED <<text, has_space, start, word_start, buf>>

(* The argument ends here, and s goes on behind its newline.                *)
Collected(next) ==
  /\ value' = IF start = word_start THEN Piece(word_start, s) ELSE buf \o Piece(word_start, s)
  /\ span_end' = s
  /\ s' = next
  /\ pc' = "trim"
  /\ UNCHANGED <<text, has_space, start, word_start, buf>>

CollectToEnd ==
  /\ pc = "collect"
  /\ s = Len(text)
  /\ Collected(s)

CollectToNewline ==
  /\ pc = "collect"
  /\ Newline(text, s) # s
  /\ Collected(Newline(text, s))

CollectContinued ==
  /\ pc = "collect"
  /\ Continues(text, s)
  /\ buf' = buf \o Piece(word_start, s)
  /\ s' = Continuation(text, s)
  /\ word_start' = s'
  /\ UNCHANGED <<text, pc, has_space, start, value, span_end>>

CollectByte ==
  /\ pc = "collect"
  /\ s < Len(text)
  /\ Newline(text, s) = s /\ ~Continues(text, s)
  /\ s' = s + 1
  /\ UNCHANGED <<text, pc, has_space, start, word_start, buf, value, span_end>>

(* The bytes of the value up to its last one that is not trimmed.           *)
Kept == Max({0} \cup {k \in DOMAIN value : text[value[k] + 1] \notin Whitespace \cup PossibleLine})

(* Faulty variant of TrimArgument: the span is not touched.                 *)
TrimArgumentValueOnly ==
  /\ pc = "trim"
  /\ value' = SubSeq(value, 1, Kept)
  /\ pc' = IF value' = <<>> THEN "empty" ELSE "done"
  /\ UNCHANGED <<text, s, has_space, start, word_start, buf, span_end>>

(* span.end is moved back by one for every byte removed from the value.     *)
TrimArgument ==
  /\ pc = "trim"
  /\ value' = SubSeq(value, 1, Kept)
  /\ span_end' = span_end - (Len(value) - Kept)
  /\ pc' = IF value' = <<>> THEN "empty" ELSE "done"
  /\ UNCHANGED <<text, s, has_space, start, word_start, buf>>

ArgNext ==
  \/ SeparateBlank
  \/ SeparateContinued
  \/ Separated
  \/ CollectToEnd
  \/ CollectToNewline
  \/ CollectContinued
  \/ CollectByte
  \/ TrimArgument

ArgSpec == ArgInit /\ [][ArgNext]_argVars /\ WF_argVars(ArgNext)

-----------------------------------------------------------------------------
TypeOK ==
  /\ text \in Inputs
  /\ s \in 0..Len(text)
  /\ pc \in {"separate", "collect", "trim", "done", "empty", "unknown"}
  /\ has_space \in BOOLEAN
  /\ start \in 0..Len(text)
  /\ word_start \in 0..Len(text)
  /\ buf \in Seq(0..MaxLen)
  /\ value \in Seq(0..MaxLen)
  /\ span_end \in 0..Len(text)

(* The argument is what the logical line says, whatever continuations,      *)
(* comments, blank lines and newlines it is made of; it is missing when     *)
(* that is blank, and the keyword is an other word when nothing separates   *)
(* the two.                                                                 *)
MeansTheLine ==
  pc \in {"done", "empty", "unknown"} =>
    LET line == Bytes(text)
        separated == line = {} \/ text[Min(line) + 1] \in Whitespace
    IN /\ pc = "unknown" <=> ~separated
       /\ separated => Spells(value, Trimmed(text, line)) /\ (value = <<>> <=> pc = "empty")

(* The next instruction is looked for from the line after.                  *)
ArgEndsWithTheLine == pc \in {"done", "empty"} => s = After(text)

(* The span starts with the first byte of the value and holds the last; it  *)
(* is exactly the value when the line has no continuation in it.            *)
SpanHolds ==
  pc = "done" =>
    /\ value[1] = start /\ Last(value) < span_end
    /\ start = word_start => value = Piece(start, span_end)

(* trim_end takes the trailing spaces off the span as it takes them off the *)
(* value: when it removes some, both end with the same byte.                *)
SpanTrimmedWithValue ==
  [][pc' = "done" /\ value' # value => span_end' = Last(value') + 1]_argVars
=============================================================================
