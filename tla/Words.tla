--------------------------------- MODULE Words ---------------------------------
(***************************************************************************)
(* collect_space_separated_consume_line: the arguments of EXPOSE, VOLUME,   *)
(* ADD and COPY when they are no JSON array.  text is what is left once the *)
(* keyword and the options have been read.                                  *)
(***************************************************************************)
EXTENDS WordScanner

VARIABLE
  res  \* the words so far, each with its span; pc is "word", "gap", "line",
       \* then "done", "empty" or "stray"

vars == <<scanning, pc, res>>

-----------------------------------------------------------------------------
Init ==
  /\ ScanInit
  /\ pc = "word"
  /\ res = <<>>

InWord ==
  /\ pc = "word"
  /\ WordContinued \/ WordByte(WordEnd)
  /\ UNCHANGED <<pc, res>>

(* A word is kept unless it is empty, which means that the line is over.    *)
WordEnds ==
  /\ pc = "word"
  /\ WordOver(WordEnd)
  /\ IF Value = <<>>
     THEN pc' = "line" /\ UNCHANGED res
     ELSE pc' = "gap" /\ res' = Append(res, Unescaped)
  /\ has_space' = FALSE
  /\ UNCHANGED <<text, s, start, word_start, buf>>

InGap ==
  /\ pc = "gap"
  /\ GapBlank \/ GapContinued
  /\ UNCHANGED <<pc, res>>

(* Faulty variant of GapEnds: the span goes on from the word before.        *)
GapEndsSameStart ==
  /\ pc = "gap"
  /\ GapOver
  /\ IF has_space
     THEN pc' = "word" /\ word_start' = s /\ buf' = <<>>
     ELSE pc' = "line" /\ UNCHANGED <<word_start, buf>>
  /\ UNCHANGED <<text, s, has_space, start, res>>

GapEnds ==
  /\ pc = "gap"
  /\ GapOver
  /\ UNCHANGED <<text, s, has_space, res>>
  /\ IF has_space
     THEN pc' = "word" /\ WordStarts
     ELSE pc' = "line" /\ UNCHANGED <<start, word_start, buf>>

(* What follows the last word is a newline or nothing: debug_assert!.       *)
LineConsumed ==
  /\ pc = "line"
  /\ s' = Newline(text, s)
  /\ pc' = IF s' = s /\ s < Len(text) THEN "stray"
           ELSE IF res = <<>> THEN "empty" ELSE "done"
  /\ UNCHANGED <<text, has_space, start, word_start, buf, res>>

Next ==
  \/ InWord
  \/ WordEnds
  \/ InGap
  \/ GapEnds
  \/ LineConsumed

Spec == Init /\ [][Next]_vars /\ WF_vars(Next)

-----------------------------------------------------------------------------
TypeOK ==
  /\ ScanTypeOK
  /\ pc \in {"word", "gap", "line", "done", "empty", "stray"}
  /\ res \in Seq(Word)

(* The words are those of the logical line, in order; none is left out, and *)
(* the list is empty only when the line is.                                 *)
WordsOfTheLine ==
  pc \in {"done", "empty"} =>
    LET words == InOrder(LineWords(text))
    IN /\ pc = "empty" <=> words = <<>>
       /\ Len(res) = Len(words)
       /\ \A w \in DOMAIN res : Spells(res[w].value, words[w])

(* All of the line is consumed, and nothing else: the scanners of the other *)
(* instructions end at the same place.  Nothing is left behind the words,   *)
(* as debug_assert!(consumed) has it, in a release build, too.              *)
EndsWithTheLine ==
  /\ pc # "stray"
  /\ pc \in {"done", "empty"} => s = After(text)

(* The spans are in order and apart; each starts with its word and holds it.*)
SpansApart ==
  \A w \in DOMAIN res :
    /\ res[w].start = res[w].value[1]
    /\ Last(res[w].value) < res[w].end
    /\ \A v \in w+1..Len(res) : res[w].end < res[v].start
=============================================================================
