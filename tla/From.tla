---------------------------------- MODULE From ----------------------------------
(***************************************************************************)
(* parse_from: an image, and a name for the stage after the keyword AS.     *)
(* text is what is left once FROM and its options have been read.  A text   *)
(* has the letters of AS in it; "a" stands for any other byte of a word.    *)
(*                                                                          *)
(* Names Words has as well start with From: the proofs extend both.         *)
(***************************************************************************)
EXTENDS WordScanner

CONSTANTS NoName, NoError   \* as_ is None; nothing has failed

(* pc is "image", "image_gap", "as", "as_gap", "name", "name_gap", then     *)
(* "done" or "failed".                                                      *)
VARIABLES
  image,    \* <<>>, then the image
  as_start, \* where AS is looked for
  tmp,      \* token_slow's copy of s
  matched,  \* the letters of AS it has found
  name,     \* NoName, or the name
  error

fromVars == <<scanning, pc, image, as_start, tmp, matched, name, error>>

(* Where the instruction starts, which is before text.                      *)
Instruction == MaxLen + 1

-----------------------------------------------------------------------------
FromInit ==
  /\ ScanInit
  /\ pc = "image"
  /\ image = <<>>
  /\ as_start = 0
  /\ tmp = 0
  /\ matched = 0
  /\ name = NoName
  /\ error = NoError

Fail(kind, at) ==
  /\ pc' = "failed"
  /\ error' = [kind |-> kind, pos |-> at]

(* collect_non_whitespace                                                   *)
Collect ==
  /\ pc \in {"image", "name"}
  /\ WordContinued \/ WordByte(WordEnd)
  /\ UNCHANGED <<pc, image, as_start, tmp, matched, name, error>>

ImageEnds ==
  /\ pc = "image"
  /\ WordOver(WordEnd)
  /\ IF Value = <<>>
     THEN Fail("at_least_one_argument", Instruction) /\ UNCHANGED image
     ELSE pc' = "image_gap" /\ image' = Value /\ UNCHANGED error
  /\ has_space' = FALSE
  /\ UNCHANGED <<text, s, start, word_start, buf, as_start, tmp, matched, name>>

(* consume_whitespaces                                                      *)
Skip ==
  /\ pc \in {"image_gap", "as_gap", "name_gap"}
  /\ GapBlank \/ GapContinued
  /\ UNCHANGED <<pc, image, as_start, tmp, matched, name, error>>

ImageGapEnds ==
  /\ pc = "image_gap"
  /\ GapOver
  /\ IF has_space
     THEN pc' = "as" /\ as_start' = s /\ tmp' = s
     ELSE pc' = "done" /\ UNCHANGED <<as_start, tmp>>
  /\ UNCHANGED <<scanning, image, matched, name, error>>

-----------------------------------------------------------------------------
(* token and token_slow: the letters of AS, continuations between them.     *)
Letter == <<{"A"}, {"S"}>>
TokenFits == Len(text) - s >= Len(Letter)
LetterNext == TokenFits /\ At(text, tmp, Letter[matched + 1])

AsLetter ==
  /\ pc = "as"
  /\ LetterNext
  /\ tmp' = tmp + 1
  /\ IF matched + 1 = Len(Letter)
     THEN pc' = "as_gap" /\ s' = tmp' /\ matched' = 0
     ELSE matched' = matched + 1 /\ UNCHANGED <<pc, s>>
  /\ has_space' = FALSE
  /\ UNCHANGED <<text, start, word_start, buf, image, as_start, name, error>>

AsContinued ==
  /\ pc = "as"
  /\ TokenFits /\ Continues(text, tmp)
  /\ tmp' = Continuation(text, tmp)
  /\ UNCHANGED <<scanning, pc, image, as_start, matched, name, error>>

LineEnd == s = Len(text) \/ At(text, s, {"lf"})

AsMissing ==
  /\ pc = "as"
  /\ ~LetterNext
  /\ ~(TokenFits /\ Continues(text, tmp))
  /\ IF LineEnd THEN pc' = "done" /\ UNCHANGED error ELSE Fail("AS", as_start)
  /\ UNCHANGED <<scanning, image, as_start, tmp, matched, name>>

(* Faulty variant of AsGapEnds: the name may follow without a gap.          *)
AsGapEndsAnywhere ==
  /\ pc = "as_gap"
  /\ GapOver
  /\ UNCHANGED <<text, s, has_space, image, as_start, tmp, matched, name, error>>
  /\ pc' = "name" /\ WordStarts

AsGapEnds ==
  /\ pc = "as_gap"
  /\ GapOver
  /\ UNCHANGED <<text, s, has_space, image, as_start, tmp, matched, name>>
  /\ IF has_space
     THEN pc' = "name" /\ WordStarts /\ UNCHANGED error
     ELSE Fail("AS", as_start) /\ UNCHANGED <<start, word_start, buf>>

NameEnds ==
  /\ pc = "name"
  /\ WordOver(WordEnd)
  /\ name' = Value
  /\ pc' = "name_gap"
  /\ has_space' = FALSE
  /\ UNCHANGED <<text, s, start, word_start, buf, image, as_start, tmp, matched, error>>

(* Faulty variant of NameGapEnds: the newline is consumed here, too.        *)
NameGapEndsPast ==
  /\ pc = "name_gap"
  /\ GapOver
  /\ IF LineEnd
     THEN pc' = "done" /\ s' = Newline(text, s) /\ UNCHANGED error
     ELSE Fail("newline_or_eof", s) /\ UNCHANGED s
  /\ UNCHANGED <<text, has_space, start, word_start, buf, image, as_start, tmp, matched, name>>

NameGapEnds ==
  /\ pc = "name_gap"
  /\ GapOver
  /\ IF LineEnd THEN pc' = "done" /\ UNCHANGED error ELSE Fail("newline_or_eof", s)
  /\ UNCHANGED <<scanning, image, as_start, tmp, matched, name>>

FromNext ==
  \/ Collect
  \/ ImageEnds
  \/ Skip
  \/ ImageGapEnds
  \/ AsLetter
  \/ AsContinued
  \/ AsMissing
  \/ AsGapEnds
  \/ NameEnds
  \/ NameGapEnds

FromSpec == FromInit /\ [][FromNext]_fromVars /\ WF_fromVars(FromNext)

-----------------------------------------------------------------------------
IsAs(word) == \E i, j \in word : i < j /\ word = {i, j} /\ text[i + 1] = "A" /\ text[j + 1] = "S"

Failed(kind, at) == pc = "failed" /\ error = [kind |-> kind, pos |-> at]

(* A FROM is read as the words of its line say, however they are broken up  *)
(* by continuations: one word is an image; a second one must be AS and must *)
(* be separated from the name, which may be empty if the line goes on with  *)
(* nothing but whitespace; there is no fourth.  An error is reported at the *)
(* first byte of the word it is about.                                      *)
WordsDecide ==
  pc \in {"done", "failed"} =>
    LET words == InOrder(LineWords(text))
        n == Len(words)
        named == n >= 2 /\ IsAs(words[2])
        apart == \E i \in Bytes(text) : i > Max(words[2])
    IN /\ n = 0 => Failed("at_least_one_argument", Instruction)
       /\ n >= 1 => Spells(image, words[1])
       /\ n = 1 => pc = "done" /\ name = NoName
       /\ n >= 2 /\ ~(named /\ apart) => Failed("AS", Min(words[2]))
       /\ n = 2 /\ named /\ apart => pc = "done" /\ name = <<>>
       /\ n = 3 /\ named => pc = "done" /\ Spells(name, words[3])
       /\ n >= 4 /\ named => Failed("newline_or_eof", Min(words[4]))

(* The newline is left to the loop over the instructions, nothing else is:  *)
(* the next instruction is looked for where this one's line ends.           *)
LeavesTheNewline ==
  pc = "done" =>
    /\ LineEnd
    /\ Newline(text, s) = After(text)
=============================================================================
