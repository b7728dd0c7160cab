---------------------------- MODULE WordReaders_proofs ---------------------------
(***************************************************************************)
(* Of every text, over any bytes and of any length: the words collected are *)
(* those of the logical line, each with a span that holds it, and the       *)
(* parser goes on with the line after; parse_from takes image and name, or  *)
(* fails, as the words of the logical line say, and leaves the newline to   *)
(* the loop over the instructions.                                          *)
(***************************************************************************)
EXTENDS Words, From, LogicalLine_proofs

(* The inductive invariant, phase by phase.                                 *)

(* A word is scanned; whitespace separates it from the words before.        *)
WordInv ==
  pc = "word" =>
    /\ Scanned(text, start, word_start, buf, s)
    /\ ~At(text, start, Whitespace)
    /\ Divided(text, res, start)
    /\ \A k \in 1..Len(res) : Apart(text, res[k].end, start)

(* Behind a word: has_space says whether whitespace followed it, and until  *)
(* then s is where the word ended.                                          *)
GapInv ==
  pc = "gap" =>
    /\ Walk(text, s)
    /\ Divided(text, res, s)
    /\ IF has_space THEN \A k \in 1..Len(res) : Apart(text, res[k].end, s) ELSE WordOver(WordEnd)

LineInv ==
  pc = "line" =>
    /\ Walk(text, s)
    /\ Divided(text, res, s)
    /\ s = Len(text) \/ At(text, s, {"lf"})

OverInv ==
  pc \in {"done", "empty"} =>
    /\ s = After(text)
    /\ Divided(text, res, Len(text))
    /\ pc = "empty" <=> res = <<>>

(* What was kept of a word is its bytes.                                    *)
Kept ==
  \A k \in 1..Len(res) :
    Collects(text, res[k].value, res[k].start, res[k].end)

IInv ==
  /\ text \in Inputs
  /\ TypeOK
  /\ WordInv
  /\ GapInv
  /\ LineInv
  /\ OverInv
  /\ pc # "stray"
  /\ Kept

-----------------------------------------------------------------------------
(* Positions are numbers within the text.                                   *)
LEMMA Positions ==
  ASSUME text \in Inputs, TypeOK
  PROVE  /\ MaxLen \in Nat /\ Len(text) \in Nat /\ Len(text) <= MaxLen
         /\ s \in 0..Len(text) /\ start \in 0..Len(text) /\ word_start \in 0..Len(text)
         /\ res \in Seq(Word) /\ Len(res) \in Nat
BY InputsAreSequences DEF TypeOK, ScanTypeOK

LEMMA InitInv == Init => IInv
<1>. SUFFICES ASSUME Init PROVE IInv
  OBVIOUS
<1>1. /\ text \in Inputs /\ s = 0 /\ start = 0 /\ word_start = 0 /\ buf = <<>> /\ res = <<>>
      /\ pc = "word" /\ has_space = FALSE
      /\ ~At(text, 0, Whitespace) /\ ~Continues(text, 0)
  BY DEF Init, ScanInit
<1>2. MaxLen \in Nat /\ Len(text) \in Nat /\ text \in Seq(Char) /\ Len(text) <= MaxLen
  BY <1>1, InputsAreSequences, InputsAssumption
<1>3. TypeOK
  <2>1. <<>> \in Seq(0..MaxLen) /\ <<>> \in Seq(Word)
    BY EmptySeq
  <2>2. 0 \in 0..Len(text)
    BY <1>2
  <2>. QED
    BY <1>1, <1>2, <2>1, <2>2 DEF TypeOK, ScanTypeOK
<1>4. WordInv
  <2>1. Scanned(text, start, word_start, buf, s)
    BY <1>1, <1>2, WalkStart, ScannedStart
  <2>2. Divided(text, res, start)
    BY <1>1 DEF Divided
  <2>. QED
    BY <1>1, <2>1, <2>2 DEF WordInv
<1>5. Kept
  BY <1>1 DEF Kept
<1>. QED
  BY <1>1, <1>3, <1>4, <1>5 DEF IInv, GapInv, LineInv, OverInv

(* A byte of a word, a continuation in it.                                  *)
LEMMA InWordInv ==
  ASSUME IInv, InWord
  PROVE  IInv'
<1>1. /\ MaxLen \in Nat /\ Len(text) \in Nat /\ Len(text) <= MaxLen
      /\ s \in 0..Len(text) /\ start \in 0..Len(text) /\ word_start \in 0..Len(text)
  BY Positions DEF IInv
<1>2. /\ pc = "word" /\ UNCHANGED <<text, has_space, start, pc, res>>
      /\ WordContinued \/ WordByte(WordEnd)
  BY DEF InWord, WordContinued, WordByte
<1>3. Scanned(text, start, word_start, buf, s)
  BY <1>2 DEF IInv, WordInv
<1>4. Scanned(text, start, word_start', buf', s') /\ word_start' \in 0..Len(text)
  <2>1. CASE WordContinued
    <3>1. Continues(text, s) /\ s' = Continuation(text, s) /\ word_start' = s'
          /\ buf' = buf \o Piece(word_start, s)
      BY <2>1 DEF WordContinued
    <3>2. Continuation(text, s) \in 0..Len(text)
      BY <1>1, ContinuationAdvances
    <3>. QED
      BY <1>1, <1>3, <3>1, <3>2, ScannedContinued
  <2>2. CASE WordByte(WordEnd)
    <3>1. s < Len(text) /\ ~Continues(text, s) /\ s' = s + 1 /\ UNCHANGED <<word_start, buf>>
          /\ text[s + 1] \notin Whitespace /\ text[s + 1] # "lf"
      BY <2>2 DEF WordByte, WordEnd, At, PossibleLine
    <3>. QED
      BY <1>1, <1>3, <3>1, ScannedByte
  <2>. QED
    BY <1>2, <2>1, <2>2
<1>5. TypeOK'
  <2>1. s' \in 0..Len(text)
    BY <1>4 DEF Scanned, Collecting, Walk
  <2>2. buf' \in Seq(0..MaxLen)
    <3>1. Collects(text, buf', start, word_start')
      BY <1>4 DEF Scanned, Collecting
    <3>. QED
      BY <1>1, <1>4, <3>1, CollectsPositions DEF IInv
  <2>. QED
    BY <1>2, <1>4, <2>1, <2>2 DEF IInv, TypeOK, ScanTypeOK
<1>6. WordInv'
  BY <1>2, <1>4 DEF IInv, WordInv
<1>. QED
  BY <1>2, <1>5, <1>6 DEF IInv, GapInv, LineInv, OverInv, Kept

(* The end of a word, which is kept if it is one.                           *)
LEMMA WordEndsInv ==
  ASSUME IInv, WordEnds
  PROVE  IInv'
<1>1. /\ MaxLen \in Nat /\ Len(text) \in Nat /\ Len(text) <= MaxLen
      /\ s \in 0..Len(text) /\ start \in 0..Len(text) /\ word_start \in 0..Len(text)
      /\ res \in Seq(Word) /\ Len(res) \in Nat
  BY Positions DEF IInv
<1>2. /\ pc = "word" /\ UNCHANGED <<text, s, start, word_start, buf>> /\ has_space' = FALSE
      /\ WordOver(WordEnd)
  BY DEF WordEnds
<1>3. /\ Scanned(text, start, word_start, buf, s)
      /\ ~At(text, start, Whitespace)
      /\ Divided(text, res, start)
      /\ \A k \in 1..Len(res) : Apart(text, res[k].end, start)
  BY <1>2 DEF IInv, WordInv
<1>4. /\ Collects(text, Value, start, s)
      /\ Value = <<>> <=> s = start
      /\ s # start => WordSpan(text, start, s)
  <2>1. Value = Gathered(start, word_start, buf, s)
    BY DEF Value, Gathered
  <2>. QED
    BY <1>1, <1>3, <2>1, ScannedIs
<1>5. Walk(text, s)
  BY <1>3 DEF Scanned, Collecting
<1>6. CASE Value = <<>>
  <2>1. pc' = "line" /\ UNCHANGED res
    BY <1>6 DEF WordEnds
  <2>2. TypeOK'
    BY <1>2, <2>1 DEF IInv, TypeOK, ScanTypeOK
  <2>3. LineInv'
    <3>1. s = Len(text) \/ At(text, s, {"lf"})
      BY <1>2, <1>3, <1>4, <1>6 DEF WordOver, WordEnd, At, Whitespace, PossibleLine
    <3>. QED
      BY <1>2, <1>3, <1>4, <1>5, <1>6, <2>1, <3>1 DEF LineInv
  <2>. QED
    BY <1>2, <2>1, <2>2, <2>3 DEF IInv, WordInv, GapInv, OverInv, Kept
<1>7. CASE Value # <<>>
  <2>1. pc' = "gap" /\ res' = Append(res, Unescaped)
    BY <1>7 DEF WordEnds
  <2>2. Unescaped \in Word
    <3>1. Value \in Seq(0..MaxLen)
      BY <1>1, <1>4, CollectsPositions DEF IInv
    <3>. QED
      BY <1>1, <3>1 DEF Unescaped, Word
  <2>3. /\ res' \in Seq(Word) /\ Len(res') = Len(res) + 1
        /\ \A k \in 1..Len(res) : res'[k] = res[k]
        /\ res'[Len(res) + 1] = Unescaped
    BY <1>1, <2>1, <2>2
  <2>4. TypeOK'
    BY <1>2, <2>1, <2>3 DEF IInv, TypeOK, ScanTypeOK
  <2>5. GapInv'
    <3>1. Unescaped.start = start /\ Unescaped.end = s
      BY DEF Unescaped
    <3>2. Divided(text, res', s)
      BY <1>1, <1>3, <1>4, <1>7, <2>3, <3>1, DividedMore
    <3>. QED
      BY <1>2, <1>5, <2>1, <3>2 DEF GapInv, WordOver
  <2>6. Kept'
    <3>1. ASSUME NEW k \in 1..Len(res')
          PROVE  Collects(text, res'[k].value, res'[k].start, res'[k].end)
      <4>1. CASE k \in 1..Len(res)
        BY <2>3, <4>1 DEF IInv, Kept
      <4>2. CASE k = Len(res) + 1
        BY <1>4, <2>3, <4>2 DEF Unescaped
      <4>. QED
        BY <1>1, <2>3, <4>1, <4>2
    <3>. QED
      BY <1>2, <3>1 DEF Kept
  <2>. QED
    BY <1>2, <2>1, <2>4, <2>5, <2>6 DEF IInv, WordInv, LineInv, OverInv
<1>. QED
  BY <1>6, <1>7

(* Whitespace between two words, a continuation in it.                      *)
LEMMA InGapInv ==
  ASSUME IInv, InGap
  PROVE  IInv'
<1>1. /\ MaxLen \in Nat /\ Len(text) \in Nat /\ Len(text) <= MaxLen
      /\ s \in 0..Len(text) /\ res \in Seq(Word) /\ Len(res) \in Nat
  BY Positions DEF IInv
<1>2. /\ pc = "gap" /\ UNCHANGED <<text, start, word_start, buf, pc, res>>
      /\ GapBlank \/ GapContinued
  BY DEF InGap, GapBlank, GapContinued
<1>3. /\ Walk(text, s)
      /\ Divided(text, res, s)
      /\ IF has_space THEN \A k \in 1..Len(res) : Apart(text, res[k].end, s) ELSE WordOver(WordEnd)
  BY <1>2 DEF IInv, GapInv
<1>4. \A k \in 1..Len(res) : res[k].end \in Nat /\ res[k].end <= s
  BY <1>3 DEF Divided, WordSpan
<1>5. /\ Walk(text, s') /\ s' \in 0..Len(text)
      /\ Divided(text, res, s')
      /\ has_space' = TRUE
      /\ \A k \in 1..Len(res) : Apart(text, res[k].end, s')
  <2>1. CASE GapBlank
    <3>1. At(text, s, Whitespace) /\ s' = s + 1 /\ has_space' = TRUE
      BY <2>1 DEF GapBlank
    <3>2. s < Len(text) /\ text[s + 1] \in Whitespace /\ text[s + 1] # "lf" /\ ~Continues(text, s)
      BY <1>1, <3>1, ContinuationAdvances DEF At, Whitespace
    <3>3. Walk(text, s + 1) /\ Belongs(text, s)
      BY <1>1, <1>3, <3>2, WalkByte
    <3>4. BlankAt(text, s)
      BY <3>2, <3>3 DEF BlankAt
    <3>5. \A b \in s..(s + 1) - 1 : ~SolidAt(text, b)
      <4>1. \A b \in s..(s + 1) - 1 : b = s
        BY <1>1
      <4>. QED
        BY <3>2, <4>1 DEF SolidAt
    <3>6. Divided(text, res, s + 1)
      BY <1>1, <1>3, <3>5, DividedSkip
    <3>7. ASSUME NEW k \in 1..Len(res)
          PROVE  Apart(text, res[k].end, s + 1)
      <4>1. s \in res[k].end..(s + 1) - 1
        BY <1>1, <1>4
      <4>. QED
        BY <3>4, <4>1 DEF Apart
    <3>. QED
      BY <1>1, <3>1, <3>2, <3>3, <3>6, <3>7
  <2>2. CASE GapContinued
    <3>1. Continues(text, s) /\ s' = Continuation(text, s) /\ UNCHANGED has_space
      BY <2>2 DEF GapContinued
    <3>2. At(text, s, {"esc"}) /\ s' \in s + 2..Len(text)
      BY <1>1, <3>1, ContinuationAdvances
    <3>3. Walk(text, s') /\ \A b \in s..s' - 1 : ~SolidAt(text, b)
      BY <1>1, <1>3, <3>1, WalkContinued DEF SolidAt
    <3>4. Divided(text, res, s')
      <4>1. s \in Nat /\ s' \in Nat /\ s <= s'
        BY <1>1, <3>2
      <4>. QED
        BY <1>3, <3>3, <4>1, DividedSkip
    <3>5. has_space = TRUE
      <4>1. ~WordOver(WordEnd)
        BY <1>1, <3>2 DEF WordOver, WordEnd, At, Whitespace, PossibleLine
      <4>. QED
        BY <1>3, <4>1 DEF IInv, TypeOK, ScanTypeOK
    <3>6. ASSUME NEW k \in 1..Len(res)
          PROVE  Apart(text, res[k].end, s')
      <4>1. PICK b \in res[k].end..s - 1 : BlankAt(text, b)
        BY <1>3, <3>5 DEF Apart
      <4>2. b \in res[k].end..s' - 1
        <5>1. ASSUME NEW e \in Nat, NEW n \in Nat, NEW m \in n + 2..Len(text), b \in e..n - 1
              PROVE  b \in e..m - 1
          BY <1>1, <5>1
        <5>2. res[k].end \in Nat /\ s \in Nat
          BY <1>1, <1>4
        <5>. QED
          BY <3>2, <4>1, <5>1, <5>2
      <4>. QED
        BY <4>1, <4>2 DEF Apart
    <3>. QED
      BY <1>1, <3>1, <3>2, <3>3, <3>4, <3>5, <3>6
  <2>. QED
    BY <1>2, <2>1, <2>2
<1>6. TypeOK'
  BY <1>2, <1>5 DEF IInv, TypeOK, ScanTypeOK
<1>7. GapInv'
  BY <1>2, <1>5 DEF GapInv
<1>. QED
  BY <1>2, <1>6, <1>7 DEF IInv, WordInv, LineInv, OverInv, Kept

(* The next word, or the end of the line.                                   *)
LEMMA GapEndsInv ==
  ASSUME IInv, GapEnds
  PROVE  IInv'
<1>1. /\ MaxLen \in Nat /\ Len(text) \in Nat /\ s \in 0..Len(text)
  BY Positions DEF IInv
<1>2. /\ pc = "gap" /\ UNCHANGED <<text, s, has_space, res>>
      /\ ~At(text, s, Whitespace) /\ ~Continues(text, s)
  BY DEF GapEnds, GapOver
<1>3. /\ Walk(text, s)
      /\ Divided(text, res, s)
      /\ IF has_space THEN \A k \in 1..Len(res) : Apart(text, res[k].end, s) ELSE WordOver(WordEnd)
  BY <1>2 DEF IInv, GapInv
<1>4. CASE has_space
  <2>1. pc' = "word" /\ start' = s /\ word_start' = s /\ buf' = <<>>
    BY <1>2, <1>4 DEF GapEnds, WordStarts
  <2>2. TypeOK'
    <3>1. <<>> \in Seq(0..MaxLen)
      BY EmptySeq
    <3>. QED
      BY <1>1, <1>2, <2>1, <3>1 DEF IInv, TypeOK, ScanTypeOK
  <2>3. WordInv'
    <3>1. Scanned(text, s, s, <<>>, s)
      BY <1>2, <1>3, ScannedStart
    <3>. QED
      BY <1>2, <1>3, <1>4, <2>1, <3>1 DEF WordInv
  <2>. QED
    BY <1>2, <2>1, <2>2, <2>3 DEF IInv, GapInv, LineInv, OverInv, Kept
<1>5. CASE ~has_space
  <2>1. pc' = "line" /\ UNCHANGED <<start, word_start, buf>>
    BY <1>2, <1>5 DEF GapEnds
  <2>2. TypeOK'
    BY <1>2, <2>1 DEF IInv, TypeOK, ScanTypeOK
  <2>3. LineInv'
    <3>1. s = Len(text) \/ At(text, s, {"lf"})
      BY <1>2, <1>3, <1>5 DEF WordOver, WordEnd, At, Whitespace, PossibleLine
    <3>. QED
      BY <1>2, <1>3, <2>1, <3>1 DEF LineInv
  <2>. QED
    BY <1>2, <2>1, <2>2, <2>3 DEF IInv, WordInv, GapInv, OverInv, Kept
<1>. QED
  BY <1>4, <1>5

(* The newline behind the words.                                            *)
LEMMA LineConsumedInv ==
  ASSUME IInv, LineConsumed
  PROVE  IInv'
<1>1. /\ MaxLen \in Nat /\ Len(text) \in Nat /\ s \in 0..Len(text)
  BY Positions DEF IInv
<1>2. /\ pc = "line" /\ UNCHANGED <<text, has_space, start, word_start, buf, res>>
      /\ s' = Newline(text, s)
      /\ pc' = IF s' = s /\ s < Len(text) THEN "stray" ELSE IF res = <<>> THEN "empty" ELSE "done"
  BY DEF LineConsumed
<1>3. /\ Walk(text, s)
      /\ Divided(text, res, s)
      /\ s = Len(text) \/ At(text, s, {"lf"})
  BY <1>2 DEF IInv, LineInv
<1>4. s' \in 0..Len(text) /\ (At(text, s, {"lf"}) => s' = s + 1)
  BY <1>1, <1>2, NewlineAdvances
<1>5. ~(s' = s /\ s < Len(text))
  BY <1>1, <1>3, <1>4
<1>6. pc' = IF res = <<>> THEN "empty" ELSE "done"
  BY <1>2, <1>5
<1>7. TypeOK'
  BY <1>2, <1>4, <1>6 DEF IInv, TypeOK, ScanTypeOK
<1>8. s' = After(text) /\ \A b \in s..Len(text) - 1 : ~Belongs(text, b)
  <2>1. CASE s = Len(text)
    <3>1. s' = Len(text)
      BY <1>1, <1>2, <2>1 DEF Newline, At
    <3>2. After(text) = Len(text)
      BY <1>1, <1>3, <2>1, WalkEnd
    <3>. QED
      BY <1>1, <2>1, <3>1, <3>2
  <2>2. CASE At(text, s, {"lf"})
    <3>1. Newline(text, s) # s /\ text[s + 1] = "lf"
      BY <1>1, <1>2, <1>4, <2>2 DEF At
    <3>2. After(text) = Newline(text, s) /\ \A b \in s..Len(text) : ~Belongs(text, b)
      BY <1>1, <1>3, <3>1, WalkNewline
    <3>3. \A b \in s..Len(text) - 1 : b \in s..Len(text)
      BY <1>1
    <3>. QED
      BY <1>2, <3>2, <3>3
  <2>. QED
    BY <1>3, <2>1, <2>2
<1>9. Divided(text, res, Len(text))
  BY <1>1, <1>3, <1>8, DividedSkip DEF SolidAt
<1>10. OverInv'
  BY <1>2, <1>6, <1>8, <1>9 DEF OverInv
<1>. QED
  BY <1>2, <1>6, <1>7, <1>10 DEF IInv, WordInv, GapInv, LineInv, Kept

LEMMA NextInv == IInv /\ [Next]_vars => IInv'
<1>. SUFFICES ASSUME IInv, [Next]_vars PROVE IInv'
  OBVIOUS
<1>1. CASE InWord
  BY <1>1, InWordInv
<1>2. CASE WordEnds
  BY <1>2, WordEndsInv
<1>3. CASE InGap
  BY <1>3, InGapInv
<1>4. CASE GapEnds
  BY <1>4, GapEndsInv
<1>5. CASE LineConsumed
  BY <1>5, LineConsumedInv
<1>6. CASE UNCHANGED vars
  BY <1>6 DEF vars, scanning, IInv, TypeOK, ScanTypeOK, WordInv, GapInv, LineInv, OverInv, Kept,
              WordOver
<1>. QED
  BY <1>1, <1>2, <1>3, <1>4, <1>5, <1>6 DEF Next

LEMMA Invariance == Spec => []IInv
BY InitInv, NextInv, PTL DEF Spec

-----------------------------------------------------------------------------
(* Every variable of collect_space_separated_consume_line keeps its type.   *)
THEOREM TypeCorrect == Spec => []TypeOK
<1>1. IInv => TypeOK
  BY DEF IInv
<1>. QED
  BY <1>1, Invariance, PTL

(* The words EXPOSE, VOLUME, ADD and COPY are given are those of their      *)
(* logical line, in its order and with all of their bytes, whatever         *)
(* continuations, comments, blank lines and newlines it is made of.         *)
THEOREM WordsCorrect == Spec => []WordsOfTheLine
<1>1. IInv => WordsOfTheLine
  <2>. SUFFICES ASSUME IInv, pc \in {"done", "empty"}
                PROVE  LET words == InOrder(LineWords(text))
                       IN /\ pc = "empty" <=> words = <<>>
                          /\ Len(res) = Len(words)
                          /\ \A w \in DOMAIN res : Spells(res[w].value, words[w])
    BY DEF WordsOfTheLine
  <2>. DEFINE words == InOrder(LineWords(text))
  <2>1. Len(text) \in Nat /\ res \in Seq(Word) /\ Len(res) \in Nat
    BY Positions DEF IInv
  <2>2. Divided(text, res, Len(text)) /\ (pc = "empty" <=> res = <<>>)
    BY DEF IInv, OverInv
  <2>3. words = [k \in 1..Len(res) |-> WordAt(text, res[k])]
    BY <2>1, <2>2, WordsAre
  <2>. HIDE DEF words
  <2>4. Len(words) = Len(res) /\ (words = <<>> <=> res = <<>>)
    BY <2>1, <2>3
  <2>5. ASSUME NEW w \in 1..Len(res)
        PROVE  Spells(res[w].value, words[w])
    <3>1. Collects(text, res[w].value, res[w].start, res[w].end)
      BY DEF IInv, Kept
    <3>2. Spells(res[w].value, WordAt(text, res[w]))
      BY <3>1, WordIsSpelt
    <3>3. words[w] = WordAt(text, res[w])
      BY <2>3
    <3>. QED
      BY <3>2, <3>3
  <2>6. DOMAIN res = 1..Len(res)
    BY <2>1
  <2>. QED
    BY <2>2, <2>4, <2>5, <2>6 DEF words
<1>. QED
  BY <1>1, Invariance, PTL

(* The whole line is consumed and nothing of the next one: the              *)
(* debug_assert!(consumed) of collect_space_separated_consume_line holds.   *)
THEOREM EndCorrect == Spec => []EndsWithTheLine
<1>1. IInv => EndsWithTheLine
  BY DEF IInv, OverInv, EndsWithTheLine
<1>. QED
  BY <1>1, Invariance, PTL

(* The spans of the words are apart, and each starts with its word's first  *)
(* byte and holds its last.                                                 *)
THEOREM SpansCorrect == Spec => []SpansApart
<1>1. ASSUME IInv
      PROVE  SpansApart
  <2>1. Len(text) \in Nat /\ res \in Seq(Word) /\ Len(res) \in Nat
    BY <1>1, Positions DEF IInv
  <2>2. \E n \in Nat : Divided(text, res, n)
    BY <1>1, <2>1, Positions DEF IInv, TypeOK, WordInv, GapInv, LineInv, OverInv
  <2>3. PICK n \in Nat : Divided(text, res, n)
    BY <2>2
  <2>4. ASSUME NEW w \in 1..Len(res)
        PROVE  /\ res[w].start \in Nat /\ res[w].end \in Nat
               /\ res[w].start < res[w].end /\ Belongs(text, res[w].start)
    BY <2>3 DEF Divided, WordSpan
  <2>5. ASSUME NEW w \in 1..Len(res)
        PROVE  res[w].start = res[w].value[1] /\ Last(res[w].value) < res[w].end
    <3>1. Collects(text, res[w].value, res[w].start, res[w].end)
      BY <1>1 DEF IInv, Kept
    <3>2. Len(res[w].value) >= 1 /\ res[w].value[1] = res[w].start
      BY <2>4, <3>1, CollectsFirst
    <3>3. Len(res[w].value) \in 1..Len(res[w].value)
      BY <3>1, <3>2 DEF Collects
    <3>4. Last(res[w].value) \in res[w].start..res[w].end - 1
      BY <3>1, <3>3 DEF Collects, Last
    <3>. QED
      BY <2>4, <3>2, <3>4
  <2>6. ASSUME NEW w \in 1..Len(res), NEW v \in w + 1..Len(res)
        PROVE  res[w].end < res[v].start
    <3>1. v \in 1..Len(res) /\ w < v
      BY <2>6
    <3>2. PICK b \in res[w].end..res[v].start - 1 : BlankAt(text, b)
      BY <2>3, <3>1 DEF Divided, Apart
    <3>3. res[w].end \in Nat /\ res[v].start \in Nat
      BY <2>4, <3>1
    <3>. QED
      BY <3>2, <3>3
  <2>. QED
    BY <2>1, <2>5, <2>6 DEF SpansApart
<1>. QED
  BY <1>1, Invariance, PTL

-----------------------------------------------------------------------------
(* FROM.                                                                    *)

(* The words read so far are at the spans q: the image, the keyword AS, the *)
(* name.  The keyword is its two letters and nothing of the line between.   *)
KeywordAt(i, e) ==
  /\ i \in Nat /\ e \in Nat /\ i < e - 1
  /\ Belongs(text, i) /\ text[i + 1] = "A"
  /\ Belongs(text, e - 1) /\ text[e] = "S"
  /\ \A b \in i + 1..e - 2 : ~Belongs(text, b)

HasImage(q, n) ==
  /\ Len(q) >= 1
  /\ Divided(text, q, n)
  /\ Collects(text, image, q[1].start, q[1].end)

HasKeyword(q, n) ==
  /\ Len(q) >= 2
  /\ HasImage(q, n)
  /\ q[2].start = as_start
  /\ KeywordAt(q[2].start, q[2].end)

(* Behind the image and whitespace, at n.                                   *)
ImageBefore(n) ==
  \E q \in Seq(Span) : Len(q) = 1 /\ HasImage(q, n) /\ Parted(text, q, n)

(* Of the letters of AS, those that were matched.                           *)
LettersMatched ==
  \/ matched = 0 /\ tmp = s
  \/ /\ matched = 1 /\ TokenFits
     /\ At(text, s, {"A"}) /\ Belongs(text, s)
     /\ Walk(text, tmp) /\ s < tmp
     /\ \A b \in s + 1..tmp - 1 : ~Belongs(text, b)

(* The inductive invariant, phase by phase.                                 *)
ImageInv ==
  pc = "image" =>
    /\ Scanned(text, start, word_start, buf, s)
    /\ start = 0 /\ ~At(text, start, Whitespace)

ImageGapInv ==
  pc = "image_gap" =>
    /\ Walk(text, s)
    /\ \E q \in Seq(Span) :
         /\ Len(q) = 1 /\ HasImage(q, s)
         /\ IF has_space THEN Parted(text, q, s) ELSE WordOver(WordEnd)

AsInv ==
  pc = "as" =>
    /\ Walk(text, s) /\ GapOver /\ as_start = s
    /\ ImageBefore(as_start)
    /\ LettersMatched

AsGapInv ==
  pc = "as_gap" =>
    /\ Walk(text, s)
    /\ ImageBefore(as_start)
    /\ \E q \in Seq(Span) :
         /\ Len(q) = 2 /\ HasKeyword(q, s)
         /\ IF has_space
            THEN Parted(text, q, s)
            ELSE \A b \in q[2].end..s - 1 : ~Belongs(text, b)

NameInv ==
  pc = "name" =>
    /\ Scanned(text, start, word_start, buf, s)
    /\ ~At(text, start, Whitespace)
    /\ \E q \in Seq(Span) : Len(q) = 2 /\ HasKeyword(q, start) /\ Parted(text, q, start)

NameGapInv ==
  pc = "name_gap" =>
    /\ Walk(text, s)
    /\ \E q \in Seq(Span) :
         /\ HasKeyword(q, s)
         /\ \/ Len(q) = 2 /\ name = <<>> /\ Parted(text, q, s) /\ LineEnd
            \/ /\ Len(q) = 3 /\ Collects(text, name, q[3].start, q[3].end)
               /\ IF has_space THEN Parted(text, q, s) ELSE WordOver(WordEnd)

Phases ==
  /\ pc \in {"image", "image_gap", "as", "as_gap", "name", "name_gap", "done", "failed"}
  /\ pc \in {"image", "image_gap", "as"} => name = NoName
  /\ pc \in {"image", "image_gap"} => matched = 0

FromInv ==
  /\ text \in Inputs
  /\ s \in 0..Len(text) /\ has_space \in BOOLEAN
  /\ Phases
  /\ ImageInv
  /\ ImageGapInv
  /\ AsInv
  /\ AsGapInv
  /\ NameInv
  /\ NameGapInv
  /\ WordsDecide
  /\ LeavesTheNewline

-----------------------------------------------------------------------------
LEMMA EitherSide ==
  ASSUME NEW e \in Nat, NEW n \in Nat, NEW m \in Nat
  PROVE  \A b \in e..m - 1 : b \in e..n - 1 \/ b \in n..m - 1
OBVIOUS

(* Whitespace and continuations separate words and have nothing of them.    *)
LEMMA GapStep ==
  ASSUME text \in Inputs, s \in 0..Len(text), has_space \in BOOLEAN, Walk(text, s),
         GapBlank \/ GapContinued
  PROVE  /\ UNCHANGED <<text, start, word_start, buf>>
         /\ s' \in 0..Len(text) /\ s <= s' /\ has_space' \in BOOLEAN
         /\ Walk(text, s')
         /\ ~has_space' => /\ ~has_space /\ ~WordOver(WordEnd)
                           /\ \A b \in s..s' - 1 : ~Belongs(text, b)
         /\ \A q : Divided(text, q, s) => Divided(text, q, s')
         /\ \A q : Divided(text, q, s) /\ (has_space => Parted(text, q, s)) =>
                     (has_space' => Parted(text, q, s'))
<1>1. Len(text) \in Nat
  BY InputsAreSequences
<1>2. ASSUME NEW q, Divided(text, q, s)
      PROVE  \A k \in 1..Len(q) : q[k].end \in Nat /\ q[k].end \in 0..s
  BY <1>2 DEF Divided, WordSpan
<1>3. CASE GapBlank
  <2>1. At(text, s, Whitespace) /\ s' = s + 1 /\ has_space' = TRUE
        /\ UNCHANGED <<text, start, word_start, buf>> /\ s < Len(text)
    BY <1>3 DEF GapBlank, At
  <2>2. /\ Walk(text, s + 1) /\ \A b \in s..(s + 1) - 1 : ~SolidAt(text, b)
        /\ \A i \in 0..s : Apart(text, i, s + 1)
    BY <1>1, <2>1, GapByte
  <2>3. ASSUME NEW q, Divided(text, q, s)
        PROVE  Divided(text, q, s + 1) /\ Parted(text, q, s + 1)
    BY <1>2, <2>2, <2>3, DividedSkip DEF Parted
  <2>. QED
    BY <1>1, <2>1, <2>2, <2>3
<1>4. CASE GapContinued
  <2>1. Continues(text, s) /\ s' = Continuation(text, s)
        /\ UNCHANGED <<text, has_space, start, word_start, buf>>
    BY <1>4 DEF GapContinued
  <2>2. s' \in s..Len(text) /\ At(text, s, {"esc"})
    BY <1>1, <2>1, ContinuationAdvances
  <2>3. /\ Walk(text, s')
        /\ \A b \in s..s' - 1 : ~Belongs(text, b) /\ ~SolidAt(text, b)
    BY <1>1, <2>1, GapContinuation
  <2>4. ~WordOver(WordEnd)
    BY <1>1, <2>2 DEF WordOver, WordEnd, At, Whitespace, PossibleLine
  <2>5. s \in Nat /\ s' \in Nat /\ s <= s'
    BY <1>1, <2>2
  <2>6. ASSUME NEW q, Divided(text, q, s)
        PROVE  Divided(text, q, s') /\ (Parted(text, q, s) => Parted(text, q, s'))
    <3>1. Divided(text, q, s')
      BY <2>3, <2>5, <2>6, DividedSkip
    <3>2. ASSUME Parted(text, q, s)
          PROVE  Parted(text, q, s')
      BY <1>2, <2>5, <2>6, <3>2, ApartGrows DEF Parted
    <3>. QED
      BY <3>1, <3>2
  <2>. QED
    BY <2>1, <2>2, <2>3, <2>4, <2>5, <2>6
<1>. QED
  BY <1>3, <1>4

(* Behind a word, what is no whitespace ends the line.                      *)
LEMMA WordOverIs ==
  ASSUME GapOver, WordOver(WordEnd)
  PROVE  LineEnd
BY DEF GapOver, WordOver, WordEnd, LineEnd, At, Whitespace, PossibleLine

(* ... and what is neither whitespace nor the line's end is of a word.      *)
LEMMA NextWord ==
  ASSUME text \in Inputs, s \in 0..Len(text), Walk(text, s), GapOver, ~LineEnd
  PROVE  s < Len(text) /\ SolidAt(text, s)
<1>1. Len(text) \in Nat /\ s < Len(text)
  BY InputsAreSequences DEF LineEnd
<1>2. ~Continues(text, s) /\ text[s + 1] \notin Whitespace /\ text[s + 1] # "lf"
  BY <1>1 DEF GapOver, LineEnd, At
<1>. QED
  BY <1>1, <1>2, WalkByte DEF SolidAt

(* Where the line ends, the words read are the words of the line.           *)
LEMMA LineRead ==
  ASSUME text \in Inputs, s \in 0..Len(text), Walk(text, s), LineEnd,
         NEW q, Divided(text, q, s)
  PROVE  /\ InOrder(LineWords(text)) = [k \in 1..Len(q) |-> WordAt(text, q[k])]
         /\ Newline(text, s) = After(text)
         /\ \A b \in s..Len(text) - 1 : ~Belongs(text, b)
<1>1. Len(text) \in Nat
  BY InputsAreSequences
<1>2. Newline(text, s) = After(text) /\ \A b \in s..Len(text) - 1 : ~Belongs(text, b)
  BY <1>1, WalkOver DEF LineEnd
<1>3. Divided(text, q, Len(text))
  <2>1. s \in Nat /\ s <= Len(text)
    BY <1>1
  <2>. QED
    BY <1>1, <1>2, <2>1, DividedSkip DEF SolidAt
<1>. QED
  BY <1>1, <1>2, <1>3, WordsAre

(* The keyword is the word AS.                                              *)
LEMMA KeywordIsAs ==
  ASSUME NEW span, KeywordAt(span.start, span.end)
  PROVE  /\ WordSpan(text, span.start, span.end)
         /\ WordAt(text, span) = {span.start, span.end - 1}
         /\ IsAs(WordAt(text, span))
         /\ Max(WordAt(text, span)) = span.end - 1
<1>. DEFINE i == span.start
            e == span.end
            w == WordAt(text, span)
<1>1. /\ i \in Nat /\ e \in Nat /\ i < e - 1
      /\ Belongs(text, i) /\ text[i + 1] = "A"
      /\ Belongs(text, e - 1) /\ text[(e - 1) + 1] = "S"
      /\ \A b \in i + 1..e - 2 : ~Belongs(text, b)
  BY DEF KeywordAt
<1>2. \A b \in i..e - 1 : b = i \/ b = e - 1 \/ b \in i + 1..e - 2
  BY <1>1
<1>3. i \in i..e - 1 /\ e - 1 \in i..e - 1 /\ i < e /\ e - 1 \in Nat
  BY <1>1
<1>4. w = {i, e - 1}
  BY <1>1, <1>2, <1>3 DEF WordAt
<1>5. WordSpan(text, i, e)
  <2>1. \A b \in i..e - 1 : ~BlankAt(text, b)
    BY <1>1, <1>2 DEF BlankAt, Whitespace
  <2>. QED
    BY <1>1, <1>3, <2>1 DEF WordSpan
<1>6. IsAs(w)
  BY <1>1, <1>4 DEF IsAs
<1>7. Max(w) = e - 1
  <2>1. w \in SUBSET (0..e - 1) /\ w # {}
    BY <1>1, <1>3, <1>4
  <2>2. Max(w) \in w /\ e - 1 <= Max(w)
    BY <1>3, <1>4, <2>1, MaxIs
  <2>. QED
    BY <1>1, <1>3, <1>4, <2>2
<1>. QED
  BY <1>4, <1>5, <1>6, <1>7

-----------------------------------------------------------------------------
(* WordsDecide once more, of the words of the line and of what a step       *)
(* leaves behind.                                                           *)
DecidedBy(words, named, apart, out, img, nm, err) ==
  LET n == Len(words)
      failed(kind, at) == out = "failed" /\ err = [kind |-> kind, pos |-> at]
  IN /\ n = 0 => failed("at_least_one_argument", Instruction)
     /\ n >= 1 => Spells(img, words[1])
     /\ n = 1 => out = "done" /\ nm = NoName
     /\ n >= 2 /\ ~(named /\ apart) => failed("AS", Min(words[2]))
     /\ n = 2 /\ named /\ apart => out = "done" /\ nm = <<>>
     /\ n = 3 /\ named => out = "done" /\ Spells(nm, words[3])
     /\ n >= 4 /\ named => failed("newline_or_eof", Min(words[4]))

LEMMA Decides ==
  ASSUME NEW words, words = InOrder(LineWords(text)), UNCHANGED text,
         DecidedBy(words, Len(words) >= 2 /\ IsAs(words[2]),
                   \E i \in Bytes(text) : i > Max(words[2]), pc', image', name', error')
  PROVE  WordsDecide'
<1>1. words = InOrder(LineWords(text'))
  OBVIOUS
<1>2. (IsAs(words[2]))' <=> IsAs(words[2])
  BY DEF IsAs
<1>3. (\E i \in Bytes(text') : i > Max(words[2])) <=> \E i \in Bytes(text) : i > Max(words[2])
  OBVIOUS
<1>. QED
  BY <1>1, <1>2, <1>3 DEF WordsDecide, Failed, DecidedBy, Instruction

(* The outcomes.  Only the image: nothing follows it.                       *)
LEMMA ImageOnly ==
  ASSUME text \in Inputs, s \in 0..Len(text), Walk(text, s), LineEnd,
         NEW q \in Seq(Span), Len(q) = 1, HasImage(q, s),
         pc' = "done", name' = NoName, UNCHANGED <<text, s, image>>
  PROVE  WordsDecide' /\ LeavesTheNewline'
<1>. DEFINE words == InOrder(LineWords(text))
<1>1. Divided(text, q, s) /\ Collects(text, image, q[1].start, q[1].end)
  BY DEF HasImage
<1>2. /\ words = [k \in 1..Len(q) |-> WordAt(text, q[k])]
      /\ Newline(text, s) = After(text)
  BY <1>1, LineRead
<1>. HIDE DEF words
<1>3. Len(words) = 1 /\ words[1] = WordAt(text, q[1])
  BY <1>2
<1>4. Spells(image, words[1])
  BY <1>1, <1>3, WordIsSpelt
<1>5. WordsDecide'
  <2>1. DecidedBy(words, Len(words) >= 2 /\ IsAs(words[2]),
                  \E i \in Bytes(text) : i > Max(words[2]), pc', image', name', error')
    BY <1>3, <1>4 DEF DecidedBy
  <2>. QED
    BY <2>1, Decides DEF words
<1>. QED
  BY <1>2, <1>5 DEF LeavesTheNewline, LineEnd

(* Nothing at all: an image is missing.                                     *)
LEMMA NoImage ==
  ASSUME text \in Inputs, s \in 0..Len(text), Walk(text, s), LineEnd, s = 0,
         pc' = "failed", error' = [kind |-> "at_least_one_argument", pos |-> Instruction],
         UNCHANGED text
  PROVE  WordsDecide' /\ LeavesTheNewline'
<1>. DEFINE words == InOrder(LineWords(text))
<1>1. PICK q \in Seq(Span) : Len(q) = 0
  BY EmptySeq
<1>2. \A b : b \notin 0..s - 1
  OBVIOUS
<1>3. Divided(text, q, s)
  BY <1>1, <1>2 DEF Divided
<1>4. words = [k \in 1..Len(q) |-> WordAt(text, q[k])]
  BY <1>3, LineRead
<1>. HIDE DEF words
<1>5. Len(words) = 0
  BY <1>1, <1>4
<1>6. WordsDecide'
  <2>1. DecidedBy(words, Len(words) >= 2 /\ IsAs(words[2]),
                  \E i \in Bytes(text) : i > Max(words[2]), pc', image', name', error')
    BY <1>5 DEF DecidedBy
  <2>. QED
    BY <2>1, Decides DEF words
<1>. QED
  BY <1>6 DEF LeavesTheNewline

(* Where a word starts at n, it is the one after those read.  The words are *)
(* those of the reference: the line's end need not be known.                *)
LEMMA WordsBefore ==
  ASSUME text \in Inputs, NEW n \in 0..Len(text), n < Len(text), SolidAt(text, n),
         NEW q \in Seq(Span), Divided(text, q, n), Parted(text, q, n),
         NEW words, words = InOrder(LineWords(text))
  PROVE  /\ Len(words) \in Nat /\ Len(q) + 1 <= Len(words)
         /\ \A k \in 1..Len(q) : words[k] = WordAt(text, q[k])
         /\ WordFrom(text, words[Len(q) + 1], n)
<1>1. Len(text) \in Nat
  BY InputsAreSequences
<1>. QED
  BY <1>1, FirstWords

(* A second word, which starts at n.                                        *)
LEMMA SecondWord ==
  ASSUME text \in Inputs, NEW n \in 0..Len(text), n < Len(text), SolidAt(text, n),
         ImageBefore(n), NEW words, words = InOrder(LineWords(text))
  PROVE  /\ Len(words) \in Nat /\ Len(words) >= 2
         /\ Spells(image, words[1])
         /\ WordFrom(text, words[2], n)
<1>1. PICK q \in Seq(Span) : Len(q) = 1 /\ HasImage(q, n) /\ Parted(text, q, n)
  BY DEF ImageBefore
<1>2. Divided(text, q, n) /\ Collects(text, image, q[1].start, q[1].end)
  BY <1>1 DEF HasImage
<1>4. /\ Len(words) \in Nat /\ Len(q) + 1 <= Len(words)
      /\ \A k \in 1..Len(q) : words[k] = WordAt(text, q[k])
      /\ WordFrom(text, words[Len(q) + 1], n)
  BY <1>1, <1>2, WordsBefore
<1>5. words[1] = WordAt(text, q[1])
  BY <1>1, <1>4
<1>6. Spells(image, words[1])
  BY <1>2, <1>5, WordIsSpelt
<1>7. Len(q) + 1 = 2
  BY <1>1
<1>. QED
  BY <1>4, <1>6, <1>7

(* It is not AS.                                                            *)
LEMMA NoKeyword ==
  ASSUME text \in Inputs, NEW n \in 0..Len(text), n < Len(text), SolidAt(text, n),
         ImageBefore(n), ~IsAs(InOrder(LineWords(text))[2]),
         pc' = "failed", error' = [kind |-> "AS", pos |-> n], UNCHANGED <<text, image>>
  PROVE  WordsDecide' /\ LeavesTheNewline'
<1>. DEFINE words == InOrder(LineWords(text))
<1>1. /\ Len(words) \in Nat /\ Len(words) >= 2
      /\ Spells(image, words[1]) /\ Min(words[2]) = n
  BY SecondWord DEF WordFrom
<1>. HIDE DEF words
<1>2. DecidedBy(words, Len(words) >= 2 /\ IsAs(words[2]),
                \E i \in Bytes(text) : i > Max(words[2]), pc', image', name', error')
  <2>1. ~IsAs(words[2])
    BY DEF words
  <2>. QED
    BY <1>1, <2>1 DEF DecidedBy
<1>3. WordsDecide'
  BY <1>2, Decides DEF words
<1>. QED
  BY <1>3 DEF LeavesTheNewline

(* It is AS, and nothing of the line follows.                               *)
LEMMA KeywordOnly ==
  ASSUME text \in Inputs, s \in 0..Len(text), Walk(text, s), LineEnd,
         NEW q \in Seq(Span), Len(q) = 2, HasKeyword(q, s),
         \A b \in q[2].end..s - 1 : ~Belongs(text, b),
         pc' = "failed", error' = [kind |-> "AS", pos |-> as_start],
         UNCHANGED <<text, image>>
  PROVE  WordsDecide' /\ LeavesTheNewline'
<1>. DEFINE words == InOrder(LineWords(text))
<1>1. /\ Divided(text, q, s) /\ Collects(text, image, q[1].start, q[1].end)
      /\ q[2].start = as_start /\ KeywordAt(q[2].start, q[2].end)
  BY DEF HasKeyword, HasImage
<1>2. /\ words = [k \in 1..Len(q) |-> WordAt(text, q[k])]
      /\ \A b \in s..Len(text) - 1 : ~Belongs(text, b)
  BY <1>1, LineRead
<1>. HIDE DEF words
<1>3. Len(words) = 2 /\ words[1] = WordAt(text, q[1]) /\ words[2] = WordAt(text, q[2])
  BY <1>2
<1>4. Spells(image, words[1])
  BY <1>1, <1>3, WordIsSpelt
<1>5. Max(words[2]) = q[2].end - 1 /\ Min(words[2]) = as_start
  BY <1>1, <1>3, KeywordIsAs, WordAtIs
<1>6. ~\E i \in Bytes(text) : i > Max(words[2])
  <2>1. SUFFICES ASSUME NEW i \in Bytes(text), i > Max(words[2]) PROVE FALSE
    OBVIOUS
  <2>2. i \in 0..Len(text) - 1 /\ Belongs(text, i) /\ Len(text) \in Nat
    BY InputsAreSequences DEF Bytes, Belongs
  <2>3. q[2].end \in Nat
    BY <1>1 DEF KeywordAt
  <2>4. i \in q[2].end..s - 1 \/ i \in s..Len(text) - 1
    BY <1>5, <2>1, <2>2, <2>3
  <2>. QED
    BY <1>2, <2>2, <2>4
<1>7. WordsDecide'
  <2>1. DecidedBy(words, Len(words) >= 2 /\ IsAs(words[2]),
                  \E i \in Bytes(text) : i > Max(words[2]), pc', image', name', error')
    BY <1>3, <1>4, <1>5, <1>6 DEF DecidedBy
  <2>. QED
    BY <2>1, Decides DEF words
<1>. QED
  BY <1>7 DEF LeavesTheNewline

(* Bytes of the line beyond the keyword.                                    *)
LEMMA KeywordApart ==
  ASSUME Len(text) \in Nat, NEW span, KeywordAt(span.start, span.end),
         NEW m, m \in 0..Len(text), Apart(text, span.end, m)
  PROVE  \E i \in Bytes(text) : i > Max(WordAt(text, span))
<1>1. PICK i \in span.end..m - 1 : BlankAt(text, i)
  BY DEF Apart
<1>2. span.end \in Nat /\ Max(WordAt(text, span)) = span.end - 1
  BY KeywordIsAs DEF KeywordAt
<1>3. i \in 0..Len(text) - 1 /\ i > span.end - 1
  BY <1>1, <1>2
<1>4. i \in Bytes(text)
  BY <1>1, <1>3 DEF Bytes, BlankAt, Belongs
<1>. QED
  BY <1>2, <1>3, <1>4

(* AS and whitespace, and the name is empty.                                *)
LEMMA EmptyName ==
  ASSUME text \in Inputs, s \in 0..Len(text), Walk(text, s), LineEnd,
         NEW q \in Seq(Span), Len(q) = 2, HasKeyword(q, s), Parted(text, q, s),
         pc' = "done", name' = <<>>, UNCHANGED <<text, s, image>>
  PROVE  WordsDecide' /\ LeavesTheNewline'
<1>. DEFINE words == InOrder(LineWords(text))
<1>1. /\ Divided(text, q, s) /\ Collects(text, image, q[1].start, q[1].end)
      /\ KeywordAt(q[2].start, q[2].end)
  BY DEF HasKeyword, HasImage
<1>2. /\ words = [k \in 1..Len(q) |-> WordAt(text, q[k])]
      /\ Newline(text, s) = After(text)
  BY <1>1, LineRead
<1>. HIDE DEF words
<1>3. Len(words) = 2 /\ words[1] = WordAt(text, q[1]) /\ words[2] = WordAt(text, q[2])
  BY <1>2
<1>4. Spells(image, words[1]) /\ IsAs(words[2])
  BY <1>1, <1>3, WordIsSpelt, KeywordIsAs
<1>5. \E i \in Bytes(text) : i > Max(words[2])
  <2>1. Apart(text, q[2].end, s) /\ Len(text) \in Nat
    BY InputsAreSequences DEF Parted
  <2>. QED
    BY <1>1, <1>3, <2>1, KeywordApart
<1>6. WordsDecide'
  <2>1. DecidedBy(words, Len(words) >= 2 /\ IsAs(words[2]),
                  \E i \in Bytes(text) : i > Max(words[2]), pc', image', name', error')
    BY <1>3, <1>4, <1>5 DEF DecidedBy
  <2>. QED
    BY <2>1, Decides DEF words
<1>. QED
  BY <1>2, <1>6 DEF LeavesTheNewline, LineEnd

(* AS and a name.                                                           *)
LEMMA ThreeWords ==
  ASSUME text \in Inputs, s \in 0..Len(text), Walk(text, s), LineEnd,
         NEW q \in Seq(Span), Len(q) = 3, HasKeyword(q, s),
         Collects(text, name, q[3].start, q[3].end),
         pc' = "done", UNCHANGED <<text, s, image, name>>
  PROVE  WordsDecide' /\ LeavesTheNewline'
<1>. DEFINE words == InOrder(LineWords(text))
<1>1. /\ Divided(text, q, s) /\ Collects(text, image, q[1].start, q[1].end)
      /\ KeywordAt(q[2].start, q[2].end)
  BY DEF HasKeyword, HasImage
<1>2. /\ words = [k \in 1..Len(q) |-> WordAt(text, q[k])]
      /\ Newline(text, s) = After(text)
  BY <1>1, LineRead
<1>. HIDE DEF words
<1>3. /\ Len(words) = 3 /\ words[1] = WordAt(text, q[1])
      /\ words[2] = WordAt(text, q[2]) /\ words[3] = WordAt(text, q[3])
  BY <1>2
<1>4. Spells(image, words[1]) /\ IsAs(words[2]) /\ Spells(name, words[3])
  BY <1>1, <1>3, WordIsSpelt, KeywordIsAs
<1>5. \E i \in Bytes(text) : i > Max(words[2])
  <2>1. Apart(text, q[2].end, q[3].start)
    BY <1>1 DEF Divided
  <2>2. Len(text) \in Nat /\ q[3].start \in 0..Len(text)
    <3>1. Len(text) \in Nat
      BY InputsAreSequences
    <3>2. /\ q[3].start \in Nat /\ q[3].end \in Nat /\ q[3].start < q[3].end
          /\ q[3].end <= s
      BY <1>1 DEF Divided, WordSpan
    <3>. QED
      BY <3>1, <3>2
  <2>. QED
    BY <1>1, <1>3, <2>1, <2>2, KeywordApart
<1>6. WordsDecide'
  <2>1. DecidedBy(words, Len(words) >= 2 /\ IsAs(words[2]),
                  \E i \in Bytes(text) : i > Max(words[2]), pc', image', name', error')
    BY <1>3, <1>4, <1>5 DEF DecidedBy
  <2>. QED
    BY <2>1, Decides DEF words
<1>. QED
  BY <1>2, <1>6 DEF LeavesTheNewline, LineEnd

(* A word behind the name.                                                  *)
LEMMA FourthWord ==
  ASSUME text \in Inputs, s \in 0..Len(text), s < Len(text), SolidAt(text, s),
         NEW q \in Seq(Span), Len(q) = 3, HasKeyword(q, s), Parted(text, q, s),
         pc' = "failed", error' = [kind |-> "newline_or_eof", pos |-> s],
         UNCHANGED <<text, image>>
  PROVE  WordsDecide' /\ LeavesTheNewline'
<1>. PICK words : words = InOrder(LineWords(text))
  OBVIOUS
<1>1. /\ Divided(text, q, s) /\ Collects(text, image, q[1].start, q[1].end)
      /\ KeywordAt(q[2].start, q[2].end)
  BY DEF HasKeyword, HasImage
<1>2. Len(text) \in Nat
  BY InputsAreSequences
<1>3. /\ Len(words) \in Nat /\ Len(q) + 1 <= Len(words)
      /\ \A k \in 1..Len(q) : words[k] = WordAt(text, q[k])
      /\ WordFrom(text, words[Len(q) + 1], s)
  BY <1>1, WordsBefore
<1>4. /\ Len(words) \in Nat /\ Len(words) >= 4 /\ words[1] = WordAt(text, q[1])
      /\ words[2] = WordAt(text, q[2]) /\ Min(words[4]) = s
  BY <1>3 DEF WordFrom
<1>5. Spells(image, words[1]) /\ IsAs(words[2])
  BY <1>1, <1>4, WordIsSpelt, KeywordIsAs
<1>6. \E i \in Bytes(text) : i > Max(words[2])
  <2>1. Apart(text, q[2].end, s)
    BY DEF Parted
  <2>. QED
    BY <1>1, <1>2, <1>4, <2>1, KeywordApart
<1>7. WordsDecide'
  <2>1. DecidedBy(words, Len(words) >= 2 /\ IsAs(words[2]),
                  \E i \in Bytes(text) : i > Max(words[2]), pc', image', name', error')
    BY <1>4, <1>5, <1>6 DEF DecidedBy
  <2>. QED
    BY <2>1, Decides
<1>. QED
  BY <1>7 DEF LeavesTheNewline

-----------------------------------------------------------------------------
(* Before the end nothing is decided.                                       *)
LEMMA Undecided ==
  /\ pc \notin {"done", "failed"} => WordsDecide /\ LeavesTheNewline
  /\ pc' \notin {"done", "failed"} => WordsDecide' /\ LeavesTheNewline'
<1>1. pc \notin {"done", "failed"} => WordsDecide /\ LeavesTheNewline
  BY Zenon DEF WordsDecide, LeavesTheNewline
<1>2. pc' \notin {"done", "failed"} => WordsDecide' /\ LeavesTheNewline'
  BY Zenon DEF WordsDecide, LeavesTheNewline
<1>. QED
  BY <1>1, <1>2

LEMMA FromInitInv == FromInit => FromInv
<1>. SUFFICES ASSUME FromInit PROVE FromInv
  OBVIOUS
<1>1. /\ text \in Inputs /\ s = 0 /\ start = 0 /\ word_start = 0 /\ buf = <<>>
      /\ pc = "image" /\ name = NoName /\ matched = 0 /\ has_space = FALSE
      /\ ~At(text, 0, Whitespace) /\ ~Continues(text, 0)
  BY DEF FromInit, ScanInit
<1>2. Len(text) \in Nat
  BY <1>1, InputsAreSequences
<1>3. ImageInv
  BY <1>1, <1>2, WalkStart, ScannedStart DEF ImageInv
<1>4. Phases
  BY <1>1 DEF Phases
<1>5. WordsDecide /\ LeavesTheNewline
  BY <1>1, Undecided
<1>6. ImageGapInv /\ AsInv /\ AsGapInv /\ NameInv /\ NameGapInv
  BY <1>1, Zenon DEF ImageGapInv, AsInv, AsGapInv, NameInv, NameGapInv
<1>7. s \in 0..Len(text)
  BY <1>1, <1>2
<1>8. has_space \in BOOLEAN
  BY <1>1, Zenon
<1>. QED
  BY <1>1, <1>3, <1>4, <1>5, <1>6, <1>7, <1>8, Zenon DEF FromInv

(* A step to done or failed.                                                *)
LEMMA Ended ==
  ASSUME FromInv, pc' \in {"done", "failed"}, UNCHANGED <<text, s>>, has_space' \in BOOLEAN,
         WordsDecide', LeavesTheNewline'
  PROVE  FromInv'
BY DEF FromInv, Phases, ImageInv, ImageGapInv, AsInv, AsGapInv, NameInv, NameGapInv

(* A byte of the image or of the name, a continuation in it.                *)
LEMMA CollectInv ==
  ASSUME FromInv, Collect
  PROVE  FromInv'
<1>1. /\ pc \in {"image", "name"} /\ (WordContinued \/ WordByte(WordEnd))
      /\ UNCHANGED <<text, has_space, start, pc, image, as_start, tmp, matched, name, error>>
  BY DEF Collect, WordContinued, WordByte
<1>2. Len(text) \in Nat
  BY InputsAreSequences DEF FromInv
<1>3. Scanned(text, start, word_start, buf, s)
  BY <1>1 DEF FromInv, ImageInv, NameInv
<1>4. Scanned(text, start, word_start', buf', s')
  <2>1. CASE WordContinued
    BY <1>2, <1>3, <2>1, ScannedContinued DEF WordContinued
  <2>2. CASE WordByte(WordEnd)
    <3>1. s < Len(text) /\ ~Continues(text, s) /\ s' = s + 1 /\ UNCHANGED <<word_start, buf>>
          /\ text[s + 1] \notin Whitespace /\ text[s + 1] # "lf"
      BY <2>2 DEF WordByte, WordEnd, At, PossibleLine
    <3>. QED
      BY <1>2, <1>3, <3>1, ScannedByte
  <2>. QED
    BY <1>1, <2>1, <2>2
<1>5. s' \in 0..Len(text')
  BY <1>1, <1>4 DEF Scanned, Collecting, Walk
<1>6. ImageInv'
  BY <1>1, <1>4 DEF FromInv, ImageInv
<1>7. NameInv'
  BY <1>1, <1>4 DEF FromInv, NameInv, HasKeyword, HasImage, KeywordAt
<1>8. WordsDecide' /\ LeavesTheNewline'
  BY <1>1, Undecided
<1>. QED
  BY <1>1, <1>5, <1>6, <1>7, <1>8
     DEF FromInv, Phases, ImageGapInv, AsInv, AsGapInv, NameGapInv

(* The image ends, if there is one.                                         *)
LEMMA ImageEndsInv ==
  ASSUME FromInv, ImageEnds
  PROVE  FromInv'
<1>1. /\ pc = "image" /\ WordOver(WordEnd) /\ has_space' = FALSE
      /\ UNCHANGED <<text, s, start, word_start, buf, as_start, tmp, matched, name>>
  BY DEF ImageEnds
<1>2. Len(text) \in Nat /\ text \in Inputs /\ s \in 0..Len(text) /\ name = NoName /\ matched = 0
  BY <1>1, InputsAreSequences DEF FromInv, Phases
<1>3. Scanned(text, start, word_start, buf, s) /\ start = 0 /\ ~At(text, start, Whitespace)
  BY <1>1 DEF FromInv, ImageInv
<1>4. /\ Collects(text, Value, start, s)
      /\ Value = <<>> <=> s = start
      /\ s # start => WordSpan(text, start, s)
  <2>1. Value = Gathered(start, word_start, buf, s)
    BY DEF Value, Gathered
  <2>. QED
    BY <1>2, <1>3, <2>1, ScannedIs
<1>5. Walk(text, s)
  BY <1>3 DEF Scanned, Collecting
<1>6. CASE Value = <<>>
  <2>1. s = 0 /\ LineEnd
    BY <1>1, <1>3, <1>4, <1>6 DEF WordOver, WordEnd, LineEnd, At, Whitespace, PossibleLine
  <2>2. pc' = "failed" /\ error' = [kind |-> "at_least_one_argument", pos |-> Instruction]
    BY <1>6 DEF ImageEnds, Fail
  <2>3. WordsDecide' /\ LeavesTheNewline'
    BY <1>1, <1>2, <1>5, <2>1, <2>2, NoImage
  <2>. QED
    BY <1>1, <2>2, <2>3, Ended
<1>7. CASE Value # <<>>
  <2>1. pc' = "image_gap" /\ image' = Value
    BY <1>7 DEF ImageEnds
  <2>2. PICK q \in Seq(Span) : Len(q) = 1 /\ q[1].start = 0 /\ q[1].end = s
    <3>. DEFINE q == <<[start |-> 0, end |-> s]>>
    <3>1. q \in Seq(Span) /\ Len(q) = 1 /\ q[1].start = 0 /\ q[1].end = s
      BY <1>2 DEF Span
    <3>. QED
      BY <3>1
  <2>3. Divided(text, q, s)
    <3>1. \A k \in 1..Len(q) : k = 1
      BY <2>2
    <3>2. WordSpan(text, 0, s) /\ s <= s
      BY <1>2, <1>3, <1>4, <1>7
    <3>. QED
      BY <2>2, <3>1, <3>2 DEF Divided
  <2>4. HasImage(q, s)'
    BY <1>1, <1>3, <1>4, <2>1, <2>2, <2>3 DEF HasImage
  <2>5. ImageGapInv'
    BY <1>1, <1>5, <2>1, <2>2, <2>4 DEF ImageGapInv, WordOver
  <2>6. WordsDecide' /\ LeavesTheNewline'
    BY <2>1, Undecided
  <2>. QED
    BY <1>1, <1>2, <2>1, <2>5, <2>6
       DEF FromInv, Phases, ImageInv, AsInv, AsGapInv, NameInv, NameGapInv
<1>. QED
  BY <1>6, <1>7

(* Whitespace between two words, a continuation in it.                      *)
LEMMA SkipInv ==
  ASSUME FromInv, Skip
  PROVE  FromInv'
<1>1. /\ pc \in {"image_gap", "as_gap", "name_gap"} /\ (GapBlank \/ GapContinued)
      /\ UNCHANGED <<pc, image, as_start, tmp, matched, name, error>>
  BY DEF Skip
<1>2. /\ text \in Inputs /\ s \in 0..Len(text) /\ has_space \in BOOLEAN /\ Walk(text, s)
      /\ Len(text) \in Nat
  BY <1>1, InputsAreSequences DEF FromInv, ImageGapInv, AsGapInv, NameGapInv
<1>3. /\ UNCHANGED <<text, start, word_start, buf>>
      /\ s' \in 0..Len(text) /\ s <= s' /\ has_space' \in BOOLEAN
      /\ Walk(text, s')
      /\ ~has_space' => /\ ~has_space /\ ~WordOver(WordEnd)
                        /\ \A b \in s..s' - 1 : ~Belongs(text, b)
      /\ \A q : Divided(text, q, s) => Divided(text, q, s')
      /\ \A q : Divided(text, q, s) /\ (has_space => Parted(text, q, s)) =>
                  (has_space' => Parted(text, q, s'))
  BY <1>1, <1>2, GapStep
<1>4. ImageGapInv'
  <2>1. SUFFICES ASSUME pc = "image_gap" PROVE ImageGapInv'
    BY <1>1 DEF ImageGapInv
  <2>2. PICK q \in Seq(Span) :
          /\ Len(q) = 1 /\ HasImage(q, s)
          /\ IF has_space THEN Parted(text, q, s) ELSE WordOver(WordEnd)
    BY <2>1 DEF FromInv, ImageGapInv
  <2>3. HasImage(q, s)' /\ has_space' /\ Parted(text, q, s')
    BY <1>1, <1>3, <2>2 DEF HasImage
  <2>. QED
    BY <1>3, <2>2, <2>3 DEF ImageGapInv
<1>5. AsGapInv'
  <2>1. SUFFICES ASSUME pc = "as_gap" PROVE AsGapInv'
    BY <1>1 DEF AsGapInv
  <2>2. PICK q \in Seq(Span) :
          /\ Len(q) = 2 /\ HasKeyword(q, s)
          /\ IF has_space THEN Parted(text, q, s)
             ELSE \A b \in q[2].end..s - 1 : ~Belongs(text, b)
    BY <2>1 DEF FromInv, AsGapInv
  <2>3. HasKeyword(q, s)'
    BY <1>1, <1>3, <2>2 DEF HasKeyword, HasImage, KeywordAt
  <2>4. ImageBefore(as_start)'
    BY <1>1, <1>3, <2>1 DEF FromInv, AsGapInv, ImageBefore, HasImage
  <2>5. has_space' => Parted(text, q, s')
    BY <1>3, <2>2 DEF HasKeyword, HasImage
  <2>6. ASSUME ~has_space'
        PROVE  \A b \in q[2].end..s' - 1 : ~Belongs(text, b)
    <3>1. \A b \in q[2].end..s - 1 : ~Belongs(text, b)
      BY <1>3, <2>2, <2>6
    <3>2. q[2].end \in Nat
      BY <2>2 DEF HasKeyword, KeywordAt
    <3>3. s \in Nat /\ s' \in Nat
      BY <1>2, <1>3
    <3>4. \A b \in q[2].end..s' - 1 : b \in q[2].end..s - 1 \/ b \in s..s' - 1
      BY <3>2, <3>3, EitherSide
    <3>. QED
      BY <1>3, <2>6, <3>1, <3>4
  <2>. QED
    BY <1>3, <2>2, <2>3, <2>4, <2>5, <2>6 DEF AsGapInv
<1>6. NameGapInv'
  <2>1. SUFFICES ASSUME pc = "name_gap" PROVE NameGapInv'
    BY <1>1 DEF NameGapInv
  <2>2. PICK q \in Seq(Span) :
          /\ HasKeyword(q, s)
          /\ \/ Len(q) = 2 /\ name = <<>> /\ Parted(text, q, s) /\ LineEnd
             \/ /\ Len(q) = 3 /\ Collects(text, name, q[3].start, q[3].end)
                /\ IF has_space THEN Parted(text, q, s) ELSE WordOver(WordEnd)
    BY <2>1 DEF FromInv, NameGapInv
  <2>3. HasKeyword(q, s)'
    BY <1>1, <1>3, <2>2 DEF HasKeyword, HasImage, KeywordAt
  <2>4. ~LineEnd
    <3>1. At(text, s, Whitespace) \/ At(text, s, {"esc"})
      BY <1>1, <1>2, ContinuationAdvances DEF GapBlank, GapContinued
    <3>. QED
      BY <1>2, <3>1 DEF LineEnd, At, Whitespace
  <2>5. Len(q) = 3 /\ Collects(text, name, q[3].start, q[3].end)
        /\ (IF has_space THEN Parted(text, q, s) ELSE WordOver(WordEnd))
    BY <2>2, <2>4
  <2>6. has_space' /\ Parted(text, q, s')
    BY <1>3, <2>2, <2>5 DEF HasKeyword, HasImage
  <2>. QED
    BY <1>1, <1>3, <2>3, <2>5, <2>6 DEF NameGapInv
<1>7. WordsDecide' /\ LeavesTheNewline'
  BY <1>1, Undecided
<1>8. Phases' /\ ImageInv' /\ AsInv' /\ NameInv'
  BY <1>1 DEF FromInv, Phases, ImageInv, AsInv, NameInv
<1>. QED
  BY <1>2, <1>3, <1>4, <1>5, <1>6, <1>7, <1>8 DEF FromInv

(* Behind the image: whitespace and more, or the end of the line.           *)
LEMMA ImageGapEndsInv ==
  ASSUME FromInv, ImageGapEnds
  PROVE  FromInv'
<1>1. /\ pc = "image_gap" /\ GapOver
      /\ UNCHANGED <<text, s, has_space, start, word_start, buf, image, matched, name>>
  BY DEF ImageGapEnds, scanning
<1>2. /\ text \in Inputs /\ s \in 0..Len(text) /\ has_space \in BOOLEAN /\ Walk(text, s)
      /\ name = NoName /\ matched = 0
  BY <1>1 DEF FromInv, Phases, ImageGapInv
<1>3. PICK q \in Seq(Span) :
        /\ Len(q) = 1 /\ HasImage(q, s)
        /\ IF has_space THEN Parted(text, q, s) ELSE WordOver(WordEnd)
  BY <1>1 DEF FromInv, ImageGapInv
<1>4. CASE has_space
  <2>1. pc' = "as" /\ as_start' = s /\ tmp' = s
    BY <1>4 DEF ImageGapEnds
  <2>2. ImageBefore(as_start)'
    <3>1. Len(q) = 1 /\ HasImage(q, s)' /\ Parted(text, q, s)
      BY <1>1, <1>3, <1>4 DEF HasImage
    <3>. QED
      BY <1>1, <2>1, <3>1 DEF ImageBefore, HasImage
  <2>3. AsInv'
    BY <1>1, <1>2, <2>1, <2>2 DEF AsInv, GapOver, LettersMatched
  <2>4. WordsDecide' /\ LeavesTheNewline'
    BY <2>1, Undecided
  <2>5. Phases' /\ ImageInv' /\ ImageGapInv' /\ AsGapInv' /\ NameInv' /\ NameGapInv'
    BY <1>1, <1>2, <2>1 DEF Phases, ImageInv, ImageGapInv, AsGapInv, NameInv, NameGapInv
  <2>. QED
    BY <1>1, <1>2, <2>3, <2>4, <2>5 DEF FromInv
<1>5. CASE ~has_space
  <2>1. pc' = "done"
    BY <1>5 DEF ImageGapEnds
  <2>2. LineEnd
    BY <1>1, <1>3, <1>5, WordOverIs
  <2>3. WordsDecide' /\ LeavesTheNewline'
    BY <1>1, <1>2, <1>3, <2>1, <2>2, ImageOnly
  <2>. QED
    BY <1>1, <1>2, <2>1, <2>3, Ended
<1>. QED
  BY <1>4, <1>5

-----------------------------------------------------------------------------
(* A letter of AS, the last of which ends the keyword.                      *)
LEMMA AsLetterInv ==
  ASSUME FromInv, AsLetter
  PROVE  FromInv'
<1>1. /\ pc = "as" /\ LetterNext /\ tmp' = tmp + 1 /\ has_space' = FALSE
      /\ UNCHANGED <<text, start, word_start, buf, image, as_start, name, error>>
  BY DEF AsLetter
<1>2. /\ text \in Inputs /\ Len(text) \in Nat /\ s \in 0..Len(text) /\ name = NoName
      /\ Walk(text, s) /\ GapOver /\ as_start = s /\ ImageBefore(as_start) /\ LettersMatched
  BY <1>1, InputsAreSequences DEF FromInv, Phases, AsInv
<1>3. ImageBefore(as_start)'
  BY <1>1, <1>2 DEF ImageBefore, HasImage
<1>4. CASE matched = 0 /\ tmp = s
  <2>1. At(text, s, {"A"}) /\ TokenFits /\ s < Len(text) /\ text[s + 1] = "A"
    BY <1>1, <1>4 DEF LetterNext, Letter, At
  <2>2. pc' = "as" /\ s' = s /\ matched' = 1
    BY <1>1, <1>4 DEF AsLetter, Letter
  <2>3. Walk(text, s + 1) /\ Belongs(text, s)
    <3>1. ~Continues(text, s)
      BY <1>2 DEF GapOver
    <3>. QED
      BY <1>2, <2>1, <3>1, WalkByte
  <2>4. \A b \in s + 1..(s + 1) - 1 : ~Belongs(text, b)
    BY <1>2
  <2>5. LettersMatched'
    <3>1. s < s + 1
      BY <1>2
    <3>. QED
      BY <1>1, <1>4, <2>1, <2>2, <2>3, <2>4, <3>1 DEF LettersMatched, TokenFits, Letter
  <2>6. AsInv'
    BY <1>1, <1>2, <1>3, <2>2, <2>5 DEF AsInv, GapOver
  <2>7. WordsDecide' /\ LeavesTheNewline'
    BY <2>2, Undecided
  <2>8. Phases' /\ ImageInv' /\ ImageGapInv' /\ AsGapInv' /\ NameInv' /\ NameGapInv'
    BY <1>1, <1>2, <2>2 DEF Phases, ImageInv, ImageGapInv, AsGapInv, NameInv, NameGapInv
  <2>9. has_space' \in BOOLEAN
    BY <1>1, Zenon
  <2>. QED
    BY <1>1, <1>2, <2>2, <2>6, <2>7, <2>8, <2>9 DEF FromInv
<1>5. CASE /\ matched = 1 /\ TokenFits
           /\ At(text, s, {"A"}) /\ Belongs(text, s)
           /\ Walk(text, tmp) /\ s < tmp
           /\ \A b \in s + 1..tmp - 1 : ~Belongs(text, b)
  <2>1. tmp \in 0..Len(text) /\ tmp < Len(text) /\ text[tmp + 1] = "S" /\ text[s + 1] = "A"
        /\ At(text, tmp, {"S"})
    BY <1>1, <1>5 DEF LetterNext, Letter, At, Walk
  <2>2. pc' = "as_gap" /\ s' = tmp + 1 /\ matched' = 0
    BY <1>1, <1>5 DEF AsLetter, Letter
  <2>3. Walk(text, tmp + 1) /\ Belongs(text, tmp)
    <3>1. ~Continues(text, tmp)
      BY <1>2, <2>1, ContinuationAdvances DEF At
    <3>. QED
      BY <1>2, <1>5, <2>1, <3>1, WalkByte
  <2>4. KeywordAt(s, tmp + 1)
    <3>1. s \in Nat /\ tmp + 1 \in Nat /\ s < (tmp + 1) - 1 /\ (tmp + 1) - 1 = tmp
          /\ (tmp + 1) - 2 = tmp - 1
      BY <1>2, <1>5, <2>1
    <3>. QED
      BY <1>5, <2>1, <2>3, <3>1 DEF KeywordAt
  <2>5. PICK p \in Seq(Span) : Len(p) = 1 /\ HasImage(p, s) /\ Parted(text, p, s)
    BY <1>2 DEF ImageBefore
  <2>6. PICK q \in Seq(Span) : /\ Len(q) = 2 /\ q[1] = p[1]
                               /\ q[2].start = s /\ q[2].end = tmp + 1
    <3>1. PICK last \in Span : last.start = s /\ last.end = tmp + 1
      <4>1. [start |-> s, end |-> tmp + 1] \in Span
        BY <1>2, <2>1 DEF Span
      <4>. QED
        BY <4>1
    <3>2. ASSUME NEW e \in Span
          PROVE  /\ Append(p, e) \in Seq(Span) /\ Len(Append(p, e)) = 2
                 /\ Append(p, e)[1] = p[1] /\ Append(p, e)[2] = e
      <4>1. Len(p) = 1
        BY <2>5
      <4>2. Append(p, e) \in Seq(Span) /\ Len(Append(p, e)) = Len(p) + 1
            /\ (\A k \in 1..Len(p) : Append(p, e)[k] = p[k])
            /\ Append(p, e)[Len(p) + 1] = e
        BY AppendProperties
      <4>. QED
        BY <4>1, <4>2
    <3>. QED
      BY <3>1, <3>2
  <2>7. Divided(text, q, tmp + 1)
    <3>1. WordSpan(text, s, tmp + 1)
      <4>1. PICK span : span = [start |-> s, end |-> tmp + 1]
        OBVIOUS
      <4>2. span.start = s /\ span.end = tmp + 1
        BY <4>1
      <4>. QED
        BY <2>4, <4>2, KeywordIsAs
    <3>2. s \in Nat /\ tmp + 1 \in Nat /\ Divided(text, p, s)
      BY <1>2, <2>1, <2>5 DEF HasImage
    <3>3. \A k \in 1..Len(p) : q[k] = p[k] /\ Apart(text, p[k].end, s)
      BY <2>5, <2>6 DEF Parted
    <3>4. Len(q) = Len(p) + 1 /\ q[Len(p) + 1].start = s /\ q[Len(p) + 1].end = tmp + 1
      BY <2>5, <2>6
    <3>. QED
      BY <3>1, <3>2, <3>3, <3>4, DividedMore
  <2>8. HasKeyword(q, s)'
    <3>1. Collects(text, image, q[1].start, q[1].end)
      BY <2>5, <2>6 DEF HasImage
    <3>2. KeywordAt(q[2].start, q[2].end)'
      BY <1>1, <2>4, <2>6 DEF KeywordAt
    <3>. QED
      BY <1>1, <1>2, <2>2, <2>6, <2>7, <3>1, <3>2 DEF HasKeyword, HasImage
  <2>9. AsGapInv'
    <3>1. \A b \in q[2].end..s' - 1 : ~Belongs(text, b)
      BY <2>1, <2>2, <2>6
    <3>. QED
      BY <1>1, <1>3, <2>2, <2>3, <2>6, <2>8, <3>1 DEF AsGapInv
  <2>10. WordsDecide' /\ LeavesTheNewline'
    BY <2>2, Undecided
  <2>11. Phases' /\ ImageInv' /\ ImageGapInv' /\ AsInv' /\ NameInv' /\ NameGapInv'
    BY <1>1, <1>2, <2>2 DEF Phases, ImageInv, ImageGapInv, AsInv, NameInv, NameGapInv
  <2>12. has_space' \in BOOLEAN
    BY <1>1, Zenon
  <2>13. s' \in 0..Len(text)
    BY <1>2, <2>1, <2>2
  <2>. QED
    BY <1>1, <1>2, <2>9, <2>10, <2>11, <2>12, <2>13 DEF FromInv
<1>. QED
  BY <1>2, <1>4, <1>5 DEF LettersMatched

(* A continuation between the letters.                                      *)
LEMMA AsContinuedInv ==
  ASSUME FromInv, AsContinued
  PROVE  FromInv'
<1>1. /\ pc = "as" /\ Continues(text, tmp) /\ tmp' = Continuation(text, tmp)
      /\ UNCHANGED <<text, s, has_space, start, word_start, buf, pc, image, as_start,
                     matched, name, error>>
  BY DEF AsContinued, scanning
<1>2. /\ text \in Inputs /\ Len(text) \in Nat /\ s \in 0..Len(text)
      /\ Walk(text, s) /\ GapOver /\ as_start = s /\ ImageBefore(as_start) /\ LettersMatched
  BY <1>1, InputsAreSequences DEF FromInv, AsInv
<1>3. /\ matched = 1 /\ TokenFits
      /\ At(text, s, {"A"}) /\ Belongs(text, s)
      /\ Walk(text, tmp) /\ s < tmp
      /\ \A b \in s + 1..tmp - 1 : ~Belongs(text, b)
  BY <1>1, <1>2 DEF LettersMatched, GapOver
<1>4. Walk(text, tmp') /\ tmp <= tmp' /\ \A b \in tmp..tmp' - 1 : ~Belongs(text, b)
  BY <1>1, <1>2, <1>3, GapContinuation
<1>5. tmp \in Nat /\ tmp' \in Nat /\ s \in Nat
  BY <1>2, <1>3, <1>4 DEF Walk
<1>6. \A b \in s + 1..tmp' - 1 : ~Belongs(text, b)
  <2>1. \A b \in s + 1..tmp' - 1 : b \in s + 1..tmp - 1 \/ b \in tmp..tmp' - 1
    <3>1. s + 1 \in Nat
      BY <1>5
    <3>. QED
      BY <1>5, <3>1, EitherSide
  <2>. QED
    BY <1>3, <1>4, <2>1
<1>7. LettersMatched'
  <2>1. s < tmp'
    BY <1>3, <1>4, <1>5
  <2>. QED
    BY <1>1, <1>3, <1>4, <1>6, <2>1 DEF LettersMatched, TokenFits
<1>8. AsInv'
  BY <1>1, <1>2, <1>7 DEF AsInv, GapOver, ImageBefore, HasImage
<1>9. WordsDecide' /\ LeavesTheNewline'
  BY <1>1, Undecided
<1>10. Phases' /\ ImageInv' /\ ImageGapInv' /\ AsGapInv' /\ NameInv' /\ NameGapInv'
  BY <1>1 DEF FromInv, Phases, ImageInv, ImageGapInv, AsGapInv, NameInv, NameGapInv
<1>. QED
  BY <1>1, <1>8, <1>9, <1>10 DEF FromInv

(* Another letter: the second word is not AS.                               *)
LEMMA OtherLetter ==
  ASSUME text \in Inputs, Len(text) \in Nat, s \in 0..Len(text), s < Len(text),
         Walk(text, s), SolidAt(text, s), LettersMatched,
         ~LetterNext, ~(TokenFits /\ Continues(text, tmp)),
         NEW w, WordFrom(text, w, s)
  PROVE  ~IsAs(w)
<1>. SUFFICES ASSUME IsAs(w) PROVE FALSE
  OBVIOUS
<1>1. PICK i \in w, j \in w : i < j /\ w = {i, j} /\ text[i + 1] = "A" /\ text[j + 1] = "S"
  BY DEF IsAs
<1>2. \A b : b \in w <=> /\ b \in s..Len(text) - 1 /\ SolidAt(text, b)
                         /\ \A c \in s..b : ~BlankAt(text, c)
  BY DEF WordFrom
<1>3. s \in w
  <2>1. s \in s..Len(text) - 1 /\ \A c \in s..s : c = s
    OBVIOUS
  <2>. QED
    BY <1>2, <2>1 DEF SolidAt, BlankAt
<1>4. i = s /\ j \in s + 1..Len(text) - 1
  <2>1. i \in s..Len(text) - 1 /\ j \in s..Len(text) - 1
    BY <1>2
  <2>2. s = i \/ s = j
    BY <1>1, <1>3
  <2>. QED
    BY <1>1, <2>1, <2>2
<1>5. SolidAt(text, j) /\ \A c \in s..j : ~BlankAt(text, c)
  BY <1>1, <1>2
<1>6. TokenFits /\ At(text, s, {"A"})
  BY <1>1, <1>4 DEF TokenFits, Letter, At
<1>7. CASE matched = 0 /\ tmp = s
  BY <1>6, <1>7 DEF LetterNext, Letter
<1>8. CASE /\ matched = 1
           /\ Walk(text, tmp) /\ s < tmp
           /\ \A b \in s + 1..tmp - 1 : ~Belongs(text, b)
  <2>1. tmp \in 0..Len(text)
    BY <1>8 DEF Walk
  <2>2. tmp <= j
    <3>1. j \notin s + 1..tmp - 1
      BY <1>5, <1>8 DEF SolidAt
    <3>. QED
      BY <1>4, <2>1, <3>1
  <2>3. tmp < Len(text) /\ ~Continues(text, tmp)
    BY <1>4, <1>6, <2>1, <2>2
  <2>4. text[tmp + 1] # "lf"
    <3>1. SUFFICES ASSUME text[tmp + 1] = "lf" PROVE FALSE
      OBVIOUS
    <3>2. \A b \in tmp..Len(text) - 1 : ~Belongs(text, b)
      BY <1>8, <2>3, <3>1, WalkOver DEF At
    <3>3. j \in tmp..Len(text) - 1
      BY <1>4, <2>1, <2>2
    <3>. QED
      BY <1>5, <3>2, <3>3 DEF SolidAt
  <2>5. Belongs(text, tmp)
    BY <1>8, <2>3, <2>4, WalkByte
  <2>6. tmp # j
    <3>1. ~At(text, tmp, {"S"})
      BY <1>6, <1>8 DEF LetterNext, Letter
    <3>. QED
      BY <1>1, <2>3, <3>1 DEF At
  <2>7. tmp \in s..j /\ tmp \in s..Len(text) - 1 /\ \A c \in s..tmp : c \in s..j
    BY <1>4, <1>8, <2>1, <2>2, <2>3
  <2>8. tmp \in w
    BY <1>2, <1>5, <2>5, <2>7 DEF SolidAt, BlankAt
  <2>. QED
    BY <1>1, <1>4, <1>8, <2>6, <2>8
<1>. QED
  BY <1>7, <1>8 DEF LettersMatched

(* The word is not AS, or there is none.                                    *)
LEMMA AsMissingInv ==
  ASSUME FromInv, AsMissing
  PROVE  FromInv'
<1>1. /\ pc = "as" /\ ~LetterNext /\ ~(TokenFits /\ Continues(text, tmp))
      /\ UNCHANGED <<text, s, has_space, start, word_start, buf, image, as_start, tmp,
                     matched, name>>
  BY DEF AsMissing, scanning
<1>2. /\ text \in Inputs /\ Len(text) \in Nat /\ s \in 0..Len(text) /\ has_space \in BOOLEAN
      /\ Walk(text, s) /\ GapOver /\ as_start = s /\ ImageBefore(as_start) /\ LettersMatched
      /\ name = NoName
  BY <1>1, InputsAreSequences DEF FromInv, AsInv, Phases
<1>3. CASE LineEnd
  <2>1. pc' = "done"
    BY <1>3 DEF AsMissing
  <2>2. PICK q \in Seq(Span) : Len(q) = 1 /\ HasImage(q, s)
    BY <1>2 DEF ImageBefore
  <2>3. WordsDecide' /\ LeavesTheNewline'
    BY <1>1, <1>2, <1>3, <2>1, <2>2, ImageOnly
  <2>. QED
    BY <1>1, <1>2, <2>1, <2>3, Ended
<1>4. CASE ~LineEnd
  <2>1. pc' = "failed" /\ error' = [kind |-> "AS", pos |-> s]
    BY <1>2, <1>4 DEF AsMissing, Fail
  <2>2. s < Len(text) /\ SolidAt(text, s)
    BY <1>2, <1>4, NextWord
  <2>3. ~IsAs(InOrder(LineWords(text))[2])
    <3>1. PICK words : words = InOrder(LineWords(text))
      OBVIOUS
    <3>2. WordFrom(text, words[2], s)
      BY <1>2, <2>2, <3>1, SecondWord
    <3>3. ~IsAs(words[2])
      BY <1>1, <1>2, <2>2, <3>2, OtherLetter
    <3>. QED
      BY <3>1, <3>3
  <2>4. WordsDecide' /\ LeavesTheNewline'
    BY <1>1, <1>2, <2>1, <2>2, <2>3, NoKeyword
  <2>. QED
    BY <1>1, <1>2, <2>1, <2>4, Ended
<1>. QED
  BY <1>3, <1>4

(* The letters of AS and more of the word: it is not AS either.             *)
LEMMA LongerWord ==
  ASSUME text \in Inputs, Len(text) \in Nat, s \in 0..Len(text), s < Len(text),
         SolidAt(text, s),
         NEW i, NEW e, KeywordAt(i, e), e <= s, \A b \in e..s - 1 : ~Belongs(text, b),
         NEW w, WordFrom(text, w, i)
  PROVE  ~IsAs(w)
<1>1. /\ i \in Nat /\ e \in Nat /\ s \in Nat /\ i < e - 1 /\ e <= s
      /\ Belongs(text, i) /\ text[i + 1] = "A"
      /\ Belongs(text, e - 1) /\ text[(e - 1) + 1] = "S"
      /\ \A b \in i + 1..e - 2 : ~Belongs(text, b)
  BY DEF KeywordAt
<1>2. \A c \in i..s : c = i \/ c = e - 1 \/ c = s \/ c \in i + 1..e - 2 \/ c \in e..s - 1
  BY <1>1
<1>3. \A c \in i..s : ~BlankAt(text, c)
  BY <1>1, <1>2 DEF BlankAt, SolidAt, Whitespace
<1>4. SolidAt(text, i) /\ SolidAt(text, e - 1)
  BY <1>1 DEF SolidAt, Whitespace
<1>5. \A b \in {i, e - 1, s} : b \in i..Len(text) - 1 /\ \A c \in i..b : c \in i..s
  BY <1>1
<1>6. i \in w /\ e - 1 \in w /\ s \in w
  BY <1>3, <1>4, <1>5 DEF WordFrom
<1>7. i # e - 1 /\ e - 1 # s /\ i # s
  BY <1>1
<1>. QED
  BY <1>6, <1>7 DEF IsAs

(* Behind the keyword: whitespace, or there is no keyword.                  *)
LEMMA AsGapEndsInv ==
  ASSUME FromInv, AsGapEnds
  PROVE  FromInv'
<1>1. /\ pc = "as_gap" /\ GapOver
      /\ UNCHANGED <<text, s, has_space, image, as_start, tmp, matched, name>>
  BY DEF AsGapEnds
<1>2. /\ text \in Inputs /\ Len(text) \in Nat /\ s \in 0..Len(text) /\ has_space \in BOOLEAN
      /\ Walk(text, s) /\ ImageBefore(as_start)
  BY <1>1, InputsAreSequences DEF FromInv, AsGapInv
<1>3. PICK q \in Seq(Span) :
        /\ Len(q) = 2 /\ HasKeyword(q, s)
        /\ IF has_space THEN Parted(text, q, s)
           ELSE \A b \in q[2].end..s - 1 : ~Belongs(text, b)
  BY <1>1 DEF FromInv, AsGapInv
<1>4. CASE has_space
  <2>1. pc' = "name" /\ start' = s /\ word_start' = s /\ buf' = <<>>
    BY <1>1, <1>4 DEF AsGapEnds, WordStarts
  <2>2. Scanned(text, s, s, <<>>, s) /\ ~At(text, s, Whitespace)
    BY <1>1, <1>2, ScannedStart DEF GapOver
  <2>3. Parted(text, q, s)
    BY <1>3, <1>4
  <2>4. NameInv'
    BY <1>1, <1>3, <2>1, <2>2, <2>3 DEF NameInv, HasKeyword, HasImage, KeywordAt
  <2>5. WordsDecide' /\ LeavesTheNewline'
    BY <2>1, Undecided
  <2>6. Phases' /\ ImageInv' /\ ImageGapInv' /\ AsInv' /\ AsGapInv' /\ NameGapInv'
    BY <2>1 DEF Phases, ImageInv, ImageGapInv, AsInv, AsGapInv, NameGapInv
  <2>. QED
    BY <1>1, <1>2, <2>4, <2>5, <2>6 DEF FromInv
<1>5. CASE ~has_space
  <2>1. pc' = "failed" /\ error' = [kind |-> "AS", pos |-> as_start]
    BY <1>5 DEF AsGapEnds, Fail
  <2>2. \A b \in q[2].end..s - 1 : ~Belongs(text, b)
    BY <1>3, <1>5
  <2>3. CASE LineEnd
    <3>1. WordsDecide' /\ LeavesTheNewline'
      BY <1>1, <1>2, <1>3, <2>1, <2>2, <2>3, KeywordOnly
    <3>. QED
      BY <1>1, <1>2, <2>1, <3>1, Ended
  <2>4. CASE ~LineEnd
    <3>1. s < Len(text) /\ SolidAt(text, s)
      BY <1>1, <1>2, <2>4, NextWord
    <3>2. /\ q[2].start = as_start /\ KeywordAt(as_start, q[2].end) /\ q[2].end <= s
      BY <1>3 DEF HasKeyword, HasImage, Divided
    <3>3. as_start \in 0..Len(text) /\ as_start < Len(text) /\ SolidAt(text, as_start)
      BY <1>2, <3>2 DEF KeywordAt, SolidAt, Whitespace
    <3>4. ~IsAs(InOrder(LineWords(text))[2])
      <4>1. PICK words : words = InOrder(LineWords(text))
        OBVIOUS
      <4>2. WordFrom(text, words[2], as_start)
        BY <1>2, <3>3, <4>1, SecondWord
      <4>3. ~IsAs(words[2])
        BY <1>2, <2>2, <3>1, <3>2, <4>2, LongerWord
      <4>. QED
        BY <4>1, <4>3
    <3>5. WordsDecide' /\ LeavesTheNewline'
      BY <1>1, <1>2, <2>1, <3>3, <3>4, NoKeyword
    <3>. QED
      BY <1>1, <1>2, <2>1, <3>5, Ended
  <2>. QED
    BY <2>3, <2>4
<1>. QED
  BY <1>4, <1>5

(* The name ends, which may be empty.                                       *)
LEMMA NameEndsInv ==
  ASSUME FromInv, NameEnds
  PROVE  FromInv'
<1>1. /\ pc = "name" /\ WordOver(WordEnd) /\ name' = Value /\ pc' = "name_gap"
      /\ has_space' = FALSE
      /\ UNCHANGED <<text, s, start, word_start, buf, image, as_start, tmp, matched, error>>
  BY DEF NameEnds
<1>2. /\ text \in Inputs /\ Len(text) \in Nat /\ s \in 0..Len(text)
      /\ Scanned(text, start, word_start, buf, s) /\ ~At(text, start, Whitespace)
  BY <1>1, InputsAreSequences DEF FromInv, NameInv
<1>3. PICK p \in Seq(Span) : Len(p) = 2 /\ HasKeyword(p, start) /\ Parted(text, p, start)
  BY <1>1 DEF FromInv, NameInv
<1>4. /\ Collects(text, Value, start, s)
      /\ Value = <<>> <=> s = start
      /\ s # start => WordSpan(text, start, s)
  <2>1. Value = Gathered(start, word_start, buf, s)
    BY DEF Value, Gathered
  <2>. QED
    BY <1>2, <2>1, ScannedIs
<1>5. Walk(text, s) /\ start \in Nat
  BY <1>2 DEF Scanned, Collecting
<1>6. NameGapInv'
  <2>1. CASE Value = <<>>
    <3>1. s = start /\ LineEnd
      BY <1>1, <1>2, <1>4, <2>1 DEF WordOver, WordEnd, LineEnd, At, Whitespace, PossibleLine
    <3>2. HasKeyword(p, s)' /\ Parted(text, p, s)
      BY <1>1, <1>3, <3>1 DEF HasKeyword, HasImage, KeywordAt
    <3>. QED
      BY <1>1, <1>3, <1>5, <2>1, <3>1, <3>2 DEF NameGapInv, LineEnd
  <2>2. CASE Value # <<>>
    <3>1. WordSpan(text, start, s)
      BY <1>4, <2>2
    <3>2. PICK q \in Seq(Span) : /\ Len(q) = 3 /\ (\A k \in 1..2 : q[k] = p[k])
                                 /\ q[3].start = start /\ q[3].end = s
      <4>1. PICK last \in Span : last.start = start /\ last.end = s
        <5>1. [start |-> start, end |-> s] \in Span
          BY <1>2, <1>5 DEF Span
        <5>. QED
          BY <5>1
      <4>2. ASSUME NEW e \in Span
            PROVE  /\ Append(p, e) \in Seq(Span) /\ Len(Append(p, e)) = 3
                   /\ (\A k \in 1..2 : Append(p, e)[k] = p[k]) /\ Append(p, e)[3] = e
        <5>1. Len(p) = 2
          BY <1>3
        <5>2. Append(p, e) \in Seq(Span) /\ Len(Append(p, e)) = Len(p) + 1
              /\ (\A k \in 1..Len(p) : Append(p, e)[k] = p[k])
              /\ Append(p, e)[Len(p) + 1] = e
          BY AppendProperties
        <5>. QED
          BY <5>1, <5>2
      <4>. QED
        BY <4>1, <4>2
    <3>3. Divided(text, q, s)
      <4>1. s \in Nat /\ Divided(text, p, start)
        BY <1>2, <1>3 DEF HasKeyword, HasImage
      <4>2. \A k \in 1..Len(p) : q[k] = p[k] /\ Apart(text, p[k].end, start)
        BY <1>3, <3>2 DEF Parted
      <4>3. Len(q) = Len(p) + 1 /\ q[Len(p) + 1].start = start /\ q[Len(p) + 1].end = s
        BY <1>3, <3>2
      <4>. QED
        BY <1>5, <3>1, <4>1, <4>2, <4>3, DividedMore
    <3>4. HasKeyword(q, s)'
      <4>1. q[1] = p[1] /\ q[2] = p[2] /\ Len(q) >= 2
        BY <3>2
      <4>. QED
        BY <1>1, <1>3, <3>3, <4>1 DEF HasKeyword, HasImage, KeywordAt
    <3>5. Collects(text, Value, q[3].start, q[3].end)
      BY <1>4, <3>2
    <3>. QED
      BY <1>1, <1>5, <3>2, <3>4, <3>5 DEF NameGapInv, WordOver
  <2>. QED
    BY <2>1, <2>2
<1>7. WordsDecide' /\ LeavesTheNewline'
  BY <1>1, Undecided
<1>8. Phases' /\ ImageInv' /\ ImageGapInv' /\ AsInv' /\ AsGapInv' /\ NameInv'
  BY <1>1 DEF Phases, ImageInv, ImageGapInv, AsInv, AsGapInv, NameInv
<1>9. has_space' \in BOOLEAN
  BY <1>1, Zenon
<1>. QED
  BY <1>1, <1>2, <1>6, <1>7, <1>8, <1>9 DEF FromInv

(* Behind the name: the end of the line, or a word too many.                *)
LEMMA NameGapEndsInv ==
  ASSUME FromInv, NameGapEnds
  PROVE  FromInv'
<1>1. /\ pc = "name_gap" /\ GapOver
      /\ UNCHANGED <<text, s, has_space, start, word_start, buf, image, as_start, tmp,
                     matched, name>>
  BY DEF NameGapEnds, scanning
<1>2. /\ text \in Inputs /\ s \in 0..Len(text) /\ has_space \in BOOLEAN /\ Walk(text, s)
  BY <1>1 DEF FromInv, NameGapInv
<1>3. PICK q \in Seq(Span) :
        /\ HasKeyword(q, s)
        /\ \/ Len(q) = 2 /\ name = <<>> /\ Parted(text, q, s) /\ LineEnd
           \/ /\ Len(q) = 3 /\ Collects(text, name, q[3].start, q[3].end)
              /\ IF has_space THEN Parted(text, q, s) ELSE WordOver(WordEnd)
  BY <1>1 DEF FromInv, NameGapInv
<1>4. CASE LineEnd
  <2>1. pc' = "done"
    BY <1>4 DEF NameGapEnds
  <2>2. CASE Len(q) = 2
    <3>1. name' = <<>> /\ Parted(text, q, s)
      BY <1>1, <1>3, <2>2
    <3>2. WordsDecide' /\ LeavesTheNewline'
      BY <1>1, <1>2, <1>3, <1>4, <2>1, <2>2, <3>1, EmptyName
    <3>. QED
      BY <1>1, <1>2, <2>1, <3>2, Ended
  <2>3. CASE Len(q) = 3
    <3>1. Collects(text, name, q[3].start, q[3].end)
      BY <1>3, <2>3
    <3>2. WordsDecide' /\ LeavesTheNewline'
      BY <1>1, <1>2, <1>3, <1>4, <2>1, <2>3, <3>1, ThreeWords
    <3>. QED
      BY <1>1, <1>2, <2>1, <3>2, Ended
  <2>. QED
    BY <1>3, <2>2, <2>3
<1>5. CASE ~LineEnd
  <2>1. pc' = "failed" /\ error' = [kind |-> "newline_or_eof", pos |-> s]
    BY <1>5 DEF NameGapEnds, Fail
  <2>2. ~WordOver(WordEnd)
    BY <1>1, <1>5, WordOverIs
  <2>3. Len(q) = 3 /\ Parted(text, q, s)
    BY <1>2, <1>3, <1>5, <2>2
  <2>4. s < Len(text) /\ SolidAt(text, s)
    BY <1>1, <1>2, <1>5, NextWord
  <2>5. WordsDecide' /\ LeavesTheNewline'
    BY <1>1, <1>2, <1>3, <2>1, <2>3, <2>4, FourthWord
  <2>. QED
    BY <1>1, <1>2, <2>1, <2>5, Ended
<1>. QED
  BY <1>4, <1>5

LEMMA FromNextInv == FromInv /\ [FromNext]_fromVars => FromInv'
<1>. SUFFICES ASSUME FromInv, [FromNext]_fromVars PROVE FromInv'
  OBVIOUS
<1>1. CASE Collect
  BY <1>1, CollectInv
<1>2. CASE ImageEnds
  BY <1>2, ImageEndsInv
<1>3. CASE Skip
  BY <1>3, SkipInv
<1>4. CASE ImageGapEnds
  BY <1>4, ImageGapEndsInv
<1>5. CASE AsLetter
  BY <1>5, AsLetterInv
<1>6. CASE AsContinued
  BY <1>6, AsContinuedInv
<1>7. CASE AsMissing
  BY <1>7, AsMissingInv
<1>8. CASE AsGapEnds
  BY <1>8, AsGapEndsInv
<1>9. CASE NameEnds
  BY <1>9, NameEndsInv
<1>10. CASE NameGapEnds
  BY <1>10, NameGapEndsInv
<1>11. CASE UNCHANGED fromVars
  <2>1. UNCHANGED <<text, s, has_space, start, word_start, buf, pc, image, as_start, tmp,
                    matched, name, error>>
    BY <1>11 DEF fromVars, scanning
  <2>2. ImageInv' /\ ImageGapInv' /\ AsInv'
    BY <2>1 DEF FromInv, ImageInv, ImageGapInv, AsInv, HasImage, ImageBefore, LettersMatched,
                TokenFits, GapOver, WordOver
  <2>3. AsGapInv'
    BY <2>1 DEF FromInv, AsGapInv, HasImage, HasKeyword, KeywordAt, ImageBefore
  <2>4. NameInv' /\ NameGapInv'
    BY <2>1 DEF FromInv, NameInv, NameGapInv, HasImage, HasKeyword, KeywordAt, WordOver, LineEnd
  <2>5. WordsDecide' /\ LeavesTheNewline' /\ Phases'
    BY <2>1 DEF FromInv, WordsDecide, LeavesTheNewline, Phases, LineEnd, IsAs, Failed, Instruction
  <2>. QED
    BY <2>1, <2>2, <2>3, <2>4, <2>5 DEF FromInv
<1>. QED
  BY <1>1, <1>2, <1>3, <1>4, <1>5, <1>6, <1>7, <1>8, <1>9, <1>10, <1>11 DEF FromNext

LEMMA FromInvariance == FromSpec => []FromInv
BY FromInitInv, FromNextInv, PTL DEF FromSpec

-----------------------------------------------------------------------------
(* parse_from takes the words of the logical line for image, AS and name,   *)
(* whatever continuations break them up, and fails with the error, at the   *)
(* word, that they call for: of every text.                                 *)
THEOREM DecideCorrect == FromSpec => []WordsDecide
<1>1. FromInv => WordsDecide
  BY DEF FromInv
<1>. QED
  BY <1>1, FromInvariance, PTL

(* parse_from leaves the newline and nothing else of its line: the loop     *)
(* over the instructions goes on where the reference says the line ends.    *)
THEOREM NewlineCorrect == FromSpec => []LeavesTheNewline
<1>1. FromInv => LeavesTheNewline
  BY DEF FromInv
<1>. QED
  BY <1>1, FromInvariance, PTL
=================================================================================
