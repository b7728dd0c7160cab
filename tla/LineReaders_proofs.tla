--------------------------- MODULE LineReaders_proofs ---------------------------
(***************************************************************************)
(* Of every text, over any bytes and of any length: the argument ArgString  *)
(* collects is what the logical line says, its span holds it, and the parser*)
(* goes on with the line after; the shell form takes all of the logical     *)
(* line, nothing of the next, and no comment line by itself.                *)
(***************************************************************************)
EXTENDS ArgString, CurrentLine, LogicalLine_proofs

(* ArgString: the inductive invariant, phase by phase.                      *)

(* The bytes passed before p are blank.                                     *)
Leading(p) == \A b \in 0..p - 1 : Belongs(text, b) => text[b + 1] \in Whitespace
(* ... and there are some, if whitespace was found.                         *)
Separation(p) == has_space <=> \E b \in 0..p - 1 : Belongs(text, b)

SeparateInv ==
  pc = "separate" =>
    /\ Walk(text, s)
    /\ Leading(s)
    /\ Separation(s)
    /\ buf = <<>>

ArgumentInv ==
  pc \in {"collect", "trim"} =>
    /\ Leading(start)
    /\ Separation(start)
    /\ ~At(text, start, Whitespace)

CollectInv ==
  pc = "collect" =>
    /\ Walk(text, s)
    /\ start <= word_start /\ word_start <= s
    /\ ~Continues(text, start)
    /\ has_space \/ start = Len(text) \/ At(text, start, {"lf"})
    /\ s = start \/ Belongs(text, start)
    /\ \A b \in word_start..s - 1 : Belongs(text, b)
    /\ Collects(text, buf, start, word_start)

ArgTrimInv ==
  pc = "trim" =>
    /\ s = After(text)
    /\ start <= span_end
    /\ has_space \/ start = span_end
    /\ start = span_end \/ Belongs(text, start)
    /\ Collects(text, value, start, span_end)
    /\ \A b \in span_end..Len(text) - 1 : Belongs(text, b) => text[b + 1] \in Whitespace
    /\ start = word_start => value = Piece(start, span_end)

ArgIInv ==
  /\ TypeOK
  /\ SeparateInv
  /\ ArgumentInv
  /\ CollectInv
  /\ ArgTrimInv
  /\ MeansTheLine
  /\ ArgEndsWithTheLine
  /\ SpanHolds

-----------------------------------------------------------------------------
(* Positions are numbers within the text.                                   *)
LEMMA Positions ==
  ASSUME TypeOK
  PROVE  /\ MaxLen \in Nat /\ Len(text) \in Nat /\ Len(text) <= MaxLen
         /\ s \in 0..Len(text) /\ start \in 0..Len(text)
         /\ word_start \in 0..Len(text) /\ span_end \in 0..Len(text)
BY InputsAreSequences DEF TypeOK

LEMMA ArgInitInv == ArgInit => ArgIInv
<1>. SUFFICES ASSUME ArgInit PROVE ArgIInv
  OBVIOUS
<1>1. MaxLen \in Nat /\ Len(text) \in Nat
  BY InputsAreSequences DEF ArgInit
<1>2. TypeOK
  <2>1. <<>> \in Seq(0..MaxLen)
    BY EmptySeq
  <2>2. 0 \in 0..Len(text)
    BY <1>1
  <2>. QED
    BY <2>1, <2>2, Zenon DEF ArgInit, TypeOK
<1>3. SeparateInv
  <2>1. Walk(text, s)
    BY <1>1, WalkStart DEF ArgInit
  <2>. QED
    BY <2>1 DEF ArgInit, SeparateInv, Leading, Separation
<1>. QED
  BY <1>2, <1>3 DEF ArgInit, ArgIInv, ArgumentInv, CollectInv, ArgTrimInv, MeansTheLine,
                    ArgEndsWithTheLine, SpanHolds

LEMMA SeparateBlankInv ==
  ASSUME ArgIInv, SeparateBlank
  PROVE  ArgIInv'
<1>1. Len(text) \in Nat /\ s \in 0..Len(text)
  BY Positions DEF ArgIInv
<1>2. s < Len(text) /\ text[s + 1] \in Whitespace /\ text' = text /\ s' = s + 1
      /\ has_space' = TRUE /\ pc = "separate" /\ pc' = "separate" /\ buf' = buf
  BY DEF SeparateBlank, At
<1>3. ~Continues(text, s) /\ text[s + 1] # "lf"
  BY <1>1, <1>2, ContinuationAdvances DEF At, Whitespace
<1>4. Walk(text, s) /\ Leading(s) /\ buf = <<>>
  BY <1>2 DEF ArgIInv, SeparateInv
<1>5. Walk(text, s + 1) /\ Belongs(text, s)
  BY <1>1, <1>2, <1>3, <1>4, WalkByte
<1>6. \A b \in 0..(s + 1) - 1 : b = s \/ b \in 0..s - 1
  BY <1>1
<1>7. SeparateInv'
  <2>1. \A b \in 0..(s + 1) - 1 : Belongs(text, b) => text[b + 1] \in Whitespace
    BY <1>2, <1>4, <1>6 DEF Leading
  <2>2. s \in 0..(s + 1) - 1
    BY <1>1
  <2>. QED
    BY <1>2, <1>4, <1>5, <2>1, <2>2 DEF SeparateInv, Leading, Separation
<1>8. TypeOK'
  BY <1>1, <1>2 DEF ArgIInv, TypeOK, SeparateBlank
<1>. QED
  BY <1>2, <1>7, <1>8 DEF ArgIInv, ArgumentInv, CollectInv, ArgTrimInv, MeansTheLine,
                          ArgEndsWithTheLine, SpanHolds

LEMMA SeparateContinuedInv ==
  ASSUME ArgIInv, SeparateContinued
  PROVE  ArgIInv'
<1>. DEFINE f == Continuation(text, s)
<1>1. Len(text) \in Nat /\ s \in 0..Len(text)
  BY Positions DEF ArgIInv
<1>2. /\ Continues(text, s) /\ text' = text /\ s' = f
      /\ has_space' = has_space /\ pc = "separate" /\ pc' = "separate" /\ buf' = buf
  BY DEF SeparateContinued
<1>3. Walk(text, s) /\ Leading(s) /\ Separation(s) /\ buf = <<>>
  BY <1>2 DEF ArgIInv, SeparateInv
<1>4. Walk(text, f) /\ \A b \in s..f - 1 : ~Belongs(text, b)
  BY <1>1, <1>2, <1>3, WalkContinued
<1>5. f \in s..Len(text)
  BY <1>1, ContinuationAdvances
<1>. HIDE DEF f
<1>6. \A b \in 0..f - 1 : b \in 0..s - 1 \/ b \in s..f - 1
  BY <1>1, <1>5
<1>7. \A b \in 0..s - 1 : b \in 0..f - 1
  BY <1>1, <1>5
<1>8. SeparateInv'
  BY <1>2, <1>3, <1>4, <1>6, <1>7 DEF SeparateInv, Leading, Separation
<1>9. TypeOK'
  BY <1>1, <1>2, <1>5 DEF ArgIInv, TypeOK, SeparateContinued
<1>. QED
  BY <1>2, <1>8, <1>9 DEF ArgIInv, ArgumentInv, CollectInv, ArgTrimInv, MeansTheLine,
                          ArgEndsWithTheLine, SpanHolds

LEMMA SeparatedInv ==
  ASSUME ArgIInv, Separated
  PROVE  ArgIInv'
<1>1. Len(text) \in Nat /\ s \in 0..Len(text)
  BY Positions DEF ArgIInv
<1>2. /\ ~At(text, s, Whitespace) /\ ~Continues(text, s)
      /\ text' = text /\ s' = s /\ has_space' = has_space /\ pc = "separate"
      /\ buf' = buf /\ value' = value
  BY DEF Separated
<1>3. Walk(text, s) /\ Leading(s) /\ Separation(s) /\ buf = <<>>
  BY <1>2 DEF ArgIInv, SeparateInv
<1>4. CASE has_space \/ s = Len(text) \/ At(text, s, {"lf"})
  <2>1. pc' = "collect" /\ start' = s /\ word_start' = s
    BY <1>4 DEF Separated
  <2>2. TypeOK'
    BY <1>1, <1>2, <2>1 DEF ArgIInv, TypeOK, Separated
  <2>3. ArgumentInv'
    BY <1>2, <1>3, <2>1 DEF ArgumentInv, Leading, Separation
  <2>4. Collects(text, <<>>, s, s)
    BY <1>1 DEF Collects
  <2>5. CollectInv'
    <3>1. \A b \in s..s - 1 : Belongs(text, b)
      BY <1>1
    <3>. QED
      BY <1>1, <1>2, <1>3, <1>4, <2>1, <2>4, <3>1 DEF CollectInv
  <2>. QED
    BY <2>1, <2>2, <2>3, <2>5 DEF ArgIInv, SeparateInv, ArgTrimInv, MeansTheLine,
                                  ArgEndsWithTheLine, SpanHolds
<1>5. CASE ~(has_space \/ s = Len(text) \/ At(text, s, {"lf"}))
  <2>1. pc' = "unknown" /\ start' = start /\ word_start' = word_start
    BY <1>5 DEF Separated
  <2>2. TypeOK'
    BY <1>1, <1>2, <2>1 DEF ArgIInv, TypeOK, Separated
  <2>3. s < Len(text) /\ text[s + 1] # "lf" /\ text[s + 1] \notin Whitespace
    BY <1>1, <1>2, <1>5 DEF At
  <2>4. Belongs(text, s)
    BY <1>1, <1>2, <1>3, <2>3, WalkByte
  <2>5. s \in Bytes(text) /\ Bytes(text) \in SUBSET Nat
    BY <1>1, <2>3, <2>4 DEF Bytes, Belongs
  <2>6. \A b \in Bytes(text) : ~(b < s)
    BY <1>1, <1>3, <1>5 DEF Bytes, Belongs, Separation
  <2>7. Min(Bytes(text)) = s
    <3>1. Min(Bytes(text)) \in Bytes(text) /\ Min(Bytes(text)) <= s
      BY <2>5, MinIs
    <3>. QED
      BY <1>1, <2>5, <2>6, <3>1
  <2>8. MeansTheLine'
    BY <1>2, <2>1, <2>3, <2>5, <2>7 DEF MeansTheLine
  <2>. QED
    BY <2>1, <2>2, <2>8 DEF ArgIInv, SeparateInv, ArgumentInv, CollectInv, ArgTrimInv,
                            ArgEndsWithTheLine, SpanHolds
<1>. QED
  BY <1>4, <1>5

LEMMA CollectByteInv ==
  ASSUME ArgIInv, CollectByte
  PROVE  ArgIInv'
<1>1. /\ Len(text) \in Nat /\ s \in 0..Len(text)
      /\ start \in 0..Len(text) /\ word_start \in 0..Len(text)
  BY Positions DEF ArgIInv
<1>2. /\ s < Len(text) /\ ~Continues(text, s) /\ ~At(text, s, {"lf"})
      /\ text' = text /\ s' = s + 1 /\ has_space' = has_space
      /\ start' = start /\ word_start' = word_start /\ buf' = buf
      /\ pc = "collect" /\ pc' = "collect"
  BY <1>1, NewlineAdvances DEF CollectByte
<1>3. CollectInv /\ ArgumentInv
  BY DEF ArgIInv
<1>4. Walk(text, s + 1) /\ Belongs(text, s)
  BY <1>1, <1>2, <1>3, WalkByte DEF CollectInv, At
<1>5. \A b \in word_start..(s + 1) - 1 : b = s \/ b \in word_start..s - 1
  BY <1>1
<1>6. CollectInv'
  <2>1. Belongs(text, start)
    BY <1>2, <1>3, <1>4 DEF CollectInv
  <2>2. \A b \in word_start..(s + 1) - 1 : Belongs(text, b)
    BY <1>2, <1>3, <1>4, <1>5 DEF CollectInv
  <2>3. start <= word_start /\ word_start <= s + 1
    BY <1>1, <1>2, <1>3 DEF CollectInv
  <2>. QED
    BY <1>2, <1>3, <1>4, <2>1, <2>2, <2>3 DEF CollectInv
<1>7. ArgumentInv'
  BY <1>2, <1>3 DEF ArgumentInv, Leading, Separation
<1>8. TypeOK'
  BY <1>1, <1>2 DEF ArgIInv, TypeOK, CollectByte
<1>. QED
  BY <1>2, <1>6, <1>7, <1>8 DEF ArgIInv, SeparateInv, ArgTrimInv, MeansTheLine, ArgEndsWithTheLine,
                                SpanHolds

LEMMA CollectContinuedInv ==
  ASSUME ArgIInv, CollectContinued
  PROVE  ArgIInv'
<1>. DEFINE f == Continuation(text, s)
<1>1. /\ Len(text) \in Nat /\ s \in 0..Len(text)
      /\ start \in 0..Len(text) /\ word_start \in 0..Len(text)
  BY Positions DEF ArgIInv
<1>2. /\ Continues(text, s) /\ text' = text /\ s' = f /\ has_space' = has_space
      /\ start' = start /\ word_start' = f /\ buf' = buf \o Piece(word_start, s)
      /\ pc = "collect" /\ pc' = "collect"
  BY DEF CollectContinued
<1>3. CollectInv /\ ArgumentInv
  BY DEF ArgIInv
<1>4. Walk(text, f) /\ \A b \in s..f - 1 : ~Belongs(text, b)
  BY <1>1, <1>2, <1>3, WalkContinued DEF CollectInv
<1>5. f \in s..Len(text)
  BY <1>1, ContinuationAdvances
<1>. HIDE DEF f
<1>6. Collects(text, buf', start, s)
  BY <1>1, <1>2, <1>3, CollectsMore DEF CollectInv
<1>7. Collects(text, buf', start, f)
  <2>1. f \in Nat /\ s <= f /\ start <= s
    BY <1>1, <1>2, <1>3, <1>5 DEF CollectInv
  <2>. QED
    BY <1>1, <1>4, <1>6, <2>1, CollectsSkip
<1>8. CollectInv'
  <2>1. s # start
    BY <1>2, <1>3 DEF CollectInv
  <2>2. start <= f /\ f <= f
    BY <1>1, <1>2, <1>3, <1>5 DEF CollectInv
  <2>3. \A b \in f..f - 1 : Belongs(text, b)
    BY <1>1, <1>5
  <2>. QED
    BY <1>2, <1>3, <1>4, <1>7, <2>1, <2>2, <2>3 DEF CollectInv
<1>9. ArgumentInv'
  BY <1>2, <1>3 DEF ArgumentInv, Leading, Separation
<1>10. TypeOK'
  <2>1. f \in 0..Len(text)
    BY <1>1, <1>5
  <2>2. buf' \in Seq(0..MaxLen)
    BY <1>1, <1>7, <2>1, CollectsPositions DEF ArgIInv, TypeOK
  <2>. QED
    BY <1>2, <2>1, <2>2 DEF ArgIInv, TypeOK, CollectContinued
<1>. QED
  BY <1>2, <1>8, <1>9, <1>10 DEF ArgIInv, SeparateInv, ArgTrimInv, MeansTheLine,
                                 ArgEndsWithTheLine, SpanHolds

(* What CollectToEnd and CollectToNewline have in common.                   *)
LEMMA CollectedInv ==
  ASSUME ArgIInv, pc = "collect", NEW next \in s..Len(text), Collected(next),
         next = After(text),
         s # start => has_space,
         \A b \in s..Len(text) - 1 : Belongs(text, b) => text[b + 1] \in Whitespace,
         s = start \/ Belongs(text, start)
  PROVE  ArgIInv'
<1>1. /\ Len(text) \in Nat /\ s \in 0..Len(text)
      /\ start \in 0..Len(text) /\ word_start \in 0..Len(text)
  BY Positions DEF ArgIInv
<1>2. /\ text' = text /\ s' = next /\ has_space' = has_space
      /\ start' = start /\ word_start' = word_start /\ span_end' = s
      /\ buf' = buf /\ pc' = "trim"
      /\ value' = IF start = word_start THEN Piece(word_start, s)
                                        ELSE buf \o Piece(word_start, s)
  BY DEF Collected
<1>3. CollectInv /\ ArgumentInv
  BY DEF ArgIInv
<1>4. start <= word_start /\ word_start <= s /\ start <= s
  BY <1>1, <1>3 DEF CollectInv
<1>5. Collects(text, value', start, s)
  <2>1. CASE start = word_start
    BY <1>1, <1>2, <1>3, <1>4, <2>1, CollectsPiece DEF CollectInv
  <2>2. CASE start # word_start
    BY <1>1, <1>2, <1>3, <1>4, <2>2, CollectsMore DEF CollectInv
  <2>. QED
    BY <2>1, <2>2
<1>6. ArgTrimInv'
  <2>1. start = word_start => value' = Piece(start, s)
    BY <1>2
  <2>. QED
    BY <1>2, <1>4, <1>5, <2>1 DEF ArgTrimInv
<1>7. ArgumentInv'
  BY <1>2, <1>3 DEF ArgumentInv, Leading, Separation
<1>8. TypeOK'
  <2>1. value' \in Seq(0..MaxLen)
    BY <1>1, <1>5, CollectsPositions DEF ArgIInv, TypeOK
  <2>2. next \in 0..Len(text)
    BY <1>1
  <2>. QED
    BY <1>1, <1>2, <2>1, <2>2 DEF ArgIInv, TypeOK
<1>. QED
  BY <1>2, <1>6, <1>7, <1>8 DEF ArgIInv, SeparateInv, CollectInv, MeansTheLine, ArgEndsWithTheLine,
                                SpanHolds

LEMMA CollectToEndInv ==
  ASSUME ArgIInv, CollectToEnd
  PROVE  ArgIInv'
<1>1. Len(text) \in Nat /\ s \in 0..Len(text) /\ start \in 0..Len(text)
  BY Positions DEF ArgIInv
<1>2. s = Len(text) /\ Collected(s) /\ pc = "collect" /\ CollectInv
  BY DEF CollectToEnd, ArgIInv
<1>3. s = After(text)
  BY <1>1, <1>2, WalkEnd DEF CollectInv
<1>4. s # start => has_space
  BY <1>1, <1>2 DEF CollectInv, Belongs, BelongsTo, At
<1>5. \A b \in s..Len(text) - 1 : Belongs(text, b) => text[b + 1] \in Whitespace
  BY <1>1, <1>2
<1>6. s \in s..Len(text)
  BY <1>1, <1>2
<1>7. s = start \/ Belongs(text, start)
  BY <1>2 DEF CollectInv
<1>. QED
  BY <1>2, <1>3, <1>4, <1>5, <1>6, <1>7, CollectedInv

LEMMA CollectToNewlineInv ==
  ASSUME ArgIInv, CollectToNewline
  PROVE  ArgIInv'
<1>. DEFINE n == Newline(text, s)
<1>1. /\ Len(text) \in Nat /\ s \in 0..Len(text)
      /\ start \in 0..Len(text) /\ word_start \in 0..Len(text)
  BY Positions DEF ArgIInv
<1>2. n # s /\ Collected(n) /\ pc = "collect" /\ CollectInv
  BY DEF CollectToNewline, ArgIInv
<1>3. /\ n = After(text)
      /\ \A i \in s..Len(text) : Belongs(text, i) => i = s /\ text[s + 1] = "cr"
  BY <1>1, <1>2, WalkNewline DEF CollectInv
<1>4. s # start => has_space
  <2>1. s # start => start < Len(text)
    BY <1>1, <1>2 DEF CollectInv
  <2>. QED
    BY <1>1, <1>2, <2>1 DEF CollectInv, Belongs, BelongsTo, At
<1>5. \A b \in s..Len(text) - 1 : Belongs(text, b) => text[b + 1] \in Whitespace
  <2>1. \A b \in s..Len(text) - 1 : b \in s..Len(text)
    BY <1>1
  <2>. QED
    BY <1>3, <2>1 DEF Whitespace
<1>6. n \in s..Len(text)
  BY <1>1, NewlineAdvances
<1>7. s = start \/ Belongs(text, start)
  BY <1>2 DEF CollectInv
<1>. HIDE DEF n
<1>. QED
  BY <1>2, <1>3, <1>4, <1>5, <1>6, <1>7, CollectedInv

-----------------------------------------------------------------------------
(* The bytes up to the last one that is not trimmed.                        *)
LEMMA KeptIs ==
  ASSUME value \in Seq(Nat)
  PROVE  /\ Kept \in 0..Len(value)
         /\ Kept # 0 => text[value[Kept] + 1] \notin Whitespace \cup PossibleLine
         /\ \A k \in Kept + 1..Len(value) : text[value[k] + 1] \in Whitespace \cup PossibleLine
<1>. DEFINE S == {0} \cup {k \in DOMAIN value : text[value[k] + 1] \notin Whitespace \cup PossibleLine}
<1>1. Len(value) \in Nat /\ DOMAIN value = 1..Len(value)
  OBVIOUS
<1>2. S \in SUBSET (0..Len(value)) /\ 0 \in S
  BY <1>1
<1>3. Kept \in S /\ \A x \in S : x <= Kept
  <2>. HIDE DEF S
  <2>1. Max(S) \in S /\ \A x \in S : x <= Max(S)
    BY <1>1, <1>2, MaxIs
  <2>. QED
    BY <2>1 DEF Kept, S
<1>4. ASSUME NEW k \in Kept + 1..Len(value)
      PROVE  text[value[k] + 1] \in Whitespace \cup PossibleLine
  <2>1. k \in 1..Len(value) /\ ~(k <= Kept)
    BY <1>1, <1>2, <1>3
  <2>2. k \notin S
    BY <1>3, <2>1
  <2>. QED
    BY <1>1, <2>1, <2>2
<1>. QED
  BY <1>1, <1>2, <1>3, <1>4

(* What is left of the value is what is left of the logical line.           *)
LEMMA TrimmedIs ==
  ASSUME TypeOK, ArgTrimInv, ArgumentInv, pc = "trim"
  PROVE  Trimmed(text, Bytes(text)) = {value[k] : k \in 1..Kept}
<1>1. /\ Len(text) \in Nat /\ start \in 0..Len(text) /\ span_end \in 0..Len(text)
  BY Positions
<1>2. /\ Leading(start) /\ ~At(text, start, Whitespace) /\ start <= span_end
      /\ start = span_end \/ Belongs(text, start)
      /\ Collects(text, value, start, span_end)
      /\ \A b \in span_end..Len(text) - 1 : Belongs(text, b) => text[b + 1] \in Whitespace
  BY DEF ArgTrimInv, ArgumentInv
<1>3. /\ value \in Seq(Nat) /\ Len(value) \in Nat
      /\ \A k \in 1..Len(value) : value[k] \in start..span_end - 1 /\ Belongs(text, value[k])
      /\ \A k, m \in 1..Len(value) : k < m => value[k] < value[m]
      /\ \A b \in start..span_end - 1 : Belongs(text, b) => \E k \in 1..Len(value) : value[k] = b
  BY <1>2 DEF Collects
<1>4. /\ Kept \in 0..Len(value)
      /\ Kept # 0 => text[value[Kept] + 1] \notin Whitespace \cup PossibleLine
      /\ \A k \in Kept + 1..Len(value) : text[value[k] + 1] \in Whitespace \cup PossibleLine
  BY <1>3, KeptIs
<1>5. \A k \in Kept + 1..Len(value) : text[value[k] + 1] \in Whitespace
  <2>1. TAKE k \in Kept + 1..Len(value)
  <2>2. Belongs(text, value[k])
    BY <1>3, <1>4
  <2>. QED
    BY <1>4, <2>2 DEF Belongs, BelongsTo, Whitespace, PossibleLine
<1>6. ASSUME NEW b \in Solid(text, Bytes(text))
      PROVE  Kept # 0 /\ \E k \in 1..Kept : value[k] = b
  <2>1. b \in 0..Len(text) - 1 /\ Belongs(text, b) /\ text[b + 1] \notin Whitespace
    BY DEF Solid, Bytes, Belongs
  <2>2. ~(b < start)
    BY <1>1, <1>2, <2>1 DEF Leading
  <2>3. ~(span_end <= b)
    BY <1>1, <1>2, <2>1
  <2>4. b \in start..span_end - 1
    BY <1>1, <2>1, <2>2, <2>3
  <2>5. PICK k \in 1..Len(value) : value[k] = b
    BY <1>3, <2>1, <2>4
  <2>6. ~(k \in Kept + 1..Len(value))
    BY <1>5, <2>1, <2>5
  <2>7. k \in 1..Kept
    BY <1>3, <1>4, <2>5, <2>6
  <2>. QED
    BY <1>4, <2>5, <2>7
<1>7. CASE Kept = 0
  <2>1. Solid(text, Bytes(text)) = {}
    BY <1>6, <1>7
  <2>2. 1..Kept = {}
    BY <1>7
  <2>. QED
    BY <2>1, <2>2 DEF Trimmed
<1>8. CASE Kept # 0
  <2>1. Kept \in 1..Len(value) /\ 1 \in 1..Len(value)
    BY <1>3, <1>4, <1>8
  <2>2. value[Kept] \in start..span_end - 1 /\ value[1] \in start..span_end - 1
    BY <1>3, <2>1
  <2>3. start < span_end /\ Belongs(text, start)
    BY <1>1, <1>2, <2>2
  <2>4. value[1] = start
    BY <1>1, <1>2, <2>3, CollectsFirst
  <2>5. start \in Solid(text, Bytes(text))
    BY <1>1, <1>2, <2>3 DEF Solid, Bytes, Belongs, At
  <2>6. value[Kept] \in Solid(text, Bytes(text))
    <3>1. Belongs(text, value[Kept]) /\ value[Kept] \in 0..Len(text) - 1
      BY <1>1, <1>3, <2>1, <2>2
    <3>. QED
      BY <1>4, <1>8, <3>1 DEF Solid, Bytes, Belongs
  <2>7. ASSUME NEW i \in Trimmed(text, Bytes(text))
        PROVE  \E k \in 1..Kept : value[k] = i
    <3>1. i \in 0..Len(text) - 1 /\ Belongs(text, i)
      BY DEF Trimmed, Bytes, Belongs
    <3>2. PICK lo \in Solid(text, Bytes(text)) : lo <= i
      BY DEF Trimmed
    <3>3. PICK hi \in Solid(text, Bytes(text)) : i <= hi
      BY DEF Trimmed
    <3>4. PICK low \in 1..Kept : value[low] = lo
      BY <1>6, <3>2
    <3>5. PICK high \in 1..Kept : value[high] = hi
      BY <1>6, <3>3
    <3>6. lo \in start..span_end - 1 /\ hi \in start..span_end - 1 /\ high \in 1..Len(value)
      <4>1. low \in 1..Len(value) /\ high \in 1..Len(value)
        BY <1>3, <1>4, <3>4, <3>5
      <4>. QED
        BY <1>3, <3>4, <3>5, <4>1
    <3>7. i \in start..span_end - 1
      BY <1>1, <3>1, <3>2, <3>3, <3>6
    <3>8. PICK k \in 1..Len(value) : value[k] = i
      BY <1>3, <3>1, <3>7
    <3>9. ~(high < k)
      <4>1. SUFFICES ASSUME high < k PROVE FALSE
        OBVIOUS
      <4>2. value[high] < value[k]
        BY <1>3, <3>6, <3>8, <4>1
      <4>. QED
        BY <1>1, <3>1, <3>3, <3>5, <3>6, <3>8, <4>2
    <3>10. k \in 1..Kept
      BY <1>3, <1>4, <3>5, <3>8, <3>9
    <3>. QED
      BY <3>8, <3>10
  <2>8. ASSUME NEW k \in 1..Kept
        PROVE  value[k] \in Trimmed(text, Bytes(text))
    <3>1. k \in 1..Len(value)
      BY <1>3, <1>4
    <3>2. value[k] \in start..span_end - 1 /\ Belongs(text, value[k])
      BY <1>3, <3>1
    <3>3. value[k] \in Bytes(text) /\ start <= value[k]
      BY <1>1, <3>2 DEF Bytes, Belongs
    <3>4. k < Kept => value[k] < value[Kept]
      BY <1>3, <2>1, <3>1
    <3>5. value[k] <= value[Kept]
      <4>1. k = Kept \/ k < Kept
        BY <1>3, <1>4
      <4>. QED
        BY <1>1, <2>2, <3>2, <3>4, <4>1
    <3>. QED
      BY <2>5, <2>6, <3>3, <3>5 DEF Trimmed
  <2>. QED
    BY <2>7, <2>8
<1>. QED
  BY <1>7, <1>8

LEMMA TrimArgumentInv ==
  ASSUME ArgIInv, TrimArgument
  PROVE  ArgIInv'
<1>1. /\ MaxLen \in Nat /\ Len(text) \in Nat /\ Len(text) <= MaxLen
      /\ s \in 0..Len(text) /\ start \in 0..Len(text) /\ span_end \in 0..Len(text)
  BY Positions DEF ArgIInv
<1>2. /\ text' = text /\ s' = s /\ start' = start /\ word_start' = word_start
      /\ pc = "trim" /\ pc' = IF value' = <<>> THEN "empty" ELSE "done"
      /\ value' = SubSeq(value, 1, Kept)
      /\ span_end' = span_end - (Len(value) - Kept)
  BY DEF TrimArgument
<1>3. TypeOK /\ ArgTrimInv /\ ArgumentInv
  BY DEF ArgIInv
<1>4. /\ start <= span_end
      /\ start = span_end \/ Belongs(text, start)
      /\ Collects(text, value, start, span_end)
      /\ Leading(start) /\ Separation(start)
      /\ has_space \/ start = span_end
      /\ \A b \in span_end..Len(text) - 1 : Belongs(text, b) => text[b + 1] \in Whitespace
      /\ s = After(text)
      /\ start = word_start => value = Piece(start, span_end)
  BY <1>2, <1>3 DEF ArgTrimInv, ArgumentInv
<1>5. /\ value \in Seq(Nat) /\ Len(value) \in Nat
      /\ \A k \in 1..Len(value) : value[k] \in start..span_end - 1
      /\ \A k, m \in 1..Len(value) : k < m => value[k] < value[m]
  BY <1>4 DEF Collects
<1>6. Kept \in 0..Len(value)
  BY <1>5, KeptIs
<1>7. /\ value' \in Seq(Nat) /\ Len(value') = Kept
      /\ \A k \in 1..Kept : value'[k] = value[k]
      /\ DOMAIN value' = 1..Kept
      /\ value' \in Seq(0..MaxLen)
  <2>1. \A k \in 1..Kept : value[k] \in Nat
    BY <1>5, <1>6
  <2>2. \A b \in start..span_end - 1 : b \in 0..MaxLen
    BY <1>1
  <2>3. \A k \in 1..Kept : value[k] \in 0..MaxLen
    BY <1>5, <1>6, <2>2
  <2>. HIDE DEF Kept
  <2>4. SubSeq(value, 1, Kept) \in Seq(0..MaxLen) /\ SubSeq(value, 1, Kept) \in Seq(Nat)
    BY <1>5, <1>6, <2>1, <2>3, SubSeqProperties
  <2>5. /\ Len(SubSeq(value, 1, Kept)) = Kept
        /\ \A k \in 1..Kept : SubSeq(value, 1, Kept)[k] = value[k]
    BY <1>5, <1>6
  <2>. QED
    BY <1>2, <2>4, <2>5
<1>8. value' = <<>> <=> Kept = 0
  BY <1>6, <1>7
<1>9. span_end' \in 0..Len(text) /\ (Kept # 0 => value[Kept] < span_end')
  <2>1. CASE Kept # 0
    <3>1. Kept \in 1..Len(value) /\ Len(value) \in Kept..Len(value)
      BY <1>5, <1>6, <2>1
    <3>2. value[Kept] + (Len(value) - Kept) <= value[Len(value)]
      BY <1>1, <1>4, <3>1, CollectsGap
    <3>3. value[Len(value)] \in start..span_end - 1 /\ value[Kept] \in start..span_end - 1
      BY <1>5, <3>1
    <3>4. value[Kept] \in Nat /\ value[Kept] + (Len(value) - Kept) <= span_end - 1
      <4>1. start \in Nat /\ span_end \in Nat /\ Len(value) \in Nat /\ Kept \in Nat
        BY <1>1, <1>5, <1>6
      <4>. QED
        BY <3>2, <3>3, <4>1
    <3>5. /\ span_end' = span_end - (Len(value) - Kept)
          /\ Len(value) \in Nat /\ Kept \in 0..Len(value)
          /\ Len(text) \in Nat /\ span_end \in 0..Len(text)
      BY <1>1, <1>2, <1>5, <1>6
    <3>6. span_end - (Len(value) - Kept) \in 0..Len(text)
      BY <3>4, <3>5
    <3>7. value[Kept] < span_end - (Len(value) - Kept)
      BY <3>4, <3>5
    <3>. QED
      BY <3>5, <3>6, <3>7
  <2>2. CASE Kept = 0 /\ Len(value) = 0
    BY <1>1, <1>2, <2>2
  <2>3. CASE Kept = 0 /\ Len(value) # 0
    <3>1. 1 \in 1..Len(value) /\ Len(value) \in 1..Len(value)
      BY <1>5, <2>3
    <3>2. value[1] + (Len(value) - 1) <= value[Len(value)]
      BY <1>1, <1>4, <3>1, CollectsGap
    <3>3. value[Len(value)] \in start..span_end - 1 /\ value[1] \in start..span_end - 1
      BY <1>5, <3>1
    <3>4. start \in Nat /\ span_end \in 0..Len(text) /\ Len(text) \in Nat /\ Len(value) \in Nat
      BY <1>1, <1>5
    <3>5. span_end' = span_end - (Len(value) - 0)
      BY <1>2, <2>3
    <3>. QED
      BY <2>3, <3>2, <3>3, <3>4, <3>5
  <2>. QED
    BY <2>1, <2>2, <2>3
<1>10. TypeOK'
  BY <1>2, <1>3, <1>7, <1>9 DEF TypeOK, TrimArgument
<1>11. ArgEndsWithTheLine'
  BY <1>2, <1>4 DEF ArgEndsWithTheLine
<1>12. SpanHolds'
  <2>1. SUFFICES ASSUME Kept # 0
                 PROVE  /\ value'[1] = start /\ Last(value') < span_end'
                        /\ start = word_start => value' = Piece(start, span_end')
    BY <1>2, <1>8 DEF SpanHolds
  <2>2. 1 \in 1..Kept /\ Kept \in 1..Kept /\ 1 \in 1..Len(value)
    BY <1>5, <1>6, <2>1
  <2>3. value[1] = start
    <3>1. value[1] \in start..span_end - 1
      BY <1>5, <2>2
    <3>2. start < span_end /\ Belongs(text, start)
      BY <1>1, <1>4, <3>1
    <3>. QED
      BY <1>1, <1>4, <3>2, CollectsFirst
  <2>4. Last(value') = value[Kept]
    BY <1>7, <2>2 DEF Last
  <2>5. ASSUME start = word_start
        PROVE  value' = Piece(start, span_end')
    <3>1. value = Piece(start, span_end)
      BY <1>4, <2>5
    <3>2. /\ Len(value) = span_end - start
          /\ \A k \in 1..Len(value) : value[k] = start + k - 1
      <4>1. start \in Nat /\ span_end \in Nat
        BY <1>1
      <4>2. /\ Len(Piece(start, span_end)) = span_end - start
            /\ \A k \in 1..span_end - start : Piece(start, span_end)[k] = start + k - 1
        BY <1>4, <4>1, PieceIs
      <4>. QED
        BY <3>1, <4>2
    <3>3. span_end' = start + Kept /\ start + Kept \in Nat /\ start <= start + Kept
      BY <1>1, <1>2, <1>5, <1>6, <3>2
    <3>4. /\ Piece(start, start + Kept) \in Seq(Nat)
          /\ Len(Piece(start, start + Kept)) = Kept
          /\ \A k \in 1..Kept : Piece(start, start + Kept)[k] = start + k - 1
      <4>. DEFINE e == start + Kept
      <4>1. start \in Nat /\ e \in Nat /\ start <= e /\ e - start = Kept
        BY <1>1, <1>5, <1>6
      <4>. HIDE DEF e
      <4>2. /\ Piece(start, e) \in Seq(Nat)
            /\ Len(Piece(start, e)) = e - start
            /\ \A k \in 1..e - start : Piece(start, e)[k] = start + k - 1
        BY <4>1, PieceIs
      <4>. QED
        BY <4>1, <4>2 DEF e
    <3>5. \A k \in 1..Kept : value'[k] = Piece(start, start + Kept)[k]
      <4>1. \A k \in 1..Kept : k \in 1..Len(value)
        BY <1>5, <1>6
      <4>. QED
        BY <1>7, <3>2, <3>4, <4>1
    <3>6. value' = Piece(start, start + Kept)
      BY <1>7, <3>4, <3>5, SeqEqual
    <3>. QED
      BY <3>3, <3>6
  <2>. QED
    BY <1>7, <1>9, <2>1, <2>2, <2>3, <2>4, <2>5
<1>13. MeansTheLine'
  <2>1. Bytes(text) = {} \/ text[Min(Bytes(text)) + 1] \in Whitespace
    <3>1. SUFFICES ASSUME Bytes(text) # {}
                   PROVE  text[Min(Bytes(text)) + 1] \in Whitespace
      OBVIOUS
    <3>2. Bytes(text) \in SUBSET Nat
      BY <1>1 DEF Bytes, Belongs
    <3>3. Min(Bytes(text)) \in Bytes(text) /\ \A b \in Bytes(text) : Min(Bytes(text)) <= b
      BY <3>1, <3>2, MinIs
    <3>4. Min(Bytes(text)) \in 0..Len(text) - 1 /\ Belongs(text, Min(Bytes(text)))
      BY <3>3 DEF Bytes, Belongs
    <3>5. CASE has_space
      <4>1. PICK b \in 0..start - 1 : Belongs(text, b)
        BY <1>4, <3>5 DEF Separation
      <4>2. b \in Bytes(text)
        BY <1>1, <4>1 DEF Bytes, Belongs
      <4>3. Min(Bytes(text)) \in 0..start - 1
        BY <1>1, <3>3, <3>4, <4>1, <4>2
      <4>. QED
        BY <1>4, <3>4, <4>3 DEF Leading
    <3>6. CASE start = span_end
      <4>1. Min(Bytes(text)) \in 0..start - 1 \/ Min(Bytes(text)) \in span_end..Len(text) - 1
        BY <1>1, <3>4, <3>6
      <4>. QED
        BY <1>4, <3>4, <4>1 DEF Leading
    <3>. QED
      BY <1>4, <3>5, <3>6
  <2>2. Spells(value', Trimmed(text, Bytes(text)))
    <3>1. Trimmed(text, Bytes(text)) = {value[k] : k \in 1..Kept}
      BY <1>2, <1>3, TrimmedIs
    <3>2. {value'[k] : k \in DOMAIN value'} = {value[k] : k \in 1..Kept}
      BY <1>7
    <3>3. \A k \in 1..Kept : k \in 1..Len(value)
      BY <1>5, <1>6
    <3>4. \A j, k \in DOMAIN value' : j < k => value'[j] < value'[k]
      BY <1>5, <1>7, <3>3
    <3>. QED
      BY <3>1, <3>2, <3>4 DEF Spells
  <2>. QED
    BY <1>2, <2>1, <2>2 DEF MeansTheLine
<1>. QED
  BY <1>2, <1>10, <1>11, <1>12, <1>13 DEF ArgIInv, SeparateInv, ArgumentInv, CollectInv, ArgTrimInv

-----------------------------------------------------------------------------
LEMMA ArgNextInv == ArgIInv /\ [ArgNext]_argVars => ArgIInv'
<1>. SUFFICES ASSUME ArgIInv, [ArgNext]_argVars PROVE ArgIInv'
  OBVIOUS
<1>1. CASE SeparateBlank
  BY <1>1, SeparateBlankInv
<1>2. CASE SeparateContinued
  BY <1>2, SeparateContinuedInv
<1>3. CASE Separated
  BY <1>3, SeparatedInv
<1>4. CASE CollectToEnd
  BY <1>4, CollectToEndInv
<1>5. CASE CollectToNewline
  BY <1>5, CollectToNewlineInv
<1>6. CASE CollectContinued
  BY <1>6, CollectContinuedInv
<1>7. CASE CollectByte
  BY <1>7, CollectByteInv
<1>8. CASE TrimArgument
  BY <1>8, TrimArgumentInv
<1>9. CASE UNCHANGED argVars
  BY <1>9 DEF argVars, ArgIInv, TypeOK, SeparateInv, ArgumentInv, CollectInv, ArgTrimInv,
              MeansTheLine,
     ArgEndsWithTheLine, SpanHolds, Leading, Separation
<1>. QED
  BY <1>1, <1>2, <1>3, <1>4, <1>5, <1>6, <1>7, <1>8, <1>9 DEF ArgNext

LEMMA ArgInvariance == ArgSpec => []ArgIInv
<1>. QED
  BY ArgInitInv, ArgNextInv, PTL DEF ArgSpec

(* Every position stays in the text, the span's included: the subtraction   *)
(* in trim_end does not underflow.                                          *)
THEOREM TypeCorrect == ArgSpec => []TypeOK
<1>1. ArgIInv => TypeOK
  BY DEF ArgIInv
<1>. QED
  BY <1>1, ArgInvariance, PTL

(* The value is the logical line, trimmed: nothing of a continuation, a     *)
(* comment or a blank line gets into it, and nothing else is lost.          *)
THEOREM MeaningCorrect == ArgSpec => []MeansTheLine
<1>1. ArgIInv => MeansTheLine
  BY DEF ArgIInv
<1>. QED
  BY <1>1, ArgInvariance, PTL

(* The next instruction starts on the line after the logical line.          *)
THEOREM ArgEndCorrect == ArgSpec => []ArgEndsWithTheLine
<1>1. ArgIInv => ArgEndsWithTheLine
  BY DEF ArgIInv
<1>. QED
  BY <1>1, ArgInvariance, PTL

(* The span holds the value, and is the value when nothing is joined.       *)
THEOREM SpanCorrect == ArgSpec => []SpanHolds
<1>1. ArgIInv => SpanHolds
  BY DEF ArgIInv
<1>. QED
  BY <1>1, ArgInvariance, PTL

-----------------------------------------------------------------------------
(* CurrentLine: the inductive invariant, phase by phase.                    *)
TypeInv ==
  /\ s \in 0..Len(text)
  /\ pc \in {"line", "trim", "done", "empty"}
  /\ has_whitespace_only \in BOOLEAN
  /\ arguments_start = 0
  /\ end \in 0..Len(text)

LineInv ==
  pc = "line" =>
    /\ Walk(text, s)
    /\ s = 0 => ~At(text, 0, Whitespace) /\ ~Continues(text, 0)
    /\ s # 0 => SolidAt(text, 0)
    /\ has_whitespace_only => AfterWhitespace(text, s)

(* The slice to trim ends with the line, and starts with one of its bytes   *)
(* that trimming leaves unless it is a newline alone.                       *)
TrimInv ==
  pc \in {"trim", "done", "empty"} =>
    /\ s = After(text)
    /\ \A b \in s..Len(text) - 1 : ~SolidAt(text, b)
    /\ (\A i \in 1..s : text[i] \in PossibleLine) \/ SolidAt(text, 0)

IInv ==
  /\ text \in Inputs
  /\ TypeInv
  /\ LineInv
  /\ TrimInv
  /\ HoldsTheLine

-----------------------------------------------------------------------------
LEMMA InitInv == Init => IInv
<1>. SUFFICES ASSUME Init PROVE IInv
  OBVIOUS
<1>1. Len(text) \in Nat
  BY InputsAreSequences DEF Init
<1>2. Walk(text, 0)
  BY <1>1, WalkStart
<1>3. TypeInv
  <2>1. has_whitespace_only \in BOOLEAN
    BY Zenon DEF Init
  <2>2. s \in 0..Len(text) /\ end \in 0..Len(text)
    BY <1>1 DEF Init
  <2>. QED
    BY <2>1, <2>2 DEF Init, TypeInv
<1>4. LineInv
  BY <1>2 DEF Init, LineInv
<1>5. text \in Inputs /\ pc = "line"
  BY DEF Init
<1>. QED
  BY <1>3, <1>4, <1>5 DEF IInv, TrimInv, HoldsTheLine

(* A continuation.                                                          *)
LEMMA LineContinuedInv ==
  ASSUME IInv, LineContinued
  PROVE  IInv'
<1>1. /\ Len(text) \in Nat /\ s \in 0..Len(text)
      /\ pc = "line" /\ UNCHANGED <<text, pc, arguments_start, end>>
      /\ Continues(text, s) /\ s' = Continuation(text, s) /\ has_whitespace_only' = TRUE
  BY InputsAreSequences DEF IInv, TypeInv, LineContinued
<1>2. s' \in s + 2..Len(text) /\ s' \in 0..Len(text) /\ s' # 0
  <2>1. s' \in s + 2..Len(text)
    BY <1>1, ContinuationAdvances
  <2>. QED
    BY <1>1, <2>1
<1>3. Walk(text, s')
  BY <1>1, WalkContinued DEF IInv, LineInv
<1>4. SolidAt(text, 0)
  BY <1>1 DEF IInv, LineInv
<1>5. AfterWhitespace(text, s')
  <2>1. ~Skipped(text, s')
    BY <1>1, ContinuationStops
  <2>2. s' \in 0..s' /\ \A b : b \notin s'..s' - 1
    BY <1>2
  <2>. QED
    BY <2>1, <2>2 DEF AfterWhitespace
<1>. QED
  BY <1>1, <1>2, <1>3, <1>4, <1>5 DEF IInv, TypeInv, LineInv, TrimInv, HoldsTheLine

(* Any other byte, which starts no comment line.                            *)
LEMMA LineByteInv ==
  ASSUME IInv, LineByte
  PROVE  IInv'
<1>1. /\ Len(text) \in Nat /\ s \in 0..Len(text) /\ s < Len(text)
      /\ pc = "line" /\ UNCHANGED <<text, pc, arguments_start, end>>
      /\ Newline(text, s) = s /\ ~Continues(text, s)
  BY InputsAreSequences DEF IInv, TypeInv, LineByte
<1>2. /\ Walk(text, s)
      /\ s = 0 => ~At(text, 0, Whitespace)
      /\ s # 0 => SolidAt(text, 0)
      /\ has_whitespace_only => AfterWhitespace(text, s)
  BY <1>1 DEF IInv, LineInv
<1>3. ~AtComment
  BY <1>1, <1>2, NoCommentBehind DEF AtComment
<1>4. s' = s + 1 /\ has_whitespace_only' = (has_whitespace_only /\ At(text, s, Whitespace))
  BY <1>3 DEF LineByte
<1>5. Walk(text, s + 1) /\ Belongs(text, s)
  <2>1. text[s + 1] # "lf"
    BY <1>1 DEF Newline, At
  <2>. QED
    BY <1>1, <1>2, <2>1, WalkByte
<1>6. SolidAt(text, 0)
  <2>1. CASE s = 0
    BY <1>1, <1>2, <1>5, <2>1 DEF SolidAt, At
  <2>. QED
    BY <1>2, <2>1
<1>7. has_whitespace_only' => AfterWhitespace(text, s + 1)
  <2>1. SUFFICES ASSUME has_whitespace_only, At(text, s, Whitespace)
                 PROVE  AfterWhitespace(text, s + 1)
    BY <1>4
  <2>2. PICK c \in 0..s : ~Skipped(text, c) /\ \A b \in c..s - 1 : At(text, b, Whitespace)
    BY <1>2, <2>1 DEF AfterWhitespace
  <2>3. c \in 0..s + 1 /\ \A b \in c..(s + 1) - 1 : b = s \/ b \in c..s - 1
    BY <1>1, <2>2
  <2>. QED
    BY <2>1, <2>2, <2>3 DEF AfterWhitespace
<1>8. s + 1 \in 0..Len(text) /\ s + 1 # 0
  BY <1>1
<1>. QED
  BY <1>1, <1>4, <1>5, <1>6, <1>7, <1>8 DEF IInv, TypeInv, LineInv, TrimInv, HoldsTheLine

(* The newline, or the end of the text.                                     *)
LEMMA LineEndsInv ==
  ASSUME IInv, LineEnds
  PROVE  IInv'
<1>1. /\ Len(text) \in Nat /\ s \in 0..Len(text)
      /\ pc = "line" /\ pc' = "trim"
      /\ UNCHANGED <<text, has_whitespace_only, arguments_start, end>>
      /\ s' = Newline(text, s)
      /\ s = Len(text) \/ Newline(text, s) # s
  BY InputsAreSequences DEF IInv, TypeInv, LineEnds
<1>2. /\ Walk(text, s)
      /\ s = 0 => ~At(text, 0, Whitespace)
      /\ s # 0 => SolidAt(text, 0)
  BY <1>1 DEF IInv, LineInv
<1>3. s' \in s..Len(text) /\ s' \in 0..Len(text)
  <2>1. s' \in s..Len(text)
    BY <1>1, NewlineAdvances
  <2>. QED
    BY <1>1, <2>1
<1>4. s' = After(text) /\ \A b \in s'..Len(text) - 1 : ~SolidAt(text, b)
  <2>1. CASE Newline(text, s) # s
    <3>1. /\ After(text) = Newline(text, s)
          /\ \A b \in s..Len(text) : Belongs(text, b) => b = s /\ text[s + 1] = "cr"
      BY <1>1, <1>2, <2>1, WalkNewline
    <3>2. \A b \in s'..Len(text) - 1 : b \in s..Len(text)
      BY <1>1, <1>3
    <3>. QED
      BY <1>1, <3>1, <3>2 DEF SolidAt, Whitespace
  <2>2. CASE Newline(text, s) = s
    <3>1. s = Len(text) /\ s' = Len(text)
      BY <1>1, <2>2
    <3>. QED
      BY <1>1, <1>2, <3>1, WalkEnd
  <2>. QED
    BY <2>1, <2>2
<1>5. (\A i \in 1..s' : text[i] \in PossibleLine) \/ SolidAt(text, 0)
  <2>1. SUFFICES ASSUME s = 0, NEW i \in 1..s' PROVE text[i] \in PossibleLine
    BY <1>2
  <2>2. CASE At(text, 0, {"lf"})
    <3>1. s' = 1
      BY <1>1, <2>1, <2>2 DEF Newline
    <3>2. i = 1
      BY <2>1, <3>1
    <3>. QED
      BY <2>2, <3>2 DEF At, PossibleLine
  <2>3. CASE ~At(text, 0, {"lf"})
    <3>1. ~At(text, 0, {"cr"})
      BY <1>2, <2>1 DEF At, Whitespace
    <3>2. s' = 0
      BY <1>1, <2>1, <2>3, <3>1 DEF Newline
    <3>. QED
      BY <2>1, <3>2
  <2>. QED
    BY <2>2, <2>3
<1>. QED
  BY <1>1, <1>3, <1>4, <1>5 DEF IInv, TypeInv, LineInv, TrimInv, HoldsTheLine

(* The whitespace and the newlines at the end of the slice.                 *)
LEMMA TrimEndInv ==
  ASSUME IInv, TrimEnd
  PROVE  IInv'
<1>. DEFINE kept == {i \in 1..s : text[i] \notin Whitespace \cup PossibleLine}
<1>1. /\ Len(text) \in Nat /\ s \in 0..Len(text) /\ arguments_start = 0
      /\ pc = "trim" /\ UNCHANGED <<text, s, has_whitespace_only, arguments_start>>
      /\ end' = Max({0} \cup kept)
      /\ pc' = IF end' = 0 THEN "empty" ELSE "done"
  BY InputsAreSequences DEF IInv, TypeInv, TrimEnd
<1>2. /\ s = After(text)
      /\ \A b \in s..Len(text) - 1 : ~SolidAt(text, b)
      /\ (\A i \in 1..s : text[i] \in PossibleLine) \/ SolidAt(text, 0)
  BY <1>1 DEF IInv, TrimInv
<1>3. end' \in {0} \cup kept /\ \A i \in {0} \cup kept : i <= end'
  <2>1. {0} \cup kept \in SUBSET (0..s) /\ {0} \cup kept # {} /\ s \in Nat
    BY <1>1
  <2>. HIDE DEF kept
  <2>. QED
    BY <1>1, <2>1, MaxIs
<1>4. end' \in 0..Len(text) /\ end' \in 0..s
  BY <1>1, <1>3
<1>. DEFINE solid == Solid(text, Bytes(text))
<1>5. \A b : b \in solid <=> b \in 0..Len(text) - 1 /\ SolidAt(text, b)
  BY DEF Solid, Bytes, Belongs, SolidAt
<1>. HIDE DEF solid
<1>6. ASSUME NEW b \in solid
      PROVE  b \in 0..end' - 1
  <2>1. b \in 0..Len(text) - 1 /\ SolidAt(text, b)
    BY <1>5, <1>6
  <2>2. b + 1 \in 1..s
    <3>1. b \notin s..Len(text) - 1
      BY <1>2, <2>1
    <3>. QED
      BY <1>1, <2>1, <3>1
  <2>3. text[b + 1] \notin Whitespace \cup PossibleLine
    BY <2>1 DEF SolidAt, Belongs, BelongsTo, PossibleLine, Whitespace
  <2>4. b + 1 <= end'
    BY <1>3, <2>2, <2>3
  <2>5. b \in Nat /\ end' \in Nat
    BY <1>1, <1>4, <2>1
  <2>6. ASSUME NEW i \in Nat, NEW j \in Nat, i + 1 <= j
        PROVE  i \in 0..j - 1
    BY <2>6
  <2>. QED
    BY <2>4, <2>5, <2>6
<1>7. end' # 0 => text[end'] \notin Whitespace \cup PossibleLine /\ end' \in 1..s
  BY <1>3
<1>8. end' = 0 <=> solid = {}
  <2>1. ASSUME end' = 0 PROVE solid = {}
    BY <1>6, <2>1
  <2>2. ASSUME end' # 0 PROVE 0 \in solid
    <3>1. SolidAt(text, 0)
      BY <1>2, <1>7, <2>2
    <3>2. 0 \in 0..Len(text) - 1
      BY <1>1, <1>7, <2>2
    <3>. QED
      BY <1>5, <3>1, <3>2
  <2>. QED
    BY <2>1, <2>2
<1>9. HoldsTheLine'
  <2>1. HoldsTheLine' =
          (pc' \in {"done", "empty"} =>
             /\ solid \subseteq 0..end' - 1
             /\ pc' = "empty" <=> solid = {}
             /\ pc' = "done" => text[end'] \notin Whitespace \cup PossibleLine)
    BY <1>1 DEF HoldsTheLine, solid
  <2>. QED
    BY <1>1, <1>6, <1>7, <1>8, <2>1
<1>10. TypeInv' /\ LineInv' /\ TrimInv'
  BY <1>1, <1>2, <1>4 DEF IInv, TypeInv, LineInv, TrimInv
<1>. QED
  BY <1>1, <1>9, <1>10 DEF IInv

LEMMA NextInv == IInv /\ [Next]_vars => IInv'
<1>. SUFFICES ASSUME IInv, [Next]_vars PROVE IInv'
  OBVIOUS
<1>1. CASE UNCHANGED vars
  BY <1>1 DEF vars, IInv, TypeInv, LineInv, TrimInv, HoldsTheLine
<1>. QED
  BY <1>1, LineEndsInv, LineContinuedInv, LineByteInv, TrimEndInv DEF Next

LEMMA Invariance == Spec => []IInv
BY InitInv, NextInv, PTL DEF Spec

-----------------------------------------------------------------------------
(* consume_current_line stops where the logical line does: CMD, ENTRYPOINT  *)
(* and RUN leave s where EXPOSE and ENV would.                              *)
THEOREM EndCorrect == Spec => []EndsWithTheLine
<1>1. IInv => EndsWithTheLine
  BY DEF IInv, TrimInv, EndsWithTheLine
<1>. QED
  BY <1>1, Invariance, PTL

(* What trim_end leaves holds every byte of the line that is not            *)
(* whitespace and ends with one that is none; nothing is left only of a     *)
(* blank line, for which CMD reports that its arguments are missing.        *)
THEOREM HoldsCorrect == Spec => []HoldsTheLine
<1>1. IInv => HoldsTheLine
  BY DEF IInv
<1>. QED
  BY <1>1, Invariance, PTL

(* The branch of consume_current_line for a comment line is never taken:    *)
(* followup has consumed the comment lines behind each continuation.        *)
THEOREM CommentsCorrect == Spec => []CommentsAreBehind
<1>1. ASSUME IInv, pc = "line"
      PROVE  ~AtComment
  <2>1. Len(text) \in Nat /\ s \in 0..Len(text)
    BY <1>1, InputsAreSequences DEF IInv, TypeInv
  <2>. QED
    BY <1>1, <2>1, NoCommentBehind DEF IInv, LineInv, AtComment
<1>2. IInv => CommentsAreBehind
  BY <1>1 DEF CommentsAreBehind
<1>. QED
  BY <1>2, Invariance, PTL
=================================================================================
