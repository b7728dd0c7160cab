---------------------------- MODULE HereDocs_proofs -----------------------------
(***************************************************************************)
(* Of every text, over any bytes and of any length, and every file before   *)
(* it: an error is at a line and column of the file, and on one of the      *)
(* instruction; the flags are the leading words with two dashes, and what   *)
(* follows them is left as it is; a delimiter is its word unquoted; and     *)
(* here-documents follow one another, each up to its terminator.            *)
(***************************************************************************)
EXTENDS HereDocs, LogicalLine_proofs, FiniteSetTheorems

LEMMA TextIs ==
  ASSUME text \in Inputs
  PROVE  text \in Seq(STRING) /\ Len(text) \in Nat
<1>1. text \in Seq(Char)
  BY InputsAssumption
<1>2. text \in Seq(STRING)
  BY <1>1, CharAssumption, SeqMore, Zenon
<1>. QED
  BY <1>1, <1>2

(* The keyword's line starts before the text.                               *)
LEMMA Keyword == KeywordStart \in 0..Len(Before) /\ Len(Before) \in Nat
<1>. DEFINE S == {0} \cup {k \in DOMAIN Before : Before[k] = "lf"}
<1>1. Len(Before) \in Nat /\ S \in SUBSET (0..Len(Before)) /\ S # {}
  BY BeforeAssumption
<1>2. Max(S) \in S
  BY <1>1, MaxIs
<1>. QED
  BY <1>1, <1>2 DEF KeywordStart

LEMMA InFileIs ==
  ASSUME text \in Inputs, NEW i \in 0..Len(text)
  PROVE  InInstruction(InFile(i))
<1>1. text \in Seq(STRING) /\ Len(text) \in Nat
  BY TextIs
<1>2. File \in Seq(STRING) /\ Len(File) = Len(Before) + Len(text)
  BY <1>1, BeforeAssumption DEF File
<1>3. InFile(i) \in 0..Len(File) /\ InFile(i) >= KeywordStart
  BY <1>1, <1>2, Keyword DEF InFile
<1>. QED
  BY <1>2, <1>3, LocationNames DEF InInstruction

LEMMA KeywordInFile ==
  ASSUME text \in Inputs
  PROVE  InInstruction(KeywordStart)
<1>1. text \in Seq(STRING) /\ Len(text) \in Nat
  BY TextIs
<1>2. File \in Seq(STRING) /\ Len(File) = Len(Before) + Len(text)
  BY <1>1, BeforeAssumption DEF File
<1>3. KeywordStart \in 0..Len(File)
  BY <1>1, <1>2, Keyword
<1>. QED
  BY <1>2, <1>3, Keyword, LocationNames DEF InInstruction

-----------------------------------------------------------------------------
(* What is called scans as the scanners do.                                 *)
LEMMA OptScans ==
  ASSUME NEW t, NEW i
  PROVE  /\ Opt!Continuation(t, i) = Continuation(t, i)
         /\ Opt!Continues(t, i) <=> Continues(t, i)
BY DEF Opt!Continues, Opt!Continuation, Opt!Newline, Opt!SkipWhile, Opt!Followup, Opt!LineStarts,
       Opt!Skipped, Opt!At, Opt!Whitespace, Opt!Space, Opt!Min,
       Continues, Continuation, Newline, SkipWhile, Followup, LineStarts, Skipped, At, Whitespace,
       Space, Min

(* ... and the reference is the same.                                       *)
LEMMA OptLines ==
  ASSUME NEW t, NEW l
  PROVE  /\ Opt!EndOf(t, l) = EndOf(t, l)
         /\ Opt!Counts(t, l) <=> Counts(t, l)
         /\ Opt!GoesOn(t, l) <=> GoesOn(t, l)
         /\ Opt!LineOf(t, l) = LineOf(t, l)
         /\ \A i : Opt!Marker(t, l, i) <=> Marker(t, l, i)
BY DEF Opt!Counts, Opt!Comment, Opt!Blank, Opt!GoesOn, Opt!Marker, Opt!RestOf, Opt!Terminated,
       Opt!EndOf, Opt!LineOf, Opt!Lines, Opt!Whitespace, Opt!Space, Opt!Min, Opt!Max,
       Counts, Comment, Blank, GoesOn, Marker, RestOf, Terminated,
       EndOf, LineOf, Lines, Whitespace, Space, Min, Max

LEMMA OptReference ==
  ASSUME NEW t
  PROVE  /\ Opt!FlagWords(t) = FlagWords(t)
         /\ Opt!LineWords(t) = LineWords(t)
         /\ Opt!After(t) = After(t)
         /\ \A i : Opt!Newline(t, i) = Newline(t, i)
<1>1. \A S : Opt!Min(S) = Min(S)
  BY DEF Opt!Min, Min
<1>2. Opt!Ends(t) = Ends(t)
  <2>1. Opt!Lines(t) = Lines(t)
    BY DEF Opt!Lines, Lines
  <2>. QED
    BY <2>1, OptLines DEF Opt!Ends, Ends
<1>3. Opt!LastLine(t) = LastLine(t)
  BY <1>1, <1>2 DEF Opt!LastLine, LastLine
<1>4. Opt!After(t) = After(t)
  BY <1>1, <1>3, OptLines DEF Opt!After, After
<1>5. \A i, last : Opt!BelongsTo(t, i, last) <=> BelongsTo(t, i, last)
  BY OptLines DEF Opt!BelongsTo, BelongsTo
<1>6. Opt!Bytes(t) = Bytes(t)
  BY <1>3, <1>5 DEF Opt!Bytes, Bytes
<1>7. \A bytes : Opt!Solid(t, bytes) = Solid(t, bytes)
  BY DEF Opt!Solid, Solid, Opt!Whitespace, Whitespace
<1>8. \A line, solid : Opt!Runs(line, solid) = Runs(line, solid)
  BY DEF Opt!Runs, Runs, Opt!Joined, Joined, Opt!Between, Between
<1>9. Opt!LineWords(t) = LineWords(t)
  BY <1>6, <1>7, <1>8 DEF Opt!LineWords, LineWords
<1>10. \A words : Opt!InOrder(words) = InOrder(words)
  BY DEF Opt!InOrder, InOrder, Opt!Earlier, Earlier, Opt!Min, Min, Opt!Cardinality, Cardinality
<1>11. \A words : Opt!LeadingFlags(t, words) = LeadingFlags(t, words)
  BY DEF Opt!LeadingFlags, LeadingFlags, Opt!IsFlag, IsFlag, Opt!Min, Min
<1>12. Opt!FlagWords(t) = FlagWords(t)
  BY <1>9, <1>10, <1>11 DEF Opt!FlagWords, FlagWords
<1>13. \A i : Opt!Newline(t, i) = Newline(t, i)
  BY DEF Opt!Newline, Newline, Opt!At, At
<1>. QED
  BY <1>4, <1>9, <1>12, <1>13

LEMMA WrdScans ==
  ASSUME NEW t, NEW i
  PROVE  /\ Wrd!Continuation(t, i) = Continuation(t, i)
         /\ Wrd!Continues(t, i) <=> Continues(t, i)
         /\ Wrd!Newline(t, i) = Newline(t, i)
BY DEF Wrd!Continues, Wrd!Continuation, Wrd!Newline, Wrd!SkipWhile, Wrd!Followup, Wrd!LineStarts,
       Wrd!Skipped, Wrd!At, Wrd!Whitespace, Wrd!Space, Wrd!Min,
       Continues, Continuation, Newline, SkipWhile, Followup, LineStarts, Skipped, At, Whitespace,
       Space, Min

LEMMA CurScans ==
  ASSUME NEW t, NEW i
  PROVE  /\ Cur!Continuation(t, i) = Continuation(t, i)
         /\ Cur!Continues(t, i) <=> Continues(t, i)
         /\ Cur!Newline(t, i) = Newline(t, i)
         /\ Cur!NextLine(t, i) = NextLine(t, i)
BY DEF Cur!Continues, Cur!Continuation, Cur!Newline, Cur!SkipWhile, Cur!Followup, Cur!LineStarts,
       Cur!Skipped, Cur!At, Cur!Whitespace, Cur!Space, Cur!Min, Cur!NextLine,
       Continues, Continuation, Newline, SkipWhile, Followup, LineStarts, Skipped, At, Whitespace,
       Space, Min, NextLine

LEMMA DocScans ==
  ASSUME NEW t, NEW i
  PROVE  /\ \A C : Doc!SkipWhile(t, i, C) = SkipWhile(t, i, C)
         /\ Doc!Newline(t, i) = Newline(t, i)
         /\ Doc!NextLine(t, i) = NextLine(t, i)
BY DEF Doc!Newline, Doc!SkipWhile, Doc!At, Doc!Min, Doc!NextLine,
       Newline, SkipWhile, At, Min, NextLine

LEMMA PiecesAre ==
  ASSUME NEW i, NEW j
  PROVE  Wrd!Piece(i, j) = Piece(i, j) /\ Dlm!Piece(i, j) = Piece(i, j)
BY DEF Wrd!Piece, Dlm!Piece, Piece

-----------------------------------------------------------------------------
(* All positions are in what they are positions of, whichever function is   *)
(* running, and strings are sequences of positions.                         *)
WordOf == [value : Seq(Nat), start : Nat, end : Nat]

DelimPositions ==
  /\ Len(full) \in Nat /\ s_next \in 0..Len(full)
  /\ kind = "RUN" => full = text
  /\ pc = "delim" => buf \in Seq(Nat) /\ current_start \in 0..s_next

ErrorPosition ==
  ~DelimOfCopy => \/ error.pos = KeywordStart
                  \/ \E i \in 0..Len(text) : error.pos = InFile(i)

PosInv ==
  /\ text \in Inputs
  /\ s \in 0..Len(text)
  /\ kind \in {"COPY", "RUN"}
  /\ call \in {"words", "sources"} => kind = "COPY"
  /\ call = "options" /\ pc = "second" => s_next \in 0..Len(text)
  /\ call = "words" /\ pc = "word" => buf \in Seq(Nat) /\ word_start \in 0..s /\ start \in Nat
  /\ res \in Seq(WordOf)
  /\ call = "delim" => DelimPositions
  /\ delim \in Seq(Nat)
  /\ \E S : src \in Seq(S)
  /\ call = "failed" => ErrorPosition

LEMMA InitPos == Init => PosInv
<1>. SUFFICES ASSUME Init PROVE PosInv
  OBVIOUS
<1>1. text \in Inputs /\ s = 0
  BY DEF Init, Opt!Init, Opt!ScanInit
<1>2. Len(text) \in Nat
  BY <1>1, InputsAreSequences
<1>3. res \in Seq(WordOf) /\ delim \in Seq(Nat) /\ src \in Seq({})
  BY DEF Init
<1>4. \E S : src \in Seq(S)
  BY <1>3
<1>. QED
  BY <1>1, <1>2, <1>3, <1>4 DEF Init, Opt!Init, PosInv

LEMMA OptionsPos ==
  ASSUME PosInv, InOptions
  PROVE  PosInv'
<1>1. Len(text) \in Nat /\ s \in 0..Len(text)
  BY InputsAreSequences DEF PosInv
<1>2. /\ call = "options" /\ call' = call /\ Opt!Next
      /\ UNCHANGED <<res, kind, delim, src>>
  BY DEF InOptions, delimVars, instruction
<1>3. \A i \in 0..Len(text) : Continuation(text, i) \in 0..Len(text)
  BY <1>1, ContinuationAdvances
<1>4. /\ text' = text /\ s' \in 0..Len(text)
      /\ pc' = "second" => s_next' \in 0..Len(text)
  <2>1. CASE Opt!Dash
    BY <1>1, <2>1 DEF Opt!Dash, Opt!scanning, Opt!At
  <2>2. CASE Opt!SecondDash
    BY <1>1, <1>2, <2>2 DEF Opt!SecondDash, Opt!At, PosInv
  <2>3. CASE Opt!DashContinued
    BY <1>1, <1>2, <1>3, <2>3, OptScans DEF Opt!DashContinued, Opt!scanning, PosInv
  <2>4. CASE Opt!DashAlone
    BY <1>1, <2>4 DEF Opt!DashAlone, Opt!scanning
  <2>5. CASE Opt!Collect
    BY SMTT(30), <1>1, <1>3, <2>5, OptScans DEF Opt!Collect, Opt!WordByte, Opt!WordContinued
  <2>6. CASE Opt!NameEnds
    BY <1>1, <2>6 DEF Opt!NameEnds, Opt!At
  <2>7. CASE Opt!PushName \/ Opt!PushValue
    BY <1>1, <2>7 DEF Opt!PushName, Opt!PushValue, Opt!Push
  <2>8. CASE Opt!Skip
    BY <1>1, <1>3, <2>8, OptScans DEF Opt!Skip, Opt!GapBlank, Opt!GapContinued, Opt!At
  <2>9. CASE Opt!GapEnds
    BY <1>1, <2>9 DEF Opt!GapEnds, Opt!scanning
  <2>. QED
    BY <1>2, <2>1, <2>2, <2>3, <2>4, <2>5, <2>6, <2>7, <2>8, <2>9 DEF Opt!Next
<1>. QED
  BY <1>2, <1>4 DEF PosInv

(* The word that is collected, of its pieces.                               *)
LEMMA Gathers ==
  ASSUME NEW b \in Seq(Nat), NEW i \in Nat, NEW j \in 0..i
  PROVE  Piece(j, i) \in Seq(Nat) /\ b \o Piece(j, i) \in Seq(Nat)
<1>1. j \in Nat /\ j <= i
  OBVIOUS
<1>2. Piece(j, i) \in Seq(Nat)
  BY <1>1, PieceIs
<1>. QED
  BY <1>2

LEMMA WordsPos ==
  ASSUME PosInv, InWords
  PROVE  PosInv'
<1>1. Len(text) \in Nat /\ s \in 0..Len(text) /\ res \in Seq(WordOf)
  BY InputsAreSequences DEF PosInv
<1>2. /\ call = "words" /\ call' = call /\ Wrd!Next
      /\ UNCHANGED <<kind, delim, src>>
  BY DEF InWords, delimVars, instruction
<1>3. \A i \in 0..Len(text) : Continuation(text, i) \in i..Len(text)
  BY <1>1, ContinuationAdvances
<1>4. /\ text' = text /\ s' \in 0..Len(text) /\ res' \in Seq(WordOf)
      /\ pc' = "word" => buf' \in Seq(Nat) /\ word_start' \in 0..s' /\ start' \in Nat
  <2>1. CASE pc = "word" /\ Wrd!WordContinued /\ UNCHANGED <<pc, res>>
    <3>1. buf \in Seq(Nat) /\ word_start \in 0..s /\ start \in Nat /\ s \in Nat
      BY <1>1, <1>2, <2>1 DEF PosInv
    <3>2. buf' \in Seq(Nat)
      BY <2>1, <3>1, Gathers, PiecesAre DEF Wrd!WordContinued
    <3>. QED
      BY SMTT(30), <1>1, <1>3, <2>1, <3>1, <3>2, WrdScans DEF Wrd!WordContinued
  <2>2. CASE pc = "word" /\ Wrd!WordByte(Wrd!WordEnd) /\ UNCHANGED <<pc, res>>
    BY <1>1, <1>2, <2>2 DEF Wrd!WordByte, PosInv
  <2>3. CASE Wrd!WordEnds
    <3>1. buf \in Seq(Nat) /\ word_start \in 0..s /\ start \in Nat /\ s \in Nat
      BY <1>1, <1>2, <2>3 DEF PosInv, Wrd!WordEnds
    <3>2. Wrd!Value \in Seq(Nat)
      BY <3>1, Gathers, PiecesAre DEF Wrd!Value
    <3>3. Wrd!Unescaped \in WordOf
      BY <3>1, <3>2 DEF Wrd!Unescaped, WordOf
    <3>4. res' \in Seq(WordOf)
      BY <1>1, <2>3, <3>3 DEF Wrd!WordEnds
    <3>. QED
      BY <1>1, <2>3, <3>4 DEF Wrd!WordEnds
  <2>4. CASE Wrd!InGap
    BY <1>1, <1>3, <2>4, WrdScans DEF Wrd!InGap, Wrd!GapBlank, Wrd!GapContinued, Wrd!At
  <2>5. CASE Wrd!GapEnds
    <3>1. <<>> \in Seq(Nat) /\ s \in Nat /\ s \in 0..s
      BY <1>1
    <3>2. pc' = "word" => buf' = <<>> /\ word_start' = s' /\ start' = s'
      BY <2>5 DEF Wrd!GapEnds, Wrd!WordStarts
    <3>3. text' = text /\ s' = s /\ res' = res
      BY <2>5 DEF Wrd!GapEnds
    <3>. QED
      BY <1>1, <3>1, <3>2, <3>3
  <2>6. CASE Wrd!LineConsumed
    BY <1>1, <2>6, WrdScans, NewlineAdvances DEF Wrd!LineConsumed
  <2>. QED
    BY <1>2, <2>1, <2>2, <2>3, <2>4, <2>5, <2>6 DEF Wrd!Next, Wrd!InWord
<1>. QED
  BY <1>2, <1>4 DEF PosInv

LEMMA DelimPos ==
  ASSUME PosInv, InDelim
  PROVE  PosInv'
<1>1. /\ call = "delim" /\ call' = call /\ Dlm!Next
      /\ UNCHANGED <<text, s, res, kind, error, src>>
  BY DEF InDelim, wordVars
<1>2. /\ Len(full) \in Nat /\ s_next \in 0..Len(full) /\ (kind = "RUN" => full = text)
      /\ delim \in Seq(Nat)
      /\ pc = "delim" => buf \in Seq(Nat) /\ current_start \in 0..s_next
  BY <1>1 DEF PosInv, DelimPositions
<1>3. pc = "delim"
  BY <1>1 DEF Dlm!Next, Dlm!OpenQuote, Dlm!CloseQuote, Dlm!Backslash, Dlm!DelimByte,
              Dlm!QuoteMissing, Dlm!DelimEnds
<1>4. buf \o Piece(current_start, s_next) \in Seq(Nat)
  BY <1>2, <1>3, Gathers
<1>5. /\ full' = full /\ s_next' \in 0..Len(full) /\ delim' \in Seq(Nat)
      /\ pc' = "delim" => buf' \in Seq(Nat) /\ current_start' \in 0..s_next'
  <2>1. CASE Dlm!OpenQuote \/ Dlm!CloseQuote
    <3>1. /\ s_next < Len(full) /\ s_next' = s_next + 1 /\ current_start' = s_next + 1
          /\ buf' = buf \o Piece(current_start, s_next) /\ full' = full /\ delim' = delim
      BY <2>1, PiecesAre DEF Dlm!OpenQuote, Dlm!CloseQuote, Dlm!LeaveOut, Dlm!At
    <3>. QED
      BY <1>2, <1>4, <3>1
  <2>2. CASE Dlm!Backslash
    BY <1>2, <1>4, <2>2, PiecesAre DEF Dlm!Backslash, Dlm!LeaveOut, Dlm!At, Dlm!delimVars
  <2>3. CASE Dlm!DelimByte
    <3>1. s_next # Len(full)
      BY <2>3 DEF Dlm!DelimByte, Dlm!Over
    <3>. QED
      BY <1>2, <1>3, <2>3, <3>1 DEF Dlm!DelimByte, Dlm!delimVars
  <2>4. CASE Dlm!QuoteMissing
    BY <1>2, <2>4 DEF Dlm!QuoteMissing, Dlm!delimVars
  <2>5. CASE Dlm!DelimEnds
    <3>1. Piece(current_start, s_next) \in Seq(Nat)
      BY <1>2, <1>3, Gathers
    <3>2. delim' \in {Piece(current_start, s_next), buf \o Piece(current_start, s_next)}
      BY <2>5, PiecesAre DEF Dlm!DelimEnds
    <3>3. delim' \in Seq(Nat)
      BY <1>4, <3>1, <3>2
    <3>. QED
      BY <1>2, <1>3, <2>5, <3>3 DEF Dlm!DelimEnds
  <2>. QED
    BY <1>1, <2>1, <2>2, <2>3, <2>4, <2>5 DEF Dlm!Next
<1>. QED
  BY <1>1, <1>2, <1>5 DEF PosInv, DelimPositions

LEMMA LinePos ==
  ASSUME PosInv, InLine
  PROVE  PosInv'
<1>1. Len(text) \in Nat /\ s \in 0..Len(text)
  BY InputsAreSequences DEF PosInv
<1>2. /\ call = "line" /\ call' = call /\ Cur!Next
      /\ UNCHANGED <<res, kind, delim, src>>
  BY DEF InLine, delimVars, instruction
<1>3. text' = text /\ s' \in 0..Len(text)
  <2>1. CASE Cur!LineEnds
    BY <1>1, <2>1, CurScans, NewlineAdvances DEF Cur!LineEnds
  <2>2. CASE Cur!LineContinued
    BY <1>1, <2>2, CurScans, ContinuationAdvances DEF Cur!LineContinued
  <2>3. CASE Cur!LineByte
    <3>1. s + 1 \in 0..Len(text)
      BY <1>1, <2>3 DEF Cur!LineByte
    <3>2. NextLine(text, s + 1) \in 0..Len(text)
      BY <1>1, <3>1, NextLineAdvances
    <3>. QED
      BY <2>3, <3>1, <3>2, CurScans DEF Cur!LineByte
  <2>4. CASE Cur!TrimEnd
    BY <1>1, <2>4 DEF Cur!TrimEnd
  <2>. QED
    BY <1>2, <2>1, <2>2, <2>3, <2>4 DEF Cur!Next
<1>. QED
  BY <1>2, <1>3 DEF PosInv

LEMMA DocPos ==
  ASSUME PosInv, InDoc
  PROVE  PosInv'
<1>1. Len(text) \in Nat /\ s \in 0..Len(text) /\ delim \in Seq(Nat)
  BY InputsAreSequences DEF PosInv
<1>2. /\ call = "doc" /\ call' = call /\ Doc!Next
      /\ UNCHANGED <<res, kind, delim, src>>
  BY DEF InDoc, delimVars, instruction
<1>3. text' = text /\ s' \in 0..Len(text)
  <2>1. CASE Doc!LeadingTabs
    <3>1. SkipWhile(text, s, {"tab"}) \in s..Len(text)
      BY <1>1, SkipWhileStops
    <3>2. Doc!SkipWhile(text, s, {"tab"}) = SkipWhile(text, s, {"tab"})
      BY DocScans
    <3>3. text' = text /\ s' \in {s, SkipWhile(text, s, {"tab"})}
      BY <2>1, <3>2 DEF Doc!LeadingTabs
    <3>. QED
      BY <1>1, <3>1, <3>3
  <2>2. CASE Doc!NoEnd
    BY <1>1, <2>2 DEF Doc!NoEnd
  <2>3. CASE Doc!Terminator
    <3>. DEFINE d == s + Len(DelimBytes)
    <3>1. Len(DelimBytes) \in Nat
      BY <1>1 DEF DelimBytes
    <3>2. ~(Len(text) - s < Len(DelimBytes))
      BY <2>3 DEF Doc!Terminator, Doc!AtTerminator, Doc!StartsWithDelim, Doc!TooShort
    <3>3. d \in 0..Len(text)
      BY <1>1, <3>1, <3>2
    <3>4. text' = text /\ s' = Newline(text, d)
      BY <2>3, DocScans DEF Doc!Terminator, Doc!DelimEnd
    <3>. QED
      BY <1>1, <3>3, <3>4, NewlineAdvances
  <2>4. CASE Doc!BodyLine
    BY <1>1, <2>4, DocScans, NextLineAdvances DEF Doc!BodyLine
  <2>. QED
    BY <1>2, <2>1, <2>2, <2>3, <2>4 DEF Doc!Next
<1>. QED
  BY <1>2, <1>3 DEF PosInv

(* Between two calls.                                                       *)
LEMMA OptionsOverPos ==
  ASSUME PosInv, OptionsOverCopy \/ OptionsOverRun
  PROVE  PosInv'
<1>1. Len(text) \in Nat /\ s \in 0..Len(text) /\ s \in Nat /\ delim \in Seq(Nat)
  BY InputsAreSequences DEF PosInv
<1>2. CASE OptionsOverCopy
  <2>1. /\ call' = "words" /\ kind = "COPY" /\ pc' = "word" /\ start' = s /\ word_start' = s /\ buf' = <<>>
        /\ UNCHANGED <<text, s, kind, res, delim, src>>
    BY <1>2 DEF OptionsOverCopy, WordStarts, delimVars, instruction
  <2>2. buf' \in Seq(Nat) /\ word_start' \in 0..s' /\ start' \in Nat
    BY <1>1, <2>1
  <2>. QED
    BY <2>1, <2>2 DEF PosInv
<1>3. CASE OptionsOverRun /\ ~AtDelim
  BY <1>3 DEF OptionsOverRun, PosInv, delimVars, instruction
<1>4. CASE OptionsOverRun /\ AtDelim
  <2>1. /\ call' = "delim" /\ full' = text /\ buf' = <<>> /\ delim' = <<>>
        /\ s_next' \in {s + 2, (s + 2) + 1} /\ current_start' = s_next'
        /\ UNCHANGED <<text, s, kind, res, src>>
    BY <1>4 DEF OptionsOverRun, Dlm!Starts, instruction
  <2>2. Len(text) - s >= 5
    BY <1>4 DEF AtDelim
  <2>3. s_next' \in 0..Len(text) /\ current_start' \in 0..s_next'
    BY <1>1, <2>1, <2>2
  <2>4. buf' \in Seq(Nat) /\ delim' \in Seq(Nat)
    BY <2>1
  <2>5. DelimPositions'
    BY <1>1, <2>1, <2>3, <2>4 DEF DelimPositions
  <2>. QED
    BY <2>1, <2>4, <2>5 DEF PosInv
<1>. QED
  BY <1>2, <1>3, <1>4

(* A word of bytes is as long as it says.                                   *)
LEMMA PathIs ==
  ASSUME PosInv, Len(src) < Len(res) - 1
  PROVE  Len(Path) \in Nat
<1>1. Len(src) \in Nat
  BY DEF PosInv
<1>2. res \in Seq(WordOf) /\ Len(res) \in Nat /\ Len(src) + 1 \in 1..Len(res)
  BY <1>1 DEF PosInv
<1>3. res[Len(src) + 1] \in WordOf
  BY <1>2
<1>4. PathValue \in Seq(Nat)
  BY <1>3 DEF WordOf, PathValue
<1>. QED
  BY <1>4 DEF Path

LEMMA SourceMore ==
  ASSUME NEW S, NEW q \in Seq(S), NEW e
  PROVE  \E T : Append(q, e) \in Seq(T)
<1>1. q \in Seq(S \cup {e})
  BY SeqMore
<1>2. Append(q, e) \in Seq(S \cup {e})
  BY <1>1
<1>. QED
  BY <1>2

LEMMA SourcesPos ==
  ASSUME PosInv, SourceIsPath \/ DelimIsNone \/ DocOver
  PROVE  PosInv'
<1>1. /\ call' \in {"sources", "done"}
      /\ UNCHANGED <<text, s, kind, res, delim>>
      /\ call' = "sources" => kind = "COPY"
      /\ \E e : src' = Append(src, e)
  BY DEF SourceIsPath, DelimIsNone, DocOver, scanning, delimVars, PosInv
<1>2. \E S : src' \in Seq(S)
  <2>1. PICK S : src \in Seq(S)
    BY DEF PosInv
  <2>2. PICK e : src' = Append(src, e)
    BY <1>1
  <2>. QED
    BY <2>1, <2>2, SourceMore
<1>. QED
  BY <1>1, <1>2 DEF PosInv

LEMMA SourceIsDelimPos ==
  ASSUME PosInv, SourceIsDelim
  PROVE  PosInv'
<1>1. /\ call' = "delim" /\ full' = Path /\ buf' = <<>> /\ delim' = <<>>
      /\ s_next' = (IF strip_tab' THEN 2 + 1 ELSE 2) /\ current_start' = s_next'
      /\ strip_tab' = (2 < Len(Path) /\ Path[2 + 1] \in {"dash"})
      /\ UNCHANGED <<text, s, kind, res, src>>
  BY DEF SourceIsDelim, Dlm!Starts, Dlm!At, instruction
<1>2. Len(Path) \in Nat
  BY PathIs DEF SourceIsDelim
<1>3. 0 + 1 < Len(Path)
  BY DEF SourceIsDelim, Announces, At
<1>4. s_next' \in 0..Len(Path) /\ current_start' \in 0..s_next'
  <2>. DEFINE n == Len(Path)
  <2>1. s_next' \in {2, 3} /\ (s_next' = 3 => 2 < n)
    <3>1. strip_tab' => 2 < n
      BY <1>1, Zenon
    <3>2. strip_tab' => s_next' = 3
      BY <1>1
    <3>3. ~strip_tab' => s_next' = 2
      BY <1>1
    <3>. QED
      BY <3>1, <3>2, <3>3
  <2>2. n \in Nat /\ 1 < n
    BY <1>2, <1>3
  <2>. HIDE DEF n
  <2>3. s_next' \in 0..n /\ s_next' \in 0..s_next'
    BY <2>1, <2>2
  <2>. QED
    BY <1>1, <2>3 DEF n
<1>5. buf' \in Seq(Nat) /\ delim' \in Seq(Nat)
  BY <1>1
<1>6. kind' # "RUN"
  BY <1>1 DEF SourceIsDelim, PosInv
<1>7. DelimPositions'
  BY <1>1, <1>2, <1>4, <1>5, <1>6 DEF DelimPositions
<1>. QED
  BY <1>1, <1>5, <1>7 DEF PosInv

LEMMA OverPos ==
  ASSUME PosInv, WordsOver \/ SourcesOver \/ DelimOverCopy \/ LineOverDoc \/ LineOver
  PROVE  PosInv'
<1>1. /\ call' \in {"sources", "doc", "done", "failed"}
      /\ call' = "sources" => call = "words"
      /\ call' = "failed" => error'.pos = KeywordStart
      /\ UNCHANGED <<text, s, kind, res, delim, src>>
  BY DEF WordsOver, SourcesOver, DelimOverCopy, LineOverDoc, LineOver, DocStarts, Fail, scanning,
         delimVars, instruction
<1>. QED
  BY <1>1 DEF PosInv, ErrorPosition

LEMMA DelimOverRunPos ==
  ASSUME PosInv, DelimOverRun
  PROVE  PosInv'
<1>1. /\ call = "delim" /\ kind = "RUN" /\ call' = "line" /\ s' \in {s, s_next}
      /\ UNCHANGED <<text, kind, res, delim, src>>
  BY DEF DelimOverRun, delimVars, instruction
<1>2. s' \in 0..Len(text)
  BY <1>1 DEF PosInv, DelimPositions
<1>. QED
  BY <1>1, <1>2 DEF PosInv

LEMMA FailsPos ==
  ASSUME PosInv, DocFails \/ DelimFails
  PROVE  PosInv'
<1>1. call' = "failed" /\ UNCHANGED <<text, s, kind, res, delim, src>>
  BY DEF DocFails, DelimFails, Fail, scanning, delimVars
<1>2. CASE DocFails
  BY <1>1, <1>2 DEF DocFails, Fail, PosInv, ErrorPosition
<1>3. CASE DelimFails
  <2>1. /\ call = "delim" /\ pc \in {"open_escape", "open_quote"}
        /\ error'.kind = pc /\ error'.pos = DelimError
    BY <1>3 DEF DelimFails, Fail
  <2>2. kind = "RUN" => s_next \in 0..Len(text) /\ DelimError = InFile(s_next)
    BY <2>1 DEF PosInv, DelimPositions, DelimError
  <2>3. kind # "RUN" => DelimOfCopy'
    BY <1>1, <2>1 DEF PosInv, DelimOfCopy
  <2>. QED
    BY <1>1, <2>1, <2>2, <2>3 DEF PosInv, ErrorPosition
<1>. QED
  BY <1>2, <1>3

LEMMA NextPos == PosInv /\ [Next]_vars => PosInv'
<1>. SUFFICES ASSUME PosInv, [Next]_vars PROVE PosInv'
  OBVIOUS
<1>1. CASE UNCHANGED vars
  BY <1>1 DEF vars, scanning, optVars, delimVars, lineVars, docVars, instruction, PosInv,
              DelimPositions, ErrorPosition, DelimOfCopy
<1>2. CASE InOptions \/ InWords \/ InDelim \/ InLine \/ InDoc
  BY <1>2, OptionsPos, WordsPos, DelimPos, LinePos, DocPos
<1>3. CASE OptionsOverCopy \/ OptionsOverRun
  BY <1>3, OptionsOverPos
<1>4. CASE SourceIsPath \/ DelimIsNone \/ DocOver
  BY <1>4, SourcesPos
<1>5. CASE SourceIsDelim
  BY <1>5, SourceIsDelimPos
<1>6. CASE WordsOver \/ SourcesOver \/ DelimOverCopy \/ LineOverDoc \/ LineOver
  BY <1>6, OverPos
<1>7. CASE DelimOverRun
  BY <1>7, DelimOverRunPos
<1>8. CASE DocFails \/ DelimFails
  BY <1>8, FailsPos
<1>. QED
  BY <1>1, <1>2, <1>3, <1>4, <1>5, <1>6, <1>7, <1>8 DEF Next

(* An error of parse_run or parse_add_or_copy is at a line and a column of  *)
(* the file, those of its position, and not on a line before the keyword's; *)
(* but for a delimiter of ADD and COPY that is left open.                   *)
THEOREM LocatedCorrect == Spec => []Located
<1>1. PosInv => Located
  BY InFileIs, KeywordInFile DEF PosInv, ErrorPosition, Located
<1>2. Spec => []PosInv
  BY InitPos, NextPos, PTL DEF Spec
<1>. QED
  BY <1>1, <1>2, PTL
-----------------------------------------------------------------------------
(* The flags.  The first two bytes of a flag are dashes, whatever           *)
(* continuation is between them, and its first "=" ends its name.           *)
TwoDashes(t, i, d) ==
  /\ i \in Nat /\ d \in Nat /\ i < d
  /\ Belongs(t, i) /\ t[i + 1] = "dash"
  /\ Belongs(t, d) /\ t[d + 1] = "dash"
  /\ \A b \in i + 1..d - 1 : ~Belongs(t, b)

NoEquals(t, i, j) == \A b \in i..j - 1 : Belongs(t, b) => t[b + 1] # "eq"

FirstEquals(t, d, e) ==
  /\ e \in Nat /\ d < e
  /\ Belongs(t, e) /\ t[e + 1] = "eq"
  /\ NoEquals(t, d + 1, e)

FlagIs(t, flag, i, j) ==
  \E d \in i..j - 1 :
    /\ TwoDashes(t, i, d)
    /\ flag.start = i
    /\ \/ /\ flag.value = NoValue
          /\ NoEquals(t, d + 1, j)
          /\ Collects(t, flag.name.value, d + 1, j)
       \/ \E e \in d..j - 1 :
            /\ flag.value # NoValue
            /\ FirstEquals(t, d, e)
            /\ Collects(t, flag.name.value, d + 1, e)
            /\ Collects(t, flag.value.value, e + 1, j)

(* Two bytes of a word have less than two before them.                      *)
LEMMA FirstTwo ==
  ASSUME NEW W \in SUBSET Nat, IsFiniteSet(W), NEW i \in W, NEW d \in W, i < d,
         \A k \in W : k \in {i, d} \/ k > d
  PROVE  {x \in W : Cardinality({k \in W : k < x}) < 2} = {i, d}
<1>1. i \in Nat /\ d \in Nat /\ \A k \in W : k \in Nat /\ (k = i \/ k = d \/ k > d)
  OBVIOUS
<1>2. {k \in W : k < i} = {}
  <2>1. \A k \in W : ~(k < i)
    BY <1>1
  <2>. QED
    BY <2>1
<1>3. {k \in W : k < d} = {i}
  <2>1. \A k \in W : k < d <=> k = i
    BY <1>1
  <2>. QED
    BY <2>1
<1>4. Cardinality({}) = 0
  BY FS_EmptySet
<1>5. Cardinality({i}) = 1
  BY FS_Singleton
<1>6. Cardinality({i, d}) = 2
  <2>1. IsFiniteSet({i}) /\ d \notin {i}
    BY <1>1, FS_Singleton
  <2>2. Cardinality({i} \cup {d}) = 1 + 1
    BY <1>5, <2>1, FS_AddElement
  <2>3. {i} \cup {d} = {i, d}
    OBVIOUS
  <2>. QED
    BY <2>2, <2>3
<1>7. ASSUME NEW x \in W, x > d
      PROVE  ~(Cardinality({k \in W : k < x}) < 2)
  <2>. DEFINE S == {k \in W : k < x}
  <2>1. IsFiniteSet(S)
    BY FS_Subset
  <2>2. {i, d} \subseteq S
    BY <1>1, <1>7
  <2>3. Cardinality({i, d}) <= Cardinality(S) /\ Cardinality(S) \in Nat
    BY <2>1, <2>2, FS_Subset, FS_CardinalityType
  <2>. HIDE DEF S
  <2>4. ~(Cardinality(S) < 2)
    BY <1>6, <2>3
  <2>. QED
    BY <2>4 DEF S
<1>. DEFINE F(x) == Cardinality({k \in W : k < x}) < 2
<1>8. F(i) /\ F(d)
  BY <1>2, <1>3, <1>4, <1>5
<1>9. \A x \in W : F(x) => x \in {i, d}
  BY <1>7
<1>. HIDE DEF F
<1>10. {x \in W : F(x)} = {i, d}
  BY <1>8, <1>9
<1>. QED
  BY <1>10 DEF F

(* A flag that was read is what its word says.                              *)
LEMMA FlagMeans ==
  ASSUME Len(text) \in Nat, NEW span, WordSpan(text, span.start, span.end),
         NEW flag, FlagIs(text, flag, span.start, span.end),
         NEW word, word = WordAt(text, span)
  PROVE  /\ IsFlag(text, word)
         /\ flag.start = Opt!Min(word)
         /\ Opt!Spells(flag.name.value, Opt!NameIn(word))
         /\ IF Opt!Equals(word) = {}
            THEN flag.value = NoValue
            ELSE flag.value # NoValue /\ Opt!Spells(flag.value.value, Opt!ValueIn(word))
<1>. DEFINE i == span.start
            j == span.end
<1>1. PICK d \in i..j - 1 :
        /\ TwoDashes(text, i, d)
        /\ flag.start = i
        /\ \/ /\ flag.value = NoValue
              /\ NoEquals(text, d + 1, j)
              /\ Collects(text, flag.name.value, d + 1, j)
           \/ \E e \in d..j - 1 :
                /\ flag.value # NoValue
                /\ FirstEquals(text, d, e)
                /\ Collects(text, flag.name.value, d + 1, e)
                /\ Collects(text, flag.value.value, e + 1, j)
  BY DEF FlagIs
<1>2. /\ i \in Nat /\ j \in Nat /\ d \in Nat /\ i < d /\ d < j
      /\ Belongs(text, i) /\ text[i + 1] = "dash"
      /\ Belongs(text, d) /\ text[d + 1] = "dash"
      /\ \A b \in i + 1..d - 1 : ~Belongs(text, b)
  BY <1>1 DEF WordSpan, TwoDashes
<1>3. \A b : b \in word <=> b \in i..j - 1 /\ Belongs(text, b)
  BY DEF WordAt
<1>. HIDE DEF i, j
<1>4. /\ word \in SUBSET Nat /\ i \in word /\ d \in word
      /\ \A b \in word : b \in {i, d} \/ b > d
  <2>1. i \in i..j - 1 /\ \A b \in i..j - 1 : b \in Nat /\ (b = i \/ b = d \/ b > d \/ b \in i + 1..d - 1)
    BY <1>2
  <2>. QED
    BY <1>2, <1>3, <2>1
<1>5. IsFlag(text, word)
  BY <1>2, <1>4 DEF IsFlag
<1>6. Opt!Min(word) = i
  <2>1. Min(word) = i
    BY WordAtIs DEF i
  <2>. QED
    BY <2>1 DEF Opt!Min, Min
<1>7. Opt!Dashes(word) = {i, d}
  <2>1. IsFiniteSet(word)
    <3>1. i \in Int /\ j - 1 \in Int
      BY <1>2
    <3>2. IsFiniteSet(i..j - 1)
      BY <3>1, FS_Interval
    <3>3. word \subseteq i..j - 1
      BY <1>3
    <3>. QED
      BY <3>2, <3>3, FS_Subset
  <2>2. \A S : Opt!Cardinality(S) = Cardinality(S)
    BY DEF Opt!Cardinality, Cardinality
  <2>3. Opt!Dashes(word) = {x \in word : Cardinality({k \in word : k < x}) < 2}
    BY <2>2 DEF Opt!Dashes
  <2>4. {x \in word : Cardinality({k \in word : k < x}) < 2} = {i, d}
    BY SMTT(30), <1>2, <1>4, <2>1, FirstTwo
  <2>. QED
    BY <2>3, <2>4
<1>8. \A b \in Opt!Equals(word) : b \in word /\ text[b + 1] = "eq" /\ b \in d + 1..j - 1
  <2>1. \A b \in word : b > d => b \in d + 1..j - 1
    BY <1>2, <1>3
  <2>. QED
    BY <1>2, <1>4, <2>1 DEF Opt!Equals
<1>9. \A string, bytes : Opt!Spells(string, bytes) <=> Spells(string, bytes)
  BY DEF Opt!Spells, Spells
<1>10. \A b : b \in word \ Opt!Dashes(word) <=> b \in d + 1..j - 1 /\ Belongs(text, b)
  <2>1. \A b : b \in d + 1..j - 1 => b \in i..j - 1 /\ b \notin {i, d}
    BY <1>2
  <2>2. \A b \in i..j - 1 : b > d => b \in d + 1..j - 1
    BY <1>2
  <2>. QED
    BY <1>3, <1>4, <1>7, <2>1, <2>2
<1>11. ASSUME NEW string, NEW m, NEW n, Collects(text, string, m, n)
       PROVE  Opt!Spells(string, {b \in m..n - 1 : Belongs(text, b)})
  <2>. DEFINE part == [start |-> m, end |-> n]
  <2>1. Collects(text, string, part.start, part.end)
    BY <1>11
  <2>2. Spells(string, WordAt(text, part))
    BY <2>1, WordIsSpelt
  <2>3. WordAt(text, part) = {b \in m..n - 1 : Belongs(text, b)}
    BY DEF WordAt
  <2>. QED
    BY <1>9, <2>2, <2>3
<1>12. CASE /\ flag.value = NoValue
            /\ NoEquals(text, d + 1, j)
            /\ Collects(text, flag.name.value, d + 1, j)
  <2>1. Opt!Equals(word) = {}
    BY <1>3, <1>8, <1>12 DEF NoEquals
  <2>2. Opt!NameIn(word) = {b \in d + 1..j - 1 : Belongs(text, b)}
    BY <1>10, <2>1 DEF Opt!NameIn
  <2>3. Opt!Spells(flag.name.value, {b \in d + 1..j - 1 : Belongs(text, b)})
    BY <1>11, <1>12
  <2>. QED
    BY <1>1, <1>5, <1>6, <1>12, <2>1, <2>2, <2>3
<1>13. ASSUME NEW e \in d..j - 1, flag.value # NoValue, FirstEquals(text, d, e),
              Collects(text, flag.name.value, d + 1, e),
              Collects(text, flag.value.value, e + 1, j)
       PROVE  /\ Opt!Spells(flag.name.value, Opt!NameIn(word))
              /\ Opt!Equals(word) # {}
              /\ Opt!Spells(flag.value.value, Opt!ValueIn(word))
  <2>1. /\ e \in Nat /\ d < e /\ e < j /\ Belongs(text, e) /\ text[e + 1] = "eq"
        /\ \A b \in d + 1..e - 1 : Belongs(text, b) => text[b + 1] # "eq"
    BY <1>2, <1>13 DEF FirstEquals, NoEquals
  <2>2. e \in Opt!Equals(word)
    <3>1. e \in i..j - 1
      BY <1>2, <2>1
    <3>. QED
      BY <1>3, <2>1, <3>1 DEF Opt!Equals
  <2>3. \A b \in Opt!Equals(word) : b \in Nat /\ e <= b
    <3>1. TAKE b \in Opt!Equals(word)
    <3>2. b \in d + 1..j - 1 /\ Belongs(text, b) /\ text[b + 1] = "eq"
      BY <1>3, <1>8
    <3>3. b \notin d + 1..e - 1
      BY <2>1, <3>2
    <3>. QED
      BY <1>2, <2>1, <3>2, <3>3
  <2>4. Opt!Min(Opt!Equals(word)) = e
    <3>. DEFINE E == Opt!Equals(word)
    <3>1. E \in SUBSET Nat /\ E # {}
      BY <2>2, <2>3
    <3>2. Min(E) \in E /\ Min(E) <= e
      BY <2>2, <3>1, MinIs
    <3>3. Min(E) = e
      BY <2>1, <2>3, <3>2
    <3>4. Opt!Min(E) = Min(E)
      BY DEF Opt!Min, Min
    <3>. QED
      BY <3>3, <3>4
  <2>5. Opt!NameIn(word) = {b \in d + 1..e - 1 : Belongs(text, b)}
    <3>1. \A b \in d + 1..j - 1 : b < e <=> b \in d + 1..e - 1
      BY <1>2, <2>1
    <3>2. \A b \in d + 1..e - 1 : b \in d + 1..j - 1
      BY <1>2, <2>1
    <3>3. \A b \in d + 1..j - 1 : b < e <=> \A x \in Opt!Equals(word) : b < x
      BY <1>2, <2>1, <2>2, <2>3
    <3>. QED
      BY <1>10, <3>1, <3>2, <3>3 DEF Opt!NameIn
  <2>6. Opt!ValueIn(word) = {b \in e + 1..j - 1 : Belongs(text, b)}
    <3>1. \A b : b \in e + 1..j - 1 <=> b \in i..j - 1 /\ b > e
      BY <1>2, <2>1
    <3>. QED
      BY <1>3, <2>4, <3>1 DEF Opt!ValueIn
  <2>. QED
    BY <1>11, <1>13, <2>2, <2>5, <2>6
<1>. QED
  BY <1>1, <1>5, <1>6, <1>12, <1>13

(* Behind a flag and in its gap no word is a flag but one that starts with  *)
(* two dashes.                                                              *)
LEMMA NoDashNoFlag ==
  ASSUME NEW t, Len(t) \in Nat, NEW n \in 0..Len(t), n < Len(t), SolidAt(t, n),
         NEW w, WordFrom(t, w, n), IsFlag(t, w)
  PROVE  /\ t[n + 1] = "dash"
         /\ \E j \in n + 1..Len(t) - 1 :
              /\ t[j + 1] = "dash" /\ SolidAt(t, j)
              /\ \A c \in n..j : ~BlankAt(t, c)
              /\ \A k \in n + 1..j - 1 : ~SolidAt(t, k)
<1>1. PICK i \in w, j \in w :
        /\ i < j /\ \A k \in w : k \in {i, j} \/ k > j
        /\ t[i + 1] = "dash" /\ t[j + 1] = "dash"
  BY DEF IsFlag
<1>2. \A b : b \in w <=> /\ b \in n..Len(t) - 1 /\ SolidAt(t, b)
                         /\ \A c \in n..b : ~BlankAt(t, c)
  BY DEF WordFrom
<1>3. n \in w
  <2>1. n \in n..Len(t) - 1 /\ \A c \in n..n : c = n
    OBVIOUS
  <2>. QED
    BY <1>2, <2>1 DEF SolidAt, BlankAt
<1>4. i \in n..Len(t) - 1 /\ j \in n..Len(t) - 1
  BY <1>2
<1>5. i = n
  <2>1. n = i \/ n = j \/ n > j
    BY <1>1, <1>3
  <2>. QED
    BY <1>1, <1>4, <2>1
<1>6. j \in n + 1..Len(t) - 1
  BY <1>1, <1>4, <1>5
<1>7. ASSUME NEW k \in n + 1..j - 1, SolidAt(t, k)
      PROVE  FALSE
  <2>1. k \in n..Len(t) - 1 /\ \A c \in n..k : c \in n..j
    BY <1>6
  <2>2. k \in w
    BY <1>2, <1>7, <2>1
  <2>3. k = n \/ k = j \/ k > j
    BY <1>1, <1>5, <2>2
  <2>. QED
    BY <1>6, <2>3
<1>. QED
  BY <1>1, <1>2, <1>5, <1>6, <1>7

(* The flags so far, and that what is before n is theirs.                   *)
FlagsBefore(t, list, q, n) ==
  /\ q \in Seq(Span) /\ Len(q) = Len(list)
  /\ Divided(t, q, n)
  /\ \A k \in 1..Len(q) : FlagIs(t, list[k], q[k].start, q[k].end)

LineOverAt(n) == n = Len(text) \/ At(text, n, {"lf"})

(* Phase by phase.                                                          *)
DashInv ==
  pc = "dash" =>
    /\ Walk(text, s) /\ ~At(text, s, Whitespace) /\ ~Continues(text, s)
    /\ \E q : FlagsBefore(text, options, q, s) /\ (Parted(text, q, s) \/ LineOverAt(s))

SecondInv ==
  pc = "second" =>
    /\ Walk(text, s) /\ Walk(text, s_next) /\ s < s_next
    /\ Belongs(text, s) /\ text[s + 1] = "dash"
    /\ \A b \in s + 1..s_next - 1 : ~Belongs(text, b)
    /\ \E q : FlagsBefore(text, options, q, s) /\ Parted(text, q, s)

(* In a flag: its dashes are read, and what follows is being collected.     *)
InFlag(d) ==
  /\ TwoDashes(text, flag_start, d)
  /\ \E q : FlagsBefore(text, options, q, flag_start) /\ Parted(text, q, flag_start)
  /\ Collecting(text, start, word_start, buf, s)
  /\ \A b \in flag_start..s - 1 : ~BlankAt(text, b)

NameInv ==
  pc = "name" =>
    \E d : InFlag(d) /\ start = d + 1 /\ NoEquals(text, start, s)

ValueInv ==
  pc = "value" =>
    \E d, e :
      /\ InFlag(d) /\ start = e + 1
      /\ FirstEquals(text, d, e)
      /\ Collects(text, name.value, d + 1, e)

FlagGapInv ==
  pc = "gap" =>
    /\ Walk(text, s)
    /\ \E q : /\ FlagsBefore(text, options, q, s)
              /\ IF has_space THEN Parted(text, q, s) ELSE WordOver(WordEnd)

(* Where the flags are over, what is before is the flags of the line.       *)
ArgsFrom(t, i) ==
  /\ Walk(t, i) /\ ~At(t, i, Whitespace) /\ ~Continues(t, i)
  /\ \E q \in Seq(Span) :
       /\ Divided(t, q, i) /\ (Parted(t, q, i) \/ i = Len(t) \/ At(t, i, {"lf"}))
       /\ FlagWords(t) \in Seq(SUBSET Nat) /\ Len(FlagWords(t)) = Len(q)
       /\ \A k \in 1..Len(q) : FlagWords(t)[k] = WordAt(t, q[k])

FlagsOverInv == pc = "done" => Opt!FlagsOfTheLine /\ Opt!RestIsLeft /\ ArgsFrom(text, s)

FlagsInv ==
  call = "options" =>
    /\ \E S : options \in Seq(S)
    /\ DashInv /\ SecondInv /\ NameInv /\ ValueInv /\ FlagGapInv /\ FlagsOverInv

(* No flag is left: the flags are those of the line, and the rest is what   *)
(* follows them.                                                            *)
LEMMA FlagsAreOver ==
  ASSUME Len(text) \in Nat, s \in 0..Len(text),
         Walk(text, s), ~At(text, s, Whitespace), ~Continues(text, s),
         NEW q, FlagsBefore(text, options, q, s),
         \/ LineOverAt(s)
         \/ /\ Parted(text, q, s) /\ s < Len(text) /\ SolidAt(text, s)
            /\ \A w : WordFrom(text, w, s) => ~IsFlag(text, w),
         \E S : options \in Seq(S),
         UNCHANGED <<text, s, options>>
  PROVE  Opt!FlagsOfTheLine' /\ Opt!RestIsLeft' /\ ArgsFrom(text, s)'
<1>. DEFINE flags == FlagWords(text)
            rest == WordsLeft(text)
<1>1. /\ q \in Seq(Span) /\ Len(q) = Len(options) /\ Divided(text, q, s) /\ Len(q) \in Nat
      /\ \A k \in 1..Len(q) : FlagIs(text, options[k], q[k].start, q[k].end)
      /\ \A k \in 1..Len(q) : WordSpan(text, q[k].start, q[k].end)
  BY DEF FlagsBefore, Divided
<1>2. DOMAIN options = 1..Len(q)
  BY <1>1
<1>3. ASSUME NEW k \in 1..Len(q), NEW word, word = WordAt(text, q[k])
      PROVE  /\ IsFlag(text, word)
             /\ options[k].start = Opt!Min(word)
             /\ Opt!Spells(options[k].name.value, Opt!NameIn(word))
             /\ IF Opt!Equals(word) = {}
                THEN options[k].value = NoValue
                ELSE /\ options[k].value # NoValue
                     /\ Opt!Spells(options[k].value.value, Opt!ValueIn(word))
  BY <1>1, <1>3, FlagMeans
<1>4. LineOverAt(s) /\ Walk(text, s) =>
        Newline(text, s) = After(text) /\ Spent(text, s)
  BY WalkOver DEF LineOverAt, Spent
<1>5. /\ flags \in Seq(SUBSET Nat) /\ Len(flags) = Len(q)
      /\ \A k \in 1..Len(q) : flags[k] = WordAt(text, q[k])
      /\ IF Spent(text, s) THEN rest = {} ELSE rest # {} /\ Min(UNION rest) = s
  <2>1. \A k \in 1..Len(q) : IsFlag(text, WordAt(text, q[k]))
    BY <1>3
  <2>2. \/ Spent(text, s)
        \/ /\ Parted(text, q, s) /\ s < Len(text) /\ SolidAt(text, s)
           /\ \A w : WordFrom(text, w, s) => ~IsFlag(text, w)
    BY <1>4
  <2>. QED
    BY <1>1, <2>1, <2>2, FlagWordsAre
<1>6. Opt!FlagWords(text) = flags /\ Opt!LineWords(text) = LineWords(text)
      /\ Opt!After(text) = After(text) /\ Opt!Newline(text, s) = Newline(text, s)
  BY OptReference
<1>. HIDE DEF flags
<1>7. Opt!FlagsOfTheLine'
  <2>1. /\ Len(options) = Len(flags)
        /\ \A f \in DOMAIN options :
             /\ options[f].start = Opt!Min(flags[f])
             /\ Opt!Spells(options[f].name.value, Opt!NameIn(flags[f]))
             /\ IF Opt!Equals(flags[f]) = {}
                THEN options[f].value = NoValue
                ELSE /\ options[f].value # NoValue
                     /\ Opt!Spells(options[f].value.value, Opt!ValueIn(flags[f]))
    BY <1>1, <1>2, <1>3, <1>5
  <2>2. Opt!FlagWords(text') = flags /\ options' = options
    BY <1>6
  <2>3. ASSUME NEW w
        PROVE  /\ Opt!NameIn(w)' = Opt!NameIn(w)
               /\ Opt!Equals(w)' = Opt!Equals(w)
               /\ Opt!ValueIn(w)' = Opt!ValueIn(w)
    BY DEF Opt!NameIn, Opt!ValueIn, Opt!Dashes, Opt!Equals
  <2>. QED
    BY <2>1, <2>2, <2>3 DEF Opt!FlagsOfTheLine
<1>8. Opt!RestIsLeft'
  <2>1. Opt!ToSet(flags) = ToSet(flags)
    BY DEF Opt!ToSet, ToSet
  <2>2. Opt!LineWords(text) \ Opt!ToSet(Opt!FlagWords(text)) = rest
    BY <1>6, <2>1 DEF WordsLeft, flags
  <2>. HIDE DEF rest
  <2>3. CASE rest = {}
    <3>1. LineOverAt(s) /\ Newline(text, s) = After(text)
      <4>1. Spent(text, s)
        BY <1>5, <2>3
      <4>2. ~(s < Len(text) /\ SolidAt(text, s))
        BY <4>1 DEF SolidAt, Spent
      <4>. QED
        BY <1>4, <4>2
    <3>. QED
      BY <1>6, <2>2, <2>3, <3>1 DEF Opt!RestIsLeft, LineOverAt, Opt!At, At
  <2>4. CASE rest # {}
    <3>1. Min(UNION rest) = s
      BY <1>5, <2>4
    <3>2. Opt!Min(UNION rest) = Min(UNION rest)
      BY DEF Opt!Min, Min
    <3>. QED
      BY <2>2, <2>4, <3>1, <3>2 DEF Opt!RestIsLeft
  <2>. QED
    BY <2>3, <2>4
<1>9. ArgsFrom(text, s)
  <2>1. Parted(text, q, s) \/ s = Len(text) \/ At(text, s, {"lf"})
    BY DEF LineOverAt
  <2>. QED
    BY <1>1, <1>5, <2>1 DEF ArgsFrom, flags
<1>. QED
  BY <1>7, <1>8, <1>9

(* One flag more.                                                           *)
LEMMA OneMore ==
  ASSUME NEW S, NEW list \in Seq(S), NEW e, NEW more, more = Append(list, e)
  PROVE  /\ more \in Seq(S \cup {e})
         /\ Len(more) = Len(list) + 1
         /\ \A k \in 1..Len(list) : more[k] = list[k]
         /\ more[Len(list) + 1] = e
<1>1. list \in Seq(S \cup {e})
  BY SeqMore
<1>. QED
  BY <1>1, AppendProperties

(* Before the first flag.                                                   *)
LEMMA FlagsStart == Init => FlagsInv
<1>. SUFFICES ASSUME Init PROVE FlagsInv
  OBVIOUS
<1>1. /\ text \in Inputs /\ s = 0 /\ pc = "dash" /\ options = <<>>
      /\ ~Opt!At(text, 0, Opt!Whitespace) /\ ~Opt!Continues(text, 0)
  BY DEF Init, Opt!Init, Opt!ScanInit
<1>2. Len(text) \in Nat
  BY <1>1, InputsAreSequences
<1>3. Walk(text, s) /\ ~At(text, s, Whitespace) /\ ~Continues(text, s)
  BY <1>1, <1>2, WalkStart, OptScans DEF Opt!At, At, Opt!Whitespace, Whitespace
<1>4. FlagsBefore(text, options, <<>>, s) /\ Parted(text, <<>>, s)
  BY <1>1 DEF FlagsBefore, Divided, Parted
<1>5. options \in Seq({})
  BY <1>1
<1>6. DashInv
  BY <1>3, <1>4 DEF DashInv
<1>7. \E S : options \in Seq(S)
  BY <1>5
<1>. QED
  BY <1>1, <1>6, <1>7 DEF FlagsInv, SecondInv, NameInv, ValueInv, FlagGapInv, FlagsOverInv

(* What both invariants say of a text and a position in it.                 *)
FlagsState ==
  /\ text \in Inputs /\ Len(text) \in Nat /\ MaxLen \in Nat /\ Len(text) <= MaxLen
  /\ s \in 0..Len(text)
  /\ call = "options"
  /\ FlagsInv

LEMMA OnlyPhase ==
  ASSUME FlagsState, call' = call, \E S : options' \in Seq(S),
         \/ pc' = "dash" /\ DashInv'
         \/ pc' = "second" /\ SecondInv'
         \/ pc' = "name" /\ NameInv'
         \/ pc' = "value" /\ ValueInv'
         \/ pc' = "gap" /\ FlagGapInv'
         \/ pc' = "done" /\ FlagsOverInv'
  PROVE  FlagsInv'
BY DEF FlagsInv, DashInv, SecondInv, NameInv, ValueInv, FlagGapInv, FlagsOverInv

(* At a word: its first byte is a dash, or there are no more flags.         *)
LEMMA DashFlags ==
  ASSUME FlagsState, Opt!Dash, call' = call
  PROVE  FlagsInv'
<1>1. /\ pc = "dash" /\ UNCHANGED <<text, s, flag_start, options>>
      /\ \E S : options \in Seq(S)
  BY DEF Opt!Dash, Opt!scanning, FlagsState, FlagsInv
<1>2. /\ Walk(text, s) /\ ~At(text, s, Whitespace) /\ ~Continues(text, s)
      /\ Len(text) \in Nat /\ s \in 0..Len(text)
  BY <1>1 DEF FlagsState, FlagsInv, DashInv
<1>3. PICK q : FlagsBefore(text, options, q, s) /\ (Parted(text, q, s) \/ LineOverAt(s))
  BY <1>1 DEF FlagsState, FlagsInv, DashInv
<1>4. CASE At(text, s, {"dash"})
  <2>1. pc' = "second" /\ s_next' = s + 1
    BY <1>4 DEF Opt!Dash, Opt!At, At
  <2>2. s < Len(text) /\ text[s + 1] = "dash"
    BY <1>4 DEF At
  <2>3. Walk(text, s + 1) /\ Belongs(text, s)
    BY <1>2, <2>2, WalkByte
  <2>4. Parted(text, q, s)
    BY <1>2, <1>3, <2>2 DEF LineOverAt, At
  <2>5. \A b : b \notin s + 1..(s + 1) - 1
    BY <1>2
  <2>6. s < s + 1
    BY <1>2
  <2>7. FlagsBefore(text, options, q, s)'
    BY <1>1, <1>3 DEF FlagsBefore
  <2>8. SecondInv'
    BY <1>1, <1>2, <2>1, <2>2, <2>3, <2>4, <2>5, <2>6, <2>7 DEF SecondInv
  <2>. QED
    BY <1>1, <2>1, <2>8, OnlyPhase
<1>5. CASE ~At(text, s, {"dash"})
  <2>1. pc' = "done"
    BY <1>5 DEF Opt!Dash, Opt!At, At
  <2>2. Opt!FlagsOfTheLine' /\ Opt!RestIsLeft' /\ ArgsFrom(text, s)'
    <3>1. CASE LineOverAt(s)
      BY <1>1, <1>2, <1>3, <3>1, FlagsAreOver
    <3>2. CASE ~LineOverAt(s)
      <4>1. s < Len(text) /\ text[s + 1] # "lf"
        BY <1>2, <3>2 DEF LineOverAt, At
      <4>2. SolidAt(text, s)
        BY <1>2, <4>1, WalkByte DEF SolidAt, At
      <4>3. \A w : WordFrom(text, w, s) => ~IsFlag(text, w)
        BY <1>2, <1>5, <4>1, <4>2, NoDashNoFlag DEF At
      <4>. QED
        BY <1>1, <1>2, <1>3, <3>2, <4>1, <4>2, <4>3, FlagsAreOver
    <3>. QED
      BY <3>1, <3>2
  <2>3. FlagsOverInv'
    BY <2>2 DEF FlagsOverInv
  <2>. QED
    BY <1>1, <2>1, <2>3, OnlyPhase
<1>. QED
  BY <1>4, <1>5

(* No byte but the escape byte starts a continuation.                       *)
LEMMA NoContinuation ==
  ASSUME NEW t, Len(t) \in Nat, NEW i \in 0..Len(t), t[i + 1] # "esc"
  PROVE  ~Continues(t, i)
BY ContinuationAdvances DEF At

(* The second dash: the name starts behind it.                              *)
LEMMA SecondDashFlags ==
  ASSUME FlagsState, Opt!SecondDash, call' = call
  PROVE  FlagsInv'
<1>1. /\ pc = "second" /\ pc' = "name"
      /\ Opt!At(text, s_next, {"dash"})
      /\ flag_start' = s /\ s' = s_next + 1 /\ start' = s' /\ word_start' = s' /\ buf' = <<>>
      /\ UNCHANGED <<text, s_next, options>>
      /\ \E S : options \in Seq(S)
  BY DEF Opt!SecondDash, Opt!WordStarts, FlagsState, FlagsInv
<1>2. /\ Walk(text, s_next) /\ s < s_next
      /\ Belongs(text, s) /\ text[s + 1] = "dash"
      /\ \A b \in s + 1..s_next - 1 : ~Belongs(text, b)
      /\ Len(text) \in Nat /\ s \in 0..Len(text)
  BY <1>1 DEF FlagsState, FlagsInv, SecondInv
<1>3. PICK q : FlagsBefore(text, options, q, s) /\ Parted(text, q, s)
  BY <1>1 DEF FlagsState, FlagsInv, SecondInv
<1>4. s_next \in 0..Len(text) /\ s_next < Len(text) /\ text[s_next + 1] = "dash"
  BY <1>1, <1>2 DEF Walk, Opt!At
<1>5. Walk(text, s_next + 1) /\ Belongs(text, s_next)
  <2>1. ~Continues(text, s_next)
    BY <1>2, <1>4, NoContinuation
  <2>. QED
    BY <1>2, <1>4, <2>1, WalkByte
<1>6. TwoDashes(text, s, s_next)
  BY <1>2, <1>4, <1>5 DEF TwoDashes
<1>7. Collecting(text, s', s', <<>>, s')
  BY <1>1, <1>5, CollectingStart
<1>8. \A b \in s..s' - 1 : ~BlankAt(text, b)
  <2>1. \A b \in s..s' - 1 : b = s \/ b = s_next \/ b \in s + 1..s_next - 1
    BY <1>1, <1>2, <1>4
  <2>. QED
    BY <1>2, <1>4, <2>1 DEF BlankAt, Whitespace
<1>9. NoEquals(text, s', s')
  BY <1>1, <1>4 DEF NoEquals
<1>10. InFlag(s_next)'
  <2>1. FlagsBefore(text, options, q, flag_start)' /\ Parted(text, q, flag_start)'
    BY <1>1, <1>3 DEF FlagsBefore
  <2>2. TwoDashes(text, flag_start, s_next)'
    BY <1>1, <1>6
  <2>. QED
    BY <1>1, <1>7, <1>8, <2>1, <2>2 DEF InFlag
<1>11. NameInv'
  BY <1>1, <1>9, <1>10 DEF NameInv
<1>. QED
  BY <1>1, <1>11, OnlyPhase

(* A continuation between the dashes.                                       *)
LEMMA DashContinuedFlags ==
  ASSUME FlagsState, Opt!DashContinued, call' = call
  PROVE  FlagsInv'
<1>1. /\ pc = "second" /\ Opt!Continues(text, s_next) /\ s_next' = Opt!Continuation(text, s_next)
      /\ UNCHANGED <<text, s, pc, options>>
      /\ \E S : options \in Seq(S)
  BY DEF Opt!DashContinued, Opt!scanning, FlagsState, FlagsInv
<1>2. /\ Walk(text, s) /\ Walk(text, s_next) /\ s < s_next
      /\ Belongs(text, s) /\ text[s + 1] = "dash"
      /\ \A b \in s + 1..s_next - 1 : ~Belongs(text, b)
      /\ Len(text) \in Nat /\ s \in 0..Len(text) /\ s_next \in 0..Len(text)
  BY <1>1 DEF FlagsState, FlagsInv, SecondInv, Walk
<1>3. PICK q : FlagsBefore(text, options, q, s) /\ Parted(text, q, s)
  BY <1>1 DEF FlagsState, FlagsInv, SecondInv
<1>4. Continues(text, s_next) /\ s_next' = Continuation(text, s_next)
  BY <1>1, OptScans
<1>5. /\ Walk(text, s_next') /\ s_next' \in s_next + 2..Len(text)
      /\ \A b \in s_next..s_next' - 1 : ~Belongs(text, b)
  BY <1>2, <1>4, WalkContinued, ContinuationAdvances
<1>6. s < s_next' /\ \A b \in s + 1..s_next' - 1 : ~Belongs(text, b)
  <2>1. ASSUME NEW i \in Nat, NEW j \in Nat, NEW n \in j + 2..Len(text), i < j
        PROVE  i < n /\ \A b \in i + 1..n - 1 : b \in i + 1..j - 1 \/ b \in j..n - 1
    BY <1>2, <2>1
  <2>2. s \in Nat /\ s_next \in Nat
    BY <1>2
  <2>3. s < s_next' /\ \A b \in s + 1..s_next' - 1 : b \in s + 1..s_next - 1 \/ b \in s_next..s_next' - 1
    BY <1>2, <1>5, <2>1, <2>2
  <2>. QED
    BY <1>2, <1>5, <2>3, Zenon
<1>7. FlagsBefore(text, options, q, s)' /\ Parted(text, q, s)'
  BY <1>1, <1>3 DEF FlagsBefore
<1>8. SecondInv'
  BY <1>1, <1>2, <1>5, <1>6, <1>7 DEF SecondInv
<1>. QED
  BY <1>1, <1>8, OnlyPhase

(* No second dash: the word is no flag.                                     *)
LEMMA DashAloneFlags ==
  ASSUME FlagsState, Opt!DashAlone, call' = call
  PROVE  FlagsInv'
<1>1. /\ pc = "second" /\ pc' = "done"
      /\ ~Opt!At(text, s_next, {"dash"}) /\ ~Opt!Continues(text, s_next)
      /\ UNCHANGED <<text, s, options>>
      /\ \E S : options \in Seq(S)
  BY DEF Opt!DashAlone, Opt!scanning, FlagsState, FlagsInv
<1>2. /\ Walk(text, s) /\ Walk(text, s_next) /\ s < s_next
      /\ Belongs(text, s) /\ text[s + 1] = "dash"
      /\ \A b \in s + 1..s_next - 1 : ~Belongs(text, b)
      /\ Len(text) \in Nat /\ s \in 0..Len(text) /\ s_next \in 0..Len(text)
  BY <1>1 DEF FlagsState, FlagsInv, SecondInv, Walk
<1>3. PICK q : FlagsBefore(text, options, q, s) /\ Parted(text, q, s)
  BY <1>1 DEF FlagsState, FlagsInv, SecondInv
<1>4. s < Len(text) /\ SolidAt(text, s)
  BY <1>2 DEF SolidAt, Whitespace
<1>5. ASSUME NEW w, WordFrom(text, w, s), IsFlag(text, w)
      PROVE  FALSE
  <2>1. PICK j \in s + 1..Len(text) - 1 :
          /\ text[j + 1] = "dash" /\ SolidAt(text, j)
          /\ \A c \in s..j : ~BlankAt(text, c)
          /\ \A k \in s + 1..j - 1 : ~SolidAt(text, k)
    BY <1>2, <1>4, <1>5, NoDashNoFlag
  <2>2. s_next <= j
    <3>1. j \notin s + 1..s_next - 1
      BY <1>2, <2>1 DEF SolidAt
    <3>. QED
      BY <1>2, <2>1, <3>1
  <2>3. s_next < Len(text)
    BY <1>2, <2>1, <2>2
  <2>4. ~Continues(text, s_next) /\ text[s_next + 1] # "dash"
    BY <1>1, <2>3, OptScans DEF Opt!At
  <2>5. text[s_next + 1] # "lf"
    <3>1. SUFFICES ASSUME text[s_next + 1] = "lf" PROVE FALSE
      OBVIOUS
    <3>2. \A b \in s_next..Len(text) - 1 : ~Belongs(text, b)
      BY <1>2, <2>3, <3>1, WalkOver DEF At
    <3>3. j \in s_next..Len(text) - 1
      BY <1>2, <2>1, <2>2
    <3>. QED
      BY <2>1, <3>2, <3>3 DEF SolidAt
  <2>6. Belongs(text, s_next)
    BY <1>2, <2>3, <2>4, <2>5, WalkByte
  <2>7. s_next # j
    BY <2>1, <2>4
  <2>8. s_next \in s + 1..j - 1 /\ s_next \in s..j
    BY <1>2, <2>1, <2>2, <2>7
  <2>. QED
    BY <2>1, <2>6, <2>8 DEF SolidAt, BlankAt
<1>6. Opt!FlagsOfTheLine' /\ Opt!RestIsLeft' /\ ArgsFrom(text, s)'
  <2>1. ~At(text, s, Whitespace) /\ ~Continues(text, s)
    BY <1>2, NoContinuation DEF At, Whitespace
  <2>. QED
    BY <1>1, <1>2, <1>3, <1>4, <1>5, <2>1, FlagsAreOver
<1>7. FlagsOverInv'
  BY <1>6 DEF FlagsOverInv
<1>. QED
  BY <1>1, <1>7, OnlyPhase

(* The positions of a range, split in two.                                  *)
LEMMA Split ==
  ASSUME NEW i \in Nat, NEW j \in Nat, NEW n \in Nat
  PROVE  \A b \in i..n - 1 : b \in i..j - 1 \/ b \in j..n - 1
OBVIOUS

(* One byte more of a name or a value, or a continuation in it.             *)
LEMMA InFlagMore ==
  ASSUME Len(text) \in Nat, s \in 0..Len(text), NEW d, InFlag(d),
         UNCHANGED <<text, start, flag_start, options>>,
         \/ Opt!WordContinued
         \/ Opt!WordByte(Opt!WordEnd)
         \/ Opt!WordByte(Opt!NameEnd)
  PROVE  /\ InFlag(d)' /\ s' \in s + 1..Len(text)
         /\ \A b \in s..s' - 1 :
              Belongs(text, b) => b = s /\ ~Continues(text, s)
<1>1. /\ Collecting(text, start, word_start, buf, s) /\ Walk(text, s) /\ s \in Nat
      /\ flag_start \in Nat /\ \A b \in flag_start..s - 1 : ~BlankAt(text, b)
  BY DEF InFlag, Collecting, TwoDashes
<1>2. Collecting(text, start, word_start', buf', s') /\ s' \in s + 1..Len(text)
      /\ \A b \in s..s' - 1 : ~BlankAt(text, b) /\ (Belongs(text, b) => b = s /\ ~Continues(text, s))
  <2>1. CASE Opt!WordContinued
    <3>1. /\ Continues(text, s) /\ s' = Continuation(text, s) /\ word_start' = s'
          /\ buf' = buf \o Piece(word_start, s)
      <4>1. Opt!Piece(word_start, s) = Piece(word_start, s)
        BY DEF Opt!Piece, Piece
      <4>. QED
        BY <2>1, <4>1, OptScans DEF Opt!WordContinued
    <3>2. s' \in s + 2..Len(text) /\ \A b \in s..s' - 1 : ~Belongs(text, b)
      BY <1>1, <3>1, WalkContinued, ContinuationAdvances
    <3>3. s' \in s + 1..Len(text)
      BY <1>1, <3>2
    <3>. QED
      BY <1>1, <3>1, <3>2, <3>3, CollectingContinued DEF BlankAt
  <2>2. CASE Opt!WordByte(Opt!WordEnd) \/ Opt!WordByte(Opt!NameEnd)
    <3>1. /\ s < Len(text) /\ s' = s + 1 /\ UNCHANGED <<word_start, buf>> /\ ~Continues(text, s)
          /\ text[s + 1] \notin Whitespace /\ text[s + 1] # "lf"
      BY <2>2, OptScans DEF Opt!WordByte, Opt!NameEnd, Opt!WordEnd, Opt!Whitespace,
                            Opt!PossibleLine, Opt!At, Whitespace
    <3>2. Collecting(text, start, word_start, buf, s + 1)
      BY <1>1, <3>1, CollectingByte
    <3>3. s + 1 \in s + 1..Len(text) /\ \A b \in s..(s + 1) - 1 : b = s
      BY <1>1, <3>1
    <3>. QED
      BY <3>1, <3>2, <3>3 DEF BlankAt
  <2>. QED
    BY <2>1, <2>2
<1>3. \A b \in flag_start..s' - 1 : ~BlankAt(text, b)
  <2>1. \A b \in flag_start..s' - 1 : b \in flag_start..s - 1 \/ b \in s..s' - 1
    <3>1. s' \in Nat
      BY <1>1, <1>2
    <3>. QED
      BY <1>1, <3>1, Split
  <2>. QED
    BY <1>1, <1>2, <2>1
<1>4. InFlag(d)'
  <2>1. PICK q : FlagsBefore(text, options, q, flag_start) /\ Parted(text, q, flag_start)
    BY DEF InFlag
  <2>2. FlagsBefore(text, options, q, flag_start)' /\ Parted(text, q, flag_start)'
    BY <2>1 DEF FlagsBefore
  <2>3. TwoDashes(text, flag_start, d)'
    BY DEF InFlag
  <2>. QED
    BY <1>2, <1>3, <2>2, <2>3 DEF InFlag
<1>. QED
  BY <1>2, <1>4

LEMMA CollectFlags ==
  ASSUME FlagsState, Opt!Collect, call' = call
  PROVE  FlagsInv'
<1>1. /\ UNCHANGED <<text, start, pc, flag_start, name, options>>
      /\ Len(text) \in Nat /\ s \in 0..Len(text)
      /\ \E S : options \in Seq(S)
  BY DEF Opt!Collect, Opt!WordByte, Opt!WordContinued, FlagsState, FlagsInv
<1>2. CASE pc = "name"
  <2>1. PICK d : InFlag(d) /\ start = d + 1 /\ NoEquals(text, start, s)
    BY <1>2 DEF FlagsState, FlagsInv, NameInv
  <2>2. Opt!WordByte(Opt!NameEnd) \/ Opt!WordContinued
    BY <1>2 DEF Opt!Collect
  <2>3. /\ InFlag(d)' /\ s' \in s + 1..Len(text)
        /\ \A b \in s..s' - 1 : Belongs(text, b) => b = s /\ ~Continues(text, s)
    BY <1>1, <2>1, <2>2, InFlagMore
  <2>4. NoEquals(text, start, s')
    <3>1. ~Continues(text, s) => text[s + 1] # "eq"
      BY <2>2, OptScans DEF Opt!WordByte, Opt!WordContinued, Opt!At, Opt!NameEnd
    <3>2. start \in Nat
      BY <2>1 DEF InFlag, Collecting
    <3>3. \A b \in start..s' - 1 : b \in start..s - 1 \/ b \in s..s' - 1
      <4>1. s \in Nat /\ s' \in Nat
        BY <1>1, <2>3
      <4>. QED
        BY <3>2, <4>1, Split
    <3>. QED
      BY <2>1, <2>3, <3>1, <3>3 DEF NoEquals
  <2>5. NameInv'
    BY <1>1, <2>1, <2>3, <2>4 DEF NameInv
  <2>. QED
    BY <1>1, <1>2, <2>5, OnlyPhase
<1>3. CASE pc = "value"
  <2>1. PICK d, e : /\ InFlag(d) /\ start = e + 1
                    /\ FirstEquals(text, d, e)
                    /\ Collects(text, name.value, d + 1, e)
    BY <1>3 DEF FlagsState, FlagsInv, ValueInv
  <2>2. Opt!WordByte(Opt!WordEnd) \/ Opt!WordContinued
    BY <1>3 DEF Opt!Collect
  <2>3. InFlag(d)'
    BY <1>1, <2>1, <2>2, InFlagMore
  <2>4. ValueInv'
    BY <1>1, <2>1, <2>3 DEF ValueInv
  <2>. QED
    BY <1>1, <1>3, <2>4, OnlyPhase
<1>. QED
  BY <1>2, <1>3 DEF Opt!Collect

(* The first "=" of the flag: its value starts behind it.                   *)
LEMMA NameEndsFlags ==
  ASSUME FlagsState, Opt!NameEnds, call' = call
  PROVE  FlagsInv'
<1>1. /\ pc = "name" /\ pc' = "value" /\ Opt!At(text, s, {"eq"})
      /\ name' = Opt!Unescaped /\ s' = s + 1
      /\ start' = s' /\ word_start' = s' /\ buf' = <<>>
      /\ UNCHANGED <<text, flag_start, options>>
      /\ \E S : options \in Seq(S)
  BY DEF Opt!NameEnds, Opt!WordStarts, FlagsState, FlagsInv
<1>2. Len(text) \in Nat /\ s \in 0..Len(text) /\ s \in Nat
  BY DEF FlagsState
<1>3. PICK d : InFlag(d) /\ start = d + 1 /\ NoEquals(text, start, s)
  BY <1>1 DEF FlagsState, FlagsInv, NameInv
<1>4. /\ Collecting(text, start, word_start, buf, s) /\ Walk(text, s)
      /\ start \in Nat /\ start <= s
      /\ TwoDashes(text, flag_start, d) /\ d \in Nat /\ flag_start \in Nat
      /\ \A b \in flag_start..s - 1 : ~BlankAt(text, b)
  <2>1. start <= s
    <3>1. start \in Nat /\ word_start \in Nat /\ start <= word_start /\ word_start <= s
      BY <1>3 DEF InFlag, Collecting
    <3>. QED
      BY <1>2, <3>1
  <2>. QED
    BY <1>3, <2>1 DEF InFlag, Collecting, TwoDashes
<1>5. s < Len(text) /\ text[s + 1] = "eq" /\ ~Continues(text, s)
  <2>1. s < Len(text) /\ text[s + 1] = "eq"
    BY <1>1 DEF Opt!At
  <2>. QED
    BY <1>2, <2>1, NoContinuation
<1>6. Walk(text, s + 1) /\ Belongs(text, s)
  BY <1>2, <1>4, <1>5, WalkByte
<1>7. Collects(text, name'.value, d + 1, s)
  <2>1. Opt!Value = Gathered(start, word_start, buf, s)
    BY DEF Opt!Value, Gathered, Opt!Piece, Piece
  <2>. QED
    BY <1>1, <1>3, <1>4, <2>1, CollectingIs DEF Opt!Unescaped
<1>8. FirstEquals(text, d, s)
  <2>1. d < s
    BY <1>2, <1>3, <1>4
  <2>. QED
    BY <1>2, <1>3, <1>5, <1>6, <2>1 DEF FirstEquals
<1>9. Collecting(text, s', s', <<>>, s')
  BY <1>1, <1>6, CollectingStart
<1>10. \A b \in flag_start..s' - 1 : ~BlankAt(text, b)
  <2>1. \A b \in flag_start..s' - 1 : b \in flag_start..s - 1 \/ b = s
    BY <1>1, <1>2, <1>4
  <2>. QED
    BY <1>4, <1>5, <2>1 DEF BlankAt, Whitespace
<1>11. InFlag(d)'
  <2>1. PICK q : FlagsBefore(text, options, q, flag_start) /\ Parted(text, q, flag_start)
    BY <1>3 DEF InFlag
  <2>2. FlagsBefore(text, options, q, flag_start)' /\ Parted(text, q, flag_start)'
    BY <1>1, <2>1 DEF FlagsBefore
  <2>3. TwoDashes(text, flag_start, d)'
    BY <1>1, <1>4
  <2>. QED
    BY <1>1, <1>9, <1>10, <2>2, <2>3 DEF InFlag
<1>12. ValueInv'
  BY <1>1, <1>7, <1>8, <1>11 DEF ValueInv
<1>. QED
  BY <1>1, <1>12, OnlyPhase

(* A flag that ends is one more of the flags before its end.                *)
LEMMA FlagRead ==
  ASSUME FlagsState, NEW d, InFlag(d), d < start,
         Opt!WordOver(Opt!WordEnd),
         NEW flag, FlagIs(text, flag, flag_start, s),
         options' = Append(options, flag), pc' = "gap", has_space' = FALSE,
         UNCHANGED <<text, s, call>>
  PROVE  FlagsInv'
<1>1. /\ Len(text) \in Nat /\ s \in 0..Len(text) /\ s \in Nat
      /\ Walk(text, s) /\ start \in Nat /\ start <= s
      /\ flag_start \in Nat /\ d \in Nat /\ flag_start < d /\ Belongs(text, flag_start)
      /\ \A b \in flag_start..s - 1 : ~BlankAt(text, b)
  <2>1. start <= s
    <3>1. start \in Nat /\ word_start \in Nat /\ s \in Nat /\ start <= word_start /\ word_start <= s
      BY DEF FlagsState, InFlag, Collecting
    <3>. QED
      BY <3>1
  <2>. QED
    BY <2>1 DEF FlagsState, InFlag, Collecting, TwoDashes
<1>2. WordSpan(text, flag_start, s)
  BY <1>1 DEF WordSpan
<1>3. PICK q : FlagsBefore(text, options, q, flag_start) /\ Parted(text, q, flag_start)
  BY DEF InFlag
<1>4. /\ q \in Seq(Span) /\ Len(q) = Len(options) /\ Len(q) \in Nat /\ Divided(text, q, flag_start)
      /\ \A k \in 1..Len(q) : FlagIs(text, options[k], q[k].start, q[k].end)
  BY <1>3 DEF FlagsBefore
<1>5. PICK last \in Span : last.start = flag_start /\ last.end = s
  <2>1. [start |-> flag_start, end |-> s] \in Span
    BY <1>1 DEF Span
  <2>. QED
    BY <2>1
<1>6. PICK r : r = Append(q, last)
  OBVIOUS
<1>7. /\ r \in Seq(Span) /\ Len(r) = Len(q) + 1
      /\ \A k \in 1..Len(q) : r[k] = q[k]
      /\ r[Len(q) + 1] = last
  BY <1>4, <1>5, <1>6, AppendProperties
<1>8. /\ \E T : options' \in Seq(T)
      /\ Len(options') = Len(options) + 1
      /\ \A k \in 1..Len(options) : options'[k] = options[k]
      /\ options'[Len(options) + 1] = flag
  <2>1. PICK S : options \in Seq(S)
    BY DEF FlagsState, FlagsInv
  <2>2. PICK more : more = Append(options, flag)
    OBVIOUS
  <2>3. /\ more \in Seq(S \cup {flag})
        /\ Len(more) = Len(options) + 1
        /\ \A k \in 1..Len(options) : more[k] = options[k]
        /\ more[Len(options) + 1] = flag
    BY <2>1, <2>2, OneMore
  <2>4. options' = more
    BY <2>2
  <2>. QED
    BY <2>3, <2>4
<1>9. Divided(text, r, s)
  <2>1. \A k \in 1..Len(q) : Apart(text, q[k].end, flag_start)
    BY <1>3 DEF Parted
  <2>. QED
    BY <1>1, <1>2, <1>4, <1>5, <1>7, <2>1, DividedMore
<1>10. \A k \in 1..Len(r) : FlagIs(text, options'[k], r[k].start, r[k].end)
  <2>1. \A k \in 1..Len(r) : k \in 1..Len(q) \/ k = Len(q) + 1
    BY <1>4, <1>7
  <2>. QED
    BY <1>4, <1>5, <1>7, <1>8, <2>1
<1>11. FlagsBefore(text, options', r, s)
  BY <1>4, <1>7, <1>8, <1>9, <1>10 DEF FlagsBefore
<1>12. WordOver(WordEnd)'
  BY DEF Opt!WordOver, WordOver, Opt!WordEnd, WordEnd, Opt!At, At, Opt!Whitespace, Whitespace,
         Opt!PossibleLine, PossibleLine
<1>13. FlagGapInv'
  BY <1>1, <1>11, <1>12 DEF FlagGapInv
<1>. QED
  BY <1>8, <1>13, OnlyPhase

(* What is kept of a name or a value.                                       *)
LEMMA FlagString ==
  ASSUME FlagsState, NEW d, InFlag(d)
  PROVE  /\ Collects(text, Opt!Unescaped.value, start, s)
         /\ Opt!Unescaped # NoValue
         /\ start \in Nat /\ start <= s
<1>1. /\ text \in Inputs /\ Len(text) \in Nat /\ MaxLen \in Nat /\ Len(text) <= MaxLen
      /\ s \in 0..Len(text)
      /\ Collecting(text, start, word_start, buf, s)
  BY DEF FlagsState, InFlag
<1>2. Collects(text, Opt!Value, start, s)
  <2>1. Opt!Value = Gathered(start, word_start, buf, s)
    BY DEF Opt!Value, Gathered, Opt!Piece, Piece
  <2>. QED
    BY <1>1, <2>1, CollectingIs
<1>3. start \in 0..Len(text) /\ start <= s
  <2>1. start \in Nat /\ word_start \in Nat /\ start <= word_start /\ word_start <= s
    BY <1>1 DEF Collecting
  <2>. QED
    BY <1>1, <2>1
<1>4. Opt!Unescaped \in Word
  <2>1. Opt!Value \in Seq(0..MaxLen)
    BY <1>1, <1>2, <1>3, CollectsPositions
  <2>2. start \in 0..MaxLen /\ s \in 0..MaxLen
    BY <1>1, <1>3
  <2>. QED
    BY <2>1, <2>2 DEF Opt!Unescaped, Word
<1>. QED
  BY <1>2, <1>3, <1>4, NoValueAssumption DEF Opt!Unescaped

LEMMA PushNameFlags ==
  ASSUME FlagsState, Opt!PushName, call' = call
  PROVE  FlagsInv'
<1>. DEFINE flag == [start |-> flag_start, name |-> Opt!Unescaped, value |-> NoValue]
<1>1. /\ pc = "name" /\ Opt!WordOver(Opt!WordEnd)
      /\ options' = Append(options, flag) /\ has_space' = FALSE /\ pc' = "gap"
      /\ UNCHANGED <<text, s>>
  BY DEF Opt!PushName, Opt!Push
<1>2. PICK d : InFlag(d) /\ start = d + 1 /\ NoEquals(text, start, s)
  BY <1>1 DEF FlagsState, FlagsInv, NameInv
<1>3. Collects(text, Opt!Unescaped.value, start, s) /\ start \in Nat /\ start <= s
  BY <1>2, FlagString
<1>4. TwoDashes(text, flag_start, d) /\ d \in flag_start..s - 1 /\ d < start
  <2>1. TwoDashes(text, flag_start, d) /\ s \in Nat
    BY <1>2 DEF InFlag, FlagsState
  <2>2. d \in Nat /\ flag_start \in Nat /\ flag_start < d
    BY <2>1 DEF TwoDashes
  <2>. QED
    BY <1>2, <1>3, <2>1, <2>2
<1>5. FlagIs(text, flag, flag_start, s)
  <2>1. flag.start = flag_start /\ flag.name = Opt!Unescaped /\ flag.value = NoValue
    OBVIOUS
  <2>. HIDE DEF flag
  <2>. QED
    BY <1>2, <1>3, <1>4, <2>1 DEF FlagIs
<1>. HIDE DEF flag
<1>. QED
  BY <1>1, <1>2, <1>4, <1>5, FlagRead

LEMMA PushValueFlags ==
  ASSUME FlagsState, Opt!PushValue, call' = call
  PROVE  FlagsInv'
<1>. DEFINE flag == [start |-> flag_start, name |-> name, value |-> Opt!Unescaped]
<1>1. /\ pc = "value" /\ Opt!WordOver(Opt!WordEnd)
      /\ options' = Append(options, flag) /\ has_space' = FALSE /\ pc' = "gap"
      /\ UNCHANGED <<text, s>>
  BY DEF Opt!PushValue, Opt!Push
<1>2. PICK d, e : /\ InFlag(d) /\ start = e + 1
                  /\ FirstEquals(text, d, e)
                  /\ Collects(text, name.value, d + 1, e)
  BY <1>1 DEF FlagsState, FlagsInv, ValueInv
<1>3. /\ Collects(text, Opt!Unescaped.value, start, s) /\ start \in Nat /\ start <= s
      /\ Opt!Unescaped # NoValue
  BY <1>2, FlagString
<1>4. /\ TwoDashes(text, flag_start, d) /\ d \in flag_start..s - 1 /\ e \in d..s - 1
      /\ d < start
  <2>1. TwoDashes(text, flag_start, d) /\ s \in Nat
    BY <1>2 DEF InFlag, FlagsState
  <2>2. d \in Nat /\ flag_start \in Nat /\ flag_start < d /\ e \in Nat /\ d < e
    BY <1>2, <2>1 DEF TwoDashes, FirstEquals
  <2>. QED
    BY <1>2, <1>3, <2>1, <2>2
<1>5. FlagIs(text, flag, flag_start, s)
  <2>1. flag.start = flag_start /\ flag.name = name /\ flag.value = Opt!Unescaped
    OBVIOUS
  <2>. HIDE DEF flag
  <2>. QED
    BY <1>2, <1>3, <1>4, <2>1 DEF FlagIs
<1>. HIDE DEF flag
<1>. QED
  BY <1>1, <1>2, <1>4, <1>5, FlagRead

(* Whitespace and continuations behind a flag.                              *)
LEMMA SkipFlags ==
  ASSUME FlagsState, Opt!Skip, call' = call
  PROVE  FlagsInv'
<1>1. /\ pc = "gap" /\ UNCHANGED <<text, pc, options>>
      /\ Opt!GapBlank \/ Opt!GapContinued
      /\ Len(text) \in Nat /\ s \in 0..Len(text) /\ s \in Nat
      /\ \E S : options \in Seq(S)
  BY DEF Opt!Skip, Opt!GapBlank, Opt!GapContinued, FlagsState, FlagsInv
<1>2. Walk(text, s)
  BY <1>1 DEF FlagsState, FlagsInv, FlagGapInv
<1>3. PICK q : /\ FlagsBefore(text, options, q, s)
               /\ IF has_space THEN Parted(text, q, s) ELSE WordOver(WordEnd)
  BY <1>1 DEF FlagsState, FlagsInv, FlagGapInv
<1>4. \A k \in 1..Len(q) : q[k].end \in 0..s
  <2>1. \A k \in 1..Len(q) : q[k].end \in Nat /\ q[k].end <= s
    BY <1>3 DEF FlagsBefore, Divided, WordSpan
  <2>. QED
    BY <1>1, <2>1
<1>5. /\ s' \in Nat /\ s <= s' /\ Walk(text, s')
      /\ \A b \in s..s' - 1 : ~SolidAt(text, b)
      /\ IF has_space' THEN Parted(text, q, s') ELSE FALSE
  <2>1. CASE Opt!GapBlank
    <3>1. At(text, s, Whitespace) /\ s' = s + 1 /\ has_space' = TRUE
      BY <2>1 DEF Opt!GapBlank, Opt!At, At, Opt!Whitespace, Whitespace
    <3>2. /\ Walk(text, s + 1) /\ \A b \in s..(s + 1) - 1 : ~SolidAt(text, b)
          /\ \A i \in 0..s : Apart(text, i, s + 1)
      BY <1>1, <1>2, <3>1, GapByte
    <3>. QED
      BY <1>1, <1>4, <3>1, <3>2 DEF Parted
  <2>2. CASE Opt!GapContinued
    <3>1. Continues(text, s) /\ s' = Continuation(text, s) /\ UNCHANGED has_space
      BY <2>2, OptScans DEF Opt!GapContinued
    <3>2. /\ Walk(text, s') /\ s <= s' /\ s' \in 0..Len(text)
          /\ \A b \in s..s' - 1 : ~SolidAt(text, b)
      BY <1>1, <1>2, <3>1, GapContinuation, ContinuationAdvances
    <3>3. has_space
      <4>1. At(text, s, {"esc"})
        BY <1>1, <3>1, ContinuationAdvances
      <4>2. ~WordOver(WordEnd)
        BY <1>1, <4>1 DEF WordOver, WordEnd, At, Whitespace, PossibleLine
      <4>. QED
        BY <1>3, <4>2
    <3>4. Parted(text, q, s')
      <4>1. s' \in Nat /\ \A k \in 1..Len(q) : q[k].end \in Nat
        BY <1>4, <3>2
      <4>. QED
        BY <1>1, <1>3, <3>2, <3>3, <4>1, ApartGrows DEF Parted
    <3>. QED
      BY <3>1, <3>2, <3>3, <3>4
  <2>. QED
    BY <1>1, <2>1, <2>2
<1>6. FlagsBefore(text, options, q, s')
  <2>1. Divided(text, q, s')
    BY <1>1, <1>3, <1>5, DividedSkip DEF FlagsBefore
  <2>. QED
    BY <1>3, <2>1 DEF FlagsBefore
<1>7. FlagGapInv'
  BY <1>1, <1>5, <1>6 DEF FlagGapInv
<1>. QED
  BY <1>1, <1>7, OnlyPhase

LEMMA GapEndsFlags ==
  ASSUME FlagsState, Opt!GapEnds, call' = call
  PROVE  FlagsInv'
<1>1. /\ pc = "gap" /\ pc' = "dash" /\ UNCHANGED <<text, s, options>>
      /\ ~At(text, s, Whitespace) /\ ~Continues(text, s)
      /\ s \in 0..Len(text)
      /\ \E S : options \in Seq(S)
  BY OptScans DEF Opt!GapEnds, Opt!GapOver, Opt!scanning, Opt!At, At, Opt!Whitespace, Whitespace,
                  FlagsState, FlagsInv
<1>2. Walk(text, s)
  BY <1>1 DEF FlagsState, FlagsInv, FlagGapInv
<1>3. PICK q : /\ FlagsBefore(text, options, q, s)
               /\ IF has_space THEN Parted(text, q, s) ELSE WordOver(WordEnd)
  BY <1>1 DEF FlagsState, FlagsInv, FlagGapInv
<1>4. Parted(text, q, s) \/ LineOverAt(s)
  BY <1>1, <1>3 DEF LineOverAt, WordOver, WordEnd, At, Whitespace, PossibleLine
<1>5. FlagsBefore(text, options, q, s)' /\ (Parted(text, q, s) \/ LineOverAt(s))'
  BY <1>1, <1>3, <1>4 DEF FlagsBefore, LineOverAt
<1>6. DashInv'
  BY <1>1, <1>2, <1>5 DEF DashInv
<1>. QED
  BY <1>1, <1>6, OnlyPhase

LEMMA FlagsNext == PosInv /\ FlagsInv /\ [Next]_vars => FlagsInv'
<1>. SUFFICES ASSUME PosInv, FlagsInv, [Next]_vars, call' = "options" PROVE FlagsInv'
  BY DEF FlagsInv
<1>1. text \in Inputs /\ s \in 0..Len(text)
  BY DEF PosInv
<1>2. Len(text) \in Nat /\ MaxLen \in Nat /\ Len(text) <= MaxLen
  BY <1>1, InputsAreSequences
<1>3. CASE InOptions
  <2>1. call = "options" /\ call' = call /\ Opt!Next
    BY <1>3 DEF InOptions
  <2>2. FlagsState
    BY <1>1, <1>2, <2>1 DEF FlagsState
  <2>. QED
    BY <2>1, <2>2, DashFlags, SecondDashFlags, DashContinuedFlags, DashAloneFlags, CollectFlags,
       NameEndsFlags, PushNameFlags, PushValueFlags, SkipFlags, GapEndsFlags DEF Opt!Next
<1>4. CASE UNCHANGED vars
  <2>1. UNCHANGED <<text, s, has_space, start, word_start, buf, pc, call, s_next, flag_start, name,
                    options>>
    BY <1>4 DEF vars, scanning, optVars
  <2>2. UNCHANGED <<DashInv, SecondInv>>
    BY <2>1 DEF DashInv, SecondInv, FlagsBefore, LineOverAt
  <2>3. \A d : InFlag(d) => InFlag(d)'
    BY <2>1 DEF InFlag, FlagsBefore, TwoDashes
  <2>4. NameInv' /\ ValueInv'
    BY <2>1, <2>3 DEF FlagsInv, NameInv, ValueInv
  <2>5. FlagGapInv'
    BY <2>1 DEF FlagsInv, FlagGapInv, FlagsBefore, WordOver
  <2>6. FlagsOverInv'
    <3>1. ASSUME NEW w
          PROVE  /\ Opt!NameIn(w)' = Opt!NameIn(w)
                 /\ Opt!Equals(w)' = Opt!Equals(w)
                 /\ Opt!ValueIn(w)' = Opt!ValueIn(w)
      BY <2>1 DEF Opt!NameIn, Opt!ValueIn, Opt!Dashes, Opt!Equals
    <3>2. Opt!FlagsOfTheLine => Opt!FlagsOfTheLine'
      BY <2>1, <3>1 DEF Opt!FlagsOfTheLine
    <3>3. Opt!RestIsLeft => Opt!RestIsLeft'
      BY <2>1 DEF Opt!RestIsLeft
    <3>. QED
      BY <2>1, <3>2, <3>3 DEF FlagsInv, FlagsOverInv
  <2>. QED
    BY <2>1, <2>2, <2>4, <2>5, <2>6 DEF FlagsInv
<1>5. CASE \/ InWords \/ InDelim \/ InLine \/ InDoc
  BY <1>5 DEF InWords, InDelim, InLine, InDoc
<1>6. CASE \/ OptionsOverCopy \/ WordsOver \/ SourceIsPath \/ SourceIsDelim \/ DelimIsNone
           \/ DelimOverCopy \/ SourcesOver
  BY <1>6 DEF OptionsOverCopy, WordsOver, SourceIsPath, SourceIsDelim, DelimIsNone, DelimOverCopy,
              DocStarts, SourcesOver, Fail
<1>7. CASE OptionsOverRun \/ DelimOverRun \/ LineOverDoc \/ LineOver
  BY <1>7 DEF OptionsOverRun, DelimOverRun, LineOverDoc, LineOver, DocStarts
<1>8. CASE DocOver \/ DocFails \/ DelimFails
  BY <1>8 DEF DocOver, DocFails, DelimFails, Fail
<1>. QED
  BY <1>3, <1>4, <1>5, <1>6, <1>7, <1>8 DEF Next

LEMMA FlagsInvariance == Spec => []FlagsInv
<1>1. Init => PosInv /\ FlagsInv
  BY InitPos, FlagsStart
<1>2. PosInv /\ FlagsInv /\ [Next]_vars => PosInv' /\ FlagsInv'
  BY NextPos, FlagsNext
<1>. QED
  BY <1>1, <1>2, PTL DEF Spec

(* parse_options takes the leading words of the line that start with two    *)
(* dashes, split at their first "=", whatever continuations run through     *)
(* them: of every text.                                                     *)
THEOREM FlagsCorrect == Spec => []FlagsOfTheLine
<1>1. FlagsInv => FlagsOfTheLine
  <2>1. SUFFICES ASSUME FlagsInv, call = "options", pc = "done" PROVE Opt!FlagsOfTheLine
    BY DEF FlagsOfTheLine, Opt!FlagsOfTheLine
  <2>. QED
    BY <2>1 DEF FlagsInv, FlagsOverInv
<1>. QED
  BY <1>1, FlagsInvariance, PTL

(* parse_options leaves the first word that is no flag, or the newline, and *)
(* nothing of the line is lost: of every text.                              *)
THEOREM RestCorrect == Spec => []RestIsLeft
<1>1. FlagsInv => RestIsLeft
  <2>1. SUFFICES ASSUME FlagsInv, call = "options", pc = "done" PROVE Opt!RestIsLeft
    BY DEF RestIsLeft, Opt!RestIsLeft
  <2>. QED
    BY <2>1 DEF FlagsInv, FlagsOverInv
<1>. QED
  BY <1>1, FlagsInvariance, PTL

-----------------------------------------------------------------------------
(* Quoting, of the bytes t of a delimiter from f on, with b as the byte     *)
(* that escapes: Esc and Open are Escaped and Quoted, and a byte that Keep  *)
(* holds for is one of the delimiter's.                                     *)
Esc(b, t, f, k) == Cardinality({j \in f..k-1 : \A m \in j..k-1 : t[m + 1] = b}) % 2 = 1
Turns(b, t, f, q, k) ==
  t[k + 1] \in (IF q = NoQuote THEN {"dq", "sq"} ELSE {q}) /\ ~Esc(b, t, f, k)
QuoteAfter(b, t, f, q, k) ==
  IF ~Turns(b, t, f, q, k) THEN q ELSE IF q = NoQuote THEN t[k + 1] ELSE NoQuote
Open(b, t, f) ==
  LET open[k \in f..Len(t)] == IF k = f THEN NoQuote ELSE QuoteAfter(b, t, f, open[k - 1], k - 1)
  IN open
Keep(b, t, f, k) == (t[k + 1] = b => Esc(b, t, f, k)) /\ ~Turns(b, t, f, Open(b, t, f)[k], k)
Stops(b, t, f, k) ==
  /\ t[k + 1] \in {"sp", "tab", "ff", "cr", "lf"}
  /\ Open(b, t, f)[k] = NoQuote /\ ~Esc(b, t, f, k)

(* Every other backslash of a run escapes.                                  *)
LEMMA EscStart ==
  ASSUME NEW b, NEW t, NEW f \in Nat
  PROVE  ~Esc(b, t, f, f)
<1>. DEFINE S == {j \in f..f-1 : \A m \in j..f-1 : t[m + 1] = b}
<1>1. S = {}
  OBVIOUS
<1>2. Cardinality(S) = 0
  BY <1>1, FS_EmptySet
<1>3. 0 % 2 # 1
  OBVIOUS
<1>4. Cardinality(S) % 2 # 1
  BY <1>2, <1>3
<1>. QED
  BY <1>4 DEF Esc

LEMMA EscNext ==
  ASSUME NEW b, NEW t, NEW f \in Nat, NEW k \in Nat, f <= k
  PROVE  Esc(b, t, f, k + 1) <=> t[k + 1] = b /\ ~Esc(b, t, f, k)
<1>. DEFINE S(n) == {j \in f..n-1 : \A m \in j..n-1 : t[m + 1] = b}
<1>1. IsFiniteSet(S(k)) /\ Cardinality(S(k)) \in Nat
  <2>1. S(k) \subseteq f..k-1 /\ IsFiniteSet(f..k-1)
    BY FS_Interval
  <2>. QED
    BY <2>1, FS_Subset, FS_CardinalityType
<1>2. CASE t[k + 1] # b
  <2>1. S(k + 1) = {}
    <3>1. \A j \in f..(k + 1)-1 : k \in j..(k + 1)-1
      OBVIOUS
    <3>. QED
      BY <1>2, <3>1
  <2>2. Cardinality(S(k + 1)) = 0
    BY <2>1, FS_EmptySet
  <2>. QED
    BY <1>2, <2>2 DEF Esc
<1>3. CASE t[k + 1] = b
  <2>1. S(k + 1) = S(k) \cup {k}
    <3>1. \A j \in f..(k + 1)-1 : j = k \/ j \in f..k-1
      OBVIOUS
    <3>2. \A j \in f..k-1 : j..(k + 1)-1 = (j..k-1) \cup {k}
      OBVIOUS
    <3>3. k \in f..(k + 1)-1 /\ k..(k + 1)-1 = {k} /\ f..k-1 \subseteq f..(k + 1)-1
      OBVIOUS
    <3>4. \A j \in S(k + 1) : j \in S(k) \cup {k}
      BY <3>1, <3>2
    <3>5. \A j \in S(k) \cup {k} : j \in S(k + 1)
      BY <1>3, <3>2, <3>3
    <3>. QED
      BY <3>4, <3>5
  <2>2. k \notin S(k)
    OBVIOUS
  <2>3. Cardinality(S(k + 1)) = Cardinality(S(k)) + 1
    BY <1>1, <2>1, <2>2, FS_AddElement
  <2>4. \A c \in Nat : (c + 1) % 2 = 1 <=> ~(c % 2 = 1)
    OBVIOUS
  <2>. QED
    BY <1>1, <1>3, <2>3, <2>4 DEF Esc
<1>. QED
  BY <1>2, <1>3

(* There is the function that Open defines.                                 *)
IsOpen(b, t, f, n, g) ==
  g = [k \in f..n |-> IF k = f THEN NoQuote ELSE QuoteAfter(b, t, f, g[k - 1], k - 1)]

LEMMA OpenExists ==
  ASSUME NEW b, NEW t, NEW f \in Nat, NEW n \in Nat, f <= n
  PROVE  \E g : IsOpen(b, t, f, n, g)
<1>. DEFINE V(g, k) == IF k = f THEN NoQuote ELSE QuoteAfter(b, t, f, g[k - 1], k - 1)
            Is(g, m) == IsOpen(b, t, f, m, g)
            Bad == {m \in Nat : f <= m /\ ~\E g : Is(g, m)}
<1>1. SUFFICES ASSUME Bad # {} PROVE FALSE
  OBVIOUS
<1>2. Min(Bad) \in Bad /\ \A x \in Bad : Min(Bad) <= x
  BY <1>1, MinIs
<1>3. PICK m \in Bad : \A x \in Bad : m <= x
  BY <1>2
<1>4. m # f
  <2>1. Is([k \in f..f |-> NoQuote], f)
    BY DEF IsOpen
  <2>. QED
    BY <1>3, <2>1
<1>5. m - 1 \in Nat /\ f <= m - 1 /\ m - 1 \notin Bad
  BY <1>3, <1>4
<1>6. PICK g : Is(g, m - 1)
  BY <1>5
<1>. DEFINE h == [k \in f..m |-> IF k = m THEN V(g, m) ELSE g[k]]
<1>7. \A k \in f..m : V(h, k) = V(g, k)
  <2>1. \A k \in f..m : k # f => k - 1 \in f..m /\ k - 1 # m
    BY <1>3
  <2>2. \A k \in f..m : k # f => h[k - 1] = g[k - 1]
    BY <2>1
  <2>. HIDE DEF h
  <2>. QED
    BY <2>2
<1>8. \A k \in f..m : h[k] = V(h, k)
  <2>1. \A k \in f..m : k # m => k \in f..m - 1
    BY <1>3
  <2>2. \A k \in f..m : k # m => g[k] = V(g, k)
    BY <1>6, <2>1 DEF IsOpen
  <2>3. \A k \in f..m : h[k] = IF k = m THEN V(g, m) ELSE g[k]
    OBVIOUS
  <2>. HIDE DEF h, V
  <2>. QED
    BY <1>7, <2>2, <2>3
<1>9. h = [k \in f..m |-> V(h, k)]
  <2>1. h = [k \in f..m |-> h[k]]
    OBVIOUS
  <2>. HIDE DEF h, V
  <2>. QED
    BY <1>8, <2>1
<1>10. Is(h, m)
  BY <1>9 DEF IsOpen
<1>. QED
  BY <1>3, <1>10

LEMMA OpenIs ==
  ASSUME NEW b, NEW t, NEW f \in Nat, Len(t) \in Nat, f <= Len(t)
  PROVE  /\ Open(b, t, f)[f] = NoQuote
         /\ \A k \in f..Len(t) - 1 :
              Open(b, t, f)[k + 1] = QuoteAfter(b, t, f, Open(b, t, f)[k], k)
<1>. DEFINE V(g, k) == IF k = f THEN NoQuote ELSE QuoteAfter(b, t, f, g[k - 1], k - 1)
            Is(g) == IsOpen(b, t, f, Len(t), g)
            o == Open(b, t, f)
<1>1. \E g : Is(g)
  BY OpenExists
<1>2. o = CHOOSE g : Is(g)
  BY DEF Open, IsOpen
<1>3. Is(o)
  <2>. HIDE DEF Is, o
  <2>. QED
    BY <1>1, <1>2
<1>4. \A k \in f..Len(t) : o[k] = V(o, k)
  <2>1. \A k \in f..Len(t) : [x \in f..Len(t) |-> V(o, x)][k] = V(o, k)
    OBVIOUS
  <2>2. o = [x \in f..Len(t) |-> V(o, x)]
    BY <1>3 DEF IsOpen
  <2>. HIDE DEF V, o
  <2>. QED
    BY <2>1, <2>2
<1>5. f \in f..Len(t) /\ \A k \in f..Len(t) - 1 : k + 1 \in f..Len(t) /\ k + 1 # f /\ (k + 1) - 1 = k
  OBVIOUS
<1>6. o[f] = V(o, f)
  BY <1>4, <1>5
<1>7. ASSUME NEW k \in f..Len(t) - 1 PROVE o[k + 1] = QuoteAfter(b, t, f, o[k], k)
  <2>1. o[k + 1] = V(o, k + 1)
    BY <1>4, <1>5
  <2>. HIDE DEF o
  <2>. QED
    BY <1>5, <2>1
<1>. QED
  BY <1>6, <1>7

(* They are those of the delimiter's module.                                *)
LEMMA DlmReference ==
  ASSUME NEW t, NEW f
  PROVE  /\ \A k : Dlm!Escaped(t, f, k) <=> Esc(backslash, t, f, k)
         /\ \A q, k : Dlm!Toggles(t, f, q, k) <=> Turns(backslash, t, f, q, k)
         /\ Dlm!Quoted(t, f) = Open(backslash, t, f)
<1>1. \A k : Dlm!Escaped(t, f, k) <=> Esc(backslash, t, f, k)
  BY DEF Dlm!Escaped, Esc, Dlm!Cardinality, Cardinality
<1>2. \A q, k : Dlm!Toggles(t, f, q, k) <=> Turns(backslash, t, f, q, k)
  BY <1>1 DEF Dlm!Toggles, Turns, Dlm!Quotes
<1>3. Dlm!Quoted(t, f) = Open(backslash, t, f)
  <2>1. \A q, k : Dlm!Toggles(t, f, q, k - 1) <=> Turns(backslash, t, f, q, k - 1)
    BY <1>2
  <2>. QED
    BY <2>1 DEF Dlm!Quoted, Open, QuoteAfter
<1>. QED
  BY <1>1, <1>2, <1>3

(* Positions past those of a string go on with it.                          *)
LEMMA SpellsPiece ==
  ASSUME NEW string \in Seq(Nat), NEW A, Spells(string, A),
         NEW c \in Nat, NEW n \in Nat, c <= n, \A a \in A : a < c
  PROVE  Spells(string \o Piece(c, n), A \cup (c..n - 1))
<1>. DEFINE p == Piece(c, n)
            l == Len(string)
            q == string \o p
<1>1. /\ p \in Seq(Nat) /\ Len(p) = n - c /\ \A k \in 1..n - c : p[k] = c + k - 1
  BY PieceIs DEF Piece
<1>2. /\ l \in Nat /\ DOMAIN string = 1..l /\ Len(q) = l + (n - c) /\ DOMAIN q = 1..l + (n - c)
      /\ \A k \in 1..l : q[k] = string[k]
      /\ \A k \in l + 1..l + (n - c) : q[k] = c + (k - l) - 1
  <2>1. /\ l \in Nat /\ DOMAIN string = 1..l /\ Len(q) = l + Len(p) /\ DOMAIN q = 1..l + Len(p)
        /\ \A k \in 1..l : q[k] = string[k]
        /\ \A k \in l + 1..l + Len(p) : q[k] = p[k - l]
    <3>1. p \in Seq(Nat)
      BY <1>1
    <3>. HIDE DEF p
    <3>. QED
      BY <3>1
  <2>2. \A k \in l + 1..l + (n - c) : k - l \in 1..n - c
    BY <2>1
  <2>. HIDE DEF p, q, l
  <2>. QED
    BY <1>1, <2>1, <2>2
<1>3. /\ \A j, k \in 1..l : j < k => string[j] < string[k]
      /\ {string[k] : k \in 1..l} = A
  BY <1>2 DEF Spells
<1>. HIDE DEF p, q, l
<1>4. \A k \in 1..l : string[k] \in A /\ string[k] < c /\ string[k] \in Nat
  BY <1>2, <1>3
<1>5. \A j, k \in DOMAIN q : j < k => q[j] < q[k]
  <2>1. SUFFICES ASSUME NEW j \in 1..l + (n - c), NEW k \in 1..l + (n - c), j < k PROVE q[j] < q[k]
    BY <1>2
  <2>2. CASE k <= l
    BY <1>2, <1>3, <2>1, <2>2
  <2>3. CASE k > l /\ j <= l
    BY <1>2, <1>4, <2>1, <2>3
  <2>4. CASE j > l
    BY <1>2, <2>1, <2>4
  <2>. QED
    BY <1>2, <2>2, <2>3, <2>4
<1>6. {q[k] : k \in DOMAIN q} = A \cup (c..n - 1)
  <2>1. \A k \in DOMAIN q : q[k] \in A \cup (c..n - 1)
    BY <1>2, <1>4
  <2>2. ASSUME NEW a \in A PROVE \E k \in DOMAIN q : q[k] = a
    <3>1. PICK k \in 1..l : string[k] = a
      BY <1>3
    <3>2. k \in DOMAIN q /\ q[k] = a
      BY <1>2, <3>1
    <3>. QED
      BY <3>2
  <2>3. ASSUME NEW a \in c..n - 1 PROVE \E k \in DOMAIN q : q[k] = a
    <3>1. l + (a - c) + 1 \in DOMAIN q /\ q[l + (a - c) + 1] = a
      BY <1>2
    <3>. QED
      BY <3>1
  <2>. QED
    BY <2>1, <2>2, <2>3
<1>. QED
  BY <1>5, <1>6 DEF Spells, q, p

Kept(b, t, f, n) == {k \in f..n - 1 : Keep(b, t, f, k)}

LEMMA KeptMore ==
  ASSUME NEW b, NEW t, NEW f \in Nat, NEW c \in Nat, NEW n \in Nat, f <= c, c <= n,
         NEW string \in Seq(Nat), Spells(string, Kept(b, t, f, c)),
         \A k \in c..n - 1 : Keep(b, t, f, k)
  PROVE  Spells(string \o Piece(c, n), Kept(b, t, f, n))
<1>. DEFINE A == Kept(b, t, f, c)
<1>1. \A a \in A : a < c
  BY DEF Kept
<1>2. A \cup (c..n - 1) = Kept(b, t, f, n)
  BY DEF Kept
<1>3. Spells(string \o Piece(c, n), A \cup (c..n - 1))
  <2>1. Spells(string, A)
    OBVIOUS
  <2>. HIDE DEF A
  <2>. QED
    BY <1>1, <2>1, SpellsPiece
<1>. QED
  BY <1>2, <1>3

(* What the byte at n is, when no backslash escapes it and q is open.       *)
LEMMA DelimByteIs ==
  ASSUME NEW b \in {"bs", "esc"}, NEW t, Len(t) \in Nat, NEW f \in Nat, NEW n \in Nat,
         f <= n, n < Len(t), ~Esc(b, t, f, n),
         NEW q \in {NoQuote, "dq", "sq"}, q = Open(b, t, f)[n]
  PROVE  /\ t[n + 1] = b =>
              /\ ~Keep(b, t, f, n) /\ ~Stops(b, t, f, n) /\ ~Turns(b, t, f, q, n)
              /\ Esc(b, t, f, n + 1) /\ Open(b, t, f)[n + 1] = q
         /\ t[n + 1] # b /\ t[n + 1] \in (IF q = NoQuote THEN {"dq", "sq"} ELSE {q}) =>
              /\ Turns(b, t, f, q, n) /\ ~Keep(b, t, f, n) /\ ~Stops(b, t, f, n)
              /\ ~Esc(b, t, f, n + 1)
              /\ Open(b, t, f)[n + 1] = IF q = NoQuote THEN t[n + 1] ELSE NoQuote
         /\ t[n + 1] # b /\ t[n + 1] \notin (IF q = NoQuote THEN {"dq", "sq"} ELSE {q}) =>
              /\ ~Turns(b, t, f, q, n) /\ Keep(b, t, f, n)
              /\ ~Esc(b, t, f, n + 1)
              /\ Open(b, t, f)[n + 1] = q
<1>1. Esc(b, t, f, n + 1) <=> t[n + 1] = b
  BY EscNext
<1>2. Open(b, t, f)[n + 1] = QuoteAfter(b, t, f, q, n)
  BY OpenIs
<1>. QED
  BY <1>1, <1>2 DEF Keep, Stops, Turns, QuoteAfter

(* And the one after it, when it is a backslash.                            *)
LEMMA DelimEscapedIs ==
  ASSUME NEW b, NEW t, Len(t) \in Nat, NEW f \in Nat, NEW n \in Nat,
         f <= n, n < Len(t), Esc(b, t, f, n)
  PROVE  /\ Keep(b, t, f, n) /\ ~Stops(b, t, f, n) /\ \A q : ~Turns(b, t, f, q, n)
         /\ ~Esc(b, t, f, n + 1) /\ Open(b, t, f)[n + 1] = Open(b, t, f)[n]
<1>1. ~Esc(b, t, f, n + 1)
  BY EscNext
<1>2. Open(b, t, f)[n + 1] = QuoteAfter(b, t, f, Open(b, t, f)[n], n)
  BY OpenIs
<1>. QED
  BY <1>1, <1>2 DEF Keep, Stops, Turns, QuoteAfter

(* While the delimiter is read: the quote that is open, that nothing ended  *)
(* it, what is kept of it, and whether a quote was met.                     *)
ReadTo(b, t, f, c, n, string, q, plain) ==
  /\ f \in Nat /\ c \in Nat /\ n \in Nat /\ f <= c /\ c <= n /\ n <= Len(t)
  /\ q \in {NoQuote, "dq", "sq"} /\ q = Open(b, t, f)[n]
  /\ ~Esc(b, t, f, n)
  /\ \A k \in f..n - 1 : ~Stops(b, t, f, k)
  /\ Spells(string, Kept(b, t, f, c))
  /\ \A k \in c..n - 1 : Keep(b, t, f, k)
  /\ plain <=> \A k \in f..n - 1 : ~Turns(b, t, f, Open(b, t, f)[k], k)
  /\ q # NoQuote => ~plain

Reading == ReadTo(backslash, full, delim_start, current_start, s_next, buf, quote, expand)

DelimInv ==
  /\ backslash \in {"bs", "esc"}
  /\ call = "delim" => IF pc = "delim" THEN Reading ELSE Dlm!DelimOfTheWord

DelimState ==
  /\ Len(full) \in Nat /\ backslash \in {"bs", "esc"} /\ buf \in Seq(Nat)
  /\ pc = "delim" /\ Reading

LEMMA ReadStart ==
  ASSUME NEW b, NEW t, Len(t) \in Nat, NEW f \in 0..Len(t)
  PROVE  ReadTo(b, t, f, f, f, <<>>, NoQuote, TRUE)
<1>1. ~Esc(b, t, f, f) /\ Open(b, t, f)[f] = NoQuote
  BY EscStart, OpenIs
<1>2. f..f - 1 = {}
  OBVIOUS
<1>3. Kept(b, t, f, f) = {}
  BY <1>2 DEF Kept
<1>4. Spells(<<>>, {})
  BY DEF Spells
<1>. QED
  BY <1>1, <1>2, <1>3, <1>4 DEF ReadTo

(* A byte that is left out.                                                 *)
LEMMA DelimLeaves ==
  ASSUME NEW b, NEW t, Len(t) \in Nat, NEW f, NEW c, NEW n, NEW string \in Seq(Nat),
         NEW q, NEW plain, ReadTo(b, t, f, c, n, string, q, plain), n < Len(t),
         ~Keep(b, t, f, n), ~Stops(b, t, f, n)
  PROVE  /\ Spells(string \o Piece(c, n), Kept(b, t, f, n + 1))
         /\ \A k \in f..(n + 1) - 1 : ~Stops(b, t, f, k)
<1>1. /\ f \in Nat /\ c \in Nat /\ n \in Nat /\ f <= c /\ c <= n
      /\ Spells(string, Kept(b, t, f, c))
      /\ \A k \in c..n - 1 : Keep(b, t, f, k)
      /\ \A k \in f..n - 1 : ~Stops(b, t, f, k)
  BY DEF ReadTo
<1>2. Spells(string \o Piece(c, n), Kept(b, t, f, n))
  BY <1>1, KeptMore
<1>3. \A k \in f..(n + 1) - 1 : k = n \/ k \in f..n - 1
  BY <1>1
<1>4. f..n - 1 \subseteq f..(n + 1) - 1
  BY <1>1
<1>5. Kept(b, t, f, n + 1) = Kept(b, t, f, n)
  BY <1>3, <1>4 DEF Kept
<1>. QED
  BY <1>1, <1>2, <1>3, <1>5

(* Where the delimiter ends.                                                *)
LEMMA DelimEndIs ==
  ASSUME NEW t, Len(t) \in Nat, NEW f \in Nat, NEW n \in Nat, f <= n, n <= Len(t),
         \A k \in f..n - 1 : ~Stops(backslash, t, f, k),
         n = Len(t) \/ Stops(backslash, t, f, n)
  PROVE  Dlm!EndOfDelim(t, f) = n
<1>. DEFINE E == {Len(t)} \cup {k \in f..Len(t) - 1 : Stops(backslash, t, f, k)}
<1>1. Dlm!EndOfDelim(t, f) = Min(E)
  <2>1. \A k : t[k + 1] \in Dlm!DelimEnd <=> t[k + 1] \in {"sp", "tab", "ff", "cr", "lf"}
    BY DEF Dlm!DelimEnd, Dlm!Whitespace, Dlm!PossibleLine
  <2>2. \A S : Dlm!Min(S) = Min(S)
    BY DEF Dlm!Min, Min
  <2>. QED
    BY <2>1, <2>2, DlmReference DEF Dlm!EndOfDelim, Stops
<1>2. E \in SUBSET Nat /\ E # {}
  OBVIOUS
<1>3. n \in E
  BY DEF Stops
<1>4. \A x \in E : n <= x
  OBVIOUS
<1>5. Min(E) \in E /\ \A x \in E : Min(E) <= x
  BY <1>2, MinIs
<1>. HIDE DEF E
<1>6. Min(E) \in Nat /\ Min(E) <= n /\ n <= Min(E)
  BY <1>2, <1>3, <1>4, <1>5
<1>. QED
  BY <1>1, <1>6

(* What is left of it without quotes and backslashes.                       *)
LEMMA UnquotedIs ==
  ASSUME NEW t, NEW f, NEW n, Dlm!EndOfDelim(t, f) = n
  PROVE  Dlm!Unquoted(t, f) = Kept(backslash, t, f, n)
BY DlmReference DEF Dlm!Unquoted, Kept, Keep

LEMMA DelimIsOver ==
  ASSUME Len(full) \in Nat, UNCHANGED <<backslash, full, delim_start>>,
         NEW b, b = backslash, NEW t, t = full, NEW f, f = delim_start,
         NEW n, Dlm!EndOfDelim(t, f) = n,
         \/ pc' = "open_escape" /\ n = Len(t) /\ Esc(b, t, f, n)
         \/ pc' = "open_quote" /\ Open(b, t, f)[n] # NoQuote /\ n = Len(t) /\ ~Esc(b, t, f, n)
         \/ /\ pc' \in {"here_doc", "none"} /\ Open(b, t, f)[n] = NoQuote /\ ~Esc(b, t, f, n)
            /\ Spells(delim', Kept(b, t, f, n)) /\ s_next' = n
            /\ expand' <=> \A k \in f..n - 1 : ~Turns(b, t, f, Open(b, t, f)[k], k)
            /\ pc' = "none" <=> delim' = <<>>
  PROVE  Dlm!DelimOfTheWord'
<1>1. ASSUME NEW w, NEW i
      PROVE  /\ \A k : Dlm!Escaped(w, i, k)' <=> Dlm!Escaped(w, i, k)
             /\ \A q, k : Dlm!Toggles(w, i, q, k)' <=> Dlm!Toggles(w, i, q, k)
             /\ Dlm!Quoted(w, i)' = Dlm!Quoted(w, i)
             /\ Dlm!EndOfDelim(w, i)' = Dlm!EndOfDelim(w, i)
             /\ Dlm!Unquoted(w, i)' = Dlm!Unquoted(w, i)
  BY DEF Dlm!Escaped, Dlm!Toggles, Dlm!Quoted, Dlm!EndOfDelim, Dlm!Unquoted
<1>2. ASSUME NEW w, NEW i
      PROVE  /\ Dlm!OpenEscape(w, i)' <=> Dlm!OpenEscape(w, i)
             /\ Dlm!OpenQuoteLeft(w, i)' <=> Dlm!OpenQuoteLeft(w, i)
  BY <1>1 DEF Dlm!OpenEscape, Dlm!OpenQuoteLeft
<1>3. full' = t /\ delim_start' = f
  OBVIOUS
<1>4. /\ Dlm!OpenEscape(t, f) <=> n = Len(t) /\ Esc(b, t, f, n)
      /\ Dlm!OpenQuoteLeft(t, f) <=> Open(b, t, f)[n] # NoQuote
  <2>1. Dlm!Escaped(t, f, Len(t)) <=> Esc(b, t, f, Len(t))
    BY DlmReference
  <2>2. Dlm!Quoted(t, f) = Open(b, t, f)
    BY DlmReference
  <2>. QED
    BY <2>1, <2>2 DEF Dlm!OpenEscape, Dlm!OpenQuoteLeft
<1>5. Dlm!Unquoted(t, f) = Kept(b, t, f, n)
  BY UnquotedIs
<1>6. \A k : Dlm!Toggles(t, f, Dlm!Quoted(t, f)[k], k) <=> Turns(b, t, f, Open(b, t, f)[k], k)
  BY DlmReference
<1>7. \A k : Dlm!Toggles(t, f, Dlm!Quoted(t, f)[k], k)' <=> Turns(b, t, f, Open(b, t, f)[k], k)
  <2>1. \A k : Dlm!Toggles(t, f, Dlm!Quoted(t, f)[k], k)' <=>
               Dlm!Toggles(t, f, Dlm!Quoted(t, f)[k], k)
    BY <1>1 DEF Dlm!Toggles
  <2>2. \A q, k : Dlm!Toggles(t, f, q, k)' <=> Dlm!Toggles(t, f, q, k)
    BY <1>1
  <2>. QED
    BY <1>6, <2>1, <2>2
<1>8. /\ Dlm!OpenEscape(t, f)' <=> n = Len(t) /\ Esc(b, t, f, n)
      /\ Dlm!OpenQuoteLeft(t, f)' <=> Open(b, t, f)[n] # NoQuote
  BY <1>2, <1>4
<1>9. Dlm!EndOfDelim(t, f)' = n /\ Dlm!Unquoted(t, f)' = Kept(b, t, f, n)
  BY <1>1, <1>5
<1>10. pc' = "open_escape" <=> Dlm!OpenEscape(t, f)'
  BY <1>8
<1>11. pc' = "open_quote" <=> Dlm!OpenQuoteLeft(t, f)' /\ ~Dlm!OpenEscape(t, f)'
  BY <1>8
<1>12. pc' \in {"here_doc", "none"} =>
         /\ Spells(delim', Dlm!Unquoted(t, f)')
         /\ s_next' = Dlm!EndOfDelim(t, f)'
         /\ expand' <=> \A k \in f..s_next' - 1 : ~Dlm!Toggles(t, f, Dlm!Quoted(t, f)[k], k)'
         /\ pc' = "none" <=> delim' = <<>>
  BY <1>7, <1>9
<1>. QED
  BY <1>3, <1>10, <1>11, <1>12 DEF Dlm!DelimOfTheWord, Dlm!Spells, Spells

(* One step per byte of the delimiter.                                      *)
LEMMA DelimQuoted ==
  ASSUME DelimState, Dlm!OpenQuote \/ Dlm!CloseQuote, call' = call
  PROVE  DelimInv'
<1>. DEFINE b == backslash  t == full  f == delim_start  c == current_start  n == s_next  q == quote
            open == Open(b, t, f)
<1>1. /\ Len(t) \in Nat /\ b \in {"bs", "esc"} /\ buf \in Seq(Nat)
      /\ ReadTo(b, t, f, c, n, buf, q, expand)
  BY DEF DelimState, Reading
<1>2. /\ pc' = "delim" /\ n < Len(t) /\ t[n + 1] \in (IF q = NoQuote THEN {"dq", "sq"} ELSE {q})
      /\ quote' = (IF q = NoQuote THEN t[n + 1] ELSE NoQuote)
      /\ expand' = (IF q = NoQuote THEN FALSE ELSE expand)
      /\ buf' = buf \o Piece(c, n) /\ current_start' = n + 1 /\ s_next' = n + 1
      /\ UNCHANGED <<backslash, full, delim_start>>
  BY PiecesAre DEF Dlm!OpenQuote, Dlm!CloseQuote, Dlm!At, Dlm!LeaveOut, Dlm!Quotes, DelimState
<1>3. /\ f \in Nat /\ c \in Nat /\ n \in Nat /\ f <= c /\ c <= n
      /\ q \in {NoQuote, "dq", "sq"} /\ q = open[n] /\ ~Esc(b, t, f, n)
      /\ expand <=> \A k \in f..n - 1 : ~Turns(b, t, f, open[k], k)
  BY <1>1 DEF ReadTo
<1>4. t[n + 1] # b
  BY <1>1, <1>2, <1>3
<1>5. /\ Turns(b, t, f, q, n) /\ ~Keep(b, t, f, n) /\ ~Stops(b, t, f, n)
      /\ ~Esc(b, t, f, n + 1) /\ open[n + 1] = IF q = NoQuote THEN t[n + 1] ELSE NoQuote
  BY <1>1, <1>2, <1>3, <1>4, DelimByteIs
<1>6. /\ Spells(buf \o Piece(c, n), Kept(b, t, f, n + 1))
      /\ \A k \in f..(n + 1) - 1 : ~Stops(b, t, f, k)
  BY <1>1, <1>2, <1>5, DelimLeaves
<1>7. ~expand'
  BY <1>1, <1>2 DEF ReadTo
<1>8. expand' <=> \A k \in f..(n + 1) - 1 : ~Turns(b, t, f, open[k], k)
  <2>1. ~\A k \in f..(n + 1) - 1 : ~Turns(b, t, f, open[k], k)
    <3>1. n \in f..(n + 1) - 1
      BY <1>3
    <3>. QED
      BY <1>3, <1>5, <3>1
  <2>. QED
    BY <1>7, <2>1
<1>9. quote' \in {NoQuote, "dq", "sq"} /\ quote' = open[n + 1]
  BY <1>2, <1>3, <1>5
<1>10. \A k \in n + 1..(n + 1) - 1 : Keep(b, t, f, k)
  BY <1>3
<1>. HIDE DEF open
<1>11. ReadTo(b, t, f, n + 1, n + 1, buf', quote', expand')
  BY <1>2, <1>3, <1>5, <1>6, <1>7, <1>8, <1>9, <1>10 DEF ReadTo, open
<1>12. Reading'
  BY <1>2, <1>11 DEF Reading
<1>. QED
  BY <1>1, <1>2, <1>12 DEF DelimInv

LEMMA DelimBackslash ==
  ASSUME DelimState, Dlm!Backslash, call' = call
  PROVE  DelimInv'
<1>. DEFINE b == backslash  t == full  f == delim_start  c == current_start  n == s_next  q == quote
            open == Open(b, t, f)
<1>1. /\ Len(t) \in Nat /\ b \in {"bs", "esc"} /\ buf \in Seq(Nat)
      /\ ReadTo(b, t, f, c, n, buf, q, expand)
  BY DEF DelimState, Reading
<1>2. /\ n < Len(t) /\ t[n + 1] = b
      /\ buf' = buf \o Piece(c, n) /\ current_start' = n + 1
      /\ UNCHANGED <<backslash, full, delim_start, quote, expand>>
      /\ IF n + 1 = Len(t) THEN pc' = "open_escape" /\ s_next' = n
         ELSE s_next' = n + 2 /\ pc' = "delim"
  BY PiecesAre DEF Dlm!Backslash, Dlm!At, Dlm!LeaveOut, Dlm!delimVars, DelimState
<1>3. /\ f \in Nat /\ c \in Nat /\ n \in Nat /\ f <= c /\ c <= n
      /\ q \in {NoQuote, "dq", "sq"} /\ q = open[n] /\ ~Esc(b, t, f, n)
      /\ expand <=> \A k \in f..n - 1 : ~Turns(b, t, f, open[k], k)
      /\ q # NoQuote => ~expand
  BY <1>1 DEF ReadTo
<1>4. /\ ~Keep(b, t, f, n) /\ ~Stops(b, t, f, n) /\ ~Turns(b, t, f, q, n)
      /\ Esc(b, t, f, n + 1) /\ open[n + 1] = q
  BY <1>1, <1>2, <1>3, DelimByteIs
<1>5. /\ Spells(buf \o Piece(c, n), Kept(b, t, f, n + 1))
      /\ \A k \in f..(n + 1) - 1 : ~Stops(b, t, f, k)
  BY <1>1, <1>2, <1>4, DelimLeaves
<1>6. CASE n + 1 = Len(t)
  <2>1. Dlm!EndOfDelim(t, f) = n + 1
    BY <1>1, <1>3, <1>5, <1>6, DelimEndIs
  <2>2. Dlm!DelimOfTheWord'
    BY <1>1, <1>2, <1>4, <1>6, <2>1, DelimIsOver
  <2>. QED
    BY <1>1, <1>2, <1>6, <2>2 DEF DelimInv
<1>7. CASE n + 1 # Len(t)
  <2>1. n + 1 \in Nat /\ f <= n + 1 /\ n + 1 < Len(t)
    BY <1>1, <1>2, <1>3, <1>7
  <2>2. /\ Keep(b, t, f, n + 1) /\ ~Stops(b, t, f, n + 1)
        /\ \A p : ~Turns(b, t, f, p, n + 1)
        /\ ~Esc(b, t, f, (n + 1) + 1) /\ open[(n + 1) + 1] = open[n + 1]
    BY <1>1, <1>3, <1>4, <2>1, DelimEscapedIs
  <2>3. (n + 1) + 1 = n + 2 /\ \A k \in f..(n + 2) - 1 : k = n + 1 \/ k = n \/ k \in f..n - 1
    BY <1>3
  <2>4. /\ \A k \in f..n - 1 : k \in f..(n + 2) - 1
        /\ \A k \in f..(n + 2) - 1 : k = n + 1 \/ k \in f..(n + 1) - 1
        /\ \A k \in n + 1..(n + 2) - 1 : k = n + 1
    BY <1>3
  <2>5. \A k \in f..(n + 2) - 1 : ~Stops(b, t, f, k)
    BY <1>5, <2>2, <2>4
  <2>6. expand' <=> \A k \in f..(n + 2) - 1 : ~Turns(b, t, f, open[k], k)
    <3>1. (\A k \in f..n - 1 : ~Turns(b, t, f, open[k], k)) <=>
            \A k \in f..(n + 2) - 1 : ~Turns(b, t, f, open[k], k)
      BY <1>3, <1>4, <2>2, <2>3, <2>4
    <3>. QED
      BY <1>2, <1>3, <3>1
  <2>7. \A k \in n + 1..(n + 2) - 1 : Keep(b, t, f, k)
    BY <2>2, <2>4
  <2>8. ~Esc(b, t, f, n + 2) /\ open[n + 2] = q
    BY <1>4, <2>2, <2>3
  <2>9. n + 2 \in Nat /\ f <= n + 1 /\ n + 1 <= n + 2 /\ n + 2 <= Len(t)
    BY <1>1, <1>3, <2>1
  <2>. HIDE DEF open
  <2>10. ReadTo(b, t, f, n + 1, n + 2, buf', quote', expand')
    BY <1>2, <1>3, <1>5, <2>1, <2>5, <2>6, <2>7, <2>8, <2>9 DEF ReadTo, open
  <2>11. Reading'
    BY <1>2, <1>7, <2>10 DEF Reading
  <2>. QED
    BY <1>1, <1>2, <1>7, <2>11 DEF DelimInv
<1>. QED
  BY <1>6, <1>7

LEMMA DelimOneByte ==
  ASSUME DelimState, Dlm!DelimByte, call' = call
  PROVE  DelimInv'
<1>. DEFINE b == backslash  t == full  f == delim_start  c == current_start  n == s_next  q == quote
            open == Open(b, t, f)
<1>1. /\ Len(t) \in Nat /\ b \in {"bs", "esc"} /\ buf \in Seq(Nat)
      /\ ReadTo(b, t, f, c, n, buf, q, expand)
  BY DEF DelimState, Reading
<1>2. /\ f \in Nat /\ c \in Nat /\ n \in Nat /\ f <= c /\ c <= n /\ n <= Len(t)
      /\ q \in {NoQuote, "dq", "sq"} /\ q = open[n] /\ ~Esc(b, t, f, n)
      /\ expand <=> \A k \in f..n - 1 : ~Turns(b, t, f, open[k], k)
      /\ q # NoQuote => ~expand
      /\ \A k \in f..n - 1 : ~Stops(b, t, f, k)
      /\ \A k \in c..n - 1 : Keep(b, t, f, k)
      /\ Spells(buf, Kept(b, t, f, c))
  BY <1>1 DEF ReadTo
<1>3. n < Len(t)
  BY <1>1, <1>2 DEF Dlm!DelimByte, Dlm!Over
<1>4. /\ t[n + 1] # b /\ t[n + 1] \notin (IF q = NoQuote THEN {"dq", "sq"} ELSE {q})
      /\ ~(q = NoQuote /\ t[n + 1] \in {"sp", "tab", "ff", "cr", "lf"})
      /\ s_next' = n + 1
      /\ UNCHANGED <<backslash, pc, current_start, buf, full, delim_start, quote, expand>>
  BY <1>3 DEF Dlm!DelimByte, Dlm!Over, Dlm!At, Dlm!Quotes, Dlm!DelimEnd, Dlm!Whitespace,
              Dlm!PossibleLine, Dlm!delimVars
<1>5. /\ ~Turns(b, t, f, q, n) /\ Keep(b, t, f, n)
      /\ ~Esc(b, t, f, n + 1) /\ open[n + 1] = q
  BY <1>1, <1>2, <1>3, <1>4, DelimByteIs
<1>6. ~Stops(b, t, f, n)
  BY <1>2, <1>4 DEF Stops
<1>7. /\ \A k \in f..(n + 1) - 1 : k = n \/ k \in f..n - 1
      /\ \A k \in c..(n + 1) - 1 : k = n \/ k \in c..n - 1
      /\ \A k \in f..n - 1 : k \in f..(n + 1) - 1
      /\ n + 1 \in Nat /\ c <= n + 1 /\ n + 1 <= Len(t)
  BY <1>1, <1>2, <1>3
<1>8. (\A k \in f..n - 1 : ~Turns(b, t, f, open[k], k)) <=>
        \A k \in f..(n + 1) - 1 : ~Turns(b, t, f, open[k], k)
  BY <1>2, <1>5, <1>7
<1>9. expand <=> \A k \in f..(n + 1) - 1 : ~Turns(b, t, f, open[k], k)
  BY <1>2, <1>8
<1>10. /\ \A k \in f..(n + 1) - 1 : ~Stops(b, t, f, k)
       /\ \A k \in c..(n + 1) - 1 : Keep(b, t, f, k)
  BY <1>2, <1>5, <1>6, <1>7
<1>. HIDE DEF open
<1>11. ReadTo(b, t, f, c, n + 1, buf, q, expand)
  BY <1>2, <1>5, <1>7, <1>9, <1>10 DEF ReadTo, open
<1>12. Reading'
  BY <1>4, <1>11 DEF Reading
<1>. QED
  BY <1>1, <1>4, <1>12 DEF DelimInv, DelimState

LEMMA DelimOver ==
  ASSUME DelimState, Dlm!QuoteMissing \/ Dlm!DelimEnds, call' = call
  PROVE  DelimInv'
<1>. DEFINE b == backslash  t == full  f == delim_start  c == current_start  n == s_next  q == quote
            open == Open(b, t, f)
<1>1. /\ Len(t) \in Nat /\ b \in {"bs", "esc"} /\ buf \in Seq(Nat)
      /\ ReadTo(b, t, f, c, n, buf, q, expand)
  BY DEF DelimState, Reading
<1>2. /\ f \in Nat /\ c \in Nat /\ n \in Nat /\ f <= c /\ c <= n /\ n <= Len(t)
      /\ q = open[n] /\ ~Esc(b, t, f, n)
      /\ expand <=> \A k \in f..n - 1 : ~Turns(b, t, f, open[k], k)
      /\ \A k \in f..n - 1 : ~Stops(b, t, f, k)
      /\ \A k \in c..n - 1 : Keep(b, t, f, k)
      /\ Spells(buf, Kept(b, t, f, c))
  BY <1>1 DEF ReadTo
<1>3. /\ n = Len(t) \/ (q = NoQuote /\ t[n + 1] \in {"sp", "tab", "ff", "cr", "lf"})
      /\ UNCHANGED <<backslash, s_next, full, delim_start, expand>>
  BY DEF Dlm!QuoteMissing, Dlm!DelimEnds, Dlm!Over, Dlm!At, Dlm!DelimEnd, Dlm!Whitespace,
         Dlm!PossibleLine, Dlm!delimVars
<1>4. n = Len(t) \/ Stops(b, t, f, n)
  BY <1>2, <1>3 DEF Stops
<1>5. Dlm!EndOfDelim(t, f) = n
  BY <1>1, <1>2, <1>4, DelimEndIs
<1>6. CASE Dlm!QuoteMissing
  <2>1. pc' = "open_quote" /\ q # NoQuote /\ n = Len(t)
    BY <1>3, <1>6 DEF Dlm!QuoteMissing
  <2>2. Dlm!DelimOfTheWord'
    BY <1>1, <1>2, <1>3, <1>5, <2>1, DelimIsOver
  <2>. QED
    BY <1>1, <1>3, <2>1, <2>2 DEF DelimInv
<1>7. CASE Dlm!DelimEnds
  <2>1. /\ q = NoQuote /\ pc' = (IF delim' = <<>> THEN "none" ELSE "here_doc")
        /\ delim' = IF f = c THEN Piece(f, n) ELSE buf \o Piece(c, n)
    BY <1>7, PiecesAre DEF Dlm!DelimEnds
  <2>2. Spells(delim', Kept(b, t, f, n))
    <3>1. CASE f # c
      BY <1>1, <1>2, <2>1, <3>1, KeptMore
    <3>2. CASE f = c
      <4>1. Kept(b, t, f, f) = {}
        BY <1>2 DEF Kept
      <4>2. Spells(<<>>, Kept(b, t, f, f))
        BY <4>1 DEF Spells
      <4>3. Spells(<<>> \o Piece(f, n), Kept(b, t, f, n))
        <5>1. <<>> \in Seq(Nat)
          OBVIOUS
        <5>2. \A k \in f..n - 1 : Keep(b, t, f, k)
          BY <1>2, <3>2
        <5>. QED
          BY <1>2, <4>2, <3>2, <5>1, <5>2, KeptMore
      <4>4. <<>> \o Piece(f, n) = Piece(f, n)
        <5>1. Piece(f, n) \in Seq(Nat)
          BY <1>2, <3>2, PieceIs
        <5>. QED
          BY <5>1
      <4>. QED
        BY <2>1, <3>2, <4>3, <4>4
    <3>. QED
      BY <3>1, <3>2
  <2>3. /\ pc' \in {"here_doc", "none"} /\ (pc' = "none" <=> delim' = <<>>)
        /\ open[n] = NoQuote /\ s_next' = n
    BY <1>2, <1>3, <2>1
  <2>4. expand' <=> \A k \in f..n - 1 : ~Turns(b, t, f, open[k], k)
    BY <1>2, <1>3
  <2>5. Dlm!DelimOfTheWord'
    <3>. HIDE DEF q, c
    <3>. QED
      BY <1>1, <1>2, <1>3, <1>5, <2>2, <2>3, <2>4, DelimIsOver
  <2>. QED
    BY <1>1, <1>3, <2>3, <2>5 DEF DelimInv
<1>. QED
  BY <1>6, <1>7

LEMMA DelimStarts ==
  ASSUME PosInv, PosInv', DelimInv, SourceIsDelim \/ OptionsOverRun
  PROVE  DelimInv'
<1>1. UNCHANGED backslash /\ backslash \in {"bs", "esc"}
  BY DEF SourceIsDelim, OptionsOverRun, instruction, DelimInv
<1>2. CASE call' # "delim"
  BY <1>1, <1>2 DEF DelimInv
<1>3. CASE call' = "delim"
  <2>1. \E bytes, i : Dlm!Starts(bytes, i)
    BY <1>3 DEF SourceIsDelim, OptionsOverRun
  <2>2. /\ pc' = "delim" /\ delim_start' = s_next' /\ current_start' = s_next'
        /\ buf' = <<>> /\ quote' = NoQuote /\ expand' = TRUE
    BY <2>1 DEF Dlm!Starts
  <2>3. Len(full') \in Nat /\ s_next' \in 0..Len(full')
    BY <1>3 DEF PosInv, DelimPositions
  <2>4. ReadTo(backslash, full', s_next', s_next', s_next', <<>>, NoQuote, TRUE)
    BY <2>3, ReadStart
  <2>5. Reading'
    BY <1>1, <2>2, <2>4 DEF Reading
  <2>. QED
    BY <1>1, <2>2, <2>5 DEF DelimInv
<1>. QED
  BY <1>2, <1>3

LEMMA DelimNext == PosInv /\ PosInv' /\ DelimInv /\ [Next]_vars => DelimInv'
<1>. SUFFICES ASSUME PosInv, PosInv', DelimInv, [Next]_vars PROVE DelimInv'
  OBVIOUS
<1>1. backslash \in {"bs", "esc"}
  BY DEF DelimInv
<1>2. CASE InDelim
  <2>1. call = "delim" /\ call' = call /\ Dlm!Next
    BY <1>2 DEF InDelim
  <2>2. pc = "delim"
    BY <2>1 DEF Dlm!Next, Dlm!OpenQuote, Dlm!CloseQuote, Dlm!Backslash, Dlm!DelimByte,
                Dlm!QuoteMissing, Dlm!DelimEnds
  <2>3. DelimState
    BY <1>1, <2>1, <2>2 DEF DelimState, DelimInv, PosInv, DelimPositions
  <2>. QED
    BY <2>1, <2>3, DelimQuoted, DelimBackslash, DelimOneByte, DelimOver DEF Dlm!Next
<1>3. CASE SourceIsDelim \/ OptionsOverRun
  BY <1>3, DelimStarts
<1>4. CASE UNCHANGED vars
  <2>1. UNCHANGED <<call, pc, s_next, current_start, buf, backslash>> /\ UNCHANGED delimVars
    BY <1>4 DEF vars, scanning, instruction
  <2>2. UNCHANGED <<full, strip_tab, delim_start, quote, expand, delim>>
    BY <2>1 DEF delimVars
  <2>3. Reading => Reading'
    BY <2>1, <2>2 DEF Reading
  <2>4. ASSUME NEW w, NEW i
        PROVE  /\ \A q, k : Dlm!Toggles(w, i, q, k)' <=> Dlm!Toggles(w, i, q, k)
               /\ Dlm!Quoted(w, i)' = Dlm!Quoted(w, i)
               /\ Dlm!EndOfDelim(w, i)' = Dlm!EndOfDelim(w, i)
               /\ Dlm!Unquoted(w, i)' = Dlm!Unquoted(w, i)
               /\ Dlm!OpenEscape(w, i)' <=> Dlm!OpenEscape(w, i)
               /\ Dlm!OpenQuoteLeft(w, i)' <=> Dlm!OpenQuoteLeft(w, i)
    BY <2>1 DEF Dlm!Escaped, Dlm!Toggles, Dlm!Quoted, Dlm!EndOfDelim, Dlm!Unquoted,
                Dlm!OpenEscape, Dlm!OpenQuoteLeft
  <2>5. Dlm!DelimOfTheWord => Dlm!DelimOfTheWord'
    BY <2>1, <2>2, <2>4 DEF Dlm!DelimOfTheWord, Dlm!Spells
  <2>. QED
    BY <2>1, <2>3, <2>5 DEF DelimInv
<1>5. CASE \/ InOptions \/ InWords \/ InLine \/ InDoc
  BY <1>1, <1>5 DEF InOptions, InWords, InLine, InDoc, instruction, DelimInv
<1>6. CASE \/ OptionsOverCopy \/ WordsOver \/ SourceIsPath \/ DelimIsNone
           \/ DelimOverCopy \/ SourcesOver
  BY <1>1, <1>6 DEF OptionsOverCopy, WordsOver, SourceIsPath, DelimIsNone, DelimOverCopy,
              DocStarts, SourcesOver, Fail, instruction, DelimInv
<1>7. CASE DelimOverRun \/ LineOverDoc \/ LineOver
  BY <1>1, <1>7 DEF DelimOverRun, LineOverDoc, LineOver, DocStarts, instruction, DelimInv
<1>8. CASE DocOver \/ DocFails \/ DelimFails
  BY <1>1, <1>8 DEF DocOver, DocFails, DelimFails, Fail, DelimInv
<1>. QED
  BY <1>2, <1>3, <1>4, <1>5, <1>6, <1>7, <1>8 DEF Next

LEMMA DelimInvariance == Spec => []DelimInv
<1>1. Init => PosInv /\ DelimInv
  <2>1. Init => call = "options" /\ backslash \in {"bs", "esc"}
    BY DEF Init
  <2>. QED
    BY <2>1, InitPos DEF DelimInv
<1>2. PosInv /\ DelimInv /\ [Next]_vars => PosInv' /\ DelimInv'
  BY NextPos, DelimNext
<1>. QED
  BY <1>1, <1>2, PTL DEF Spec

(* collect_here_doc_delim takes the word without the quotes and backslashes *)
(* that quote, tells what they leave open and whether a quote was there: of *)
(* every word, wherever it starts.                                          *)
THEOREM DelimCorrect == Spec => []DelimOfTheWord
<1>1. DelimInv => DelimOfTheWord
  <2>1. SUFFICES ASSUME DelimInv, call = "delim", pc # "delim" PROVE Dlm!DelimOfTheWord
    BY DEF DelimOfTheWord, Dlm!DelimOfTheWord
  <2>. QED
    BY <2>1 DEF DelimInv
<1>. QED
  BY <1>1, DelimInvariance, PTL

-----------------------------------------------------------------------------
(* Here-documents, of a text t: the lines from h on, where the tabs of one  *)
(* end, whether it is the delimiter w and nothing else, and what is before. *)
DocLines(t, h) == {k \in h..Len(t) : k = h \/ t[k] = "lf"}
Untabbed(t, l, strip) == IF strip THEN SkipWhile(t, l, {"tab"}) ELSE l
IsEnd(t, l, w, strip) ==
  \E e \in {i \in 0..Len(t) : i = Len(t) \/ Newline(t, i) # i} :
    Untabbed(t, l, strip) <= e /\ SubSeq(t, Untabbed(t, l, strip) + 1, e) = w
EndLines(t, h, w, strip) == {l \in DocLines(t, h) : IsEnd(t, l, w, strip)}
Body(t, h, n, strip) ==
  UNION {Untabbed(t, l, strip)..NextLine(t, l) - 1 : l \in {k \in DocLines(t, h) : k < n}}

LEMMA DocReference ==
  ASSUME NEW h, NEW w, NEW strip
  PROVE  /\ Doc!Terminators(h, w, strip) = EndLines(text, h, w, strip)
         /\ \A l : Doc!Tabs(l, strip) = Untabbed(text, l, strip)
         /\ \A l : Doc!BodyUpTo(h, l, strip) = Body(text, h, l, strip)
         /\ \A l : Doc!AfterTerminator(l, w, strip) =
                     NextLine(text, Untabbed(text, l, strip) + Len(w))
<1>1. \A l : Doc!Tabs(l, strip) = Untabbed(text, l, strip)
  BY DocScans DEF Doc!Tabs, Untabbed
<1>2. Doc!ContentEnds = {i \in 0..Len(text) : i = Len(text) \/ Newline(text, i) # i}
  BY DocScans DEF Doc!ContentEnds
<1>3. \A l : Doc!IsTerminator(l, w, strip) <=> IsEnd(text, l, w, strip)
  BY <1>1, <1>2 DEF Doc!IsTerminator, IsEnd
<1>4. Doc!Lines(h) = DocLines(text, h)
  BY DEF Doc!Lines, DocLines
<1>5. Doc!Terminators(h, w, strip) = EndLines(text, h, w, strip)
  BY <1>3, <1>4 DEF Doc!Terminators, EndLines
<1>6. \A l : Doc!BodyUpTo(h, l, strip) = Body(text, h, l, strip)
  BY <1>1, <1>4, DocScans DEF Doc!BodyUpTo, Body, Doc!LineEnd
<1>7. \A l : Doc!AfterTerminator(l, w, strip) = NextLine(text, Untabbed(text, l, strip) + Len(w))
  BY <1>1, DocScans DEF Doc!AfterTerminator
<1>. QED
  BY <1>1, <1>5, <1>6, <1>7

LEMMA NextLineAt ==
  ASSUME NEW t, Len(t) \in Nat, NEW i \in 0..Len(t), NEW n \in i..Len(t),
         n = Len(t) \/ t[n] = "lf", i < Len(t) => i < n,
         \A k \in i + 1..n - 1 : t[k] # "lf"
  PROVE  NextLine(t, i) = n
<1>. DEFINE m == NextLine(t, i)
<1>1. /\ m \in i..Len(t) /\ (i < Len(t) => i < m)
      /\ m = Len(t) \/ t[m] = "lf"
      /\ \A k \in i + 1..m - 1 : t[k] # "lf"
  BY NextLineIs
<1>. HIDE DEF m
<1>2. ~(m < n)
  <2>1. m < n => m \in i + 1..n - 1
    BY <1>1
  <2>. QED
    BY <1>1, <2>1
<1>3. ~(n < m)
  <2>1. n < m => n \in i + 1..m - 1
    BY <1>1
  <2>. QED
    BY <1>1, <2>1
<1>. QED
  BY <1>1, <1>2, <1>3 DEF m

(* Tabs are no newlines.                                                    *)
LEMMA UntabbedIs ==
  ASSUME NEW t, Len(t) \in Nat, NEW l \in 0..Len(t), NEW strip
  PROVE  /\ Untabbed(t, l, strip) \in l..Len(t)
         /\ NextLine(t, Untabbed(t, l, strip)) = NextLine(t, l)
<1>. DEFINE u == Untabbed(t, l, strip)
            n == NextLine(t, u)
<1>1. u \in l..Len(t) /\ \A j \in l..u - 1 : At(t, j, {"tab"})
  <2>1. CASE strip
    BY <2>1, SkipWhileStops DEF Untabbed
  <2>2. CASE ~strip
    BY <2>2 DEF Untabbed
  <2>. QED
    BY <2>1, <2>2
<1>. HIDE DEF u
<1>2. \A k \in l + 1..u : t[k] # "lf"
  <2>1. \A k \in l + 1..u : k - 1 \in l..u - 1 /\ (k - 1) + 1 = k
    BY <1>1
  <2>. QED
    BY <1>1, <2>1 DEF At
<1>3. /\ n \in u..Len(t) /\ (u < Len(t) => u < n)
      /\ n = Len(t) \/ t[n] = "lf"
      /\ \A k \in u + 1..n - 1 : t[k] # "lf"
  <2>1. u \in 0..Len(t)
    BY <1>1
  <2>. QED
    BY <2>1, NextLineIs
<1>. HIDE DEF n
<1>4. n \in l..Len(t) /\ (l < Len(t) => l < n)
  BY <1>1, <1>3
<1>5. \A k \in l + 1..n - 1 : t[k] # "lf"
  <2>1. \A k \in l + 1..n - 1 : k \in l + 1..u \/ k \in u + 1..n - 1
    BY <1>1, <1>3
  <2>. QED
    BY <1>2, <1>3, <2>1
<1>6. NextLine(t, l) = n
  BY <1>3, <1>4, <1>5, NextLineAt
<1>. QED
  BY <1>1, <1>6 DEF u, n

(* A line is what it says.                                                  *)
LEMMA EndIs ==
  ASSUME NEW S, NEW t \in Seq(S), NEW l \in 0..Len(t), NEW w, Len(w) \in Nat, NEW strip,
         NEW u, u = Untabbed(t, l, strip)
  PROVE  IsEnd(t, l, w, strip) <=>
           /\ u + Len(w) <= Len(t)
           /\ SubSeq(t, u + 1, u + Len(w)) = w
           /\ u + Len(w) = Len(t) \/ Newline(t, u + Len(w)) # u + Len(w)
<1>1. u \in l..Len(t) /\ u \in Nat /\ Len(t) \in Nat
  BY UntabbedIs
<1>2. ASSUME NEW e \in 0..Len(t), u <= e, SubSeq(t, u + 1, e) = w
      PROVE  e = u + Len(w)
  <2>1. Len(SubSeq(t, u + 1, e)) = e - u
    BY <1>1, <1>2
  <2>. QED
    BY SMTT(30), <1>1, <1>2, <2>1
<1>3. u <= u + Len(w) /\ u + Len(w) \in Nat
  BY <1>1
<1>. DEFINE m == u + Len(w)
            E == {i \in 0..Len(t) : i = Len(t) \/ Newline(t, i) # i}
            Right == m <= Len(t) /\ SubSeq(t, u + 1, m) = w /\ (m = Len(t) \/ Newline(t, m) # m)
<1>4. IsEnd(t, l, w, strip) <=> \E e \in E : u <= e /\ SubSeq(t, u + 1, e) = w
  BY DEF IsEnd
<1>5. ASSUME NEW e \in E, u <= e, SubSeq(t, u + 1, e) = w PROVE Right
  <2>1. e = m
    BY <1>2, <1>5
  <2>. HIDE DEF m
  <2>. QED
    BY <1>5, <2>1
<1>6. ASSUME Right PROVE m \in E /\ u <= m /\ SubSeq(t, u + 1, m) = w
  <2>1. m \in 0..Len(t)
    BY <1>1, <1>3, <1>6
  <2>. HIDE DEF m
  <2>2. m \in E
    BY <1>6, <2>1
  <2>. QED
    BY <1>3, <1>6, <2>2 DEF m
<1>. HIDE DEF m, E
<1>. QED
  BY <1>4, <1>5, <1>6 DEF m

(* A line that is too short, and those behind it.                           *)
LEMMA TooShortIs ==
  ASSUME NEW S, NEW t \in Seq(S), NEW h \in 0..Len(t), NEW n \in h..Len(t), NEW w, Len(w) \in Nat,
         NEW strip, Len(t) - Untabbed(t, n, strip) < Len(w),
         \A l \in DocLines(t, h) : l < n => ~IsEnd(t, l, w, strip)
  PROVE  EndLines(t, h, w, strip) = {}
<1>1. Len(t) \in Nat /\ n \in 0..Len(t) /\ DocLines(t, h) \subseteq 0..Len(t)
  BY DEF DocLines
<1>2. Untabbed(t, n, strip) \in n..Len(t)
  BY <1>1, UntabbedIs
<1>3. ASSUME NEW l \in DocLines(t, h), l >= n
      PROVE  ~IsEnd(t, l, w, strip)
  <2>1. l \in 0..Len(t) /\ Untabbed(t, l, strip) \in l..Len(t)
    BY <1>1, UntabbedIs
  <2>2. Untabbed(t, n, strip) <= Untabbed(t, l, strip)
    <3>1. CASE l = n
      BY <1>2, <3>1
    <3>2. CASE l > n
      <4>1. t[l] = "lf" /\ l \in h..Len(t)
        BY <3>2 DEF DocLines
      <4>2. NextLine(t, n) <= l
        <5>1. \A k \in n + 1..NextLine(t, n) - 1 : t[k] # "lf"
          BY <1>1, NextLineIs
        <5>2. NextLine(t, n) \in n..Len(t)
          BY <1>1, NextLineIs
        <5>3. l < NextLine(t, n) => l \in n + 1..NextLine(t, n) - 1
          BY <1>1, <2>1, <3>2, <5>2
        <5>. QED
          BY <1>1, <2>1, <4>1, <5>1, <5>2, <5>3
      <4>3. Untabbed(t, n, strip) <= NextLine(t, n)
        <5>1. NextLine(t, Untabbed(t, n, strip)) = NextLine(t, n)
          BY <1>1, UntabbedIs
        <5>2. Untabbed(t, n, strip) \in 0..Len(t)
          BY <1>1, <1>2
        <5>3. NextLine(t, Untabbed(t, n, strip)) \in Untabbed(t, n, strip)..Len(t)
          BY <1>1, <5>2, NextLineIs
        <5>. QED
          BY <1>1, <5>1, <5>2, <5>3
      <4>4. NextLine(t, n) \in 0..Len(t)
        BY <1>1, NextLineAdvances
      <4>. QED
        BY <1>1, <1>2, <2>1, <4>2, <4>3, <4>4
    <3>. QED
      BY <1>1, <1>3, <2>1, <3>1, <3>2
  <2>3. ~(Untabbed(t, l, strip) + Len(w) <= Len(t))
    BY <1>1, <1>2, <2>1, <2>2
  <2>. QED
    BY <2>1, <2>3, EndIs
<1>4. \A l \in DocLines(t, h) : l < n \/ l >= n
  BY <1>1
<1>. QED
  BY <1>3, <1>4 DEF EndLines

(* One more line before.                                                    *)
LEMMA BodyMore ==
  ASSUME NEW t, Len(t) \in Nat, NEW h \in 0..Len(t), NEW l \in DocLines(t, h), l < Len(t),
         NEW strip, NEW n, n = NextLine(t, l)
  PROVE  /\ n \in l + 1..Len(t)
         /\ \A k \in DocLines(t, h) : k < n => k < l \/ k = l
         /\ Body(t, h, n, strip) = Body(t, h, l, strip) \cup (Untabbed(t, l, strip)..n - 1)
<1>1. l \in 0..Len(t) /\ l \in h..Len(t) /\ DocLines(t, h) \subseteq h..Len(t)
  BY DEF DocLines
<1>2. n \in l + 1..Len(t) /\ \A k \in l + 1..n - 1 : t[k] # "lf"
  <2>1. n \in l..Len(t) /\ l < n
    BY <1>1, NextLineIs
  <2>. QED
    BY <1>1, <2>1, NextLineIs
<1>3. ASSUME NEW k \in DocLines(t, h), k < n
      PROVE  k < l \/ k = l
  <2>1. k > l => t[k] = "lf" /\ k \in l + 1..n - 1
    BY <1>1, <1>2, <1>3 DEF DocLines
  <2>. QED
    BY <1>1, <1>2, <2>1
<1>4. {k \in DocLines(t, h) : k < n} = {k \in DocLines(t, h) : k < l} \cup {l}
  <2>1. l < n /\ \A k \in DocLines(t, h) : k < l => k < n
    BY <1>1, <1>2
  <2>. QED
    BY <1>3, <2>1
<1>5. Body(t, h, n, strip) = Body(t, h, l, strip) \cup (Untabbed(t, l, strip)..NextLine(t, l) - 1)
  BY <1>4 DEF Body
<1>. QED
  BY <1>2, <1>3, <1>5

(* What the reader of a here-document knows at the line n: none before is   *)
(* the delimiter, and what it has kept is what they hold.                   *)
DocReads(t, h, n, w, strip, c, b, s0) ==
  /\ n \in h..Len(t) /\ (n = Len(t) \/ n \in DocLines(t, h))
  /\ \A l \in DocLines(t, h) : l < n => ~IsEnd(t, l, w, strip)
  /\ b \in Seq(Nat) /\ c \in h..s0 /\ (c = h => b = <<>>)
  /\ \E A \in SUBSET (0..c - 1) :
       Spells(b, A) /\ Body(t, h, n, strip) = A \cup (c..s0 - 1)

(* And what it tells at the end.                                            *)
DocIs(t, h, w, strip, d, s0) ==
  /\ EndLines(t, h, w, strip) # {}
  /\ d.start = h
  /\ LET last == Min(EndLines(t, h, w, strip)) IN
     /\ d.end = Untabbed(t, last, strip)
     /\ Spells(d.value, Body(t, h, last, strip))
     /\ s0 = NextLine(t, Untabbed(t, last, strip) + Len(w))

LEMMA DocReadsStart ==
  ASSUME NEW t, Len(t) \in Nat, NEW h \in 0..Len(t), NEW w, NEW strip
  PROVE  DocReads(t, h, h, w, strip, h, <<>>, h)
<1>1. h \in DocLines(t, h) /\ \A l \in DocLines(t, h) : ~(l < h)
  BY DEF DocLines
<1>2. Spells(<<>>, {}) /\ {} \in SUBSET (0..h - 1)
  BY DEF Spells
<1>3. Body(t, h, h, strip) = {} \cup (h..h - 1)
  <2>1. {k \in DocLines(t, h) : k < h} = {}
    BY <1>1
  <2>2. h..h - 1 = {}
    OBVIOUS
  <2>. QED
    BY <2>1, <2>2 DEF Body
<1>. QED
  BY <1>1, <1>2, <1>3 DEF DocReads

LEMMA DocValueIs ==
  ASSUME NEW t, NEW h \in Nat, NEW n, NEW w, NEW strip, NEW c, NEW b, NEW s0 \in Nat,
         DocReads(t, h, n, w, strip, c, b, s0)
  PROVE  Spells(IF h = c THEN Piece(c, s0) ELSE b \o Piece(c, s0), Body(t, h, n, strip))
<1>1. b \in Seq(Nat) /\ c \in h..s0 /\ c \in Nat /\ c <= s0 /\ (c = h => b = <<>>)
  BY DEF DocReads
<1>2. Spells(b \o Piece(c, s0), Body(t, h, n, strip))
  <2>1. PICK A \in SUBSET (0..c - 1) :
               Spells(b, A) /\ Body(t, h, n, strip) = A \cup (c..s0 - 1)
    BY DEF DocReads
  <2>2. \A a \in A : a < c
    BY <1>1
  <2>3. Spells(b \o Piece(c, s0), A \cup (c..s0 - 1))
    BY <1>1, <2>1, <2>2, SpellsPiece
  <2>. QED
    BY <2>1, <2>3
<1>3. <<>> \o Piece(c, s0) = Piece(c, s0)
  BY <1>1, PieceIs
<1>. QED
  BY <1>1, <1>2, <1>3

(* Its tabs, which are not part of it.                                      *)
LEMMA DocReadsTabs ==
  ASSUME NEW t, Len(t) \in Nat, NEW h \in 0..Len(t), NEW n, NEW w, NEW strip,
         NEW c, NEW b, DocReads(t, h, n, w, strip, c, b, n), At(t, n, {"tab"}),
         NEW u, u = SkipWhile(t, n, {"tab"})
  PROVE  DocReads(t, h, n, w, strip, u, b \o Piece(c, n), u)
<1>1. n \in h..Len(t) /\ n \in 0..Len(t) /\ b \in Seq(Nat) /\ c \in h..n /\ c \in Nat
  BY DEF DocReads
<1>2. u \in n..Len(t) /\ ~At(t, u, {"tab"})
  BY <1>1, SkipWhileStops
<1>3. u # n /\ u > h /\ u # h
  BY <1>1, <1>2
<1>4. PICK A \in SUBSET (0..c - 1) :
             Spells(b, A) /\ Body(t, h, n, strip) = A \cup (c..n - 1)
  BY DEF DocReads
<1>. DEFINE B == A \cup (c..n - 1)
<1>5. Spells(b \o Piece(c, n), B)
  <2>1. \A a \in A : a < c
    BY <1>1
  <2>2. c <= n /\ n \in Nat
    BY <1>1
  <2>. QED
    BY <1>1, <1>4, <2>1, <2>2, SpellsPiece
<1>6. b \o Piece(c, n) \in Seq(Nat)
  BY <1>1, Gathers
<1>7. B \in SUBSET (0..u - 1)
  BY <1>1, <1>2, <1>3, <1>4
<1>8. Body(t, h, n, strip) = B \cup (u..u - 1)
  <2>1. u..u - 1 = {}
    BY <1>1, <1>2
  <2>. QED
    BY <1>4, <2>1
<1>9. u \in h..u
  BY <1>1, <1>2
<1>. HIDE DEF B
<1>. QED
  BY <1>3, <1>5, <1>6, <1>7, <1>8, <1>9 DEF DocReads

(* A line that is not the delimiter.                                        *)
LEMMA DocReadsLine ==
  ASSUME NEW t, Len(t) \in Nat, NEW h \in 0..Len(t), NEW n, NEW w, NEW strip, NEW c, NEW b,
         NEW u, u = Untabbed(t, n, strip), DocReads(t, h, n, w, strip, c, b, u),
         n < Len(t), ~IsEnd(t, n, w, strip),
         NEW m, m = NextLine(t, u)
  PROVE  DocReads(t, h, m, w, strip, c, b, m)
<1>1. n \in h..Len(t) /\ n \in 0..Len(t) /\ n \in DocLines(t, h) /\ b \in Seq(Nat)
      /\ c \in h..u /\ c \in Nat /\ (c = h => b = <<>>)
      /\ \A l \in DocLines(t, h) : l < n => ~IsEnd(t, l, w, strip)
  BY DEF DocReads
<1>2. u \in n..Len(t) /\ m = NextLine(t, n)
  BY <1>1, UntabbedIs
<1>3. /\ m \in n + 1..Len(t)
      /\ \A k \in DocLines(t, h) : k < m => k < n \/ k = n
      /\ Body(t, h, m, strip) = Body(t, h, n, strip) \cup (u..m - 1)
  BY <1>1, <1>2, BodyMore
<1>4. u <= m
  <2>1. u \in 0..Len(t)
    BY <1>1, <1>2
  <2>. QED
    BY <2>1, NextLineIs
<1>5. m = Len(t) \/ t[m] = "lf"
  BY <1>1, <1>2, NextLineIs
<1>6. m \in h..Len(t) /\ (m = Len(t) \/ m \in DocLines(t, h))
  BY <1>1, <1>3, <1>5 DEF DocLines
<1>7. PICK A \in SUBSET (0..c - 1) :
             Spells(b, A) /\ Body(t, h, n, strip) = A \cup (c..u - 1)
  BY DEF DocReads
<1>8. Body(t, h, m, strip) = A \cup (c..m - 1)
  <2>1. (c..u - 1) \cup (u..m - 1) = c..m - 1
    <3>1. c \in Nat /\ u \in Nat /\ m \in Nat /\ c <= u /\ u <= m
      BY <1>1, <1>2, <1>3, <1>4
    <3>. QED
      BY <3>1
  <2>. QED
    BY <1>3, <1>7, <2>1
<1>9. c \in h..m
  BY <1>1, <1>2, <1>3, <1>4
<1>10. \A l \in DocLines(t, h) : l < m => ~IsEnd(t, l, w, strip)
  BY <1>1, <1>3
<1>. QED
  BY <1>1, <1>6, <1>7, <1>8, <1>9, <1>10 DEF DocReads

LEMMA NewlineNext ==
  ASSUME NEW t, Len(t) \in Nat, NEW e \in 0..Len(t), e = Len(t) \/ Newline(t, e) # e
  PROVE  Newline(t, e) = NextLine(t, e)
<1>1. CASE Newline(t, e) = e
  <2>1. e = Len(t)
    BY <1>1
  <2>. QED
    BY <1>1, <2>1, NextLineAt
<1>2. CASE At(t, e, {"lf"})
  <2>1. e + 1 \in e..Len(t) /\ t[e + 1] = "lf" /\ Newline(t, e) = e + 1
    BY <1>2 DEF At, Newline
  <2>. QED
    BY <2>1, NextLineAt
<1>3. CASE Newline(t, e) # e /\ ~At(t, e, {"lf"})
  <2>1. /\ Newline(t, e) = e + 2 /\ e + 2 \in e..Len(t)
        /\ t[e + 1] = "cr" /\ t[e + 2] = "lf"
    BY <1>3 DEF At, Newline
  <2>2. \A k \in e + 1..(e + 2) - 1 : k = e + 1
    OBVIOUS
  <2>. QED
    BY <2>1, <2>2, NextLineAt
<1>. QED
  BY <1>1, <1>2, <1>3

(* The delimiter.                                                           *)
LEMMA DocReadsEnd ==
  ASSUME NEW S, NEW t \in Seq(S), NEW h \in 0..Len(t), NEW n, NEW w, Len(w) \in Nat \ {0},
         NEW strip, NEW c, NEW b,
         NEW u, u = Untabbed(t, n, strip), DocReads(t, h, n, w, strip, c, b, u),
         IsEnd(t, n, w, strip),
         NEW d, d = [start |-> h, end |-> u,
                     value |-> IF h = c THEN Piece(c, u) ELSE b \o Piece(c, u)]
  PROVE  DocIs(t, h, w, strip, d, Newline(t, u + Len(w)))
<1>1. Len(t) \in Nat /\ n \in h..Len(t) /\ n \in 0..Len(t)
      /\ (n = Len(t) \/ n \in DocLines(t, h))
      /\ \A l \in DocLines(t, h) : l < n => ~IsEnd(t, l, w, strip)
  BY DEF DocReads
<1>2. u \in n..Len(t) /\ u \in Nat
  BY <1>1, UntabbedIs
<1>3. /\ u + Len(w) \in 0..Len(t)
      /\ u + Len(w) = Len(t) \/ Newline(t, u + Len(w)) # u + Len(w)
  BY <1>1, <1>2, EndIs
<1>4. n \in EndLines(t, h, w, strip)
  <2>1. n # Len(t)
    BY <1>1, <1>2, <1>3
  <2>. QED
    BY <1>1, <2>1 DEF EndLines
<1>. DEFINE E == EndLines(t, h, w, strip)
<1>5. E \in SUBSET Nat /\ \A l \in E : l \in Nat /\ n <= l
  BY <1>1 DEF EndLines, DocLines
<1>6. Min(E) \in E /\ Min(E) <= n
  BY <1>4, <1>5, MinIs
<1>7. Min(E) = n
  <2>1. Min(E) \in Nat /\ n <= Min(E) /\ n \in Nat
    BY <1>1, <1>5, <1>6
  <2>. QED
    BY <1>6, <2>1
<1>8. Spells(d.value, Body(t, h, n, strip))
  <2>1. Spells(IF h = c THEN Piece(c, u) ELSE b \o Piece(c, u), Body(t, h, n, strip))
    BY <1>2, DocValueIs
  <2>. QED
    BY <2>1
<1>9. Newline(t, u + Len(w)) = NextLine(t, u + Len(w))
  BY <1>1, <1>3, NewlineNext
<1>. QED
  BY <1>4, <1>7, <1>8, <1>9 DEF DocIs

(* The states of collect_here_doc, from h on, with the delimiter w.         *)
DocAt(t, h, w, strip, p, i, c, b, d) ==
  /\ p \in {"line", "delim", "done", "failed"}
  /\ p = "line" => DocReads(t, h, i, w, strip, c, b, i)
  /\ p = "delim" => \E n : i = Untabbed(t, n, strip) /\ DocReads(t, h, n, w, strip, c, b, i)
  /\ p = "done" => DocIs(t, h, w, strip, d, i)
  /\ p = "failed" => EndLines(t, h, w, strip) = {}

DocInv ==
  call = "doc" =>
    /\ delim # <<>> /\ here_doc_start \in 0..Len(text)
    /\ DocAt(text, here_doc_start, DelimBytes, strip_tab, pc, s, current_start, buf, doc)

(* What the steps of collect_here_doc need to know.                         *)
DocState(h, w) ==
  /\ text \in Seq(STRING) /\ Len(text) \in Nat /\ s \in 0..Len(text)
  /\ h = here_doc_start /\ h \in 0..Len(text)
  /\ w = DelimBytes /\ Len(w) \in Nat \ {0}
  /\ DocAt(text, h, w, strip_tab, pc, s, current_start, buf, doc)
  /\ UNCHANGED <<text, here_doc_start, strip_tab>>

LEMMA DocTabs ==
  ASSUME NEW h, NEW w, DocState(h, w), Doc!LeadingTabs
  PROVE  DocAt(text, h, w, strip_tab, pc', s', current_start', buf', doc')
<1>. DEFINE u == SkipWhile(text, s, {"tab"})
<1>1. pc = "line" /\ pc' = "delim" /\ doc' = doc
  BY DEF Doc!LeadingTabs
<1>2. /\ Len(text) \in Nat /\ s \in 0..Len(text) /\ h \in 0..Len(text)
      /\ DocReads(text, h, s, w, strip_tab, current_start, buf, s)
  BY <1>1 DEF DocState, DocAt
<1>3. u \in s..Len(text) /\ \A j \in s..u - 1 : At(text, j, {"tab"})
  BY <1>2, SkipWhileStops
<1>4. CASE strip_tab /\ At(text, s, {"tab"})
  <2>1. s' = u /\ current_start' = u /\ buf' = buf \o Piece(current_start, s)
    <3>1. Doc!SkipWhile(text, s, {"tab"}) = u /\ Doc!At(text, s, {"tab"})
      BY <1>4, DocScans DEF Doc!At, At
    <3>2. Doc!Piece(current_start, s) = Piece(current_start, s)
      BY DEF Doc!Piece, Piece
    <3>. QED
      BY <1>4, <3>1, <3>2 DEF Doc!LeadingTabs
  <2>2. DocReads(text, h, s, w, strip_tab, u, buf \o Piece(current_start, s), u)
        /\ u = Untabbed(text, s, strip_tab)
    <3>1. ASSUME NEW e, e = SkipWhile(text, s, {"tab"})
          PROVE  DocReads(text, h, s, w, strip_tab, e, buf \o Piece(current_start, s), e)
      BY <1>2, <1>4, <3>1, DocReadsTabs
    <3>. QED
      BY <1>4, <3>1 DEF Untabbed
  <2>. HIDE DEF u
  <2>. QED
    BY <1>1, <2>1, <2>2 DEF DocAt
<1>5. CASE ~(strip_tab /\ At(text, s, {"tab"}))
  <2>1. s' = s /\ current_start' = current_start /\ buf' = buf
    BY <1>5 DEF Doc!LeadingTabs, Doc!At, At
  <2>2. s = Untabbed(text, s, strip_tab)
    BY <1>2, <1>3, <1>5 DEF Untabbed
  <2>. QED
    BY <1>1, <1>2, <2>1, <2>2 DEF DocAt
<1>. QED
  BY <1>4, <1>5

LEMMA DocEnds ==
  ASSUME NEW h, NEW w, DocState(h, w), Doc!NoEnd \/ Doc!Terminator \/ Doc!BodyLine
  PROVE  DocAt(text, h, w, strip_tab, pc', s', current_start', buf', doc')
<1>1. pc = "delim"
  BY DEF Doc!NoEnd, Doc!Terminator, Doc!BodyLine
<1>2. /\ text \in Seq(STRING) /\ Len(text) \in Nat /\ s \in 0..Len(text) /\ h \in 0..Len(text)
      /\ h = here_doc_start /\ w = DelimBytes /\ Len(w) \in Nat \ {0}
  BY DEF DocState
<1>3. PICK n : /\ s = Untabbed(text, n, strip_tab)
               /\ DocReads(text, h, n, w, strip_tab, current_start, buf, s)
  BY <1>1 DEF DocState, DocAt
<1>4. /\ n \in h..Len(text) /\ n \in 0..Len(text)
      /\ \A l \in DocLines(text, h) : l < n => ~IsEnd(text, l, w, strip_tab)
  BY <1>2, <1>3 DEF DocReads
<1>5. Doc!TooShort <=> Len(text) - s < Len(w)
  BY <1>2 DEF Doc!TooShort
<1>6. Doc!AtTerminator <=> IsEnd(text, n, w, strip_tab)
  <2>1. IsEnd(text, n, w, strip_tab) <=>
          /\ s + Len(w) <= Len(text)
          /\ SubSeq(text, s + 1, s + Len(w)) = w
          /\ s + Len(w) = Len(text) \/ Newline(text, s + Len(w)) # s + Len(w)
    <3>1. Len(w) \in Nat
      BY <1>2
    <3>2. ASSUME NEW t \in Seq(STRING), NEW l \in 0..Len(t), NEW strip, NEW u,
                 u = Untabbed(t, l, strip)
          PROVE  IsEnd(t, l, w, strip) <=>
                   /\ u + Len(w) <= Len(t)
                   /\ SubSeq(t, u + 1, u + Len(w)) = w
                   /\ u + Len(w) = Len(t) \/ Newline(t, u + Len(w)) # u + Len(w)
      BY <3>1, <3>2, EndIs
    <3>. QED
      BY <1>2, <1>3, <1>4, <3>2
  <2>2. Doc!AtTerminator <=>
          /\ ~(Len(text) - s < Len(w))
          /\ SubSeq(text, s + 1, s + Len(w)) = w
          /\ s + Len(w) = Len(text) \/ Newline(text, s + Len(w)) # s + Len(w)
    BY <1>2, <1>5, DocScans DEF Doc!AtTerminator, Doc!StartsWithDelim, Doc!DelimEnd
  <2>. QED
    BY <1>2, <2>1, <2>2
<1>7. CASE Doc!NoEnd
  <2>1. pc' = "failed" /\ Len(text) - s < Len(w)
    BY <1>5, <1>7 DEF Doc!NoEnd
  <2>2. EndLines(text, h, w, strip_tab) = {}
    BY <1>2, <1>3, <1>4, <2>1, TooShortIs
  <2>. QED
    BY <2>1, <2>2 DEF DocAt
<1>8. CASE Doc!Terminator
  <2>. DEFINE d == [start |-> h, end |-> s,
                    value |-> IF h = current_start THEN Piece(current_start, s)
                              ELSE buf \o Piece(current_start, s)]
  <2>1. pc' = "done" /\ doc' = d /\ s' = Newline(text, s + Len(w))
    BY <1>2, <1>8, DocScans DEF Doc!Terminator, Doc!Value, Doc!Piece, Piece, Doc!DelimEnd
  <2>2. IsEnd(text, n, w, strip_tab)
    BY <1>6, <1>8 DEF Doc!Terminator
  <2>3. DocIs(text, h, w, strip_tab, d, Newline(text, s + Len(w)))
    BY <1>2, <1>3, <2>2, DocReadsEnd
  <2>. HIDE DEF d
  <2>. QED
    BY <2>1, <2>3 DEF DocAt
<1>9. CASE Doc!BodyLine
  <2>1. /\ pc' = "line" /\ s' = NextLine(text, s) /\ UNCHANGED <<current_start, buf, doc>>
        /\ ~(Len(text) - s < Len(w)) /\ ~IsEnd(text, n, w, strip_tab)
    BY <1>5, <1>6, <1>9, DocScans DEF Doc!BodyLine
  <2>2. n < Len(text)
    <3>1. n <= s
      BY <1>2, <1>3, <1>4, UntabbedIs
    <3>. QED
      BY <1>2, <1>4, <2>1, <3>1
  <2>3. DocReads(text, h, s', w, strip_tab, current_start, buf, s')
    BY <1>2, <1>3, <2>1, <2>2, DocReadsLine
  <2>. QED
    BY <2>1, <2>3 DEF DocAt
<1>. QED
  BY <1>7, <1>8, <1>9

LEMMA DocCalled ==
  ASSUME PosInv, DelimInv, DelimOverCopy \/ LineOverDoc
  PROVE  DocInv'
<1>1. Len(text) \in Nat /\ s \in 0..Len(text)
  BY InputsAreSequences DEF PosInv
<1>2. /\ DocStarts /\ delim # <<>>
  <2>1. CASE DelimOverCopy
    <3>1. call = "delim" /\ pc = "here_doc" /\ DocStarts
      BY <2>1 DEF DelimOverCopy
    <3>2. Dlm!DelimOfTheWord
      BY <3>1 DEF DelimInv
    <3>. QED
      BY <3>1, <3>2 DEF Dlm!DelimOfTheWord
  <2>. QED
    BY <2>1 DEF LineOverDoc
<1>3. /\ UNCHANGED <<text, s, full, strip_tab, delim>>
      /\ pc' = "line" /\ here_doc_start' = s /\ current_start' = s /\ buf' = <<>>
  BY <1>2 DEF DocStarts, Doc!Starts, delimVars
<1>4. DocReads(text, s, s, DelimBytes', strip_tab, s, <<>>, s)
  BY <1>1, DocReadsStart
<1>5. DocAt(text, s, DelimBytes', strip_tab, "line", s, s, <<>>, doc')
  BY <1>4 DEF DocAt
<1>. QED
  BY <1>1, <1>2, <1>3, <1>5 DEF DocInv

LEMMA DocNext == PosInv /\ DelimInv /\ DocInv /\ [Next]_vars => DocInv'
<1>. SUFFICES ASSUME PosInv, DelimInv, DocInv, [Next]_vars PROVE DocInv'
  OBVIOUS
<1>1. CASE InDoc
  <2>1. call = "doc" /\ Doc!Next /\ UNCHANGED <<call, full, strip_tab, delim>>
    BY <1>1 DEF InDoc, delimVars
  <2>2. UNCHANGED <<text, here_doc_start>>
    BY <2>1 DEF Doc!Next, Doc!LeadingTabs, Doc!NoEnd, Doc!Terminator, Doc!BodyLine
  <2>3. DocState(here_doc_start, DelimBytes)
    <3>1. text \in Seq(STRING) /\ Len(text) \in Nat /\ s \in 0..Len(text) /\ delim \in Seq(Nat)
      BY TextIs DEF PosInv
    <3>2. delim # <<>> /\ here_doc_start \in 0..Len(text)
      BY <2>1 DEF DocInv
    <3>3. Len(DelimBytes) = Len(delim) /\ Len(delim) \in Nat \ {0}
      BY <3>1, <3>2 DEF DelimBytes
    <3>. QED
      BY <2>1, <2>2, <3>1, <3>2, <3>3 DEF DocInv, DocState
  <2>4. DocAt(text, here_doc_start, DelimBytes, strip_tab, pc', s', current_start', buf', doc')
    BY <2>1, <2>3, DocTabs, DocEnds DEF Doc!Next
  <2>5. DelimBytes' = DelimBytes
    BY <2>1 DEF DelimBytes
  <2>. QED
    BY <2>1, <2>2, <2>4, <2>5 DEF DocInv
<1>2. CASE DelimOverCopy \/ LineOverDoc
  BY <1>2, DocCalled
<1>3. CASE UNCHANGED vars
  <2>1. UNCHANGED <<call, text, s, pc, full, strip_tab, delim, here_doc_start, current_start, buf, doc>>
    BY <1>3 DEF vars, scanning, delimVars, docVars
  <2>2. DelimBytes' = DelimBytes
    BY <2>1 DEF DelimBytes
  <2>. QED
    BY <2>1, <2>2 DEF DocInv
<1>4. CASE InOptions \/ InWords \/ InDelim \/ InLine
  BY <1>4 DEF InOptions, InWords, InDelim, InLine, DocInv
<1>5. CASE \/ OptionsOverCopy \/ WordsOver \/ SourceIsPath \/ SourceIsDelim \/ DelimIsNone
           \/ SourcesOver
  BY <1>5 DEF OptionsOverCopy, WordsOver, SourceIsPath, SourceIsDelim, DelimIsNone, SourcesOver,
              Fail, DocInv
<1>6. CASE OptionsOverRun \/ DelimOverRun \/ LineOver \/ DocOver \/ DocFails \/ DelimFails
  BY <1>6 DEF OptionsOverRun, DelimOverRun, LineOver, DocOver, DocFails, DelimFails, Fail, DocInv
<1>. QED
  BY <1>1, <1>2, <1>3, <1>4, <1>5, <1>6 DEF Next

-----------------------------------------------------------------------------
(* The words of a COPY, after the flags, and the end of its line.           *)
OfFlags(t, q) ==
  /\ q \in Seq(Span)
  /\ FlagWords(t) \in Seq(SUBSET Nat) /\ Len(FlagWords(t)) = Len(q)
  /\ \A k \in 1..Len(q) : FlagWords(t)[k] = WordAt(t, q[k])

OverAt(t, i) == i = Len(t) \/ At(t, i, {"lf"})

(* The phases of Words, when the words so far and the flags before them     *)
(* are r.                                                                   *)
WordsAt(t, r, p, i, space, j, w, b) ==
  /\ p = "word" =>
       /\ Scanned(t, j, w, b, i) /\ ~At(t, j, Whitespace)
       /\ Divided(t, r, j) /\ (Parted(t, r, j) \/ OverAt(t, j))
  /\ p = "gap" =>
       /\ Walk(t, i) /\ Divided(t, r, i)
       /\ IF space THEN Parted(t, r, i) ELSE i = Len(t) \/ At(t, i, WordEnd)
  /\ p = "line" => Walk(t, i) /\ Divided(t, r, i) /\ OverAt(t, i)
  /\ p \in {"done", "empty"} => i = After(t) /\ Divided(t, r, Len(t))

KeptOf(t, list) == \A k \in 1..Len(list) : Collects(t, list[k].value, list[k].start, list[k].end)

(* Afterwards nothing changes them.                                         *)
AfterWords == kind = "COPY" /\ call \in {"sources", "delim", "doc", "done", "failed"}

WordsInv ==
  /\ call \in {"options", "words"} => src = <<>>
  /\ call = "options" => res = <<>>
  /\ call = "line" => kind = "RUN"
  /\ call = "words" \/ AfterWords => KeptOf(text, res)
  /\ call = "words" =>
       \E q : /\ OfFlags(text, q)
              /\ WordsAt(text, q \o res, pc, s, has_space, start, word_start, buf)
  /\ AfterWords => \E q : OfFlags(text, q) /\ Divided(text, q \o res, Len(text))

LEMMA JoinMore ==
  ASSUME NEW S, NEW q \in Seq(S), NEW T, NEW list \in Seq(T), NEW e,
         NEW more, more = Append(list, e), NEW r, r = q \o list, NEW r2, r2 = q \o more
  PROVE  /\ Len(r2) = Len(r) + 1
         /\ \A k \in 1..Len(r) : r2[k] = r[k]
         /\ r2[Len(r) + 1] = e
<1>. DEFINE U == S \cup T \cup {e}
<1>1. q \in Seq(U) /\ list \in Seq(U) /\ e \in U
  BY SeqMore
<1>2. more \in Seq(U) /\ Len(more) = Len(list) + 1
      /\ \A k \in 1..Len(list) : more[k] = list[k]
      /\ more[Len(list) + 1] = e
  BY <1>1, AppendProperties
<1>. HIDE DEF U
<1>. QED
  BY <1>1, <1>2

(* What the steps of collect_space_separated need to know.                  *)
WordState(r) ==
  /\ Len(text) \in Nat /\ s \in 0..Len(text)
  /\ WordsAt(text, r, pc, s, has_space, start, word_start, buf)
  /\ text' = text

LEMMA InWordRead ==
  ASSUME NEW r, WordState(r), Wrd!InWord
  PROVE  WordsAt(text, r, pc', s', has_space', start', word_start', buf')
<1>1. /\ Len(text) \in Nat /\ s \in 0..Len(text)
      /\ pc = "word" /\ UNCHANGED <<text, has_space, start, pc>>
      /\ Wrd!WordContinued \/ Wrd!WordByte(Wrd!WordEnd)
  BY DEF WordState, Wrd!InWord, Wrd!WordContinued, Wrd!WordByte
<1>2. /\ Scanned(text, start, word_start, buf, s) /\ ~At(text, start, Whitespace)
      /\ Divided(text, r, start) /\ (Parted(text, r, start) \/ OverAt(text, start))
  BY <1>1 DEF WordState, WordsAt
<1>3. Scanned(text, start, word_start', buf', s')
  <2>1. CASE Wrd!WordContinued
    <3>1. Continues(text, s) /\ s' = Continuation(text, s) /\ word_start' = s'
          /\ buf' = buf \o Piece(word_start, s)
      BY <2>1, WrdScans, PiecesAre DEF Wrd!WordContinued
    <3>. QED
      BY <1>1, <1>2, <3>1, ScannedContinued
  <2>2. CASE Wrd!WordByte(Wrd!WordEnd)
    <3>1. s < Len(text) /\ ~Continues(text, s) /\ s' = s + 1 /\ UNCHANGED <<word_start, buf>>
          /\ text[s + 1] \notin Whitespace /\ text[s + 1] # "lf"
      BY <2>2, WrdScans DEF Wrd!WordByte, Wrd!WordEnd, Wrd!At, Wrd!PossibleLine, Wrd!Whitespace,
                            Whitespace
    <3>. QED
      BY <1>1, <1>2, <3>1, ScannedByte
  <2>. QED
    BY <1>1, <2>1, <2>2
<1>. QED
  BY <1>1, <1>2, <1>3 DEF WordsAt

LEMMA WordRead ==
  ASSUME NEW q \in Seq(Span), WordState(q \o res), Wrd!WordEnds, res \in Seq(WordOf),
         KeptOf(text, res)
  PROVE  /\ WordsAt(text, q \o res', pc', s', has_space', start', word_start', buf')
         /\ KeptOf(text, res')
<1>. DEFINE r == q \o res
            value == Gathered(start, word_start, buf, s)
            word == [value |-> value, start |-> start, end |-> s]
<1>1. /\ Len(text) \in Nat /\ s \in 0..Len(text)
      /\ pc = "word" /\ UNCHANGED <<text, s, start, word_start, buf>>
      /\ s = Len(text) \/ At(text, s, WordEnd)
      /\ has_space' = FALSE
  BY DEF WordState, Wrd!WordEnds, Wrd!WordOver, Wrd!WordEnd, WordEnd, Wrd!At, At, Wrd!Whitespace,
         Whitespace, Wrd!PossibleLine, PossibleLine
<1>2. IF value = <<>> THEN pc' = "line" /\ UNCHANGED res
      ELSE pc' = "gap" /\ res' = Append(res, word)
  <2>1. Wrd!Value = value
    BY PiecesAre DEF Wrd!Value, Gathered
  <2>2. Wrd!Unescaped = word
    BY <2>1 DEF Wrd!Unescaped
  <2>. QED
    BY <2>1, <2>2 DEF Wrd!WordEnds
<1>3. /\ Scanned(text, start, word_start, buf, s) /\ ~At(text, start, Whitespace)
      /\ Divided(text, r, start) /\ (Parted(text, r, start) \/ OverAt(text, start))
  BY <1>1 DEF WordState, WordsAt
<1>. HIDE DEF r
<1>4. /\ Collects(text, value, start, s)
      /\ value = <<>> <=> s = start
      /\ s # start => WordSpan(text, start, s)
      /\ Walk(text, s)
  BY <1>1, <1>3, ScannedIs DEF Scanned, Collecting
<1>. HIDE DEF value
<1>5. CASE value = <<>>
  <2>1. OverAt(text, s)
    BY <1>1, <1>3, <1>4, <1>5 DEF OverAt, WordEnd, At, Whitespace, PossibleLine
  <2>2. WordsAt(text, r, pc', s', has_space', start', word_start', buf')
    BY <1>1, <1>2, <1>3, <1>4, <1>5, <2>1 DEF WordsAt
  <2>. QED
    BY <1>2, <1>5, <2>2 DEF r
<1>6. CASE value # <<>>
  <2>. DEFINE more == q \o res'
  <2>1. pc' = "gap" /\ res' = Append(res, word)
    BY <1>2, <1>6
  <2>2. /\ Len(more) = Len(r) + 1 /\ \A k \in 1..Len(r) : more[k] = r[k]
        /\ more[Len(r) + 1].start = start /\ more[Len(r) + 1].end = s
    <3>1. ASSUME NEW e, e = word
          PROVE  /\ Len(more) = Len(r) + 1 /\ \A k \in 1..Len(r) : more[k] = r[k]
                 /\ more[Len(r) + 1] = e
      BY <2>1, <3>1, JoinMore DEF r
    <3>2. word.start = start /\ word.end = s
      OBVIOUS
    <3>. HIDE DEF word, more
    <3>. QED
      BY <3>1, <3>2
  <2>. HIDE DEF more
  <2>3. WordSpan(text, start, s) /\ start \in Nat /\ s \in Nat
    BY <1>4, <1>6 DEF WordSpan
  <2>4. Parted(text, r, start)
    <3>1. ~OverAt(text, start)
      BY <1>1, <2>3 DEF OverAt, At, WordSpan, Belongs, BelongsTo
    <3>. QED
      BY <1>3, <3>1
  <2>5. Divided(text, more, s)
    BY <1>3, <2>2, <2>3, <2>4, DividedMore DEF Parted
  <2>6. WordsAt(text, more, pc', s', has_space', start', word_start', buf')
    BY <1>1, <1>4, <2>1, <2>5 DEF WordsAt
  <2>7. KeptOf(text, res')
    <3>1. /\ Len(res') = Len(res) + 1 /\ \A k \in 1..Len(res) : res'[k] = res[k]
          /\ res'[Len(res) + 1].value = value /\ res'[Len(res) + 1].start = start
          /\ res'[Len(res) + 1].end = s
      BY <2>1
    <3>2. ASSUME NEW k \in 1..Len(res')
          PROVE  Collects(text, res'[k].value, res'[k].start, res'[k].end)
      <4>1. k \in 1..Len(res) \/ k = Len(res) + 1
        BY <3>1
      <4>. QED
        BY <1>4, <3>1, <4>1 DEF KeptOf
    <3>. QED
      BY <3>2 DEF KeptOf
  <2>. QED
    BY <2>6, <2>7 DEF more
<1>. QED
  BY <1>5, <1>6

LEMMA GapRead ==
  ASSUME NEW r, WordState(r), Wrd!InGap
  PROVE  WordsAt(text, r, pc', s', has_space', start', word_start', buf')
<1>1. /\ Len(text) \in Nat /\ s \in 0..Len(text) /\ s \in Nat
      /\ pc = "gap" /\ pc' = "gap"
      /\ Wrd!GapBlank \/ Wrd!GapContinued
  BY DEF WordState, Wrd!InGap
<1>2. /\ Walk(text, s) /\ Divided(text, r, s)
      /\ IF has_space THEN Parted(text, r, s) ELSE s = Len(text) \/ At(text, s, WordEnd)
  BY <1>1 DEF WordState, WordsAt
<1>3. \A k \in 1..Len(r) : r[k].end \in Nat /\ r[k].end \in 0..s
  BY <1>1, <1>2 DEF Divided, WordSpan
<1>4. CASE Wrd!GapBlank
  <2>1. At(text, s, Whitespace) /\ s' = s + 1 /\ has_space' = TRUE
    BY <1>4 DEF Wrd!GapBlank, Wrd!At, At, Wrd!Whitespace, Whitespace
  <2>2. /\ Walk(text, s + 1) /\ \A b \in s..(s + 1) - 1 : ~SolidAt(text, b)
        /\ \A i \in 0..s : Apart(text, i, s + 1)
    BY <1>1, <1>2, <2>1, GapByte
  <2>3. Divided(text, r, s + 1)
    BY <1>1, <1>2, <2>2, DividedSkip
  <2>4. Parted(text, r, s + 1)
    BY <1>3, <2>2 DEF Parted
  <2>. QED
    BY <1>1, <2>1, <2>2, <2>3, <2>4 DEF WordsAt
<1>5. CASE Wrd!GapContinued
  <2>. DEFINE n == Continuation(text, s)
  <2>1. Continues(text, s) /\ s' = n /\ UNCHANGED has_space
    BY <1>5, WrdScans DEF Wrd!GapContinued
  <2>2. n \in Nat /\ At(text, s, {"esc"})
    <3>1. n \in s..Len(text) /\ At(text, s, {"esc"})
      BY <1>1, <2>1, ContinuationAdvances
    <3>. QED
      BY <1>1, <3>1
  <2>3. /\ Walk(text, n) /\ s <= n
        /\ \A b \in s..n - 1 : ~SolidAt(text, b)
    BY <1>1, <1>2, <2>1, GapContinuation
  <2>. HIDE DEF n
  <2>4. Divided(text, r, n)
    BY <1>1, <1>2, <2>2, <2>3, DividedSkip
  <2>5. has_space
    BY <1>1, <1>2, <2>2 DEF WordEnd, At, Whitespace, PossibleLine
  <2>6. Parted(text, r, n)
    BY <1>1, <1>2, <1>3, <2>2, <2>3, <2>5, ApartGrows DEF Parted
  <2>. QED
    BY <1>1, <2>1, <2>3, <2>4, <2>5, <2>6 DEF WordsAt
<1>. QED
  BY <1>1, <1>4, <1>5

LEMMA GapOverRead ==
  ASSUME NEW r, WordState(r), Wrd!GapEnds
  PROVE  WordsAt(text, r, pc', s', has_space', start', word_start', buf')
<1>1. /\ Len(text) \in Nat /\ s \in 0..Len(text)
      /\ pc = "gap" /\ UNCHANGED <<s, has_space>>
      /\ ~At(text, s, Whitespace) /\ ~Continues(text, s)
      /\ IF has_space THEN pc' = "word" /\ start' = s /\ word_start' = s /\ buf' = <<>>
         ELSE pc' = "line"
  BY WrdScans DEF WordState, Wrd!GapEnds, Wrd!GapOver, Wrd!WordStarts, Wrd!At, At, Wrd!Whitespace,
                  Whitespace
<1>2. /\ Walk(text, s) /\ Divided(text, r, s)
      /\ IF has_space THEN Parted(text, r, s) ELSE s = Len(text) \/ At(text, s, WordEnd)
  BY <1>1 DEF WordState, WordsAt
<1>3. CASE has_space
  <2>1. Scanned(text, s, s, <<>>, s)
    BY <1>1, <1>2, ScannedStart
  <2>. QED
    BY <1>1, <1>2, <1>3, <2>1 DEF WordsAt
<1>4. CASE ~has_space
  <2>1. OverAt(text, s)
    BY <1>1, <1>2, <1>4 DEF OverAt, WordEnd, At, Whitespace, PossibleLine
  <2>. QED
    BY <1>1, <1>2, <1>4, <2>1 DEF WordsAt
<1>. QED
  BY <1>3, <1>4

LEMMA LineRead ==
  ASSUME NEW r, WordState(r), Wrd!LineConsumed
  PROVE  WordsAt(text, r, pc', s', has_space', start', word_start', buf')
<1>1. /\ Len(text) \in Nat /\ s \in 0..Len(text) /\ s \in Nat
      /\ pc = "line" /\ s' = Newline(text, s)
      /\ pc' \in {"stray", "empty", "done"}
  BY WrdScans DEF WordState, Wrd!LineConsumed
<1>2. Walk(text, s) /\ Divided(text, r, s) /\ OverAt(text, s)
  BY <1>1 DEF WordState, WordsAt
<1>3. Newline(text, s) = After(text) /\ \A b \in s..Len(text) - 1 : ~Belongs(text, b)
  BY <1>1, <1>2, WalkOver DEF OverAt
<1>4. Divided(text, r, Len(text))
  BY <1>1, <1>2, <1>3, DividedSkip DEF SolidAt
<1>. QED
  BY <1>1, <1>3, <1>4 DEF WordsAt

(* The words start where the flags end.                                     *)
LEMMA WordsStart ==
  ASSUME PosInv, FlagsInv, WordsInv, OptionsOverCopy
  PROVE  WordsInv'
<1>1. /\ call = "options" /\ pc = "done" /\ call' = "words" /\ pc' = "word"
      /\ UNCHANGED <<text, s, res, src>> /\ start' = s /\ word_start' = s /\ buf' = <<>>
  BY DEF OptionsOverCopy, WordStarts, instruction
<1>2. src = <<>> /\ res = <<>>
  BY <1>1 DEF WordsInv
<1>3. ArgsFrom(text, s)
  BY <1>1 DEF FlagsInv, FlagsOverInv
<1>4. PICK q \in Seq(Span) :
        /\ Divided(text, q, s) /\ (Parted(text, q, s) \/ OverAt(text, s))
        /\ OfFlags(text, q)
  BY <1>3 DEF ArgsFrom, OfFlags, OverAt
<1>5. q \o <<>> = q
  OBVIOUS
<1>6. Scanned(text, s, s, <<>>, s) /\ ~At(text, s, Whitespace)
  BY <1>3, ScannedStart DEF ArgsFrom
<1>7. WordsAt(text, q \o <<>>, "word", s, has_space', s, s, <<>>)
  BY <1>4, <1>5, <1>6 DEF WordsAt
<1>8. KeptOf(text, <<>>)
  BY DEF KeptOf
<1>. QED
  BY <1>1, <1>2, <1>4, <1>7, <1>8 DEF WordsInv, AfterWords

LEMMA WordsNext == PosInv /\ FlagsInv /\ WordsInv /\ [Next]_vars => WordsInv'
<1>. SUFFICES ASSUME PosInv, FlagsInv, WordsInv, [Next]_vars PROVE WordsInv'
  OBVIOUS
<1>1. CASE InWords
  <2>1. /\ call = "words" /\ call' = call /\ Wrd!Next /\ UNCHANGED src
    BY <1>1 DEF InWords, instruction
  <2>2. text' = text
    BY <2>1 DEF Wrd!Next, Wrd!InWord, Wrd!WordContinued, Wrd!WordByte, Wrd!WordEnds, Wrd!InGap,
                Wrd!GapBlank, Wrd!GapContinued, Wrd!GapEnds, Wrd!LineConsumed
  <2>3. PICK q : /\ OfFlags(text, q)
                 /\ WordsAt(text, q \o res, pc, s, has_space, start, word_start, buf)
    BY <2>1 DEF WordsInv
  <2>4. /\ WordState(q \o res) /\ q \in Seq(Span) /\ res \in Seq(WordOf)
        /\ KeptOf(text, res)
    BY <2>1, <2>2, <2>3, InputsAreSequences DEF PosInv, WordsInv, WordState, OfFlags
  <2>5. /\ WordsAt(text, q \o res', pc', s', has_space', start', word_start', buf')
        /\ KeptOf(text, res')
    <3>1. CASE Wrd!WordEnds
      BY <2>4, <3>1, WordRead
    <3>2. CASE Wrd!InWord \/ Wrd!InGap \/ Wrd!GapEnds \/ Wrd!LineConsumed
      <4>1. res' = res
        BY <3>2 DEF Wrd!InWord, Wrd!InGap, Wrd!GapEnds, Wrd!LineConsumed
      <4>. QED
        BY <2>4, <3>2, <4>1, InWordRead, GapRead, GapOverRead, LineRead
    <3>. QED
      BY <2>1, <3>1, <3>2 DEF Wrd!Next
  <2>. QED
    BY <2>1, <2>2, <2>3, <2>5 DEF WordsInv, AfterWords
<1>2. CASE OptionsOverCopy
  BY <1>2, WordsStart
<1>3. CASE UNCHANGED vars
  <2>1. UNCHANGED <<text, s, has_space, start, word_start, buf, pc, call, kind, res, src>>
    BY <1>3 DEF vars, scanning, instruction
  <2>. QED
    BY <2>1 DEF WordsInv, AfterWords
<1>4. CASE WordsOver
  <2>1. /\ call = "words" /\ pc \in {"done", "empty"} /\ call' \in {"sources", "failed"}
        /\ UNCHANGED <<text, res, kind>>
    BY <1>4 DEF WordsOver, Fail, scanning
  <2>2. \E q : OfFlags(text, q) /\ Divided(text, q \o res, Len(text))
    BY <2>1 DEF WordsInv, WordsAt
  <2>. QED
    BY <2>1, <2>2 DEF WordsInv, AfterWords
<1>5. CASE InOptions \/ OptionsOverRun
  <2>1. /\ call = "options" /\ call' \notin {"words", "sources", "doc", "done", "failed"}
        /\ UNCHANGED <<res, src, kind>> /\ (call' # "options" => kind = "RUN")
    BY <1>5 DEF InOptions, OptionsOverRun, instruction
  <2>. QED
    BY <2>1 DEF WordsInv, AfterWords
<1>6. CASE InDelim \/ InDoc \/ SourceIsPath \/ SourceIsDelim \/ DelimIsNone \/ DelimOverCopy
           \/ SourcesOver
  <2>1. /\ AfterWords' => AfterWords
        /\ call' \notin {"options", "words", "line"} /\ UNCHANGED <<text, res>>
    BY <1>6 DEF InDelim, InDoc, SourceIsPath, SourceIsDelim, DelimIsNone, DelimOverCopy, SourcesOver,
                DocStarts, AfterWords, PosInv, instruction, scanning, Doc!Next, Doc!LeadingTabs,
                Doc!NoEnd, Doc!Terminator, Doc!BodyLine
  <2>. QED
    BY <2>1 DEF WordsInv, AfterWords
<1>7. CASE InLine \/ DelimOverRun \/ LineOverDoc \/ LineOver
  <2>1. kind = "RUN" /\ kind' = kind /\ call' \notin {"options", "words"}
    BY <1>7 DEF InLine, DelimOverRun, LineOverDoc, LineOver, DocStarts, instruction, WordsInv
  <2>. QED
    BY <2>1 DEF WordsInv, AfterWords
<1>8. CASE DocOver \/ DocFails \/ DelimFails
  <2>1. /\ AfterWords' => AfterWords
        /\ call' \notin {"options", "words", "line"} /\ UNCHANGED <<text, res>>
    BY <1>8 DEF DocOver, DocFails, DelimFails, Fail, AfterWords, scanning
  <2>. QED
    BY <2>1 DEF WordsInv, AfterWords
<1>. QED
  BY <1>1, <1>2, <1>3, <1>4, <1>5, <1>6, <1>7, <1>8 DEF Next

-----------------------------------------------------------------------------
(* The line of a RUN, which goes on behind the delimiter as if it started   *)
(* there: the phases of consume_current_line, called at o.                  *)
LineAt(t, o, p, i, only) ==
  /\ o \in 0..Len(t) /\ i \in o..Len(t)
  /\ p = "line" =>
       /\ Walk(Left(t, o), i - o)
       /\ only => AfterWhitespace(Left(t, o), i - o)
  /\ p \in {"trim", "done", "empty"} => i - o = After(Left(t, o))

LineBase == IF delim = <<>> THEN 0 ELSE arguments_start

RunInv ==
  /\ call = "options" => delim = <<>>
  /\ call = "delim" /\ kind = "RUN" => Walk(text, s)
  /\ call = "line" => LineAt(text, LineBase, pc, s, has_whitespace_only)

LEMMA LineRuns ==
  ASSUME text \in Seq(STRING), NEW o, LineAt(text, o, pc, s, has_whitespace_only), Cur!Next
  PROVE  LineAt(text, o, pc', s', has_whitespace_only')
<1>. DEFINE i == s - o
<1>1. o \in 0..Len(text) /\ s \in o..Len(text)
  BY DEF LineAt
<1>2. PICK u : u = Left(text, o)
  OBVIOUS
<1>3. /\ Len(text) \in Nat /\ Len(u) = Len(text) - o /\ Len(u) \in Nat
      /\ \A j \in Nat : \A C : At(u, j, C) <=> At(text, o + j, C)
  BY <1>1, <1>2, LeftIs
<1>4. i \in 0..Len(u) /\ i \in Nat /\ o + i = s /\ o \in Nat /\ s \in Nat
  BY <1>1, <1>3
<1>. HIDE DEF i
<1>5. /\ \A C : At(u, i, C) <=> At(text, s, C)
      /\ Newline(text, s) = o + Newline(u, i)
      /\ Continuation(text, s) = o + Continuation(u, i)
      /\ Continues(text, s) <=> Continues(u, i)
  BY <1>1, <1>2, <1>3, <1>4, LeftNewline, LeftContinuation
<1>6. pc = "line" => Walk(u, i) /\ (has_whitespace_only => AfterWhitespace(u, i))
  BY <1>2 DEF LineAt, i
<1>7. CASE Cur!LineEnds
  <2>1. /\ pc = "line" /\ pc' = "trim" /\ UNCHANGED has_whitespace_only
        /\ s' = Newline(text, s) /\ (s = Len(text) \/ Newline(text, s) # s)
    BY <1>7, CurScans DEF Cur!LineEnds
  <2>2. Newline(u, i) \in i..Len(u)
    BY <1>3, <1>4, NewlineAdvances
  <2>3. Newline(u, i) = After(u)
    <3>1. CASE Newline(u, i) # i
      BY <1>3, <1>6, <2>1, <3>1, WalkNewline
    <3>2. CASE Newline(u, i) = i
      <4>1. i = Len(u)
        BY <1>3, <1>4, <1>5, <2>1, <3>2
      <4>. QED
        BY <1>3, <1>6, <2>1, <3>2, <4>1, WalkEnd
    <3>. QED
      BY <3>1, <3>2
  <2>4. s' \in o..Len(text) /\ s' - o = Newline(u, i)
    BY <1>3, <1>4, <1>5, <2>1, <2>2
  <2>. QED
    BY <1>1, <1>2, <2>1, <2>3, <2>4 DEF LineAt
<1>8. CASE Cur!LineContinued
  <2>1. /\ pc = "line" /\ pc' = "line" /\ has_whitespace_only' = TRUE
        /\ Continues(text, s) /\ s' = Continuation(text, s)
    BY <1>8, CurScans DEF Cur!LineContinued
  <2>2. Walk(u, Continuation(u, i)) /\ Continuation(u, i) \in i..Len(u)
    BY <1>3, <1>4, <1>5, <1>6, <2>1, WalkContinued, ContinuationAdvances
  <2>3. AfterWhitespace(u, Continuation(u, i))
    <3>1. ~Skipped(u, Continuation(u, i))
      BY <1>3, <1>4, <1>5, <2>1, ContinuationStops
    <3>2. Continuation(u, i) \in 0..Continuation(u, i)
          /\ \A b : b \notin Continuation(u, i)..Continuation(u, i) - 1
      BY <1>3, <1>4, <2>2
    <3>. QED
      BY <3>1, <3>2 DEF AfterWhitespace
  <2>4. s' \in o..Len(text) /\ s' - o = Continuation(u, i)
    BY <1>3, <1>4, <1>5, <2>1, <2>2
  <2>. QED
    BY <1>1, <1>2, <2>1, <2>2, <2>3, <2>4 DEF LineAt
<1>9. CASE Cur!LineByte
  <2>1. /\ pc = "line" /\ pc' = "line" /\ s < Len(text)
        /\ Newline(text, s) = s /\ ~Continues(text, s)
    BY <1>9, CurScans DEF Cur!LineByte
  <2>2. ~(has_whitespace_only /\ At(text, s, {"hash"}))
    BY <1>3, <1>4, <1>5, <1>6, <2>1, NoCommentBehind
  <2>3. s' = s + 1 /\ has_whitespace_only' = (has_whitespace_only /\ At(text, s, Whitespace))
    BY <1>9, <2>2 DEF Cur!LineByte, Cur!AtComment, Cur!At, At, Cur!Whitespace, Whitespace
  <2>4. i < Len(u) /\ Newline(u, i) = i /\ ~Continues(u, i) /\ u[i + 1] # "lf"
    <3>1. i < Len(u) /\ ~Continues(u, i)
      BY <1>3, <1>4, <1>5, <2>1
    <3>2. Newline(u, i) \in i..Len(u)
      BY <1>3, <1>4, NewlineAdvances
    <3>3. Newline(u, i) = i
      BY <1>3, <1>4, <1>5, <2>1, <3>2
    <3>. QED
      BY <1>4, <3>1, <3>3 DEF Newline, At
  <2>5. Walk(u, i + 1)
    BY <1>3, <1>6, <2>1, <2>4, WalkByte
  <2>6. has_whitespace_only' => AfterWhitespace(u, i + 1)
    <3>1. SUFFICES ASSUME has_whitespace_only, At(u, i, Whitespace)
                   PROVE  AfterWhitespace(u, i + 1)
      BY <1>5, <2>3
    <3>2. PICK c \in 0..i : ~Skipped(u, c) /\ \A b \in c..i - 1 : At(u, b, Whitespace)
      BY <1>6, <2>1, <3>1 DEF AfterWhitespace
    <3>3. c \in 0..i + 1 /\ \A b \in c..(i + 1) - 1 : b = i \/ b \in c..i - 1
      BY <1>4, <3>2
    <3>. QED
      BY <3>1, <3>2, <3>3 DEF AfterWhitespace
  <2>7. s' \in o..Len(text) /\ s' - o = i + 1
    BY <1>1, <1>3, <1>4, <2>1, <2>3
  <2>. QED
    BY <1>1, <1>2, <2>1, <2>5, <2>6, <2>7 DEF LineAt
<1>10. CASE Cur!TrimEnd
  <2>1. pc = "trim" /\ pc' \in {"empty", "done"} /\ UNCHANGED <<s, has_whitespace_only>>
    BY <1>10 DEF Cur!TrimEnd
  <2>. QED
    BY <2>1 DEF LineAt
<1>. QED
  BY <1>7, <1>8, <1>9, <1>10 DEF Cur!Next

LEMMA LineCalled ==
  ASSUME PosInv, FlagsInv, DelimInv, RunInv, OptionsOverRun \/ DelimOverRun
  PROVE  RunInv'
<1>1. text \in Seq(STRING) /\ Len(text) \in Nat /\ s \in 0..Len(text)
  BY TextIs DEF PosInv
<1>2. CASE OptionsOverRun
  <2>1. call = "options" /\ pc = "done" /\ UNCHANGED <<text, s>>
    BY <1>2 DEF OptionsOverRun
  <2>2. Walk(text, s)
    BY <2>1 DEF FlagsInv, FlagsOverInv, ArgsFrom
  <2>3. CASE AtDelim
    <3>1. call' = "delim"
      BY <1>2, <2>3 DEF OptionsOverRun
    <3>. QED
      BY <2>1, <2>2, <3>1 DEF RunInv
  <2>4. CASE ~AtDelim
    <3>1. /\ call' = "line" /\ pc' = "line" /\ has_whitespace_only' = FALSE
          /\ delim' = delim /\ delim = <<>>
      BY <1>2, <2>1, <2>4 DEF OptionsOverRun, Cur!Starts, delimVars, RunInv
    <3>2. LineBase' = 0 /\ Left(text, 0) = text /\ s - 0 = s /\ s \in 0..Len(text) /\ 0 \in 0..Len(text)
      BY <1>1, <3>1, LeftAll DEF LineBase
    <3>3. LineAt(text, 0, "line", s, FALSE)
      BY <2>2, <3>2 DEF LineAt
    <3>. QED
      BY <2>1, <3>1, <3>2, <3>3 DEF RunInv
  <2>. QED
    BY <2>3, <2>4
<1>3. CASE DelimOverRun
  <2>1. /\ call = "delim" /\ kind = "RUN" /\ pc \in {"here_doc", "none"}
        /\ call' = "line" /\ pc' = "line" /\ has_whitespace_only' = FALSE
        /\ s' = (IF pc = "here_doc" THEN s_next ELSE s) /\ arguments_start' = s'
        /\ UNCHANGED <<text, delim>>
    BY <1>3 DEF DelimOverRun, Cur!Starts, delimVars
  <2>2. pc = "none" <=> delim = <<>>
    BY <2>1 DEF DelimInv, Dlm!DelimOfTheWord
  <2>3. CASE pc = "none"
    <3>1. LineBase' = 0 /\ Left(text, 0) = text /\ s' = s /\ s - 0 = s /\ s \in 0..Len(text)
          /\ 0 \in 0..Len(text)
      BY <1>1, <2>1, <2>2, <2>3, LeftAll DEF LineBase
    <3>2. Walk(text, s)
      BY <2>1 DEF RunInv
    <3>3. LineAt(text, 0, "line", s, FALSE)
      BY <3>1, <3>2 DEF LineAt
    <3>. QED
      BY <2>1, <3>1, <3>3 DEF RunInv
  <2>4. CASE pc = "here_doc"
    <3>1. LineBase' = s_next /\ s' = s_next
      BY <2>1, <2>2, <2>4 DEF LineBase
    <3>2. s_next \in 0..Len(text)
      BY <2>1 DEF PosInv, DelimPositions
    <3>3. Len(Left(text, s_next)) \in Nat
      BY <1>1, <3>2, LeftIs
    <3>4. Walk(Left(text, s_next), 0) /\ s_next - s_next = 0 /\ s_next \in s_next..Len(text)
      BY <1>1, <3>2, <3>3, WalkStart
    <3>5. LineAt(text, s_next, "line", s_next, FALSE)
      BY <3>2, <3>4 DEF LineAt
    <3>. QED
      BY <2>1, <3>1, <3>5 DEF RunInv
  <2>. QED
    BY <2>1, <2>3, <2>4
<1>. QED
  BY <1>2, <1>3

LEMMA RunNext == PosInv /\ FlagsInv /\ DelimInv /\ RunInv /\ [Next]_vars => RunInv'
<1>. SUFFICES ASSUME PosInv, FlagsInv, DelimInv, RunInv, [Next]_vars PROVE RunInv'
  OBVIOUS
<1>1. CASE InLine
  <2>1. call = "line" /\ call' = call /\ Cur!Next /\ UNCHANGED delim
    BY <1>1 DEF InLine, delimVars
  <2>2. UNCHANGED <<text, arguments_start>>
    BY <2>1 DEF Cur!Next, Cur!LineEnds, Cur!LineContinued, Cur!LineByte, Cur!TrimEnd
  <2>3. LineAt(text, LineBase, pc', s', has_whitespace_only')
    <3>1. text \in Seq(STRING)
      BY TextIs DEF PosInv
    <3>. QED
      BY <2>1, <3>1, LineRuns DEF RunInv
  <2>. QED
    BY <2>1, <2>2, <2>3 DEF RunInv, LineBase
<1>2. CASE OptionsOverRun \/ DelimOverRun
  BY <1>2, LineCalled
<1>3. CASE UNCHANGED vars
  BY <1>3 DEF vars, scanning, delimVars, lineVars, instruction, RunInv, LineBase
<1>4. CASE InOptions \/ InWords \/ InDelim \/ InDoc
  BY <1>4 DEF InOptions, InWords, InDelim, InDoc, delimVars, instruction, RunInv
<1>5. CASE OptionsOverCopy \/ SourceIsDelim
  BY <1>5 DEF OptionsOverCopy, SourceIsDelim, instruction, RunInv, PosInv
<1>6. CASE WordsOver \/ SourceIsPath \/ DelimIsNone \/ DelimOverCopy \/ SourcesOver
  BY <1>6 DEF WordsOver, SourceIsPath, DelimIsNone, DelimOverCopy, DocStarts, SourcesOver, Fail,
              RunInv
<1>7. CASE LineOverDoc \/ LineOver \/ DocOver \/ DocFails \/ DelimFails
  BY <1>7 DEF LineOverDoc, LineOver, DocStarts, DocOver, DocFails, DelimFails, Fail, RunInv
<1>. QED
  BY <1>1, <1>2, <1>3, <1>4, <1>5, <1>6, <1>7 DEF Next

-----------------------------------------------------------------------------
(* One here-document after the other: where the line after the k-th source  *)
(* of a list is, if the line of the instruction ends at e.                  *)
LastOf(t, from, d) == Min(EndLines(t, from, d.delim, d.strip_tab))
AfterDoc(t, d) == NextLine(t, Untabbed(t, LastOf(t, d.start, d), d.strip_tab) + Len(d.delim))
AfterAll(t, list, e, k) ==
  LET docs == {j \in 1..k : list[j].delim # <<>>}
  IN IF docs = {} THEN e ELSE AfterDoc(t, list[Max(docs)])
IsDocOf(t, from, d) ==
  /\ EndLines(t, from, d.delim, d.strip_tab) # {}
  /\ d.start = from
  /\ d.end = Untabbed(t, LastOf(t, from, d), d.strip_tab)
  /\ Spells(d.value, Body(t, from, LastOf(t, from, d), d.strip_tab))
DocsAre(t, list, e) ==
  \A k \in 1..Len(list) : list[k].delim # <<>> => IsDocOf(t, AfterAll(t, list, e, k - 1), list[k])

LEMMA ChainReference ==
  /\ \A k : AfterSource(k) = AfterAll(text, src, EndOfLine, k)
  /\ \A from, d : IsDocFrom(from, d) <=> IsDocOf(text, from, d)
<1>1. \A from, d : TerminatorOf(from, d) = LastOf(text, from, d)
  BY DocReference DEF TerminatorOf, LastOf
<1>2. ASSUME NEW d
      PROVE  Doc!AfterTerminator(TerminatorOf(d.start, d), d.delim, d.strip_tab) = AfterDoc(text, d)
  BY <1>1, DocReference DEF AfterDoc
<1>3. ASSUME NEW k
      PROVE  AfterSource(k) = AfterAll(text, src, EndOfLine, k)
  BY <1>2 DEF AfterSource, AfterAll
<1>4. ASSUME NEW from, NEW d
      PROVE  IsDocFrom(from, d) <=> IsDocOf(text, from, d)
  BY <1>1, DocReference DEF IsDocFrom, IsDocOf
<1>. QED
  BY <1>3, <1>4

LEMMA AfterPrefix ==
  ASSUME NEW t, NEW list, NEW e, NEW more, NEW n \in Nat, \A j \in 1..n : more[j] = list[j]
  PROVE  \A k \in 0..n : AfterAll(t, more, e, k) = AfterAll(t, list, e, k)
<1>. DEFINE docs(l, k) == {j \in 1..k : l[j].delim # <<>>}
<1>. SUFFICES ASSUME NEW k \in 0..n
              PROVE  AfterAll(t, more, e, k) = AfterAll(t, list, e, k)
  OBVIOUS
<1>1. docs(more, k) = docs(list, k) /\ docs(list, k) \in SUBSET (0..k) /\ k \in Nat
  OBVIOUS
<1>2. docs(list, k) # {} => Max(docs(list, k)) \in 1..k
  <2>1. \A x : x \in docs(list, k) => x \in 1..k
    OBVIOUS
  <2>. HIDE DEF docs
  <2>. QED
    BY <1>1, <2>1, MaxIs
<1>3. docs(list, k) # {} => more[Max(docs(list, k))] = list[Max(docs(list, k))]
  <2>. HIDE DEF docs
  <2>. QED
    BY <1>1, <1>2
<1>. QED
  BY <1>1, <1>3 DEF AfterAll

LEMMA AfterPath ==
  ASSUME NEW t, NEW list, NEW e, NEW n \in Nat, list[n + 1].delim = <<>>
  PROVE  AfterAll(t, list, e, n + 1) = AfterAll(t, list, e, n)
<1>1. {j \in 1..n + 1 : list[j].delim # <<>>} = {j \in 1..n : list[j].delim # <<>>}
  OBVIOUS
<1>. QED
  BY <1>1 DEF AfterAll

LEMMA AfterDocument ==
  ASSUME NEW t, NEW list, NEW e, NEW n \in Nat, list[n + 1].delim # <<>>
  PROVE  AfterAll(t, list, e, n + 1) = AfterDoc(t, list[n + 1])
<1>. DEFINE docs == {j \in 1..n + 1 : list[j].delim # <<>>}
<1>1. n + 1 \in docs /\ docs \in SUBSET (0..n + 1) /\ n + 1 \in Nat
      /\ \A x \in docs : x <= n + 1 /\ x \in Nat
  OBVIOUS
<1>2. Max(docs) = n + 1
  <2>. HIDE DEF docs
  <2>1. PICK m : m = Max(docs)
    OBVIOUS
  <2>2. m \in docs /\ n + 1 <= m
    BY <1>1, <2>1, MaxIs
  <2>3. m <= n + 1 /\ m \in Nat
    BY <1>1, <2>2
  <2>. QED
    BY <2>1, <2>2, <2>3
<1>. QED
  BY <1>1, <1>2 DEF AfterAll

LEMMA DocsMore ==
  ASSUME NEW t, NEW S, NEW list \in Seq(S), NEW d, NEW e, NEW more, more = Append(list, d),
         DocsAre(t, list, e),
         d.delim # <<>> => IsDocOf(t, AfterAll(t, list, e, Len(list)), d)
  PROVE  DocsAre(t, more, e)
<1>1. /\ Len(list) \in Nat /\ Len(more) = Len(list) + 1
      /\ \A j \in 1..Len(list) : more[j] = list[j]
      /\ more[Len(list) + 1] = d
  BY OneMore
<1>2. \A k \in 0..Len(list) : AfterAll(t, more, e, k) = AfterAll(t, list, e, k)
  BY <1>1, AfterPrefix
<1>3. ASSUME NEW k \in 1..Len(more), more[k].delim # <<>>
      PROVE  IsDocOf(t, AfterAll(t, more, e, k - 1), more[k])
  <2>1. CASE k \in 1..Len(list)
    <3>1. k - 1 \in 0..Len(list)
      BY <1>1, <2>1
    <3>. QED
      BY <1>1, <1>2, <1>3, <2>1, <3>1 DEF DocsAre
  <2>2. CASE k = Len(list) + 1
    <3>1. k - 1 = Len(list) /\ Len(list) \in 0..Len(list)
      BY <1>1, <2>2
    <3>. QED
      BY <1>1, <1>2, <1>3, <2>2, <3>1
  <2>. QED
    BY <1>1, <2>1, <2>2
<1>. QED
  BY <1>3 DEF DocsAre

(* The line of the instruction is read: the here-documents before are those *)
(* of the lines, and s or the one being read is behind the last of them.    *)
AfterLine == call \in {"sources", "doc", "done", "failed"} \/ (call = "delim" /\ kind = "COPY")
Reached == IF call = "doc" THEN here_doc_start ELSE s

ChainInv ==
  /\ kind = "RUN" /\ call \in {"delim", "line", "doc"} => src = <<>>
  /\ AfterLine => DocsAre(text, src, EndOfLine)
  /\ AfterLine /\ call # "failed" => Reached = AfterAll(text, src, EndOfLine, Len(src))
  /\ call = "failed" /\ error.kind = "expected_here_doc_end" =>
       EndLines(text, AfterAll(text, src, EndOfLine, Len(src)), DelimBytes, strip_tab) = {}

LEMMA NoDocs ==
  ASSUME NEW t, NEW e
  PROVE  DocsAre(t, <<>>, e) /\ AfterAll(t, <<>>, e, 0) = e
<1>1. {j \in 1..0 : <<>>[j].delim # <<>>} = {}
  OBVIOUS
<1>. QED
  BY <1>1 DEF DocsAre, AfterAll

(* The line ends, and no here-document is read yet.                         *)
LEMMA LineIsOver ==
  ASSUME PosInv, WordsInv, RunInv, ChainInv, WordsOver \/ LineOverDoc \/ LineOver
  PROVE  ChainInv'
<1>1. Len(text) \in Nat /\ s \in 0..Len(text) /\ s \in Nat
  BY InputsAreSequences DEF PosInv
<1>2. src = <<>> /\ UNCHANGED <<text, s, src, kind, delim, arguments_start>>
  BY DEF WordsOver, LineOverDoc, LineOver, DocStarts, Fail, WordsInv, ChainInv, scanning, delimVars,
         lineVars, instruction
<1>3. EndOfLine' = EndOfLine
  BY <1>2 DEF EndOfLine
<1>4. s = EndOfLine
  <2>1. CASE WordsOver
    BY <2>1 DEF WordsOver, WordsInv, WordsAt, PosInv, EndOfLine
  <2>2. CASE LineOverDoc \/ LineOver
    <3>1. /\ LineBase \in 0..Len(text) /\ s - LineBase = After(Left(text, LineBase))
          /\ kind = "RUN"
      BY <2>2 DEF LineOverDoc, LineOver, RunInv, LineAt, WordsInv
    <3>2. CASE delim = <<>>
      <4>1. LineBase = 0 /\ Left(text, LineBase) = text
        BY <3>2, TextIs, LeftAll DEF LineBase, PosInv
      <4>. QED
        BY <1>1, <3>1, <3>2, <4>1 DEF EndOfLine
    <3>3. CASE delim # <<>>
      <4>1. LineBase = arguments_start
        BY <3>3 DEF LineBase
      <4>2. EndOfLine = arguments_start + After(Left(text, arguments_start))
        BY <3>1, <3>3 DEF EndOfLine, Left
      <4>. QED
        BY <1>1, <3>1, <4>1, <4>2
    <3>. QED
      BY <3>2, <3>3
  <2>. QED
    BY <2>1, <2>2
<1>5. Len(<<>>) = 0
  OBVIOUS
<1>6. call' = "doc" => here_doc_start' = s
  BY <1>2 DEF WordsOver, LineOverDoc, LineOver, DocStarts, Doc!Starts, Fail
<1>7. ~(call' = "failed" /\ error'.kind = "expected_here_doc_end")
  BY DEF WordsOver, LineOverDoc, LineOver, DocStarts, Fail
<1>. QED
  BY <1>2, <1>3, <1>4, <1>5, <1>6, <1>7, NoDocs DEF ChainInv, Reached, AfterLine

(* A source more.                                                           *)
LEMMA PathMore ==
  ASSUME PosInv, ChainInv, SourceIsPath \/ DelimIsNone
  PROVE  ChainInv'
<1>1. PICK S : src \in Seq(S)
  BY DEF PosInv
<1>2. /\ AfterLine /\ call \in {"sources", "delim"} /\ call' = "sources" /\ kind = "COPY"
      /\ src' = Append(src, AsPath) /\ UNCHANGED <<text, s, kind>>
  BY DEF SourceIsPath, DelimIsNone, AfterLine, PosInv, scanning
<1>3. AsPath.delim = <<>>
  BY DEF AsPath
<1>4. EndOfLine' = EndOfLine
  BY <1>2 DEF EndOfLine
<1>5. DocsAre(text, src, EndOfLine) /\ s = AfterAll(text, src, EndOfLine, Len(src))
  BY <1>2 DEF ChainInv, Reached
<1>6. DocsAre(text, src', EndOfLine)
  BY <1>1, <1>2, <1>3, <1>5, DocsMore
<1>7. PICK more : more = src'
  OBVIOUS
<1>8. /\ Len(src) \in Nat /\ Len(more) = Len(src) + 1 /\ more[Len(src) + 1] = AsPath
      /\ \A j \in 1..Len(src) : more[j] = src[j]
  BY <1>1, <1>2, <1>7, OneMore
<1>9. AfterAll(text, more, EndOfLine, Len(more)) = AfterAll(text, src, EndOfLine, Len(src))
  <2>1. AfterAll(text, more, EndOfLine, Len(src) + 1) = AfterAll(text, more, EndOfLine, Len(src))
    BY <1>3, <1>8, AfterPath
  <2>2. AfterAll(text, more, EndOfLine, Len(src)) = AfterAll(text, src, EndOfLine, Len(src))
    <3>1. Len(src) \in 0..Len(src)
      BY <1>8
    <3>. QED
      BY <1>8, <3>1, AfterPrefix
  <2>. QED
    BY <1>8, <2>1, <2>2
<1>. QED
  BY <1>2, <1>4, <1>5, <1>6, <1>7, <1>9 DEF ChainInv, Reached

LEMMA DocMore ==
  ASSUME PosInv, DocInv, ChainInv, DocOver
  PROVE  ChainInv'
<1>. DEFINE d == [delim |-> DelimBytes, strip_tab |-> strip_tab, start |-> doc.start,
                  end |-> doc.end, value |-> doc.value]
<1>1. PICK S : src \in Seq(S)
  BY DEF PosInv
<1>2. /\ AfterLine /\ call = "doc" /\ pc = "done" /\ call' \in {"sources", "done"}
      /\ src' = Append(src, d) /\ UNCHANGED <<text, s, kind, delim, arguments_start>>
  BY DEF DocOver, AfterLine, scanning, delimVars, lineVars
<1>3. delim \in Seq(Nat) /\ delim # <<>>
  BY <1>2 DEF PosInv, DocInv
<1>4. DelimBytes # <<>>
  <2>1. DOMAIN DelimBytes = DOMAIN delim /\ DOMAIN delim # {}
    BY SMTT(30), <1>3 DEF DelimBytes
  <2>. QED
    BY <2>1
<1>5. DocIs(text, here_doc_start, DelimBytes, strip_tab, doc, s)
  BY <1>2 DEF DocInv, DocAt
<1>6. /\ d.delim = DelimBytes /\ d.strip_tab = strip_tab /\ d.start = doc.start
      /\ d.end = doc.end /\ d.value = doc.value
  OBVIOUS
<1>. HIDE DEF d
<1>7. IsDocOf(text, here_doc_start, d) /\ s = AfterDoc(text, d)
  BY <1>5, <1>6 DEF DocIs, IsDocOf, LastOf, AfterDoc
<1>8. EndOfLine' = EndOfLine
  BY <1>2 DEF EndOfLine
<1>9. DocsAre(text, src, EndOfLine) /\ here_doc_start = AfterAll(text, src, EndOfLine, Len(src))
  BY <1>2 DEF ChainInv, Reached
<1>10. DocsAre(text, src', EndOfLine)
  BY <1>1, <1>2, <1>7, <1>9, DocsMore
<1>11. AfterAll(text, src', EndOfLine, Len(src')) = s
  <2>1. PICK more : more = src'
    OBVIOUS
  <2>2. Len(src) \in Nat /\ Len(more) = Len(src) + 1 /\ more[Len(src) + 1] = d
    BY <1>1, <1>2, <2>1, OneMore
  <2>3. AfterAll(text, more, EndOfLine, Len(src) + 1) = AfterDoc(text, more[Len(src) + 1])
    BY <1>4, <1>6, <2>2, AfterDocument
  <2>. QED
    BY <1>7, <2>1, <2>2, <2>3
<1>12. call' # "failed" /\ call' # "doc"
  BY <1>2
<1>. QED
  BY <1>2, <1>8, <1>10, <1>11, <1>12 DEF ChainInv, Reached, AfterLine

(* No source more: the line and the sources stay as they are.               *)
LEMMA ChainKept ==
  ASSUME ChainInv, UNCHANGED <<text, src, kind>>, EndOfLine' = EndOfLine,
         kind = "RUN" /\ call' \in {"delim", "line", "doc"} => src = <<>>,
         AfterLine' => AfterLine /\ call # "failed",
         call' # "failed" => Reached' = Reached,
         call' # "failed" \/ error'.kind # "expected_here_doc_end"
  PROVE  ChainInv'
BY DEF ChainInv

LEMMA ChainDoc ==
  ASSUME PosInv, DocInv, ChainInv, InDoc \/ DocFails
  PROVE  ChainInv'
<1>1. call = "doc" /\ AfterLine /\ UNCHANGED <<src, kind>>
  BY DEF InDoc, DocFails, AfterLine, instruction
<1>2. UNCHANGED <<text, here_doc_start>>
  BY DEF InDoc, DocFails, scanning, docVars, Doc!Next, Doc!LeadingTabs, Doc!NoEnd, Doc!Terminator,
         Doc!BodyLine
<1>3. UNCHANGED <<full, strip_tab, delim, arguments_start>>
  BY DEF InDoc, DocFails, delimVars, lineVars
<1>4. EndOfLine' = EndOfLine /\ DelimBytes' = DelimBytes
  BY <1>1, <1>2, <1>3 DEF EndOfLine, DelimBytes
<1>5. CASE InDoc
  <2>1. call' = "doc"
    BY <1>1, <1>5 DEF InDoc
  <2>. QED
    BY <1>1, <1>2, <1>4, <2>1 DEF ChainInv, Reached, AfterLine
<1>6. CASE DocFails
  <2>1. call' = "failed" /\ pc = "failed"
    BY <1>6 DEF DocFails, Fail
  <2>2. EndLines(text, here_doc_start, DelimBytes, strip_tab) = {}
    BY <1>1, <2>1 DEF DocInv, DocAt
  <2>3. here_doc_start = AfterAll(text, src, EndOfLine, Len(src))
    BY <1>1 DEF ChainInv, Reached
  <2>. QED
    BY <1>1, <1>2, <1>3, <1>4, <2>1, <2>2, <2>3 DEF ChainInv
<1>. QED
  BY <1>5, <1>6

LEMMA ChainDelim ==
  ASSUME PosInv, ChainInv, WordsInv, InDelim \/ DelimFails \/ DelimOverCopy
  PROVE  ChainInv'
<1>1. call = "delim" /\ UNCHANGED <<text, s, src, kind>>
  BY DEF InDelim, DelimFails, DelimOverCopy, DocStarts, scanning, instruction
<1>2. /\ DelimOverCopy => kind = "COPY" /\ call' = "doc" /\ here_doc_start' = s
      /\ InDelim => call' = "delim"
      /\ DelimFails => call' = "failed" /\ error'.kind # "expected_here_doc_end"
  BY DEF InDelim, DelimFails, DelimOverCopy, DocStarts, Doc!Starts, Fail
<1>3. CASE kind = "COPY"
  <2>1. EndOfLine' = EndOfLine
    BY <1>1, <1>3 DEF EndOfLine
  <2>2. AfterLine /\ Reached = s
    BY <1>1, <1>3 DEF AfterLine, Reached
  <2>3. call' # "failed" => Reached' = Reached
    BY <1>1, <1>2, <2>2 DEF Reached
  <2>4. call' # "failed" \/ error'.kind # "expected_here_doc_end"
    BY <1>2
  <2>. QED
    BY <1>1, <1>3, <2>1, <2>2, <2>3, <2>4, ChainKept
<1>4. CASE kind = "RUN"
  <2>1. src = <<>>
    BY <1>1, <1>4 DEF ChainInv
  <2>2. CASE InDelim
    BY <1>1, <1>2, <1>4, <2>1, <2>2 DEF ChainInv, AfterLine
  <2>3. CASE DelimFails
    <3>1. DocsAre(text, src, EndOfLine')
      BY <2>1, NoDocs
    <3>2. DocsAre(text', src', EndOfLine')
      BY <1>1, <3>1
    <3>. QED
      BY <1>1, <1>2, <1>4, <2>3, <3>2 DEF ChainInv
  <2>. QED
    BY <1>2, <1>4, <2>2, <2>3
<1>. QED
  BY <1>3, <1>4 DEF PosInv

LEMMA ChainNext ==
  PosInv /\ WordsInv /\ RunInv /\ DocInv /\ ChainInv /\ [Next]_vars => ChainInv'
<1>. SUFFICES ASSUME PosInv, WordsInv, RunInv, DocInv, ChainInv, [Next]_vars PROVE ChainInv'
  OBVIOUS
<1>1. CASE WordsOver \/ LineOverDoc \/ LineOver
  BY <1>1, LineIsOver
<1>2. CASE SourceIsPath \/ DelimIsNone
  BY <1>2, PathMore
<1>3. CASE DocOver
  BY <1>3, DocMore
<1>4. CASE InDoc \/ DocFails
  BY <1>4, ChainDoc
<1>5. CASE InDelim \/ DelimFails \/ DelimOverCopy
  BY <1>5, ChainDelim
<1>6. CASE SourceIsDelim \/ SourcesOver
  <2>1. /\ call = "sources" /\ kind = "COPY" /\ UNCHANGED <<text, s, src, kind>>
        /\ call' \in {"delim", "done"}
    BY <1>6 DEF SourceIsDelim, SourcesOver, PosInv, scanning, instruction
  <2>2. EndOfLine' = EndOfLine
    BY <2>1 DEF EndOfLine
  <2>3. Reached' = Reached /\ AfterLine
    BY <2>1 DEF Reached, AfterLine
  <2>4. call' # "failed"
    BY <2>1
  <2>. QED
    BY <2>1, <2>2, <2>3, <2>4, ChainKept
<1>7. CASE InOptions \/ InWords \/ InLine \/ OptionsOverCopy
  <2>1. /\ call' \in {"options", "words", "line"} /\ UNCHANGED <<src, kind>>
        /\ call' = "line" => call = "line"
    BY <1>7 DEF InOptions, InWords, InLine, OptionsOverCopy, instruction
  <2>. QED
    BY <2>1 DEF ChainInv, AfterLine
<1>8. CASE OptionsOverRun \/ DelimOverRun
  <2>1. /\ call' \in {"delim", "line"} /\ kind = "RUN" /\ UNCHANGED <<src, kind>>
        /\ call \in {"options", "delim"}
    BY <1>8 DEF OptionsOverRun, DelimOverRun, instruction
  <2>2. src = <<>>
    BY <2>1 DEF ChainInv, WordsInv
  <2>. QED
    BY <2>1, <2>2 DEF ChainInv, AfterLine
<1>9. CASE UNCHANGED vars
  <2>1. /\ UNCHANGED <<call, text, s, src, kind, error, delim, full, strip_tab, arguments_start>>
        /\ UNCHANGED here_doc_start
    BY <1>9 DEF vars, scanning, delimVars, lineVars, docVars, instruction
  <2>2. EndOfLine' = EndOfLine /\ DelimBytes' = DelimBytes
    BY <2>1 DEF EndOfLine, DelimBytes
  <2>. QED
    BY <2>1, <2>2 DEF ChainInv, Reached, AfterLine
<1>. QED
  BY <1>1, <1>2, <1>3, <1>4, <1>5, <1>6, <1>7, <1>8, <1>9 DEF Next

(* An error ends the instruction.                                           *)
ErrorInv == call # "failed" => error = NoError

LEMMA ErrorNext == ErrorInv /\ [Next]_vars => ErrorInv'
<1>. SUFFICES ASSUME ErrorInv, [Next]_vars, call' # "failed" PROVE error' = NoError
  BY DEF ErrorInv
<1>1. CASE InOptions \/ InWords \/ InDelim \/ InLine \/ InDoc
  BY <1>1 DEF InOptions, InWords, InDelim, InLine, InDoc, instruction, ErrorInv
<1>2. CASE \/ OptionsOverCopy \/ WordsOver \/ SourceIsPath \/ SourceIsDelim \/ DelimIsNone
           \/ DelimOverCopy \/ SourcesOver
  BY <1>2 DEF OptionsOverCopy, WordsOver, SourceIsPath, SourceIsDelim, DelimIsNone, DelimOverCopy,
              SourcesOver, DocStarts, Fail, instruction, ErrorInv
<1>3. CASE \/ OptionsOverRun \/ DelimOverRun \/ LineOverDoc \/ LineOver \/ DocOver
           \/ DocFails \/ DelimFails
  BY <1>3 DEF OptionsOverRun, DelimOverRun, LineOverDoc, LineOver, DocOver, DocFails, DelimFails,
              DocStarts, Fail, instruction, ErrorInv
<1>4. CASE UNCHANGED vars
  BY <1>4 DEF vars, instruction, ErrorInv
<1>. QED
  BY <1>1, <1>2, <1>3, <1>4 DEF Next

(* The invariants of all the calls, which rest on one another.              *)
CallsInv ==
  /\ PosInv /\ FlagsInv /\ DelimInv /\ DocInv
  /\ WordsInv /\ RunInv /\ ChainInv /\ ErrorInv

LEMMA CallsInvariance == Spec => []CallsInv
<1>1. Init => CallsInv
  <2>1. Init => PosInv /\ FlagsInv
    BY InitPos, FlagsStart
  <2>2. Init => DelimInv /\ DocInv /\ WordsInv /\ RunInv /\ ChainInv /\ ErrorInv
    BY DEF Init, DelimInv, DocInv, WordsInv, AfterWords, RunInv, ChainInv, AfterLine, ErrorInv
  <2>. QED
    BY <2>1, <2>2 DEF CallsInv
<1>2. CallsInv /\ [Next]_vars => CallsInv'
  <2>. SUFFICES ASSUME CallsInv, [Next]_vars PROVE CallsInv'
    OBVIOUS
  <2>1. /\ PosInv /\ FlagsInv /\ DelimInv /\ DocInv
        /\ WordsInv /\ RunInv /\ ChainInv /\ ErrorInv
    BY DEF CallsInv
  <2>2. PosInv'
    BY <2>1, NextPos
  <2>3. FlagsInv' /\ DelimInv'
    BY <2>1, <2>2, FlagsNext, DelimNext
  <2>4. DocInv' /\ WordsInv' /\ RunInv'
    BY <2>1, DocNext, WordsNext, RunNext
  <2>5. ChainInv' /\ ErrorInv'
    BY <2>1, ChainNext, ErrorNext
  <2>. QED
    BY <2>2, <2>3, <2>4, <2>5 DEF CallsInv
<1>. QED
  BY <1>1, <1>2, PTL DEF Spec

(* collect_here_doc reads one here-document after the other, each of them   *)
(* the lines before the first that is its delimiter and nothing else, tabs  *)
(* stripped if asked for; it fails exactly if there is no such line, and    *)
(* the instruction ends behind the last of them: of every text, whatever    *)
(* the delimiters are.                                                      *)
THEOREM DocsCorrect == Spec => []DocsOfTheLines
<1>1. PosInv /\ ChainInv /\ ErrorInv => DocsOfTheLines
  <2>. SUFFICES ASSUME PosInv, ChainInv, ErrorInv, call \in {"sources", "done", "failed"}
                PROVE  /\ \A k \in DOMAIN src :
                            src[k].delim # <<>> => IsDocFrom(AfterSource(k - 1), src[k])
                       /\ call = "done" => s = AfterSource(Len(src))
                       /\ error.kind = "expected_here_doc_end" =>
                            Doc!Terminators(AfterSource(Len(src)), DelimBytes, strip_tab) = {}
    BY DEF DocsOfTheLines
  <2>1. AfterLine /\ Reached = s
    BY DEF AfterLine, Reached
  <2>2. DOMAIN src = 1..Len(src)
    BY DEF PosInv
  <2>3. ASSUME NEW k \in DOMAIN src, src[k].delim # <<>>
        PROVE  IsDocFrom(AfterSource(k - 1), src[k])
    <3>1. IsDocOf(text, AfterAll(text, src, EndOfLine, k - 1), src[k])
      BY <2>1, <2>2, <2>3 DEF ChainInv, DocsAre
    <3>. QED
      BY <3>1, ChainReference
  <2>4. ASSUME call = "done"
        PROVE  s = AfterSource(Len(src))
    BY <2>1, <2>4, ChainReference DEF ChainInv
  <2>5. ASSUME error.kind = "expected_here_doc_end"
        PROVE  Doc!Terminators(AfterSource(Len(src)), DelimBytes, strip_tab) = {}
    <3>1. EndLines(text, AfterAll(text, src, EndOfLine, Len(src)), DelimBytes, strip_tab) = {}
      BY <2>5 DEF ChainInv, ErrorInv, NoError
    <3>. QED
      BY <3>1, ChainReference, DocReference
  <2>. QED
    BY <2>3, <2>4, <2>5
<1>2. CallsInv => PosInv /\ ChainInv /\ ErrorInv
  BY DEF CallsInv
<1>. QED
  BY <1>1, <1>2, CallsInvariance, PTL

-----------------------------------------------------------------------------
(* The arguments: the words behind the flags.  RunStart is where those of a *)
(* RUN start, and Heralds says that they start with a here-document.        *)
ArgsOf(t) == WordsWithout(LineWords(t), FlagWords(t))
RunStart(t) == IF ArgsOf(t) = <<>> THEN Len(t) ELSE Min(ArgsOf(t)[1])
Heralds(t) == ~(RunStart(t) + 5 > Len(t)) /\ Announces(t, RunStart(t))

(* The n words behind the first m of r.                                     *)
Behind(t, r, m, n) == [k \in 1..n |-> WordAt(t, r[m + k])]

LEMMA ArgsAre ==
  ASSUME NEW t, Len(t) \in Nat, NEW q, OfFlags(t, q), NEW r, Divided(t, r, Len(t)),
         NEW m, m = Len(q), \A k \in 1..m : r[k] = q[k], NEW n \in Nat, Len(r) = m + n
  PROVE  ArgsOf(t) = Behind(t, r, m, n)
<1>. DEFINE A(k) == WordAt(t, r[k])
            W == [k \in 1..n |-> A(m + k)]
<1>1. Len(r) \in Nat /\ m \in Nat /\ n \in Nat /\ m + n = Len(r)
  BY DEF Divided, OfFlags
<1>2. ASSUME NEW k \in 1..Len(r)
      PROVE  WordSpan(t, r[k].start, r[k].end) /\ Min(A(k)) = r[k].start /\ r[k].start \in Nat
  <2>1. WordSpan(t, r[k].start, r[k].end)
    BY DEF Divided
  <2>2. r[k].start \in Nat
    BY <2>1 DEF WordSpan
  <2>. QED
    BY <2>1, <2>2, WordAtIs
<1>3. ASSUME NEW k \in 1..Len(r), NEW l \in 1..Len(r), k < l
      PROVE  Min(A(k)) < Min(A(l))
  <2>1. Apart(t, r[k].end, r[l].start)
    BY <1>3 DEF Divided
  <2>2. r[k].end \in Nat /\ r[k].start < r[k].end
    BY <1>2 DEF WordSpan
  <2>3. \E b : b \in r[k].end..r[l].start - 1
    BY <2>1 DEF Apart
  <2>4. r[k].end < r[l].start
    BY <1>2, <2>2, <2>3
  <2>. QED
    BY <1>2, <2>2, <2>4
<1>4. LineWords(t) = {A(k) : k \in 1..Len(r)}
  BY LineWordsAre
<1>5. ToSet(FlagWords(t)) = {A(k) : k \in 1..m}
  <2>1. ToSet(FlagWords(t)) = {FlagWords(t)[k] : k \in 1..m}
    BY DEF ToSet, OfFlags
  <2>2. \A k \in 1..m : FlagWords(t)[k] = A(k)
    BY DEF OfFlags
  <2>. QED
    BY <2>1, <2>2
<1>6. LineWords(t) \ ToSet(FlagWords(t)) = {A(m + k) : k \in 1..n}
  <2>. HIDE DEF A
  <2>1. ASSUME NEW w \in LineWords(t), w \notin ToSet(FlagWords(t))
        PROVE  \E k \in 1..n : w = A(m + k)
    <3>1. PICK l \in 1..Len(r) : w = A(l)
      BY <1>4
    <3>2. l \notin 1..m
      BY <1>5, <2>1, <3>1
    <3>3. l - m \in 1..n /\ m + (l - m) = l
      BY <1>1, <3>1, <3>2
    <3>. QED
      BY <3>1, <3>3
  <2>2. ASSUME NEW k \in 1..n
        PROVE  A(m + k) \in LineWords(t) /\ A(m + k) \notin ToSet(FlagWords(t))
    <3>1. m + k \in 1..Len(r)
      BY <1>1
    <3>2. \A l \in 1..m : l \in 1..Len(r) /\ l < m + k
      BY <1>1
    <3>3. \A l \in 1..m : Min(A(l)) < Min(A(m + k)) /\ Min(A(l)) \in Nat
      BY <1>2, <1>3, <3>1, <3>2 DEF A
    <3>. QED
      BY <1>4, <1>5, <3>1, <3>3
  <2>. QED
    BY <2>1, <2>2
<1>7. /\ \A k \in 1..n : m + k \in 1..Len(r)
      /\ \A k, l \in 1..n : k < l => m + k < m + l
  BY <1>1
<1>8. /\ \A k \in 1..n : Min(W[k]) \in Nat
      /\ \A k, l \in 1..n : k < l => Min(W[k]) < Min(W[l])
  <2>1. \A k \in 1..n : W[k] = A(m + k)
    OBVIOUS
  <2>. HIDE DEF W
  <2>. QED
    BY <1>2, <1>3, <1>7, <2>1
<1>9. InOrder({W[k] : k \in 1..n}) = [k \in 1..n |-> W[k]]
  <2>. HIDE DEF W
  <2>. QED
    BY <1>1, <1>8, InOrderIs
<1>10. {W[k] : k \in 1..n} = {A(m + k) : k \in 1..n} /\ [k \in 1..n |-> W[k]] = W
  OBVIOUS
<1>11. ArgsOf(t) = W
  BY <1>6, <1>9, <1>10 DEF ArgsOf, WordsWithout
<1>. QED
  BY <1>11 DEF Behind

(* Where the flags end, the arguments start, or the line is over.           *)
LEMMA StartsOfArgs ==
  ASSUME NEW t, Len(t) \in Nat, NEW i \in 0..Len(t), ArgsFrom(t, i)
  PROVE  i = RunStart(t) \/ (At(t, i, {"lf"}) /\ RunStart(t) = Len(t))
<1>1. PICK q \in Seq(Span) :
        /\ Divided(t, q, i) /\ (Parted(t, q, i) \/ i = Len(t) \/ At(t, i, {"lf"}))
        /\ FlagWords(t) \in Seq(SUBSET Nat) /\ Len(FlagWords(t)) = Len(q)
        /\ \A k \in 1..Len(q) : FlagWords(t)[k] = WordAt(t, q[k])
  BY DEF ArgsFrom
<1>2. Walk(t, i) /\ ~At(t, i, Whitespace) /\ ~Continues(t, i) /\ Len(q) \in Nat /\ OfFlags(t, q)
  BY <1>1 DEF ArgsFrom, OfFlags
<1>3. CASE i = Len(t) \/ At(t, i, {"lf"})
  <2>1. \A b \in i..Len(t) - 1 : ~SolidAt(t, b)
    BY <1>2, <1>3, WalkOver DEF SolidAt
  <2>2. Divided(t, q, Len(t))
    BY <1>1, <2>1, DividedSkip
  <2>3. Len(q) = Len(q) + 0 /\ 0 \in Nat /\ 1..0 = {}
    BY <1>2
  <2>4. ArgsOf(t) = Behind(t, q, Len(q), 0)
    BY <1>2, <2>2, <2>3, ArgsAre
  <2>5. ArgsOf(t) = <<>>
    BY <2>3, <2>4 DEF Behind
  <2>. QED
    BY <1>3, <2>5 DEF RunStart
<1>4. CASE i # Len(t) /\ ~At(t, i, {"lf"})
  <2>1. i < Len(t) /\ t[i + 1] # "lf" /\ t[i + 1] \notin Whitespace /\ Parted(t, q, i)
    BY <1>1, <1>2, <1>4 DEF At
  <2>2. SolidAt(t, i)
    BY <1>2, <2>1, WalkByte DEF SolidAt
  <2>3. PICK r : Completes(t, r, q, i)
    BY <1>1, <2>1, WordsComplete DEF Span
  <2>4. /\ Divided(t, r, Len(t)) /\ Len(q) < Len(r) /\ \A k \in 1..Len(q) : r[k] = q[k]
        /\ r[Len(q) + 1].start = i /\ Len(r) \in Nat
    BY <2>1, <2>2, <2>3 DEF Completes, Divided
  <2>5. PICK n \in Nat : Len(r) = Len(q) + n /\ 1 \in 1..n
    <3>1. Len(r) - Len(q) \in Nat /\ Len(r) = Len(q) + (Len(r) - Len(q)) /\ 1 \in 1..Len(r) - Len(q)
      BY <1>2, <2>4
    <3>. QED
      BY <3>1
  <2>6. ArgsOf(t) = Behind(t, r, Len(q), n) /\ Len(q) + 1 \in 1..Len(r)
    <3>1. PICK m : m = Len(q)
      OBVIOUS
    <3>2. m \in Nat /\ n \in Nat /\ Len(r) = m + n /\ 1 \in 1..n
      BY <1>2, <2>5, <3>1
    <3>3. m + 1 \in 1..Len(r)
      BY <3>2
    <3>4. Divided(t, r, Len(t)) /\ OfFlags(t, q) /\ \A k \in 1..m : r[k] = q[k]
      BY <1>2, <2>4, <3>1
    <3>5. ArgsOf(t) = Behind(t, r, m, n)
      BY <3>1, <3>2, <3>4, ArgsAre
    <3>. QED
      BY <3>1, <3>3, <3>5
  <2>7. DOMAIN ArgsOf(t) # {} /\ ArgsOf(t)[1] = WordAt(t, r[Len(q) + 1])
    BY <2>5, <2>6 DEF Behind
  <2>8. Min(WordAt(t, r[Len(q) + 1])) = i
    BY <2>4, <2>6, WordAtIs DEF Divided
  <2>9. ArgsOf(t) # <<>>
    BY <2>7
  <2>. QED
    BY <2>7, <2>8, <2>9 DEF RunStart
<1>. QED
  BY <1>3, <1>4

(* The delimiter that t announces at i, as its bytes, and where it ends.    *)
Dashed(t, i) == At(t, i, {"dash"})
Undashed(t, i) == IF Dashed(t, i) THEN i + 1 ELSE i
EndOfWord(b, t, f) == Min({Len(t)} \cup {k \in f..Len(t) - 1 : Stops(b, t, f, k)})
Plain(b, t, f) == BytesIn(t, Kept(b, t, f, EndOfWord(b, t, f)))
DelimIn(b, t, i) == IF Announces(t, i) THEN Plain(b, t, Undashed(t, i + 2)) ELSE <<>>

LEMMA WordReference ==
  ASSUME NEW t, NEW f
  PROVE  /\ Dlm!EndOfDelim(t, f) = EndOfWord(backslash, t, f)
         /\ Dlm!Unquoted(t, f) = Kept(backslash, t, f, EndOfWord(backslash, t, f))
<1>1. Dlm!EndOfDelim(t, f) = EndOfWord(backslash, t, f)
  <2>1. \A k : t[k + 1] \in Dlm!DelimEnd <=> t[k + 1] \in {"sp", "tab", "ff", "cr", "lf"}
    BY DEF Dlm!DelimEnd, Dlm!Whitespace, Dlm!PossibleLine
  <2>2. \A S : Dlm!Min(S) = Min(S)
    BY DEF Dlm!Min, Min
  <2>. QED
    BY <2>1, <2>2, DlmReference DEF Dlm!EndOfDelim, Stops, EndOfWord
<1>. QED
  BY <1>1, UnquotedIs

LEMMA AnnouncedIs ==
  ASSUME NEW t, NEW i
  PROVE  /\ Announced(t, i) = DelimIn(backslash, t, i)
         /\ EndOfAnnounced(t, i) = EndOfWord(backslash, t, Undashed(t, i + 2))
         /\ Dlm!StripsTabs(t, i + 2) <=> Dashed(t, i + 2)
<1>1. \A j : (Dlm!StripsTabs(t, j) <=> Dashed(t, j)) /\ Dlm!DelimStart(t, j) = Undashed(t, j)
  BY DEF Dlm!StripsTabs, Dlm!DelimStart, Dlm!At, At, Dashed, Undashed
<1>. QED
  BY <1>1, WordReference DEF Announced, EndOfAnnounced, DelimIn, Plain

(* collect_here_doc_delim reads it.                                         *)
Reads(t, i) == full = t /\ strip_tab = Dashed(t, i) /\ delim_start = Undashed(t, i)
Given(t, i) ==
  delim # <<>> /\ strip_tab = Dashed(t, i) /\ DelimBytes = Plain(backslash, t, Undashed(t, i))

LEMMA DelimRead ==
  ASSUME PosInv, DelimInv, call = "delim", pc \in {"here_doc", "none"},
         NEW t, NEW i \in Nat, Reads(t, i), Len(t) \in 0..MaxLen
  PROVE  /\ DelimBytes = Plain(backslash, t, Undashed(t, i))
         /\ s_next = EndOfWord(backslash, t, Undashed(t, i))
         /\ pc = "none" <=> delim = <<>>
<1>. DEFINE f == Undashed(t, i)
            e == EndOfWord(backslash, t, f)
            K == Kept(backslash, t, f, e)
<1>1. Dlm!DelimOfTheWord /\ full = t /\ delim_start = f /\ f \in Nat
  BY DEF DelimInv, Reads, Undashed
<1>2. Dlm!Spells(delim, Dlm!Unquoted(full, delim_start)) /\ s_next = Dlm!EndOfDelim(full, delim_start)
      /\ (pc = "none" <=> delim = <<>>)
  BY <1>1 DEF Dlm!DelimOfTheWord
<1>3. Spells(delim, K) /\ s_next = e
  BY <1>1, <1>2, WordReference DEF Dlm!Spells, Spells
<1>4. e \in Nat /\ e <= MaxLen
  <2>. DEFINE E == {Len(t)} \cup {k \in f..Len(t) - 1 : Stops(backslash, t, f, k)}
  <2>1. E \in SUBSET (0..MaxLen) /\ E \in SUBSET Nat /\ E # {} /\ e = Min(E)
    BY <1>1, MaxLenAssumption DEF EndOfWord
  <2>. HIDE DEF E, e
  <2>2. Min(E) \in E
    BY <2>1, MinIs
  <2>3. Min(E) \in 0..MaxLen
    BY <2>1, <2>2
  <2>. HIDE DEF Min
  <2>4. e \in 0..MaxLen
    BY <2>1, <2>3
  <2>. QED
    BY <2>4, MaxLenAssumption
<1>5. \A k \in K : k < MaxLen
  BY <1>1, <1>4, MaxLenAssumption DEF Kept
<1>. HIDE DEF f, e, K
<1>6. Ordered(K, MaxLen) = delim
  BY <1>3, <1>5, MaxLenAssumption, OrderedIs DEF PosInv
<1>7. DelimBytes = Plain(backslash, t, f)
  BY <1>1, <1>6 DEF DelimBytes, Plain, BytesIn, BytesAt, K, e
<1>. QED
  BY <1>2, <1>3, <1>7 DEF f, e

(* The sources of a COPY, each of the word w it was made of.                *)
PathOf(t, w) == [k \in DOMAIN w.value |-> t[w.value[k] + 1]]
SourceIs(b, t, source, w) ==
  /\ source.delim = DelimIn(b, PathOf(t, w), 0)
  /\ IF source.delim = <<>>
     THEN source.value = w.value
     ELSE source.strip_tab = Dashed(PathOf(t, w), 2)
SourcesAre(b, t, list, words) ==
  /\ Len(list) <= Len(words)
  /\ \A k \in 1..Len(list) : SourceIs(b, t, list[k], words[k])

NextPath == PathOf(text, res[Len(src) + 1])

CopyInv ==
  AfterWords =>
    /\ error.kind = "at_least_two_arguments" <=> Len(res) < 2
    /\ SourcesAre(backslash, text, src, res)
    /\ call \in {"delim", "doc"} => Len(src) < Len(res) /\ Announces(NextPath, 0)
    /\ call = "delim" => Reads(NextPath, 2)
    /\ call = "doc" => Given(NextPath, 2)
    /\ call = "done" => Len(src) = Len(res) - 1

(* The words of a COPY are its arguments, and the paths are their bytes.    *)
LEMMA WordsAreArgs ==
  ASSUME PosInv, WordsInv, AfterWords
  PROVE  /\ ArgsOf(text) = [k \in 1..Len(res) |-> WordAt(text, res[k])]
         /\ \A k \in 1..Len(res) :
              /\ Spells(res[k].value, WordAt(text, res[k]))
              /\ BytesOf(WordAt(text, res[k])) = PathOf(text, res[k])
              /\ Len(PathOf(text, res[k])) \in 0..MaxLen
<1>1. PICK q : OfFlags(text, q) /\ Divided(text, q \o res, Len(text))
  BY DEF WordsInv
<1>2. /\ Len(text) \in Nat /\ MaxLen \in Nat /\ Len(text) <= MaxLen /\ text \in Inputs
      /\ res \in Seq(WordOf) /\ Len(res) \in Nat
  BY InputsAreSequences DEF PosInv
<1>3. q \in Seq(Span) /\ Len(q) \in Nat
  BY <1>1 DEF OfFlags
<1>4. PICK r : r = q \o res
  OBVIOUS
<1>5. /\ Len(r) = Len(q) + Len(res) /\ Len(r) \in Nat
      /\ \A k \in 1..Len(q) : r[k] = q[k]
      /\ \A k \in 1..Len(res) : r[Len(q) + k] = res[k]
  BY <1>2, <1>3, <1>4
<1>6. ArgsOf(text) = Behind(text, r, Len(q), Len(res))
  BY <1>1, <1>2, <1>4, <1>5, ArgsAre
<1>7. ArgsOf(text) = [k \in 1..Len(res) |-> WordAt(text, res[k])]
  BY <1>5, <1>6 DEF Behind
<1>8. ASSUME NEW k \in 1..Len(res)
      PROVE  /\ Spells(res[k].value, WordAt(text, res[k]))
             /\ BytesOf(WordAt(text, res[k])) = PathOf(text, res[k])
             /\ Len(PathOf(text, res[k])) \in 0..MaxLen
  <2>1. PICK w : w = res[k]
    OBVIOUS
  <2>2. Collects(text, w.value, w.start, w.end)
    BY <2>1 DEF WordsInv, KeptOf
  <2>3. w.start \in Nat /\ w.end \in Nat /\ w.end <= Len(text)
    <3>1. Len(q) + k \in 1..Len(r) /\ r[Len(q) + k] = w
      BY <1>2, <1>3, <1>5, <2>1
    <3>. QED
      BY <1>1, <1>4, <3>1 DEF Divided, WordSpan
  <2>4. /\ w.value \in Seq(Nat) /\ Len(w.value) \in Nat
        /\ \A j \in 1..Len(w.value) : w.value[j] \in w.start..w.end - 1
    BY <2>2 DEF Collects
  <2>5. Spells(w.value, WordAt(text, w))
    BY <2>2, WordIsSpelt
  <2>6. \A b \in WordAt(text, w) : b < MaxLen
    BY <1>2, <2>3 DEF WordAt
  <2>7. Ordered(WordAt(text, w), MaxLen) = w.value
    BY <1>2, <2>4, <2>5, <2>6, OrderedIs
  <2>8. BytesOf(WordAt(text, w)) = PathOf(text, w)
    BY <2>7 DEF BytesOf, BytesIn, BytesAt, PathOf
  <2>9. Len(w.value) <= MaxLen
    <3>1. CASE Len(w.value) = 0
      BY <1>2, <3>1
    <3>2. CASE Len(w.value) # 0
      <4>1. 1 \in 1..Len(w.value) /\ Len(w.value) \in 1..Len(w.value)
        BY <2>4, <3>2
      <4>2. w.value[1] + (Len(w.value) - 1) <= w.value[Len(w.value)]
        BY <2>2, <2>3, <4>1, CollectsGap
      <4>3. /\ w.value[1] \in w.start..w.end - 1
            /\ w.value[Len(w.value)] \in w.start..w.end - 1
        BY <2>4, <4>1
      <4>4. PICK a, z, l : a = w.value[1] /\ z = w.value[Len(w.value)] /\ l = Len(w.value)
        OBVIOUS
      <4>. DEFINE i == w.start
                  j == w.end
      <4>5. i \in Nat /\ j \in Nat /\ a \in i..j - 1 /\ z \in i..j - 1 /\ j <= Len(text)
        BY <2>3, <4>3, <4>4
      <4>6. l \in Nat /\ a + (l - 1) <= z
        BY <2>4, <4>2, <4>4
      <4>. HIDE DEF i, j
      <4>7. l <= MaxLen
        BY <1>2, <4>5, <4>6
      <4>. QED
        BY <4>4, <4>7
    <3>. QED
      BY <3>1, <3>2
  <2>10. Len(PathOf(text, w)) = Len(w.value)
    BY <2>4 DEF PathOf
  <2>. QED
    BY <1>2, <2>1, <2>4, <2>5, <2>8, <2>9, <2>10
<1>. QED
  BY <1>7, <1>8

LEMMA SourcesMore ==
  ASSUME NEW b, NEW t, NEW S, NEW list \in Seq(S), NEW words, Len(words) \in Nat,
         SourcesAre(b, t, list, words), Len(list) < Len(words),
         NEW d, SourceIs(b, t, d, words[Len(list) + 1]), NEW more, more = Append(list, d)
  PROVE  SourcesAre(b, t, more, words)
<1>1. /\ Len(list) \in Nat /\ Len(more) = Len(list) + 1
      /\ \A k \in 1..Len(list) : more[k] = list[k]
      /\ more[Len(list) + 1] = d
  BY OneMore
<1>2. \A k \in 1..Len(more) : k \in 1..Len(list) \/ k = Len(list) + 1
  BY <1>1
<1>3. ASSUME NEW k \in 1..Len(more)
      PROVE  SourceIs(b, t, more[k], words[k])
  <2>1. CASE k \in 1..Len(list)
    BY <1>1, <2>1 DEF SourcesAre
  <2>2. CASE k = Len(list) + 1
    BY <1>1, <2>2
  <2>. QED
    BY <1>2, <2>1, <2>2
<1>. QED
  BY <1>1, <1>3 DEF SourcesAre

(* What a step that makes a source needs to know.                           *)
LEMMA CopyMore ==
  ASSUME PosInv, CopyInv, AfterWords, NEW d, src' = Append(src, d), Len(src) < Len(res),
         SourceIs(backslash, text, d, res[Len(src) + 1]),
         UNCHANGED <<text, res, backslash, error>>, call' = "sources"
  PROVE  CopyInv'
<1>1. PICK S : src \in Seq(S)
  BY DEF PosInv
<1>2. Len(res) \in Nat
  BY DEF PosInv
<1>3. PICK more : more = src'
  OBVIOUS
<1>4. SourcesAre(backslash, text, more, res)
  BY <1>1, <1>2, <1>3, SourcesMore DEF CopyInv
<1>. QED
  BY <1>3, <1>4 DEF CopyInv

LEMMA NoBytes ==
  ASSUME delim \in Seq(Nat)
  PROVE  DelimBytes = <<>> <=> delim = <<>>
<1>1. DOMAIN DelimBytes = DOMAIN delim
  BY DEF DelimBytes
<1>2. CASE delim = <<>>
  BY <1>2 DEF DelimBytes
<1>3. CASE delim # <<>>
  BY <1>1, <1>3
<1>. QED
  BY <1>2, <1>3

(* A step that makes no source.                                             *)
LEMMA CopyKept ==
  ASSUME CopyInv, AfterWords' => AfterWords, UNCHANGED <<text, res, src, backslash>>,
         (error'.kind = "at_least_two_arguments") <=> (error.kind = "at_least_two_arguments"),
         AfterWords' /\ call' \in {"delim", "doc"} =>
           Len(src) < Len(res) /\ Announces(NextPath, 0),
         AfterWords' /\ call' = "delim" => Reads(NextPath, 2)',
         AfterWords' /\ call' = "doc" => Given(NextPath, 2)',
         AfterWords' /\ call' = "done" => Len(src) = Len(res) - 1
  PROVE  CopyInv'
<1>1. NextPath' = NextPath
  BY DEF NextPath
<1>. QED
  BY <1>1 DEF CopyInv

LEMMA SourceIsPathCopy ==
  ASSUME PosInv, WordsInv, CopyInv, SourceIsPath
  PROVE  CopyInv'
<1>1. /\ call = "sources" /\ call' = "sources" /\ kind = "COPY" /\ AfterWords
      /\ Len(src) < Len(res) - 1 /\ src' = Append(src, AsPath)
      /\ UNCHANGED <<text, res, backslash, error>>
  BY DEF SourceIsPath, AfterWords, PosInv, scanning
<1>2. Len(src) < Len(res) /\ Len(src) \in Nat /\ Len(res) \in Nat
  BY <1>1 DEF PosInv
<1>3. ~Announces(NextPath, 0)
  BY DEF SourceIsPath, Path, PathValue, NextPath, PathOf
<1>4. SourceIs(backslash, text, AsPath, res[Len(src) + 1])
  BY <1>3 DEF SourceIs, AsPath, PathValue, DelimIn, NextPath
<1>. QED
  BY <1>1, <1>2, <1>4, CopyMore

LEMMA SourceIsDelimCopy ==
  ASSUME PosInv, WordsInv, CopyInv, SourceIsDelim
  PROVE  CopyInv'
<1>1. /\ call = "sources" /\ call' = "delim" /\ kind = "COPY" /\ AfterWords
      /\ Len(src) < Len(res) - 1 /\ UNCHANGED <<text, res, src, backslash, error>>
  BY DEF SourceIsDelim, AfterWords, PosInv, instruction
<1>2. Len(src) < Len(res) /\ Len(src) \in Nat /\ Len(res) \in Nat
  BY <1>1 DEF PosInv
<1>3. Path = NextPath
  BY DEF Path, PathValue, NextPath, PathOf
<1>4. Announces(NextPath, 0)
  BY <1>3 DEF SourceIsDelim
<1>5. /\ full' = NextPath
      /\ strip_tab' = Dashed(NextPath, 2)
      /\ delim_start' = IF strip_tab' THEN 2 + 1 ELSE 2
  BY <1>3 DEF SourceIsDelim, Dlm!Starts, Dlm!At, At, Dashed
<1>6. NextPath' = NextPath
  BY <1>1 DEF NextPath
<1>7. Reads(NextPath, 2)'
  BY <1>5, <1>6 DEF Reads, Undashed
<1>. QED
  BY <1>1, <1>2, <1>4, <1>7, CopyKept

LEMMA CopyDelimRead ==
  ASSUME PosInv, DelimInv, WordsInv, CopyInv, call = "delim", kind = "COPY",
         pc \in {"here_doc", "none"}
  PROVE  /\ AfterWords /\ Len(src) < Len(res) /\ Announces(NextPath, 0)
         /\ DelimBytes = Plain(backslash, NextPath, Undashed(NextPath, 2))
         /\ strip_tab = Dashed(NextPath, 2)
         /\ pc = "none" <=> delim = <<>>
<1>1. AfterWords
  BY DEF AfterWords
<1>2. Len(src) < Len(res) /\ Announces(NextPath, 0) /\ Reads(NextPath, 2)
  BY <1>1 DEF CopyInv
<1>3. Len(src) + 1 \in 1..Len(res)
  BY <1>2 DEF PosInv
<1>4. Len(NextPath) \in 0..MaxLen
  BY <1>1, <1>3, WordsAreArgs DEF NextPath
<1>5. 2 \in Nat
  OBVIOUS
<1>6. PICK t : t = NextPath
  OBVIOUS
<1>7. /\ DelimBytes = Plain(backslash, t, Undashed(t, 2))
      /\ pc = "none" <=> delim = <<>>
  BY <1>2, <1>4, <1>5, <1>6, DelimRead
<1>. QED
  BY <1>1, <1>2, <1>6, <1>7 DEF Reads

LEMMA DelimIsNoneCopy ==
  ASSUME PosInv, DelimInv, WordsInv, CopyInv, DelimIsNone
  PROVE  CopyInv'
<1>1. /\ call = "delim" /\ pc = "none" /\ kind = "COPY" /\ call' = "sources"
      /\ src' = Append(src, AsPath) /\ UNCHANGED <<text, res, backslash, error>>
  BY DEF DelimIsNone, scanning
<1>2. /\ AfterWords /\ Len(src) < Len(res) /\ Announces(NextPath, 0)
      /\ DelimBytes = Plain(backslash, NextPath, Undashed(NextPath, 2))
      /\ delim = <<>>
  BY <1>1, CopyDelimRead
<1>3. DelimBytes = <<>>
  BY <1>2, NoBytes DEF PosInv
<1>4. 0 + 2 = 2
  OBVIOUS
<1>5. DelimIn(backslash, NextPath, 0) = <<>>
  BY <1>2, <1>3, <1>4 DEF DelimIn
<1>6. SourceIs(backslash, text, AsPath, res[Len(src) + 1])
  BY <1>5 DEF SourceIs, AsPath, PathValue, NextPath
<1>. QED
  BY <1>1, <1>2, <1>6, CopyMore

LEMMA DelimOverCopyCopy ==
  ASSUME PosInv, DelimInv, WordsInv, CopyInv, DelimOverCopy
  PROVE  CopyInv'
<1>1. /\ call = "delim" /\ pc = "here_doc" /\ kind = "COPY" /\ call' = "doc"
      /\ UNCHANGED <<text, res, src, backslash, error, full, strip_tab, delim>>
  BY DEF DelimOverCopy, DocStarts, instruction, delimVars
<1>2. /\ AfterWords /\ Len(src) < Len(res) /\ Announces(NextPath, 0)
      /\ DelimBytes = Plain(backslash, NextPath, Undashed(NextPath, 2))
      /\ strip_tab = Dashed(NextPath, 2) /\ delim # <<>>
  BY <1>1, CopyDelimRead
<1>3. NextPath' = NextPath /\ DelimBytes' = DelimBytes
  BY <1>1 DEF NextPath, DelimBytes
<1>4. Given(NextPath, 2)'
  BY <1>1, <1>2, <1>3 DEF Given
<1>. QED
  BY <1>1, <1>2, <1>4, CopyKept

LEMMA DocOverCopy ==
  ASSUME PosInv, CopyInv, DocOver, kind = "COPY"
  PROVE  CopyInv'
<1>. DEFINE d == [delim |-> DelimBytes, strip_tab |-> strip_tab, start |-> doc.start,
                  end |-> doc.end, value |-> doc.value]
<1>1. /\ call = "doc" /\ call' = "sources" /\ src' = Append(src, d) /\ AfterWords
      /\ UNCHANGED <<text, res, backslash, error>>
  BY DEF DocOver, AfterWords, scanning
<1>2. Len(src) < Len(res) /\ Announces(NextPath, 0) /\ Given(NextPath, 2)
  BY <1>1 DEF CopyInv
<1>3. d.delim = DelimBytes /\ d.strip_tab = strip_tab
  OBVIOUS
<1>. HIDE DEF d
<1>4. DelimBytes # <<>>
  BY <1>2, NoBytes DEF Given, PosInv
<1>5. DelimIn(backslash, NextPath, 0) = DelimBytes
  <2>1. 0 + 2 = 2
    OBVIOUS
  <2>. QED
    BY <1>2, <2>1 DEF DelimIn, Given
<1>6. SourceIs(backslash, text, d, res[Len(src) + 1])
  BY <1>2, <1>3, <1>4, <1>5 DEF SourceIs, Given, NextPath
<1>. QED
  BY <1>1, <1>2, <1>6, CopyMore

LEMMA WordsOverCopy ==
  ASSUME PosInv, WordsInv, ErrorInv, WordsOver
  PROVE  CopyInv'
<1>1. /\ call = "words" /\ src = <<>> /\ error = NoError
      /\ UNCHANGED <<text, res, src, backslash>>
      /\ IF Len(res) < 2
         THEN call' = "failed" /\ error'.kind = "at_least_two_arguments"
         ELSE call' = "sources" /\ error' = error
  BY DEF WordsOver, Fail, WordsInv, ErrorInv, scanning
<1>2. error.kind # "at_least_two_arguments"
  BY <1>1 DEF NoError
<1>3. Len(<<>>) = 0 /\ Len(res) \in Nat
  BY DEF PosInv
<1>4. SourcesAre(backslash, text, <<>>, res)
  BY <1>3 DEF SourcesAre
<1>. QED
  BY <1>1, <1>2, <1>4 DEF CopyInv

LEMMA CopyNext ==
  PosInv /\ DelimInv /\ WordsInv /\ ErrorInv /\ CopyInv /\ [Next]_vars => CopyInv'
<1>. SUFFICES ASSUME PosInv, DelimInv, WordsInv, ErrorInv, CopyInv, [Next]_vars PROVE CopyInv'
  OBVIOUS
<1>1. CASE InOptions \/ InWords \/ InLine \/ OptionsOverCopy
  <2>1. call' \in {"options", "words", "line"}
    BY <1>1 DEF InOptions, InWords, InLine, OptionsOverCopy
  <2>. QED
    BY <2>1 DEF CopyInv, AfterWords
<1>2. CASE OptionsOverRun \/ DelimOverRun \/ LineOverDoc \/ LineOver
  <2>1. kind' = "RUN"
    BY <1>2 DEF OptionsOverRun, DelimOverRun, LineOverDoc, LineOver, DocStarts, instruction, WordsInv
  <2>. QED
    BY <2>1 DEF CopyInv, AfterWords
<1>3. CASE WordsOver
  BY <1>3, WordsOverCopy
<1>4. CASE SourceIsPath \/ SourceIsDelim \/ DelimIsNone \/ DelimOverCopy
  BY <1>4, SourceIsPathCopy, SourceIsDelimCopy, DelimIsNoneCopy, DelimOverCopyCopy
<1>5. CASE DocOver
  <2>1. CASE kind = "COPY"
    BY <1>5, <2>1, DocOverCopy
  <2>2. CASE kind # "COPY"
    BY <1>5, <2>2 DEF DocOver, CopyInv, AfterWords
  <2>. QED
    BY <2>1, <2>2
<1>6. CASE InDelim
  <2>1. /\ call = "delim" /\ call' = "delim"
        /\ UNCHANGED <<text, res, src, kind, error, backslash, full, strip_tab, delim_start>>
    BY <1>6 DEF InDelim, Dlm!Next, Dlm!OpenQuote, Dlm!CloseQuote, Dlm!Backslash, Dlm!DelimByte,
                Dlm!QuoteMissing, Dlm!DelimEnds, Dlm!delimVars
  <2>2. NextPath' = NextPath
    BY <2>1 DEF NextPath
  <2>3. AfterWords => Reads(NextPath, 2)' /\ Len(src) < Len(res) /\ Announces(NextPath, 0)
    BY <2>1, <2>2 DEF CopyInv, Reads
  <2>. QED
    BY <2>1, <2>3, CopyKept DEF AfterWords
<1>7. CASE InDoc
  <2>1. /\ call = "doc" /\ call' = "doc" /\ text' = text
        /\ UNCHANGED <<res, src, kind, error, backslash, full, strip_tab, delim>>
    BY <1>7 DEF InDoc, delimVars, instruction, Doc!Next, Doc!LeadingTabs, Doc!NoEnd, Doc!Terminator,
                Doc!BodyLine
  <2>2. NextPath' = NextPath /\ DelimBytes' = DelimBytes
    BY <2>1 DEF NextPath, DelimBytes
  <2>3. AfterWords => Given(NextPath, 2)' /\ Len(src) < Len(res) /\ Announces(NextPath, 0)
    BY <2>1, <2>2 DEF CopyInv, Given
  <2>. QED
    BY <2>1, <2>3, CopyKept DEF AfterWords
<1>8. CASE SourcesOver
  <2>1. /\ call = "sources" /\ call' = "done" /\ Len(src) = Len(res) - 1
        /\ UNCHANGED <<text, res, src, kind, error, backslash>>
    BY <1>8 DEF SourcesOver, instruction, scanning
  <2>. QED
    BY <2>1, CopyKept DEF AfterWords
<1>9. CASE DocFails \/ DelimFails
  <2>1. /\ call \in {"doc", "delim"} /\ call' = "failed" /\ error = NoError
        /\ error'.kind # "at_least_two_arguments"
        /\ UNCHANGED <<text, res, src, kind, backslash>>
    BY <1>9 DEF DocFails, DelimFails, Fail, ErrorInv, scanning
  <2>2. error.kind # "at_least_two_arguments"
    BY <2>1 DEF NoError
  <2>. QED
    BY <2>1, <2>2, CopyKept DEF AfterWords
<1>10. CASE UNCHANGED vars
  <2>1. UNCHANGED <<call, text, res, src, kind, error, backslash, full, strip_tab, delim_start, delim>>
    BY <1>10 DEF vars, scanning, delimVars, instruction
  <2>2. NextPath' = NextPath /\ DelimBytes' = DelimBytes
    BY <2>1 DEF NextPath, DelimBytes
  <2>. QED
    BY <2>1, <2>2 DEF CopyInv, AfterWords, Given, Reads
<1>. QED
  BY <1>1, <1>2, <1>3, <1>4, <1>5, <1>6, <1>7, <1>8, <1>9, <1>10 DEF Next

(* The here-document of a RUN.                                              *)
DocGiven ==
  /\ Heralds(text) /\ Given(text, RunStart(text) + 2)
  /\ arguments_start = EndOfWord(backslash, text, Undashed(text, RunStart(text) + 2))
NoDocGiven == ~Heralds(text) \/ DelimIn(backslash, text, RunStart(text)) = <<>>

RunSourceInv ==
  kind = "RUN" =>
    /\ call = "delim" =>
         RunStart(text) \in Nat /\ Heralds(text) /\ Reads(text, RunStart(text) + 2)
    /\ call = "line" => IF delim = <<>> THEN NoDocGiven ELSE DocGiven
    /\ call = "doc" => DocGiven
    /\ call = "done" =>
         IF delim = <<>>
         THEN src = <<>> /\ NoDocGiven
         ELSE DocGiven /\ Len(src) = 1 /\ src[1].delim = DelimBytes /\ src[1].strip_tab = strip_tab

LEMMA DelimLooked ==
  ASSUME PosInv, FlagsInv, RunInv, OptionsOverRun
  PROVE  RunSourceInv'
<1>1. /\ call = "options" /\ pc = "done" /\ kind = "RUN" /\ delim = <<>>
      /\ UNCHANGED <<text, s, backslash, kind>>
  BY DEF OptionsOverRun, RunInv, instruction
<1>2. Len(text) \in Nat /\ s \in 0..Len(text)
  BY InputsAreSequences DEF PosInv
<1>3. ArgsFrom(text, s)
  BY <1>1 DEF FlagsInv, FlagsOverInv
<1>4. s = RunStart(text) \/ (At(text, s, {"lf"}) /\ RunStart(text) = Len(text))
  BY <1>2, <1>3, StartsOfArgs
<1>5. PICK r : r = RunStart(text)
  OBVIOUS
<1>6. r \in Nat /\ (r = s \/ (At(text, s, {"lf"}) /\ r = Len(text)))
  BY <1>2, <1>4, <1>5
<1>7. AtDelim <=> ~(r + 5 > Len(text)) /\ Announces(text, r)
  <2>1. CASE r = s
    BY <1>2, <2>1 DEF AtDelim
  <2>2. CASE At(text, s, {"lf"}) /\ r = Len(text)
    BY <1>2, <2>2 DEF AtDelim, Announces, At
  <2>. QED
    BY <1>6, <2>1, <2>2
<1>8. AtDelim <=> Heralds(text)
  BY <1>5, <1>7 DEF Heralds
<1>9. CASE AtDelim
  <2>1. r = s
    BY <1>2, <1>6, <1>9 DEF AtDelim, Announces, At
  <2>2. /\ call' = "delim" /\ full' = text /\ strip_tab' = Dashed(text, s + 2)
        /\ delim_start' = IF strip_tab' THEN (s + 2) + 1 ELSE s + 2
    BY <1>9 DEF OptionsOverRun, Dlm!Starts, Dlm!At, At, Dashed
  <2>3. Reads(text, s + 2)'
    BY <1>1, <2>2 DEF Reads, Undashed
  <2>. QED
    BY <1>1, <1>5, <1>6, <1>8, <1>9, <2>1, <2>2, <2>3 DEF RunSourceInv
<1>10. CASE ~AtDelim
  <2>1. call' = "line" /\ delim' = delim
    BY <1>10 DEF OptionsOverRun, delimVars
  <2>2. NoDocGiven'
    BY <1>1, <1>8, <1>10 DEF NoDocGiven
  <2>. QED
    BY <1>1, <2>1, <2>2 DEF RunSourceInv
<1>. QED
  BY <1>9, <1>10

LEMMA DelimFound ==
  ASSUME PosInv, DelimInv, RunSourceInv, DelimOverRun
  PROVE  RunSourceInv'
<1>1. /\ call = "delim" /\ kind = "RUN" /\ pc \in {"here_doc", "none"} /\ call' = "line"
      /\ s' = (IF pc = "here_doc" THEN s_next ELSE s) /\ arguments_start' = s'
      /\ UNCHANGED <<text, delim, full, strip_tab, backslash, kind>>
  BY DEF DelimOverRun, Cur!Starts, delimVars, instruction
<1>2. Len(text) \in 0..MaxLen
  BY InputsAreSequences DEF PosInv
<1>3. PICK r : r = RunStart(text)
  OBVIOUS
<1>4. r \in Nat /\ Heralds(text) /\ Announces(text, r) /\ Reads(text, r + 2)
  BY <1>1, <1>3 DEF RunSourceInv, Heralds
<1>5. PICK i : i = r + 2
  OBVIOUS
<1>6. i \in Nat
  BY <1>4, <1>5
<1>7. /\ DelimBytes = Plain(backslash, text, Undashed(text, i))
      /\ s_next = EndOfWord(backslash, text, Undashed(text, i))
      /\ pc = "none" <=> delim = <<>>
  BY <1>1, <1>2, <1>4, <1>5, <1>6, DelimRead
<1>8. DelimBytes' = DelimBytes
  BY <1>1 DEF DelimBytes
<1>9. CASE delim = <<>>
  <2>1. DelimIn(backslash, text, RunStart(text)) = <<>>
    BY <1>3, <1>4, <1>5, <1>7, <1>9, NoBytes DEF DelimIn, PosInv
  <2>2. NoDocGiven'
    BY <1>1, <2>1 DEF NoDocGiven
  <2>. QED
    BY <1>1, <1>9, <2>2 DEF RunSourceInv
<1>10. CASE delim # <<>>
  <2>1. arguments_start' = EndOfWord(backslash, text, Undashed(text, i)) /\ strip_tab = Dashed(text, i)
    BY <1>1, <1>4, <1>5, <1>7, <1>10 DEF Reads
  <2>2. DocGiven'
    BY <1>1, <1>3, <1>4, <1>5, <1>7, <1>8, <1>10, <2>1 DEF DocGiven, Given
  <2>. QED
    BY <1>1, <1>10, <2>2 DEF RunSourceInv
<1>. QED
  BY <1>9, <1>10

LEMMA DocIsSource ==
  ASSUME PosInv, ChainInv, DocInv, RunSourceInv, DocOver
  PROVE  RunSourceInv'
<1>. DEFINE d == [delim |-> DelimBytes, strip_tab |-> strip_tab, start |-> doc.start,
                  end |-> doc.end, value |-> doc.value]
<1>. SUFFICES ASSUME kind' = "RUN" PROVE RunSourceInv'
  BY DEF RunSourceInv
<1>1. /\ call = "doc" /\ kind = "RUN" /\ call' = "done" /\ src' = Append(src, d)
      /\ UNCHANGED <<text, backslash, full, strip_tab, delim, arguments_start, kind>>
  BY DEF DocOver, scanning, delimVars, lineVars
<1>2. d.delim = DelimBytes /\ d.strip_tab = strip_tab
  OBVIOUS
<1>. HIDE DEF d
<1>3. src = <<>> /\ DocGiven /\ delim # <<>>
  BY <1>1 DEF ChainInv, RunSourceInv, DocInv
<1>4. Len(src') = 1 /\ src'[1] = d
  BY <1>1, <1>3
<1>5. DelimBytes' = DelimBytes
  BY <1>1 DEF DelimBytes
<1>6. DocGiven'
  BY <1>1, <1>3, <1>5 DEF DocGiven, Given
<1>. QED
  BY <1>1, <1>2, <1>3, <1>4, <1>5, <1>6 DEF RunSourceInv

LEMMA RunSourceNext == CallsInv /\ RunSourceInv /\ [Next]_vars => RunSourceInv'
<1>. SUFFICES ASSUME PosInv, FlagsInv, DelimInv, DocInv, WordsInv, RunInv, ChainInv, RunSourceInv,
                     [Next]_vars
              PROVE  RunSourceInv'
  BY DEF CallsInv
<1>1. CASE OptionsOverRun
  BY <1>1, DelimLooked
<1>2. CASE DelimOverRun
  BY <1>2, DelimFound
<1>3. CASE DocOver
  BY <1>3, DocIsSource
<1>4. CASE \/ InWords \/ OptionsOverCopy \/ WordsOver \/ SourceIsPath \/ SourceIsDelim
           \/ DelimIsNone \/ DelimOverCopy \/ SourcesOver
  <2>1. kind' = "COPY"
    BY <1>4 DEF InWords, OptionsOverCopy, WordsOver, SourceIsPath, SourceIsDelim, DelimIsNone,
                DelimOverCopy, DocStarts, SourcesOver, PosInv, instruction
  <2>. QED
    BY <2>1 DEF RunSourceInv
<1>5. CASE InOptions \/ DocFails \/ DelimFails
  BY <1>5 DEF InOptions, DocFails, DelimFails, Fail, RunSourceInv
<1>6. CASE InDelim
  <2>1. /\ call = "delim" /\ call' = "delim"
        /\ UNCHANGED <<text, kind, full, strip_tab, delim_start>>
    BY <1>6 DEF InDelim, Dlm!Next, Dlm!OpenQuote, Dlm!CloseQuote, Dlm!Backslash, Dlm!DelimByte,
                Dlm!QuoteMissing, Dlm!DelimEnds, Dlm!delimVars
  <2>. QED
    BY <2>1 DEF RunSourceInv, Reads
<1>7. CASE InLine \/ InDoc
  <2>1. /\ call \in {"line", "doc"} /\ call' = call
        /\ UNCHANGED <<kind, backslash, full, strip_tab, delim>>
    BY <1>7 DEF InLine, InDoc, delimVars, instruction
  <2>2. UNCHANGED <<text, arguments_start>>
    BY <1>7 DEF InLine, InDoc, lineVars, Cur!Next, Cur!LineEnds, Cur!LineContinued, Cur!LineByte,
                Cur!TrimEnd, Doc!Next, Doc!LeadingTabs, Doc!NoEnd, Doc!Terminator, Doc!BodyLine
  <2>3. DelimBytes' = DelimBytes
    BY <2>1 DEF DelimBytes
  <2>4. DocGiven' = DocGiven /\ NoDocGiven' = NoDocGiven
    BY <2>1, <2>2, <2>3 DEF DocGiven, NoDocGiven, Given
  <2>. QED
    BY <2>1, <2>4 DEF RunSourceInv
<1>8. CASE LineOverDoc \/ LineOver
  <2>1. /\ call = "line" /\ kind = "RUN"
        /\ call' = (IF delim # <<>> THEN "doc" ELSE "done")
        /\ UNCHANGED <<text, src, kind, backslash, full, strip_tab, delim, arguments_start>>
    BY <1>8 DEF LineOverDoc, LineOver, DocStarts, WordsInv, scanning, delimVars, lineVars,
                instruction
  <2>2. src = <<>>
    BY <2>1 DEF ChainInv
  <2>3. DelimBytes' = DelimBytes
    BY <2>1 DEF DelimBytes
  <2>4. DocGiven' = DocGiven /\ NoDocGiven' = NoDocGiven
    BY <2>1, <2>3 DEF DocGiven, NoDocGiven, Given
  <2>5. IF delim = <<>> THEN NoDocGiven ELSE DocGiven
    BY <2>1 DEF RunSourceInv
  <2>. QED
    BY <2>1, <2>2, <2>4, <2>5 DEF RunSourceInv
<1>9. CASE UNCHANGED vars
  <2>1. UNCHANGED <<call, text, src, kind, backslash, full, strip_tab, delim, delim_start,
                    arguments_start>>
    BY <1>9 DEF vars, scanning, delimVars, lineVars, instruction
  <2>2. DelimBytes' = DelimBytes
    BY <2>1 DEF DelimBytes
  <2>3. DocGiven' = DocGiven /\ NoDocGiven' = NoDocGiven
    BY <2>1, <2>2 DEF DocGiven, NoDocGiven, Given
  <2>. QED
    BY <2>1, <2>2, <2>3 DEF RunSourceInv, Reads
<1>. QED
  BY <1>1, <1>2, <1>3, <1>4, <1>5, <1>6, <1>7, <1>8, <1>9 DEF Next

LEMMA SourcesInvariance == Spec => [](CallsInv /\ CopyInv /\ RunSourceInv)
<1>1. Init => CopyInv /\ RunSourceInv
  BY DEF Init, CopyInv, AfterWords, RunSourceInv
<1>2. CallsInv /\ CopyInv /\ RunSourceInv /\ [Next]_vars => CopyInv' /\ RunSourceInv'
  <2>. SUFFICES ASSUME CallsInv, CopyInv, RunSourceInv, [Next]_vars
                PROVE  CopyInv' /\ RunSourceInv'
    OBVIOUS
  <2>1. /\ PosInv /\ FlagsInv /\ DelimInv /\ DocInv
        /\ WordsInv /\ RunInv /\ ChainInv /\ ErrorInv
    BY DEF CallsInv
  <2>. QED
    BY <2>1, CopyNext, RunSourceNext
<1>. QED
  BY <1>1, <1>2, CallsInvariance, PTL DEF Spec

LEMMA SourcesOfCopyAre ==
  ASSUME PosInv, WordsInv, ErrorInv, CopyInv, kind = "COPY",
         call \in {"sources", "done", "failed"}
  PROVE  SourcesOfCopy(ArgWords)
<1>1. AfterWords /\ ArgWords = ArgsOf(text)
  BY DEF AfterWords, ArgWords, ArgsOf
<1>2. /\ ArgsOf(text) = [k \in 1..Len(res) |-> WordAt(text, res[k])]
      /\ \A k \in 1..Len(res) :
           /\ Spells(res[k].value, WordAt(text, res[k]))
           /\ BytesOf(WordAt(text, res[k])) = PathOf(text, res[k])
  BY <1>1, WordsAreArgs
<1>3. /\ error.kind = "at_least_two_arguments" <=> Len(res) < 2
      /\ SourcesAre(backslash, text, src, res)
      /\ call = "done" => Len(src) = Len(res) - 1
  BY <1>1 DEF CopyInv
<1>4. DOMAIN src = 1..Len(src) /\ Len(src) \in Nat /\ Len(res) \in Nat
  BY DEF PosInv
<1>5. PICK args : args = ArgWords
  OBVIOUS
<1>6. Len(args) = Len(res) /\ \A k \in 1..Len(res) : args[k] = WordAt(text, res[k])
  BY <1>1, <1>2, <1>4, <1>5
<1>7. ASSUME NEW k \in DOMAIN src
      PROVE  IsOfWord(src[k], args[k], BytesOf(args[k]))
  <2>1. k \in 1..Len(src) /\ k \in 1..Len(res)
    BY <1>3, <1>4, <1>7 DEF SourcesAre
  <2>2. PICK w, d : w = res[k] /\ d = src[k]
    OBVIOUS
  <2>3. args[k] = WordAt(text, w) /\ BytesOf(args[k]) = PathOf(text, w)
        /\ Spells(w.value, args[k])
    BY <1>2, <1>6, <2>1, <2>2
  <2>4. SourceIs(backslash, text, d, w)
    BY <1>3, <2>1, <2>2 DEF SourcesAre
  <2>5. 0 + 2 = 2
    OBVIOUS
  <2>6. PICK p : p = PathOf(text, w)
    OBVIOUS
  <2>7. Announced(p, 0) = DelimIn(backslash, p, 0) /\ (Dlm!StripsTabs(p, 2) <=> Dashed(p, 2))
    BY <2>5, AnnouncedIs
  <2>8. IsOfWord(d, args[k], p)
    BY <2>3, <2>4, <2>6, <2>7 DEF IsOfWord, SourceIs, Dlm!StripsTabs, Dlm!At, Dashed, At
  <2>. QED
    BY <2>2, <2>3, <2>6, <2>8
<1>. QED
  BY <1>3, <1>5, <1>6, <1>7 DEF SourcesOfCopy

LEMMA SourcesOfRunAre ==
  ASSUME PosInv, RunSourceInv, kind = "RUN"
  PROVE  SourcesOfRun(ArgsStart(ArgWords))
<1>1. ArgsStart(ArgWords) = RunStart(text)
  BY DEF ArgsStart, ArgWords, ArgsOf, RunStart
<1>2. PICK r : r = RunStart(text)
  OBVIOUS
<1>3. SUFFICES ASSUME call = "done" PROVE DocOfRun(r, Announced(text, r))
  BY <1>1, <1>2 DEF SourcesOfRun
<1>4. /\ Announced(text, r) = DelimIn(backslash, text, r)
      /\ EndOfAnnounced(text, r) = EndOfWord(backslash, text, Undashed(text, r + 2))
      /\ Dlm!StripsTabs(text, r + 2) <=> Dashed(text, r + 2)
  BY AnnouncedIs
<1>5. CASE delim = <<>>
  <2>1. src = <<>> /\ NoDocGiven
    BY <1>3, <1>5 DEF RunSourceInv
  <2>2. r + 5 > Len(text) \/ DelimIn(backslash, text, r) = <<>>
    BY <1>2, <2>1 DEF NoDocGiven, Heralds, DelimIn
  <2>. QED
    BY <1>4, <2>1, <2>2 DEF DocOfRun
<1>6. CASE delim # <<>>
  <2>1. /\ Len(src) = 1 /\ src[1].delim = DelimBytes /\ src[1].strip_tab = strip_tab
        /\ Heralds(text) /\ Given(text, r + 2)
        /\ arguments_start = EndOfWord(backslash, text, Undashed(text, r + 2))
    BY <1>2, <1>3, <1>6 DEF RunSourceInv, DocGiven
  <2>2. ~(r + 5 > Len(text)) /\ DelimIn(backslash, text, r) = DelimBytes
    BY <1>2, <2>1 DEF Heralds, DelimIn, Given
  <2>3. DelimBytes # <<>>
    BY <1>6, NoBytes DEF PosInv
  <2>4. strip_tab = Dlm!StripsTabs(text, r + 2)
    BY <1>4, <2>1 DEF Given, Dashed, At, Dlm!StripsTabs, Dlm!At
  <2>. QED
    BY <1>4, <2>1, <2>2, <2>3, <2>4 DEF DocOfRun
<1>. QED
  BY <1>5, <1>6

(* parse_add_or_copy and parse_run find the here-documents that the words   *)
(* of the line announce, and those only: a source of a COPY is a path with  *)
(* all the bytes of its word or a here-document with its delimiter, and a   *)
(* RUN has one exactly if its arguments start with one.                     *)
THEOREM SourcesCorrect == Spec => []SourcesOfTheLine
<1>1. CallsInv /\ CopyInv /\ RunSourceInv => SourcesOfTheLine
  <2>. SUFFICES ASSUME CallsInv, CopyInv, RunSourceInv, call \in {"sources", "done", "failed"}
                PROVE  IF kind = "COPY" THEN SourcesOfCopy(ArgWords)
                                        ELSE SourcesOfRun(ArgsStart(ArgWords))
    BY DEF SourcesOfTheLine
  <2>1. PosInv /\ WordsInv /\ ErrorInv
    BY DEF CallsInv
  <2>2. CASE kind = "COPY"
    BY <2>1, <2>2, SourcesOfCopyAre
  <2>3. CASE kind = "RUN"
    BY <2>1, <2>3, SourcesOfRunAre
  <2>. QED
    BY <2>1, <2>2, <2>3 DEF PosInv
<1>. QED
  BY <1>1, SourcesInvariance, PTL

=====
