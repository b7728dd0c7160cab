-------------------------- MODULE LogicalLine_proofs --------------------------
(***************************************************************************)
(* What the scanners promise of the positions they return, and how a        *)
(* scanner that goes from byte to byte and from continuation to             *)
(* continuation stays within the logical line: for texts over any bytes and *)
(* of any length.  The proofs about the instructions' scanners rest on it.  *)
(***************************************************************************)
EXTENDS LogicalWords, Location, WellFoundedInduction, SequenceTheorems, FiniteSetTheorems, TLAPS

(* A set of numbers that is not empty has a least member.                   *)
LEMMA MinIs ==
  ASSUME NEW S \in SUBSET Nat, S # {}
  PROVE  Min(S) \in S /\ \A x \in S : Min(S) <= x
<1>1. PICK x \in S : \A y \in S : ~(<<y, x>> \in OpToRel(<, Nat))
  BY NatLessThanWellFounded, WFMin
<1>2. \A y \in S : ~(y < x)
  BY <1>1, Zenon DEF OpToRel
<1>3. \A y \in S : x <= y
  BY <1>2
<1>. QED
  BY <1>3 DEF Min

(* ... and, if it is bounded, a greatest.                                   *)
LEMMA MaxIs ==
  ASSUME NEW n \in Nat, NEW S \in SUBSET (0..n), S # {}
  PROVE  Max(S) \in S /\ \A x \in S : x <= Max(S)
<1>. DEFINE T == {n - x : x \in S}
<1>1. T \in SUBSET Nat /\ T # {}
  <2>1. \A x \in S : n - x \in Nat
    OBVIOUS
  <2>. QED
    BY <2>1
<1>2. PICK m \in T : \A y \in T : m <= y
  BY <1>1, MinIs
<1>3. PICK x \in S : m = n - x
  BY <1>2
<1>4. \A y \in S : x >= y
  BY <1>2, <1>3
<1>. QED
  BY <1>4 DEF Max

-----------------------------------------------------------------------------
(* A text is a sequence of at most MaxLen bytes.                            *)
LEMMA InputsAreSequences ==
  ASSUME NEW t \in Inputs
  PROVE  /\ MaxLen \in Nat
         /\ Len(t) \in 0..MaxLen
         /\ DOMAIN t = 1..Len(t)
         /\ \A i \in 1..Len(t) : t[i] \in Char
BY InputsAssumption, MaxLenAssumption

(* Skipping stops at the first byte that is not skipped, or at the end.     *)
LEMMA SkipWhileStops ==
  ASSUME NEW t, Len(t) \in Nat, NEW i \in 0..Len(t), NEW C
  PROVE  /\ SkipWhile(t, i, C) \in i..Len(t)
         /\ ~At(t, SkipWhile(t, i, C), C)
         /\ \A j \in i..SkipWhile(t, i, C) - 1 : At(t, j, C)
<1>. DEFINE S == {j \in i..Len(t) : ~At(t, j, C)}
<1>1. Len(t) \in S /\ S \in SUBSET Nat
  BY DEF At
<1>2. Min(S) \in S /\ \A x \in S : Min(S) <= x
  BY <1>1, MinIs
<1>3. ASSUME NEW j \in i..Min(S) - 1
      PROVE  At(t, j, C)
  <2>1. j \in i..Len(t) /\ j < Min(S) /\ j \in Nat /\ Min(S) \in Nat
    BY <1>2
  <2>2. j \notin S
    BY <1>2, <2>1
  <2>. QED
    BY <2>1, <2>2
<1>. QED
  BY <1>2, <1>3 DEF SkipWhile

(* A newline is one or two bytes.                                           *)
LEMMA NewlineAdvances ==
  ASSUME NEW t, Len(t) \in Nat, NEW i \in 0..Len(t)
  PROVE  /\ Newline(t, i) \in i..Len(t)
         /\ Newline(t, i) # i => t[Newline(t, i)] = "lf"
         /\ At(t, i, {"lf"}) => Newline(t, i) = i + 1
BY DEF Newline, At

(* The next line starts further on, at the end of the text at the latest.   *)
LEMMA NextLineAdvances ==
  ASSUME NEW t, Len(t) \in Nat, NEW i \in 0..Len(t)
  PROVE  NextLine(t, i) \in i..Len(t) /\ (i < Len(t) => NextLine(t, i) > i)
<1>. DEFINE S == {Len(t)} \cup {k \in i + 1..Len(t) : t[k] = "lf"}
<1>1. S \in SUBSET Nat /\ S # {}
  OBVIOUS
<1>2. Min(S) \in S
  BY <1>1, MinIs
<1>. QED
  BY <1>2 DEF NextLine

(* followup stops at the first start of a line that counts.                 *)
LEMMA FollowupStops ==
  ASSUME NEW t, Len(t) \in Nat, NEW i \in 0..Len(t)
  PROVE  /\ Followup(t, i) \in LineStarts(t, i)
         /\ Followup(t, i) \in i..Len(t)
         /\ ~Skipped(t, Followup(t, i))
         /\ \A k \in LineStarts(t, i) : k < Followup(t, i) => Skipped(t, k)
<1>. DEFINE S == {k \in LineStarts(t, i) : ~Skipped(t, k)}
<1>1. LineStarts(t, i) \in SUBSET (i..Len(t))
  BY DEF LineStarts
<1>2. ~Skipped(t, Len(t))
  <2>1. SkipWhile(t, Len(t), Whitespace) \in Len(t)..Len(t)
    BY SkipWhileStops
  <2>. QED
    BY <2>1 DEF Skipped, At
<1>3. Len(t) \in S /\ S \in SUBSET Nat
  BY <1>1, <1>2 DEF LineStarts
<1>4. Min(S) \in S /\ \A x \in S : Min(S) <= x
  BY <1>3, MinIs
<1>5. ASSUME NEW k \in LineStarts(t, i), k < Min(S)
      PROVE  Skipped(t, k)
  <2>1. k \in Nat /\ Min(S) \in Nat
    BY <1>1, <1>4
  <2>. QED
    BY <1>4, <1>5, <2>1
<1>. QED
  BY <1>1, <1>4, <1>5 DEF Followup

(* A continuation starts with the escape byte and leaves s further on, at   *)
(* the start of a line.                                                     *)
LEMMA ContinuationAdvances ==
  ASSUME NEW t, Len(t) \in Nat, NEW i \in 0..Len(t)
  PROVE  /\ Continuation(t, i) \in i..Len(t)
         /\ Continues(t, i) => /\ At(t, i, {"esc"})
                               /\ Continuation(t, i) \in i + 2..Len(t)
<1>. DEFINE w == IF At(t, i + 1, Space) THEN SkipWhile(t, i + 1, Whitespace) ELSE i + 1
            n == Newline(t, w)
<1>1. CASE At(t, i, {"esc"}) /\ n # w
  <2>1. i + 1 \in 0..Len(t)
    BY <1>1 DEF At
  <2>2. w \in i + 1..Len(t) /\ w \in 0..Len(t)
    BY <2>1, SkipWhileStops
  <2>3. n \in w + 1..Len(t) /\ n \in 0..Len(t)
    <3>1. n \in w..Len(t)
      BY <2>2, NewlineAdvances
    <3>2. n # w
      BY <1>1
    <3>. HIDE DEF w, n
    <3>. QED
      BY <2>2, <3>1, <3>2
  <2>4. Followup(t, n) \in n..Len(t)
    BY <2>3, FollowupStops
  <2>5. Continuation(t, i) = Followup(t, n)
    BY <1>1 DEF Continuation
  <2>. QED
    BY <1>1, <2>2, <2>3, <2>4, <2>5
<1>2. CASE ~(At(t, i, {"esc"}) /\ n # w)
  <2>1. Continuation(t, i) = i
    BY <1>2 DEF Continuation
  <2>. QED
    BY <2>1 DEF Continues
<1>. QED
  BY <1>1, <1>2

(* A piece of the text is the positions between its ends, in order.         *)
LEMMA PieceIs ==
  ASSUME NEW i \in Nat, NEW j \in Nat, i <= j
  PROVE  /\ Piece(i, j) \in Seq(Nat)
         /\ Len(Piece(i, j)) = j - i
         /\ \A k \in 1..j - i : Piece(i, j)[k] = i + k - 1 /\ Piece(i, j)[k] \in i..j - 1
BY DEF Piece

-----------------------------------------------------------------------------
(* The lines of a text.                                                     *)

(* A line ends at its newline, or with the text.                            *)
LEMMA EndOfIs ==
  ASSUME NEW t, Len(t) \in Nat, NEW l \in 0..Len(t)
  PROVE  /\ EndOf(t, l) \in l..Len(t)
         /\ EndOf(t, l) < Len(t) => t[EndOf(t, l) + 1] = "lf"
         /\ \A i \in l..EndOf(t, l) - 1 : t[i + 1] # "lf"
<1>. DEFINE S == {j \in l..Len(t) : j = Len(t) \/ t[j + 1] = "lf"}
<1>1. S \in SUBSET Nat /\ Len(t) \in S
  OBVIOUS
<1>2. Min(S) \in S /\ \A x \in S : Min(S) <= x
  BY <1>1, MinIs
<1>3. ASSUME NEW i \in l..Min(S) - 1
      PROVE  t[i + 1] # "lf"
  <2>1. i \in l..Len(t) /\ i < Min(S) /\ i \in Nat /\ Min(S) \in Nat
    BY <1>2
  <2>2. i \notin S
    BY <1>2, <2>1
  <2>. QED
    BY <2>1, <2>2
<1>. QED
  BY <1>2, <1>3 DEF EndOf

(* The newline found there is the end of the line.                          *)
LEMMA EndOfAt ==
  ASSUME NEW t, Len(t) \in Nat, NEW l \in 0..Len(t), NEW e \in l..Len(t),
         \A i \in l..e - 1 : t[i + 1] # "lf",
         e = Len(t) \/ t[e + 1] = "lf"
  PROVE  EndOf(t, l) = e
<1>. DEFINE f == EndOf(t, l)
<1>1. /\ f \in l..Len(t)
      /\ f < Len(t) => t[f + 1] = "lf"
      /\ \A i \in l..f - 1 : t[i + 1] # "lf"
  BY EndOfIs
<1>. HIDE DEF f
<1>2. ASSUME f < e PROVE FALSE
  <2>1. f \in l..e - 1 /\ f < Len(t)
    BY <1>1, <1>2
  <2>. QED
    BY <1>1, <2>1
<1>3. ASSUME e < f PROVE FALSE
  <2>1. e \in l..f - 1 /\ e < Len(t)
    BY <1>1, <1>3
  <2>. QED
    BY <1>1, <2>1
<1>4. f = e
  BY <1>1, <1>2, <1>3
<1>. QED
  BY <1>4 DEF f

(* Every position is on one line, which starts at or before it and has no   *)
(* newline up to it.                                                        *)
LEMMA LineOfIs ==
  ASSUME NEW t, Len(t) \in Nat, NEW i \in 0..Len(t)
  PROVE  /\ LineOf(t, i) \in Lines(t)
         /\ LineOf(t, i) \in 0..i
         /\ \A j \in LineOf(t, i)..i - 1 : t[j + 1] # "lf"
         /\ \A l \in Lines(t) : l <= i => l <= LineOf(t, i)
<1>. DEFINE S == {l \in Lines(t) : l <= i}
<1>1. S \in SUBSET (0..i) /\ 0 \in S
  BY DEF Lines
<1>2. Max(S) \in S /\ \A x \in S : x <= Max(S)
  <2>1. i \in Nat /\ S # {}
    BY <1>1
  <2>. HIDE DEF S
  <2>. QED
    BY <1>1, <2>1, MaxIs
<1>3. ASSUME NEW j \in Max(S)..i - 1
      PROVE  t[j + 1] # "lf"
  <2>1. j \in Nat /\ j + 1 \in 1..Len(t) /\ j + 1 <= i /\ j + 1 > Max(S)
    BY <1>1, <1>2
  <2>2. j + 1 \notin S
    <3>1. SUFFICES ASSUME j + 1 \in S PROVE FALSE
      OBVIOUS
    <3>2. j + 1 <= Max(S) /\ Max(S) \in Nat
      BY <1>1, <1>2, <3>1
    <3>. QED
      BY <2>1, <3>2
  <2>. QED
    BY <2>1, <2>2 DEF Lines
<1>. QED
  BY <1>1, <1>2, <1>3 DEF LineOf

(* A position is on the line l if no newline separates the two.             *)
LEMMA LineOfAt ==
  ASSUME NEW t, Len(t) \in Nat, NEW i \in 0..Len(t), NEW l \in Lines(t), l <= i,
         \A j \in l..i - 1 : t[j + 1] # "lf"
  PROVE  LineOf(t, i) = l
<1>1. l \in Nat /\ LineOf(t, i) \in Nat /\ l <= LineOf(t, i) /\ LineOf(t, i) <= i
  BY LineOfIs DEF Lines
<1>2. CASE LineOf(t, i) > l
  <2>1. LineOf(t, i) - 1 \in l..i - 1
    BY <1>1, <1>2
  <2>2. t[(LineOf(t, i) - 1) + 1] # "lf"
    BY <2>1
  <2>3. t[LineOf(t, i)] = "lf"
    BY <1>1, <1>2, LineOfIs DEF Lines
  <2>. QED
    BY <1>1, <2>2, <2>3
<1>. QED
  BY <1>1, <1>2

-----------------------------------------------------------------------------
(* What followup skips are the lines that are blank or a comment.           *)
LEMMA SkippedIs ==
  ASSUME NEW t, Len(t) \in Nat, NEW k \in 0..Len(t)
  PROVE  Skipped(t, k) <=> Blank(t, k) \/ Comment(t, k)
<1>. DEFINE w == SkipWhile(t, k, Whitespace)
            e == EndOf(t, k)
<1>1. /\ w \in k..Len(t) /\ ~At(t, w, Whitespace)
      /\ \A j \in k..w - 1 : At(t, j, Whitespace)
  BY SkipWhileStops
<1>2. /\ e \in k..Len(t) /\ (e < Len(t) => t[e + 1] = "lf")
      /\ \A i \in k..e - 1 : t[i + 1] # "lf"
  BY EndOfIs
<1>3. Skipped(t, k) <=> At(t, w, {"hash", "lf"})
  BY DEF Skipped
<1>4. Blank(t, k) <=> e < Len(t) /\ \A j \in k..e - 1 : t[j + 1] \in Whitespace
  BY DEF Blank, Terminated, RestOf
<1>5. Comment(t, k) <=> \E i \in k..e - 1 : t[i + 1] = "hash" /\ \A j \in k..i-1 : t[j + 1] \in Whitespace
  BY DEF Comment
<1>. HIDE DEF w, e
<1>6. w <= e
  <2>1. SUFFICES ASSUME e < w PROVE FALSE
    BY <1>1, <1>2
  <2>2. At(t, e, Whitespace) /\ t[e + 1] = "lf"
    BY <1>1, <1>2, <2>1
  <2>. QED
    BY <2>2 DEF At, Whitespace
<1>7. ASSUME At(t, w, {"lf"}) PROVE Blank(t, k)
  <2>1. w = e
    <3>1. SUFFICES ASSUME w < e PROVE FALSE
      BY <1>1, <1>2, <1>6
    <3>2. w \in k..e - 1
      BY <1>1, <1>2, <3>1
    <3>. QED
      BY <1>2, <1>7, <3>2 DEF At
  <2>. QED
    BY <1>1, <1>4, <1>7, <2>1 DEF At
<1>8. ASSUME At(t, w, {"hash"}) PROVE Comment(t, k)
  <2>1. w < e
    BY <1>1, <1>2, <1>6, <1>8 DEF At
  <2>2. w \in k..e - 1 /\ t[w + 1] = "hash"
    BY <1>1, <1>2, <1>8, <2>1 DEF At
  <2>3. \A j \in k..w - 1 : t[j + 1] \in Whitespace
    BY <1>1 DEF At
  <2>. QED
    BY <1>5, <2>2, <2>3
<1>9. ASSUME Blank(t, k) PROVE At(t, w, {"lf"})
  <2>1. w = e
    <3>1. SUFFICES ASSUME w < e PROVE FALSE
      BY <1>1, <1>2, <1>6
    <3>2. w \in k..e - 1 /\ w < Len(t)
      BY <1>1, <1>2, <3>1
    <3>. QED
      BY <1>1, <1>4, <1>9, <3>2 DEF At
  <2>. QED
    BY <1>1, <1>2, <1>4, <1>9, <2>1 DEF At
<1>10. ASSUME Comment(t, k) PROVE At(t, w, {"hash"})
  <2>1. PICK i \in k..e - 1 : t[i + 1] = "hash" /\ \A j \in k..i-1 : t[j + 1] \in Whitespace
    BY <1>5, <1>10
  <2>2. i \in Nat /\ i < Len(t) /\ ~At(t, i, Whitespace)
    BY <1>2, <2>1 DEF At, Whitespace
  <2>3. ~(i < w)
    BY <1>1, <2>1, <2>2
  <2>4. ~(w < i)
    <3>1. SUFFICES ASSUME w < i PROVE FALSE
      OBVIOUS
    <3>2. w \in k..i-1 /\ w < Len(t)
      BY <1>1, <2>2, <3>1
    <3>. QED
      BY <1>1, <2>1, <3>2 DEF At
  <2>5. w = i
    BY <1>1, <2>2, <2>3, <2>4
  <2>. QED
    BY <2>1, <2>2, <2>5 DEF At
<1>11. At(t, w, {"hash", "lf"}) <=> At(t, w, {"hash"}) \/ At(t, w, {"lf"})
  BY DEF At
<1>. QED
  BY <1>3, <1>7, <1>8, <1>9, <1>10, <1>11

(* A continuation is the marker at the end of a line, and leads to the      *)
(* first line after it that followup does not skip.                         *)
LEMMA ContinuesIs ==
  ASSUME NEW t, Len(t) \in Nat, NEW s \in 0..Len(t), NEW l \in 0..s,
         \A i \in l..s - 1 : t[i + 1] # "lf"
  PROVE  /\ Continues(t, s) <=> Marker(t, l, s)
         /\ Continues(t, s) => /\ EndOf(t, l) < Len(t)
                               /\ s < EndOf(t, l)
                               /\ Continuation(t, s) = Followup(t, EndOf(t, l) + 1)
<1>. DEFINE w == IF At(t, s + 1, Space) THEN SkipWhile(t, s + 1, Whitespace) ELSE s + 1
            n == Newline(t, w)
            e == EndOf(t, l)
            f == Followup(t, n)
<1>1. /\ e \in l..Len(t) /\ (e < Len(t) => t[e + 1] = "lf")
      /\ \A i \in l..e - 1 : t[i + 1] # "lf"
  BY EndOfIs
<1>2. Continues(t, s) <=> At(t, s, {"esc"}) /\ n # w
  <2>1. CASE At(t, s, {"esc"}) /\ n # w
    <3>1. s + 1 \in 0..Len(t)
      BY <2>1 DEF At
    <3>2. w \in s + 1..Len(t) /\ w \in 0..Len(t)
      BY <3>1, SkipWhileStops
    <3>3. n \in w..Len(t) /\ n \in 0..Len(t)
      BY <3>2, NewlineAdvances
    <3>4. f \in n..Len(t)
      BY <3>3, FollowupStops
    <3>5. Continuation(t, s) = f
      BY <2>1 DEF Continuation
    <3>6. f # s
      <4>. HIDE DEF w, n, f
      <4>. QED
        BY <3>2, <3>3, <3>4
    <3>. QED
      BY <2>1, <3>5, <3>6 DEF Continues
  <2>2. CASE ~(At(t, s, {"esc"}) /\ n # w)
    <3>1. Continuation(t, s) = s
      BY <2>2 DEF Continuation
    <3>. QED
      BY <2>2, <3>1 DEF Continues
  <2>. QED
    BY <2>1, <2>2
<1>3. At(t, s, {"esc"}) /\ n # w => Continuation(t, s) = f
  BY DEF Continuation
<1>4. ASSUME At(t, s, {"esc"})
      PROVE  /\ s + 1 \in 0..Len(t) /\ s < e /\ t[s + 1] = "esc"
             /\ w \in s + 1..Len(t)
             /\ \A j \in s + 1..w - 1 : At(t, j, Whitespace)
             /\ At(t, s + 1, Space) => ~At(t, w, Whitespace)
             /\ ~At(t, s + 1, Space) => w = s + 1
             /\ n # w => \/ At(t, w, {"lf"}) /\ n = w + 1
                         \/ At(t, w, {"cr"}) /\ At(t, w + 1, {"lf"}) /\ n = w + 2
             /\ n = w => ~At(t, w, {"lf"}) /\ ~(At(t, w, {"cr"}) /\ At(t, w + 1, {"lf"}))
  <2>1. s + 1 \in 0..Len(t) /\ t[s + 1] = "esc"
    BY <1>4 DEF At
  <2>2. s < e
    <3>1. SUFFICES ASSUME e <= s PROVE FALSE
      BY <1>1
    <3>2. e < Len(t) /\ t[e + 1] = "lf"
      BY <1>1, <2>1, <3>1
    <3>3. e = s \/ e \in l..s - 1
      BY <1>1, <3>1
    <3>. QED
      BY <2>1, <3>2, <3>3
  <2>3. /\ SkipWhile(t, s + 1, Whitespace) \in s + 1..Len(t)
        /\ ~At(t, SkipWhile(t, s + 1, Whitespace), Whitespace)
        /\ \A j \in s + 1..SkipWhile(t, s + 1, Whitespace) - 1 : At(t, j, Whitespace)
    BY <2>1, SkipWhileStops
  <2>4. /\ w \in s + 1..Len(t) /\ \A j \in s + 1..w - 1 : At(t, j, Whitespace)
        /\ At(t, s + 1, Space) => ~At(t, w, Whitespace)
        /\ ~At(t, s + 1, Space) => w = s + 1
    BY <2>1, <2>3
  <2>. HIDE DEF w
  <2>5. /\ n # w => \/ At(t, w, {"lf"}) /\ n = w + 1
                    \/ At(t, w, {"cr"}) /\ At(t, w + 1, {"lf"}) /\ n = w + 2
        /\ n = w => ~At(t, w, {"lf"}) /\ ~(At(t, w, {"cr"}) /\ At(t, w + 1, {"lf"}))
    BY <2>4 DEF Newline
  <2>. QED
    BY <2>1, <2>2, <2>4, <2>5
<1>5. Marker(t, l, s) <=> /\ e < Len(t) /\ s < e /\ t[s + 1] = "esc"
                          /\ \A j \in s + 1..e - 1 : t[j + 1] \in Whitespace
                          /\ \/ s + 1 = e
                             \/ t[s + 2] \in Space
                             \/ t[s + 2] = "cr" /\ s + 2 = e
  BY <1>1 DEF Marker, Terminated, RestOf
<1>. HIDE DEF w, n, e, f
<1>6. ASSUME At(t, s, {"esc"}), n # w
      PROVE  Marker(t, l, s) /\ n = e + 1
  <2>1. CASE At(t, w, {"lf"}) /\ n = w + 1
    <3>1. w < Len(t) /\ t[w + 1] = "lf"
      BY <2>1 DEF At
    <3>2. \A j \in s + 1..w - 1 : t[j + 1] \in Whitespace
      BY <1>4, <1>6 DEF At
    <3>3. \A i \in l..w - 1 : t[i + 1] # "lf"
      <4>1. \A i \in l..w - 1 : i \in l..s - 1 \/ i = s \/ i \in s + 1..w - 1
        BY <1>4, <1>6
      <4>. QED
        BY <1>4, <1>6, <3>2, <4>1 DEF Whitespace
    <3>4. e = w
      <4>1. w \in l..Len(t)
        BY <1>4, <1>6
      <4>2. e < w => e \in l..w - 1 /\ e < Len(t)
        BY <1>1, <4>1
      <4>3. w < e => w \in l..e - 1
        BY <1>1, <4>1
      <4>. QED
        BY <1>1, <3>1, <3>3, <4>1, <4>2, <4>3
    <3>5. s + 1 = e \/ t[s + 2] \in Space
      BY <1>4, <1>6, <3>4 DEF At
    <3>. QED
      BY <1>4, <1>5, <1>6, <2>1, <3>1, <3>2, <3>4, <3>5
  <2>2. CASE At(t, w, {"cr"}) /\ At(t, w + 1, {"lf"}) /\ n = w + 2
    <3>1. w = s + 1
      BY <1>4, <1>6, <2>2 DEF At, Whitespace
    <3>2. s + 2 < Len(t) /\ t[s + 2] = "cr" /\ t[s + 3] = "lf"
      BY <2>2, <3>1, <1>4, <1>6 DEF At
    <3>3. \A i \in l..s + 1 : t[i + 1] # "lf"
      <4>1. \A i \in l..s + 1 : i \in l..s - 1 \/ i = s \/ i = s + 1
        OBVIOUS
      <4>. QED
        BY <1>4, <1>6, <3>2, <4>1
    <3>4. e = s + 2
      <4>1. e < s + 2 => e \in l..s + 1 /\ e < Len(t)
        BY <1>1, <3>2
      <4>2. s + 2 < e => s + 2 \in l..e - 1 /\ (s + 2) + 1 = s + 3
        BY <1>1, <3>2
      <4>3. ~(e < s + 2)
        BY <1>1, <3>3, <4>1
      <4>4. ~(s + 2 < e)
        BY <1>1, <3>2, <4>2
      <4>. QED
        BY <1>1, <4>3, <4>4
    <3>5. \A j \in s + 1..e - 1 : t[j + 1] \in Whitespace
      BY <3>2, <3>4 DEF Whitespace
    <3>. QED
      BY <1>4, <1>5, <1>6, <2>2, <3>1, <3>2, <3>4, <3>5
  <2>. QED
    BY <1>4, <1>6, <2>1, <2>2
<1>7. ASSUME Marker(t, l, s)
      PROVE  At(t, s, {"esc"}) /\ n # w
  <2>1. At(t, s, {"esc"})
    BY <1>1, <1>5, <1>7 DEF At
  <2>2. t[e + 1] = "lf" /\ e < Len(t)
    BY <1>1, <1>5, <1>7
  <2>3. CASE s + 1 = e
    <3>1. ~At(t, s + 1, Space) /\ At(t, s + 1, {"lf"})
      BY <2>2, <2>3 DEF At, Space
    <3>. QED
      BY <1>4, <2>1, <3>1
  <2>4. CASE s + 1 # e /\ t[s + 2] \in Space
    <3>1. At(t, s + 1, Space)
      BY <1>1, <1>5, <1>7, <2>2, <2>4 DEF At
    <3>2. ~(w < e)
      <4>1. SUFFICES ASSUME w < e PROVE FALSE
        OBVIOUS
      <4>2. w \in s + 1..e - 1 /\ w < Len(t)
        BY <1>1, <1>4, <2>1, <4>1
      <4>. QED
        BY <1>4, <1>5, <1>7, <2>1, <3>1, <4>2 DEF At
    <3>3. ~(e < w)
      <4>1. SUFFICES ASSUME e < w PROVE FALSE
        OBVIOUS
      <4>2. e \in s + 1..w - 1
        BY <1>1, <1>4, <1>5, <1>7, <2>1, <4>1
      <4>. QED
        BY <1>4, <2>1, <2>2, <4>2 DEF At, Whitespace
    <3>4. w = e
      BY <1>1, <1>4, <2>1, <3>2, <3>3
    <3>5. At(t, w, {"lf"})
      BY <2>2, <3>4 DEF At
    <3>. QED
      BY <1>4, <2>1, <3>5
  <2>5. CASE t[s + 2] = "cr" /\ s + 2 = e
    <3>1. ~At(t, s + 1, Space) /\ At(t, s + 1, {"cr"}) /\ At(t, (s + 1) + 1, {"lf"})
      BY <2>2, <2>5 DEF At, Space
    <3>. QED
      BY <1>4, <2>1, <3>1
  <2>. QED
    BY <1>5, <1>7, <2>3, <2>4, <2>5
<1>8. f = Followup(t, n)
  BY DEF f
<1>9. e = EndOf(t, l)
  BY DEF e
<1>. QED
  BY <1>2, <1>3, <1>5, <1>6, <1>7, <1>8, <1>9

-----------------------------------------------------------------------------
(* Walking the instruction: where a scanner is that has passed the bytes up *)
(* to s one by one, and the continuations as a whole.  It is on a line that *)
(* counts and has not passed its marker, and the instruction did not end    *)
(* before; or the text ran out in lines that do not count.                  *)
Until(t, l) == \A k \in Lines(t) : k < l => k \notin Ends(t)
OnLine(t, s) ==
  /\ Counts(t, LineOf(t, s))
  /\ Until(t, LineOf(t, s))
  /\ \A m \in LineOf(t, s)..s - 1 : ~Marker(t, LineOf(t, s), m)
Walk(t, s) ==
  /\ s \in 0..Len(t)
  /\ \/ OnLine(t, s)
     \/ s = Len(t) /\ Ends(t) = {}

(* The first line the instruction can end on is its last.                   *)
LEMMA LastLineAt ==
  ASSUME NEW t, Len(t) \in Nat, NEW l \in Ends(t), Until(t, l)
  PROVE  LastLine(t) = l
<1>1. Ends(t) \in SUBSET Nat /\ Ends(t) \subseteq Lines(t)
  BY DEF Ends, Lines
<1>2. Min(Ends(t)) \in Ends(t) /\ Min(Ends(t)) <= l
  BY <1>1, MinIs
<1>3. ~(Min(Ends(t)) < l)
  BY <1>1, <1>2 DEF Until
<1>4. Min(Ends(t)) = l
  BY <1>1, <1>2, <1>3
<1>. QED
  BY <1>4 DEF LastLine

(* The instruction does not end before a line it reaches.                   *)
LEMMA LastLineFrom ==
  ASSUME NEW t, Len(t) \in Nat, NEW l \in 0..Len(t), Until(t, l)
  PROVE  l <= LastLine(t)
<1>1. Ends(t) \in SUBSET Nat /\ Ends(t) \subseteq Lines(t)
  BY DEF Ends, Lines
<1>2. CASE Ends(t) = {}
  BY <1>2 DEF LastLine
<1>3. CASE Ends(t) # {}
  <2>1. Min(Ends(t)) \in Ends(t)
    BY <1>1, <1>3, MinIs
  <2>2. ~(Min(Ends(t)) < l)
    BY <1>1, <2>1 DEF Until
  <2>. QED
    BY <1>1, <1>3, <2>1, <2>2 DEF LastLine
<1>. QED
  BY <1>2, <1>3

(* The walk starts with the text.                                           *)
LEMMA WalkStart ==
  ASSUME NEW t, Len(t) \in Nat
  PROVE  Walk(t, 0)
<1>1. LineOf(t, 0) = 0
  BY LineOfIs
<1>2. Until(t, 0)
  BY DEF Until, Lines
<1>. QED
  BY <1>1, <1>2 DEF Walk, OnLine, Counts

(* A byte that is neither a newline nor a continuation is the instruction's.*)
LEMMA WalkByte ==
  ASSUME NEW t, Len(t) \in Nat, NEW s, Walk(t, s),
         s < Len(t), t[s + 1] # "lf", ~Continues(t, s)
  PROVE  Walk(t, s + 1) /\ Belongs(t, s)
<1>. DEFINE l == LineOf(t, s)
<1>1. s \in 0..Len(t) /\ s + 1 \in 0..Len(t) /\ OnLine(t, s)
  BY DEF Walk
<1>2. l \in Lines(t) /\ l \in 0..s /\ \A j \in l..s - 1 : t[j + 1] # "lf"
  BY <1>1, LineOfIs
<1>3. l \in 0..s + 1 /\ \A j \in l..(s + 1) - 1 : t[j + 1] # "lf"
  <2>1. \A j \in l..(s + 1) - 1 : j = s \/ j \in l..s - 1
    BY <1>1, <1>2
  <2>. HIDE DEF l
  <2>. QED
    BY <1>1, <1>2, <2>1
<1>4. LineOf(t, s + 1) = l
  <2>1. l <= s + 1
    BY <1>3
  <2>. HIDE DEF l
  <2>. QED
    BY <1>1, <1>2, <1>3, <2>1, LineOfAt
<1>5. ~Marker(t, l, s)
  <2>. HIDE DEF l
  <2>. QED
    BY <1>1, <1>2, ContinuesIs
<1>6. \A m \in l..s : ~Marker(t, l, m)
  <2>1. \A m \in l..s : m = s \/ m \in l..s - 1
    BY <1>1, <1>2
  <2>. QED
    BY <1>1, <1>5, <2>1 DEF OnLine
<1>7. Counts(t, l) /\ Until(t, l)
  BY <1>1 DEF OnLine
<1>8. l <= LastLine(t)
  <2>1. l \in 0..Len(t)
    BY <1>1, <1>2
  <2>. HIDE DEF l
  <2>. QED
    BY <1>7, <2>1, LastLineFrom
<1>9. (s + 1) - 1 = s
  BY <1>1
<1>10. OnLine(t, s + 1)
  <2>. HIDE DEF l
  <2>. QED
    BY <1>4, <1>6, <1>7, <1>9 DEF OnLine
<1>. QED
  BY <1>1, <1>6, <1>7, <1>8, <1>10 DEF Walk, Belongs, BelongsTo

(* The walk goes on behind a continuation, whose bytes are not the          *)
(* instruction's, and none but the first of which continues it.             *)
LEMMA WalkContinued ==
  ASSUME NEW t, Len(t) \in Nat, NEW s, Walk(t, s), Continues(t, s)
  PROVE  /\ Walk(t, Continuation(t, s))
         /\ \A i \in s..Continuation(t, s) - 1 : ~Belongs(t, i)
         /\ \A i \in s + 1..Continuation(t, s) - 1 : i \notin Markers(t)
<1>. DEFINE l == LineOf(t, s)
            e == EndOf(t, l)
            f == Followup(t, e + 1)
<1>1. s \in 0..Len(t) /\ s < Len(t) /\ OnLine(t, s)
  <2>1. s \in 0..Len(t)
    BY DEF Walk
  <2>2. s < Len(t)
    BY <2>1, ContinuationAdvances DEF At
  <2>. QED
    BY <2>1, <2>2 DEF Walk
<1>2. l \in Lines(t) /\ l \in 0..s /\ \A j \in l..s - 1 : t[j + 1] # "lf"
  BY <1>1, LineOfIs
<1>3. Marker(t, l, s) /\ e < Len(t) /\ s < e /\ Continuation(t, s) = f
  <2>. HIDE DEF l
  <2>. QED
    BY <1>1, <1>2, ContinuesIs
<1>4. e \in l..Len(t) /\ t[e + 1] = "lf" /\ \A i \in l..e - 1 : t[i + 1] # "lf"
  <2>1. l \in 0..Len(t)
    BY <1>1, <1>2
  <2>. HIDE DEF l
  <2>. QED
    BY <1>3, <2>1, EndOfIs
<1>5. /\ f \in LineStarts(t, e + 1) /\ f \in e + 1..Len(t) /\ ~Skipped(t, f)
      /\ \A k \in LineStarts(t, e + 1) : k < f => Skipped(t, k)
  <2>1. e + 1 \in 0..Len(t)
    BY <1>1, <1>2, <1>3, <1>4
  <2>. HIDE DEF e
  <2>. QED
    BY <2>1, FollowupStops
<1>6. Counts(t, l) /\ Until(t, l)
  BY <1>1 DEF OnLine
<1>7. Lines(t) \in SUBSET (0..Len(t))
  BY DEF Lines
<1>. HIDE DEF l, e, f
<1>8. ASSUME NEW k \in Lines(t), l < k
      PROVE  k \in LineStarts(t, e + 1)
  <2>1. k \in 1..Len(t) /\ t[k] = "lf"
    BY <1>1, <1>2, <1>8 DEF Lines
  <2>2. ~(k <= e)
    <3>1. SUFFICES ASSUME k <= e PROVE FALSE
      OBVIOUS
    <3>2. k - 1 \in l..e - 1 /\ (k - 1) + 1 = k
      BY <1>1, <1>2, <1>4, <1>8, <2>1, <3>1
    <3>. QED
      BY <1>4, <2>1, <3>2
  <2>3. k = e + 1 \/ k \in (e + 1) + 1..Len(t)
    BY <1>1, <1>2, <1>4, <2>1, <2>2
  <2>. QED
    BY <2>1, <2>3 DEF LineStarts
<1>9. ASSUME NEW k \in Lines(t), l < k, k < f
      PROVE  ~Counts(t, k)
  <2>1. k \in 0..Len(t) /\ k # 0
    BY <1>2, <1>7, <1>9
  <2>2. Skipped(t, k)
    BY <1>5, <1>8, <1>9
  <2>. QED
    BY <2>1, <2>2, SkippedIs DEF Counts
<1>10. l \notin Ends(t)
  BY <1>3 DEF Ends, GoesOn, Marker
<1>11. Until(t, f)
  <2>1. SUFFICES ASSUME NEW k \in Lines(t), k < f PROVE k \notin Ends(t)
    BY DEF Until
  <2>2. k \in Nat /\ l \in Nat
    BY <1>2, <1>7
  <2>3. k < l \/ k = l \/ l < k
    BY <2>2
  <2>. QED
    BY <1>6, <1>9, <1>10, <2>1, <2>3 DEF Until, Ends
<1>12. ASSUME f \in Lines(t) PROVE Walk(t, f)
  <2>1. LineOf(t, f) = f
    <3>1. f \in 0..Len(t) /\ f <= f /\ \A j \in f..f - 1 : t[j + 1] # "lf"
      BY <1>2, <1>4, <1>5
    <3>. QED
      BY <1>12, <3>1, LineOfAt
  <2>2. Counts(t, f)
    BY <1>5, <1>7, <1>12, SkippedIs DEF Counts
  <2>3. \A m \in f..f - 1 : ~Marker(t, f, m)
    BY <1>7, <1>12
  <2>. QED
    BY <1>7, <1>11, <1>12, <2>1, <2>2, <2>3 DEF Walk, OnLine
<1>13. ASSUME f \notin Lines(t) PROVE Walk(t, f)
  <2>1. f = Len(t)
    <3>1. e + 1 \in Lines(t)
      BY <1>2, <1>3, <1>4 DEF Lines
    <3>. QED
      BY <1>2, <1>4, <1>5, <1>13, <3>1 DEF Lines, LineStarts
  <2>2. Ends(t) = {}
    <3>1. \A k \in Lines(t) : k < f
      BY <1>7, <1>13, <2>1
    <3>. QED
      BY <1>11, <3>1 DEF Until, Ends
  <2>. QED
    BY <2>1, <2>2 DEF Walk
<1>14. ASSUME NEW i \in s..f - 1
       PROVE  ~Belongs(t, i)
  <2>1. i \in 0..Len(t) /\ i < f /\ s <= i /\ f \in Nat
    BY <1>1, <1>2, <1>4, <1>5
  <2>2. LineOf(t, i) \in Lines(t) /\ LineOf(t, i) \in 0..i /\ l <= LineOf(t, i)
    <3>1. l <= i
      BY <1>1, <1>2, <2>1
    <3>. QED
      BY <1>2, <2>1, <3>1, LineOfIs
  <2>3. CASE LineOf(t, i) = l
    <3>1. s \in l..i
      BY <1>1, <1>2, <2>1
    <3>. QED
      BY <1>3, <2>3, <3>1 DEF Belongs, BelongsTo
  <2>4. CASE LineOf(t, i) # l
    <3>1. l < LineOf(t, i) /\ LineOf(t, i) < f
      BY <1>1, <1>2, <2>1, <2>2, <2>4
    <3>. QED
      BY <1>9, <2>2, <3>1 DEF Belongs, BelongsTo
  <2>. QED
    BY <2>3, <2>4
<1>15. ASSUME NEW i \in s + 1..f - 1, i \in Markers(t)
       PROVE  FALSE
  <2>1. i \in 0..Len(t) /\ i < f /\ s < i /\ f \in Nat
    BY <1>1, <1>2, <1>4, <1>5, <1>15
  <2>2. LineOf(t, i) \in Lines(t) /\ LineOf(t, i) \in 0..i /\ l <= LineOf(t, i)
    <3>1. l <= i
      BY <1>1, <1>2, <2>1
    <3>. QED
      BY <1>2, <2>1, <3>1, LineOfIs
  <2>3. Counts(t, LineOf(t, i)) /\ Marker(t, LineOf(t, i), i)
    BY <1>15 DEF Markers
  <2>4. CASE LineOf(t, i) = l
    <3>1. i \in s + 1..EndOf(t, l) - 1 /\ t[i + 1] = "esc"
      BY <1>1, <2>1, <2>3, <2>4 DEF Marker
    <3>2. t[i + 1] \in Whitespace
      BY <1>3, <3>1 DEF Marker, RestOf
    <3>. QED
      BY <3>1, <3>2 DEF Whitespace
  <2>5. CASE LineOf(t, i) # l
    <3>1. l < LineOf(t, i) /\ LineOf(t, i) < f
      BY <1>1, <1>2, <2>1, <2>2, <2>5
    <3>. QED
      BY <1>9, <2>2, <2>3, <3>1
  <2>. QED
    BY <2>4, <2>5
<1>. QED
  BY <1>3, <1>12, <1>13, <1>14, <1>15

(* A newline ends the walk: the instruction ends behind it, and none of the *)
(* bytes left are the instruction's but the carriage return of the newline. *)
LEMMA WalkNewline ==
  ASSUME NEW t, Len(t) \in Nat, NEW s, Walk(t, s), Newline(t, s) # s
  PROVE  /\ After(t) = Newline(t, s)
         /\ \A i \in s..Len(t) : Belongs(t, i) => i = s /\ t[s + 1] = "cr"
<1>. DEFINE l == LineOf(t, s)
            e == EndOf(t, l)
            n == Newline(t, s)
<1>1. /\ s \in 0..Len(t) /\ OnLine(t, s)
      /\ n = e + 1 /\ e < Len(t) /\ t[e + 1] = "lf"
      /\ \/ e = s
         \/ e = s + 1 /\ t[s + 1] = "cr"
      /\ l \in 0..s /\ l \in Lines(t) /\ e \in l..Len(t)
      /\ \A j \in l..e - 1 : t[j + 1] # "lf"
  <2>1. s \in 0..Len(t)
    BY DEF Walk
  <2>2. \/ At(t, s, {"lf"}) /\ n = s + 1
        \/ At(t, s, {"cr"}) /\ At(t, s + 1, {"lf"}) /\ n = s + 2
    BY DEF Newline
  <2>3. s < Len(t) /\ OnLine(t, s)
    BY <2>1, <2>2 DEF At, Walk
  <2>4. l \in Lines(t) /\ l \in 0..s /\ \A j \in l..s - 1 : t[j + 1] # "lf"
    BY <2>1, LineOfIs
  <2>. HIDE DEF l, n
  <2>5. ASSUME At(t, s, {"lf"}) PROVE e = s
    BY <2>1, <2>3, <2>4, <2>5, EndOfAt DEF At
  <2>6. ASSUME At(t, s, {"cr"}), At(t, s + 1, {"lf"}) PROVE e = s + 1
    <3>1. s + 1 \in l..Len(t) /\ t[(s + 1) + 1] = "lf" /\ t[s + 1] = "cr" /\ l \in 0..Len(t)
      BY <2>1, <2>4, <2>6 DEF At
    <3>2. \A j \in l..(s + 1) - 1 : j = s \/ j \in l..s - 1
      BY <2>1, <2>4
    <3>3. \A j \in l..(s + 1) - 1 : t[j + 1] # "lf"
      BY <2>4, <3>1, <3>2
    <3>. QED
      BY <3>1, <3>3, EndOfAt
  <2>7. e \in l..Len(t) /\ \A j \in l..e - 1 : t[j + 1] # "lf"
    <3>1. l \in 0..Len(t)
      BY <2>1, <2>4
    <3>. QED
      BY <3>1, EndOfIs
  <2>8. CASE At(t, s, {"lf"}) /\ n = s + 1
    BY <2>1, <2>3, <2>4, <2>5, <2>7, <2>8 DEF At
  <2>9. CASE At(t, s, {"cr"}) /\ At(t, s + 1, {"lf"}) /\ n = s + 2
    <3>. HIDE DEF e
    <3>. QED
      BY <2>1, <2>3, <2>4, <2>6, <2>7, <2>9 DEF At
  <2>. QED
    BY <2>2, <2>8, <2>9
<1>2. /\ Counts(t, l) /\ Until(t, l)
      /\ \A m \in l..s - 1 : ~Marker(t, l, m)
  BY <1>1 DEF OnLine
<1>. HIDE DEF l, n
<1>3. ~GoesOn(t, l)
  <2>1. SUFFICES ASSUME NEW m \in l..e - 1, Marker(t, l, m) PROVE FALSE
    BY DEF GoesOn
  <2>2. \/ m \in l..s - 1
        \/ m = s /\ t[s + 1] = "cr"
    <3>. HIDE DEF e
    <3>. QED
      BY <1>1
  <2>. QED
    BY <1>2, <2>1, <2>2 DEF Marker
<1>4. LastLine(t) = l
  <2>1. l \in Ends(t)
    BY <1>1, <1>2, <1>3 DEF Ends
  <2>. QED
    BY <1>2, <2>1, LastLineAt
<1>5. After(t) = n
  <2>. HIDE DEF e
  <2>1. {Len(t), e + 1} \in SUBSET Nat
    BY <1>1
  <2>2. /\ Min({Len(t), e + 1}) \in {Len(t), e + 1}
        /\ Min({Len(t), e + 1}) <= Len(t)
        /\ Min({Len(t), e + 1}) <= e + 1
    BY <2>1, MinIs
  <2>3. Min({Len(t), e + 1}) = e + 1
    BY <1>1, <2>2
  <2>. QED
    BY <1>1, <1>4, <2>3 DEF After, e
<1>6. ASSUME NEW i \in s..Len(t), Belongs(t, i)
      PROVE  i = s /\ t[s + 1] = "cr"
  <2>1. i \in 0..Len(t) /\ s <= i
    BY <1>1
  <2>2. LineOf(t, i) = l
    <3>1. l <= LineOf(t, i) /\ LineOf(t, i) \in 0..i
      <4>1. l <= i
        BY <1>1, <2>1
      <4>. QED
        BY <1>1, <2>1, <4>1, LineOfIs
    <3>2. LineOf(t, i) <= l
      BY <1>4, <1>6 DEF Belongs, BelongsTo
    <3>. QED
      BY <1>1, <3>1, <3>2
  <2>3. t[i + 1] # "lf"
    BY <1>6 DEF Belongs, BelongsTo
  <2>4. ~(e < i)
    <3>1. SUFFICES ASSUME e < i PROVE FALSE
      OBVIOUS
    <3>2. \A j \in l..i - 1 : t[j + 1] # "lf"
      BY <2>1, <2>2, LineOfIs
    <3>3. e \in l..i - 1
      <4>. HIDE DEF e
      <4>. QED
        BY <1>1, <2>1, <3>1
    <3>. QED
      BY <1>1, <3>2, <3>3
  <2>. HIDE DEF e
  <2>. QED
    BY <1>1, <2>1, <2>3, <2>4
<1>. QED
  BY <1>5, <1>6 DEF n

(* The end of the text ends it as well.                                     *)
LEMMA WalkEnd ==
  ASSUME NEW t, Len(t) \in Nat, Walk(t, Len(t))
  PROVE  After(t) = Len(t)
<1>1. LastLine(t) \in 0..Len(t) /\ EndOf(t, LastLine(t)) = Len(t)
  <2>1. CASE OnLine(t, Len(t))
    <3>. DEFINE l == LineOf(t, Len(t))
    <3>1. l \in Lines(t) /\ l \in 0..Len(t) /\ \A j \in l..Len(t) - 1 : t[j + 1] # "lf"
      BY LineOfIs
    <3>. HIDE DEF l
    <3>2. EndOf(t, l) = Len(t)
      <4>1. Len(t) \in l..Len(t)
        BY <3>1
      <4>. QED
        BY <3>1, <4>1, EndOfAt
    <3>3. l \in Ends(t) /\ Until(t, l)
      BY <2>1, <3>1, <3>2 DEF OnLine, Ends, GoesOn, Marker, Terminated, l
    <3>. QED
      BY <3>1, <3>2, <3>3, LastLineAt
  <2>2. CASE Ends(t) = {}
    <3>1. EndOf(t, Len(t)) \in Len(t)..Len(t)
      BY EndOfIs
    <3>. QED
      BY <2>2, <3>1 DEF LastLine
  <2>. QED
    BY <2>1, <2>2 DEF Walk
<1>2. After(t) = Min({Len(t), Len(t) + 1})
  BY <1>1 DEF After
<1>3. /\ Min({Len(t), Len(t) + 1}) \in {Len(t), Len(t) + 1}
      /\ Min({Len(t), Len(t) + 1}) <= Len(t)
  <2>1. {Len(t), Len(t) + 1} \in SUBSET Nat
    OBVIOUS
  <2>. QED
    BY <2>1, MinIs
<1>. QED
  BY <1>2, <1>3

(* At a line feed, or where the text ends, the instruction has no byte left.*)
LEMMA WalkOver ==
  ASSUME NEW t, Len(t) \in Nat, NEW s, Walk(t, s), s = Len(t) \/ At(t, s, {"lf"})
  PROVE  Newline(t, s) = After(t) /\ \A b \in s..Len(t) - 1 : ~Belongs(t, b)
<1>1. s \in 0..Len(t)
  BY DEF Walk
<1>2. CASE s = Len(t)
  <2>1. Newline(t, s) = Len(t)
    BY <1>1, <1>2 DEF Newline, At
  <2>2. After(t) = Len(t)
    BY <1>2, WalkEnd
  <2>. QED
    BY <1>1, <1>2, <2>1, <2>2
<1>3. CASE At(t, s, {"lf"})
  <2>1. Newline(t, s) # s /\ t[s + 1] = "lf"
    BY <1>1, <1>3 DEF Newline, At
  <2>2. After(t) = Newline(t, s) /\ \A b \in s..Len(t) : ~Belongs(t, b)
    BY <2>1, WalkNewline
  <2>3. \A b \in s..Len(t) - 1 : b \in s..Len(t)
    BY <1>1
  <2>. QED
    BY <2>2, <2>3
<1>. QED
  BY <1>2, <1>3

-----------------------------------------------------------------------------
(* string is the bytes of the instruction from i up to j, in their order.   *)
Collects(t, string, i, j) ==
  /\ string \in Seq(Nat)
  /\ \A k \in 1..Len(string) : string[k] \in i..j - 1 /\ Belongs(t, string[k])
  /\ \A k, m \in 1..Len(string) : k < m => string[k] < string[m]
  /\ \A b \in i..j - 1 : Belongs(t, b) => \E k \in 1..Len(string) : string[k] = b

(* A piece of which every byte is the instruction's.                        *)
LEMMA CollectsPiece ==
  ASSUME NEW t, NEW i \in Nat, NEW j \in Nat, i <= j,
         \A b \in i..j - 1 : Belongs(t, b)
  PROVE  Collects(t, Piece(i, j), i, j)
<1>. DEFINE p == Piece(i, j)
<1>1. /\ p \in Seq(Nat) /\ Len(p) = j - i
      /\ \A k \in 1..j - i : p[k] = i + k - 1 /\ p[k] \in i..j - 1
  BY PieceIs
<1>2. \A b \in i..j - 1 : b - i + 1 \in 1..j - i /\ i + (b - i + 1) - 1 = b
  OBVIOUS
<1>. HIDE DEF p
<1>3. \A b \in i..j - 1 : p[b - i + 1] = b
  BY <1>1, <1>2
<1>4. \A k, m \in 1..Len(p) : k < m => p[k] < p[m]
  BY <1>1
<1>5. \A b \in i..j - 1 : \E k \in 1..Len(p) : p[k] = b
  BY <1>1, <1>2, <1>3
<1>6. Collects(t, p, i, j)
  BY <1>1, <1>4, <1>5 DEF Collects
<1>. QED
  BY <1>6 DEF p

(* ... and after what was collected before it.                              *)
LEMMA CollectsMore ==
  ASSUME NEW t, NEW i \in Nat, NEW w \in Nat, NEW j \in Nat, i <= w, w <= j,
         NEW string, Collects(t, string, i, w),
         \A b \in w..j - 1 : Belongs(t, b)
  PROVE  Collects(t, string \o Piece(w, j), i, j)
<1>. DEFINE p == Piece(w, j)
            r == string \o p
<1>1. Collects(t, p, w, j)
  BY CollectsPiece
<1>2. string \in Seq(Nat) /\ p \in Seq(Nat) /\ Len(string) \in Nat /\ Len(p) \in Nat
  BY <1>1 DEF Collects
<1>. HIDE DEF p
<1>3. /\ r \in Seq(Nat) /\ Len(r) = Len(string) + Len(p)
      /\ \A k \in 1..Len(string) : r[k] = string[k]
      /\ \A k \in 1..Len(p) : r[Len(string) + k] = p[k]
      /\ \A k \in Len(string) + 1..Len(string) + Len(p) : r[k] = p[k - Len(string)]
  BY <1>2
<1>. HIDE DEF r
<1>4. ASSUME NEW k \in 1..Len(r)
      PROVE  \/ k \in 1..Len(string)
             \/ k \in Len(string) + 1..Len(string) + Len(p) /\ k - Len(string) \in 1..Len(p)
  BY <1>2, <1>3
<1>5. \A k \in 1..Len(string) : r[k] \in i..w - 1 /\ Belongs(t, r[k])
  BY <1>3 DEF Collects
<1>6. \A k \in Len(string) + 1..Len(r) : r[k] \in w..j - 1 /\ Belongs(t, r[k])
  <2>1. TAKE k \in Len(string) + 1..Len(r)
  <2>2. k - Len(string) \in 1..Len(p) /\ r[k] = p[k - Len(string)]
    BY <1>2, <1>3
  <2>. QED
    BY <1>1, <2>2 DEF Collects
<1>7. \A k \in 1..Len(r) : r[k] \in i..j - 1 /\ Belongs(t, r[k])
  <2>1. TAKE k \in 1..Len(r)
  <2>2. CASE k \in 1..Len(string)
    <3>1. r[k] \in i..w - 1 /\ Belongs(t, r[k])
      BY <1>5, <2>2
    <3>. QED
      BY <3>1
  <2>3. CASE k \in Len(string) + 1..Len(r)
    <3>1. r[k] \in w..j - 1 /\ Belongs(t, r[k])
      BY <1>6, <2>3
    <3>. QED
      BY <3>1
  <2>. QED
    BY <1>2, <1>3, <2>2, <2>3
<1>8. ASSUME NEW k \in 1..Len(r), NEW m \in 1..Len(r), k < m
      PROVE  r[k] < r[m]
  <2>1. CASE m \in 1..Len(string)
    <3>1. k \in 1..Len(string)
      BY <1>2, <1>8, <2>1
    <3>. QED
      BY <1>3, <1>8, <2>1, <3>1 DEF Collects
  <2>2. CASE k \in 1..Len(string) /\ m \in Len(string) + 1..Len(r)
    <3>1. r[k] \in i..w - 1 /\ r[m] \in w..j - 1
      BY <1>5, <1>6, <2>2
    <3>. QED
      BY <3>1
  <2>3. CASE k \in Len(string) + 1..Len(r)
    <3>1. /\ k - Len(string) \in 1..Len(p) /\ m - Len(string) \in 1..Len(p)
          /\ k - Len(string) < m - Len(string)
          /\ k \in Len(string) + 1..Len(string) + Len(p)
          /\ m \in Len(string) + 1..Len(string) + Len(p)
      BY SMTT(30), <1>2, <1>3, <1>8, <2>3
    <3>2. r[k] = p[k - Len(string)] /\ r[m] = p[m - Len(string)]
      BY <1>3, <3>1
    <3>3. p[k - Len(string)] < p[m - Len(string)]
      BY <1>1, <3>1 DEF Collects
    <3>. QED
      BY <3>2, <3>3
  <2>4. m \in 1..Len(string) \/ m \in Len(string) + 1..Len(r)
    BY <1>2, <1>3
  <2>5. k \in 1..Len(string) \/ k \in Len(string) + 1..Len(r)
    BY <1>2, <1>3
  <2>. QED
    BY <2>1, <2>2, <2>3, <2>4, <2>5
<1>9. ASSUME NEW b \in i..j - 1, Belongs(t, b)
      PROVE  \E k \in 1..Len(r) : r[k] = b
  <2>1. CASE b \in i..w - 1
    <3>1. PICK k \in 1..Len(string) : string[k] = b
      BY <1>9, <2>1 DEF Collects
    <3>2. k \in 1..Len(r) /\ r[k] = b
      BY SMTT(30), <1>2, <1>3, <3>1
    <3>. QED
      BY <3>2
  <2>2. CASE b \in w..j - 1
    <3>1. PICK k \in 1..Len(p) : p[k] = b
      BY <1>1, <1>9, <2>2 DEF Collects
    <3>2. r[Len(string) + k] = b
      BY <1>3, <3>1
    <3>3. Len(string) + k \in 1..Len(r)
      BY <1>2, <1>3, <3>1
    <3>. QED
      BY <3>2, <3>3
  <2>. QED
    BY <2>1, <2>2
<1>10. Collects(t, r, i, j)
  BY <1>3, <1>7, <1>8, <1>9 DEF Collects
<1>. QED
  BY <1>10 DEF r, p

(* Bytes that are not the instruction's change nothing.                     *)
LEMMA CollectsSkip ==
  ASSUME NEW t, NEW i \in Nat, NEW j \in Nat, NEW n \in Nat, i <= j, j <= n,
         NEW string, Collects(t, string, i, j),
         \A b \in j..n - 1 : ~Belongs(t, b)
  PROVE  Collects(t, string, i, n)
<1>1. \A k \in 1..Len(string) : string[k] \in i..n - 1
  <2>1. \A b \in i..j - 1 : b \in i..n - 1
    OBVIOUS
  <2>. QED
    BY <2>1 DEF Collects
<1>2. \A b \in i..n - 1 : b \in i..j - 1 \/ b \in j..n - 1
  OBVIOUS
<1>. QED
  BY <1>1, <1>2 DEF Collects

(* The instruction's first byte comes first.                                *)
LEMMA CollectsFirst ==
  ASSUME NEW t, NEW i \in Nat, NEW j \in Nat, i < j, Belongs(t, i),
         NEW string, Collects(t, string, i, j)
  PROVE  Len(string) >= 1 /\ string[1] = i
<1>1. i \in i..j - 1
  OBVIOUS
<1>2. PICK k \in 1..Len(string) : string[k] = i
  BY <1>1 DEF Collects
<1>3. Len(string) \in Nat /\ 1 \in 1..Len(string) /\ string[1] \in i..j - 1
  BY <1>2 DEF Collects
<1>4. ~(1 < k)
  <2>1. SUFFICES ASSUME 1 < k PROVE FALSE
    OBVIOUS
  <2>2. string[1] < string[k]
    BY <1>2, <1>3, <2>1 DEF Collects
  <2>. QED
    BY <1>2, <1>3, <2>2
<1>5. k = 1
  BY <1>2, <1>3, <1>4
<1>. QED
  BY <1>2, <1>3, <1>5

(* From one byte of a string to an other there are at least as many bytes   *)
(* of the text.                                                             *)
LEMMA CollectsGap ==
  ASSUME NEW t, NEW i \in Nat, NEW j \in Nat,
         NEW string, Collects(t, string, i, j),
         NEW k \in 1..Len(string), NEW m \in k..Len(string)
  PROVE  string[k] + (m - k) <= string[m]
<1>. DEFINE S == {n \in k..Len(string) : ~(string[k] + (n - k) <= string[n])}
<1>1. /\ string \in Seq(Nat) /\ Len(string) \in Nat
      /\ \A n \in 1..Len(string) : string[n] \in Nat
  BY DEF Collects
<1>2. SUFFICES ASSUME S # {} PROVE FALSE
  BY <1>1
<1>3. S \in SUBSET Nat
  BY <1>1
<1>4. Min(S) \in S /\ \A x \in S : Min(S) <= x
  BY <1>2, <1>3, MinIs
<1>5. PICK n \in k..Len(string) : n = Min(S)
  BY <1>4
<1>6. ~(string[k] + (n - k) <= string[n])
  BY <1>4, <1>5
<1>7. n # k
  <2>1. string[k] \in Nat
    BY <1>1
  <2>. QED
    BY <1>6, <2>1
<1>8. n - 1 \in k..Len(string) /\ n - 1 < n /\ n - 1 \in 1..Len(string) /\ n \in 1..Len(string)
  BY <1>1, <1>7
<1>9. n - 1 \notin S
  <2>1. SUFFICES ASSUME n - 1 \in S PROVE FALSE
    OBVIOUS
  <2>2. n <= n - 1
    BY <1>4, <1>5, <2>1
  <2>. QED
    BY <1>1, <2>2
<1>10. string[k] + ((n - 1) - k) <= string[n - 1]
  BY <1>8, <1>9
<1>11. string[n - 1] < string[n]
  BY <1>8 DEF Collects
<1>12. string[k] \in Nat /\ string[n - 1] \in Nat /\ string[n] \in Nat
  BY <1>1, <1>8
<1>. QED
  <2>1. k \in Nat /\ n \in Nat /\ Len(string) \in Nat
    BY <1>1, <1>8
  <2>. QED
    BY <1>6, <1>10, <1>11, <1>12, <2>1, SMTT(30)

(* What is collected is made of positions of the text.                      *)
LEMMA CollectsPositions ==
  ASSUME NEW t \in Inputs, NEW i \in 0..Len(t), NEW j \in 0..Len(t),
         NEW string, Collects(t, string, i, j)
  PROVE  string \in Seq(0..MaxLen)
<1>1. MaxLen \in Nat /\ Len(t) \in 0..MaxLen
  BY InputsAreSequences
<1>2. \A b \in i..j - 1 : b \in 0..MaxLen
  BY <1>1
<1>3. string \in Seq(Nat) /\ \A k \in 1..Len(string) : string[k] \in 0..MaxLen
  BY <1>2 DEF Collects
<1>4. Len(string) \in Nat /\ string \in [1..Len(string) -> Nat]
  BY <1>3, LenProperties
<1>5. string \in [1..Len(string) -> 0..MaxLen]
  BY <1>3, <1>4
<1>. QED
  BY <1>4, <1>5, SeqDef
-----------------------------------------------------------------------------
(* The words of a line.                                                     *)

(* Words that start one after the other are in order.                       *)
LEMMA InOrderIs ==
  ASSUME NEW n \in Nat, NEW W,
         \A k \in 1..n : Min(W[k]) \in Nat,
         \A k, m \in 1..n : k < m => Min(W[k]) < Min(W[m])
  PROVE  InOrder({W[k] : k \in 1..n}) = [k \in 1..n |-> W[k]]
<1>. DEFINE words == {W[k] : k \in 1..n}
            upto(j) == {W[k] : k \in 1..j}
<1>1. \A k, m \in 1..n : W[k] = W[m] => k = m
  <2>1. SUFFICES ASSUME NEW k \in 1..n, NEW m \in 1..n, W[k] = W[m], k # m PROVE FALSE
    OBVIOUS
  <2>2. CASE k < m
    BY <2>1, <2>2
  <2>3. CASE m < k
    BY <2>1, <2>3
  <2>. QED
    BY <2>1, <2>2, <2>3
<1>2. ASSUME NEW j \in 0..n
      PROVE  Cardinality(upto(j)) = j
  <2>. DEFINE f == [k \in 1..j |-> W[k]]
  <2>1. f \in [1..j -> upto(j)] /\ \A k \in 1..j : f[k] = W[k]
    OBVIOUS
  <2>2. \A k, m \in 1..j : f[k] = f[m] => k = m
    BY <1>1, <2>1
  <2>3. \A w \in upto(j) : \E k \in 1..j : f[k] = w
    BY <2>1
  <2>4. f \in Bijection(1..j, upto(j))
    BY <2>1, <2>2, <2>3 DEF Bijection, Injection, Surjection, IsInjective
  <2>5. ExistsBijection(1..j, upto(j))
    BY <2>4 DEF ExistsBijection
  <2>. QED
    BY <2>5, FS_CountingElements
<1>3. ASSUME NEW k \in 1..n
      PROVE  Cardinality(Earlier(words, W[k])) = k - 1
  <2>1. Earlier(words, W[k]) = upto(k - 1)
    <3>1. \A m \in 1..n : Min(W[m]) < Min(W[k]) <=> m \in 1..k - 1
      <4>1. TAKE m \in 1..n
      <4>2. CASE m < k
        BY <4>2
      <4>3. CASE m = k
        BY <4>3
      <4>4. CASE k < m
        BY <4>4
      <4>. QED
        BY <4>2, <4>3, <4>4
    <3>2. \A m \in 1..k - 1 : m \in 1..n
      OBVIOUS
    <3>. QED
      BY <3>1, <3>2 DEF Earlier
  <2>2. k - 1 \in 0..n
    OBVIOUS
  <2>. QED
    BY <1>2, <2>1, <2>2
<1>4. Cardinality(words) = n
  BY <1>2
<1>. HIDE DEF words
<1>5. ASSUME NEW k \in 1..n
      PROVE  (CHOOSE w \in words : Cardinality(Earlier(words, w)) = k - 1) = W[k]
  <2>1. W[k] \in words /\ Cardinality(Earlier(words, W[k])) = k - 1
    BY <1>3 DEF words
  <2>2. ASSUME NEW w \in words, Cardinality(Earlier(words, w)) = k - 1
        PROVE  w = W[k]
    <3>1. PICK m \in 1..n : w = W[m]
      BY <2>2 DEF words
    <3>2. m - 1 = k - 1
      BY <1>3, <2>2, <3>1
    <3>. QED
      BY <3>1, <3>2
  <2>. QED
    BY <2>1, <2>2
<1>6. InOrder(words) = [k \in 1..n |-> W[k]]
  BY <1>4, <1>5 DEF InOrder
<1>. QED
  BY <1>6 DEF words

(* The words as a scanner finds them: the spans q each start with a byte of *)
(* the instruction and hold no whitespace of it, whitespace of it is        *)
(* between every two, and it has no other byte before n.                    *)
SolidAt(t, b) == Belongs(t, b) /\ t[b + 1] \notin Whitespace
BlankAt(t, b) == Belongs(t, b) /\ t[b + 1] \in Whitespace

WordSpan(t, i, j) ==
  /\ i \in Nat /\ j \in Nat /\ i < j
  /\ Belongs(t, i)
  /\ \A b \in i..j - 1 : ~BlankAt(t, b)
Apart(t, i, j) == \E b \in i..j - 1 : BlankAt(t, b)

Divided(t, q, n) ==
  /\ Len(q) \in Nat
  /\ \A k \in 1..Len(q) : WordSpan(t, q[k].start, q[k].end) /\ q[k].end <= n
  /\ \A k, m \in 1..Len(q) : k < m => Apart(t, q[k].end, q[m].start)
  /\ \A b \in 0..n - 1 : SolidAt(t, b) => \E k \in 1..Len(q) : b \in q[k].start..q[k].end - 1

(* The word at a span.                                                      *)
WordAt(t, span) == {b \in span.start..span.end - 1 : Belongs(t, b)}

(* A word starts with its span.                                             *)
LEMMA WordAtIs ==
  ASSUME NEW t, NEW span, WordSpan(t, span.start, span.end)
  PROVE  /\ WordAt(t, span) \in SUBSET Nat
         /\ span.start \in WordAt(t, span)
         /\ Min(WordAt(t, span)) = span.start
<1>. DEFINE W == WordAt(t, span)
<1>1. /\ span.start \in Nat /\ span.end \in Nat /\ span.start < span.end
      /\ Belongs(t, span.start)
  BY DEF WordSpan
<1>2. W \in SUBSET Nat /\ span.start \in W /\ \A b \in W : span.start <= b
  BY <1>1 DEF WordAt
<1>. HIDE DEF W
<1>3. Min(W) \in W /\ Min(W) <= span.start
  BY <1>2, MinIs
<1>4. Min(W) \in Nat /\ span.start <= Min(W)
  BY <1>2, <1>3
<1>5. Min(W) = span.start
  BY <1>1, <1>3, <1>4
<1>. QED
  BY <1>2, <1>5 DEF W

(* Two bytes of the line without whitespace of the line between them are of *)
(* one word: the words of the reference are those at the spans.             *)
LEMMA LineWordsAre ==
  ASSUME NEW t, Len(t) \in Nat, NEW q, Divided(t, q, Len(t))
  PROVE  LineWords(t) = {WordAt(t, q[k]) : k \in 1..Len(q)}
<1>. DEFINE line == Bytes(t)
            solid == Solid(t, line)
            Run(i) == {j \in solid : Joined(line, solid, i, j)}
<1>1. /\ Len(q) \in Nat
      /\ \A k \in 1..Len(q) : WordSpan(t, q[k].start, q[k].end) /\ q[k].end <= Len(t)
      /\ \A k, m \in 1..Len(q) : k < m => Apart(t, q[k].end, q[m].start)
      /\ \A b \in 0..Len(t) - 1 :
           SolidAt(t, b) => \E k \in 1..Len(q) : b \in q[k].start..q[k].end - 1
  BY DEF Divided
<1>2. \A b : b \in line <=> b \in 0..Len(t) - 1 /\ Belongs(t, b)
  BY DEF Bytes, Belongs
<1>3. \A b : b \in solid <=> b \in 0..Len(t) - 1 /\ SolidAt(t, b)
  BY <1>2 DEF Solid, SolidAt
<1>4. \A k \in 1..Len(q) : q[k].start \in Nat /\ q[k].end \in 0..Len(t) /\ q[k].start < q[k].end
  BY <1>1 DEF WordSpan
<1>. HIDE DEF line, solid
<1>5. ASSUME NEW k \in 1..Len(q)
      PROVE  \A b \in WordAt(t, q[k]) : b \in solid
  <2>1. SUFFICES ASSUME NEW b \in WordAt(t, q[k]) PROVE b \in solid
    OBVIOUS
  <2>2. b \in q[k].start..q[k].end - 1 /\ Belongs(t, b)
    BY <2>1 DEF WordAt
  <2>3. ~BlankAt(t, b)
    BY <1>1, <2>2 DEF WordSpan
  <2>4. b \in 0..Len(t) - 1
    BY <1>4, <2>2
  <2>. QED
    BY <1>3, <2>2, <2>3, <2>4 DEF BlankAt, SolidAt
<1>6. ASSUME NEW k \in 1..Len(q), NEW m \in 1..Len(q), k < m,
             NEW i \in WordAt(t, q[k]), NEW j \in WordAt(t, q[m])
      PROVE  \E b \in line : i < b /\ b < j /\ b \notin solid
  <2>1. i \in q[k].start..q[k].end - 1 /\ j \in q[m].start..q[m].end - 1
    BY <1>6 DEF WordAt
  <2>2. PICK b \in q[k].end..q[m].start - 1 : BlankAt(t, b)
    BY <1>1, <1>6 DEF Apart
  <2>3. /\ q[k].end \in Nat /\ q[m].start \in Nat /\ q[m].start < q[m].end /\ q[m].end \in 0..Len(t)
        /\ q[k].start \in Nat
    BY <1>4
  <2>4. ASSUME NEW k1 \in Nat, NEW k2 \in Nat, NEW m1 \in Nat, NEW m2 \in 0..Len(t), m1 < m2,
               i \in k1..k2 - 1, b \in k2..m1 - 1, j \in m1..m2 - 1
        PROVE  i < b /\ b < j /\ b \in 0..Len(t) - 1
    BY <2>4
  <2>5. i < b /\ b < j /\ b \in 0..Len(t) - 1
    BY <2>1, <2>2, <2>3, <2>4
  <2>. QED
    BY <1>2, <1>3, <2>2, <2>5 DEF BlankAt, SolidAt
<1>7. ASSUME NEW k \in 1..Len(q), NEW i \in WordAt(t, q[k])
      PROVE  Run(i) = WordAt(t, q[k])
  <2>1. ASSUME NEW j \in Run(i)
        PROVE  j \in WordAt(t, q[k])
    <3>1. j \in solid /\ \A b \in line : b \in Between(i, j) => b \in solid
      BY <2>1 DEF Joined
    <3>2. j \in 0..Len(t) - 1 /\ SolidAt(t, j) /\ Belongs(t, j)
      BY <1>3, <3>1 DEF SolidAt
    <3>3. PICK m \in 1..Len(q) : j \in q[m].start..q[m].end - 1
      BY <1>1, <3>2
    <3>4. j \in WordAt(t, q[m])
      BY <3>2, <3>3 DEF WordAt
    <3>5. i \in 0..Len(t) - 1
      BY <1>3, <1>5, <1>7
    <3>6. ~(k < m)
      <4>1. SUFFICES ASSUME k < m PROVE FALSE
        OBVIOUS
      <4>2. PICK b \in line : i < b /\ b < j /\ b \notin solid
        BY <1>6, <1>7, <3>4, <4>1
      <4>3. b \in i + 1..j - 1
        BY <1>2, <3>2, <3>5, <4>2
      <4>. QED
        BY <3>1, <4>2, <4>3 DEF Between
    <3>7. ~(m < k)
      <4>1. SUFFICES ASSUME m < k PROVE FALSE
        OBVIOUS
      <4>2. PICK b \in line : j < b /\ b < i /\ b \notin solid
        BY <1>6, <1>7, <3>4, <4>1
      <4>3. b \in j + 1..i - 1
        BY <1>2, <3>2, <3>5, <4>2
      <4>. QED
        BY <3>1, <4>2, <4>3 DEF Between
    <3>8. k = m
      BY <1>1, <3>6, <3>7
    <3>. QED
      BY <3>4, <3>8
  <2>2. ASSUME NEW j \in WordAt(t, q[k])
        PROVE  j \in Run(i)
    <3>1. j \in solid
      BY <1>5, <2>2
    <3>2. ASSUME NEW b \in line, b \in Between(i, j)
          PROVE  b \in solid
      <4>1. i \in q[k].start..q[k].end - 1 /\ j \in q[k].start..q[k].end - 1
        BY <1>7, <2>2 DEF WordAt
      <4>2. b \in q[k].start..q[k].end - 1
        BY <1>4, <3>2, <4>1 DEF Between
      <4>3. b \in WordAt(t, q[k])
        BY <1>2, <3>2, <4>2 DEF WordAt
      <4>. QED
        BY <1>5, <4>3
    <3>. QED
      BY <3>1, <3>2 DEF Joined
  <2>. QED
    BY <2>1, <2>2
<1>8. ASSUME NEW i \in solid
      PROVE  \E k \in 1..Len(q) : i \in WordAt(t, q[k])
  BY <1>1, <1>3 DEF SolidAt, WordAt
<1>9. ASSUME NEW k \in 1..Len(q)
      PROVE  q[k].start \in solid /\ q[k].start \in WordAt(t, q[k])
  <2>1. q[k].start \in WordAt(t, q[k])
    BY <1>1, WordAtIs
  <2>. QED
    BY <1>5, <2>1
<1>10. LineWords(t) = {Run(i) : i \in solid}
  BY DEF LineWords, Runs, line, solid
<1>. HIDE DEF Run
<1>11. {Run(i) : i \in solid} = {WordAt(t, q[k]) : k \in 1..Len(q)}
  <2>1. ASSUME NEW i \in solid
        PROVE  \E k \in 1..Len(q) : Run(i) = WordAt(t, q[k])
    BY <1>7, <1>8
  <2>2. ASSUME NEW k \in 1..Len(q)
        PROVE  \E i \in solid : Run(i) = WordAt(t, q[k])
    BY <1>7, <1>9
  <2>. QED
    BY <2>1, <2>2
<1>. QED
  BY <1>10, <1>11

(* ... and come in their order.                                             *)
LEMMA WordsAre ==
  ASSUME NEW t, Len(t) \in Nat, NEW q, Divided(t, q, Len(t))
  PROVE  InOrder(LineWords(t)) = [k \in 1..Len(q) |-> WordAt(t, q[k])]
<1>. DEFINE W == [k \in 1..Len(q) |-> WordAt(t, q[k])]
<1>1. /\ Len(q) \in Nat
      /\ \A k \in 1..Len(q) : WordSpan(t, q[k].start, q[k].end)
      /\ \A k, m \in 1..Len(q) : k < m => Apart(t, q[k].end, q[m].start)
  BY DEF Divided
<1>2. \A k \in 1..Len(q) : Min(W[k]) = q[k].start
  BY <1>1, WordAtIs
<1>3. \A k \in 1..Len(q) : q[k].start \in Nat /\ q[k].end \in Nat /\ q[k].start < q[k].end
  BY <1>1 DEF WordSpan
<1>4. ASSUME NEW k \in 1..Len(q), NEW m \in 1..Len(q), k < m
      PROVE  q[k].start < q[m].start
  <2>1. PICK b \in q[k].end..q[m].start - 1 : TRUE
    BY <1>1, <1>4 DEF Apart
  <2>. QED
    BY <1>3, <2>1
<1>5. LineWords(t) = {W[k] : k \in 1..Len(q)}
  BY LineWordsAre
<1>. HIDE DEF W
<1>6. InOrder({W[k] : k \in 1..Len(q)}) = [k \in 1..Len(q) |-> W[k]]
  <2>1. \A k \in 1..Len(q) : Min(W[k]) \in Nat
    BY <1>2, <1>3
  <2>2. \A k, m \in 1..Len(q) : k < m => Min(W[k]) < Min(W[m])
    BY <1>2, <1>4
  <2>. QED
    BY <1>1, <2>1, <2>2, InOrderIs
<1>7. [k \in 1..Len(q) |-> W[k]] = W
  BY DEF W
<1>. QED
  BY <1>5, <1>6, <1>7 DEF W

(* Bytes that are no part of a word may follow the words ...                *)
LEMMA DividedSkip ==
  ASSUME NEW t, NEW q, NEW n \in Nat, NEW m \in Nat, n <= m, Divided(t, q, n),
         \A b \in n..m - 1 : ~SolidAt(t, b)
  PROVE  Divided(t, q, m)
<1>1. \A k \in 1..Len(q) : WordSpan(t, q[k].start, q[k].end) /\ q[k].end <= m
  <2>1. TAKE k \in 1..Len(q)
  <2>2. WordSpan(t, q[k].start, q[k].end) /\ q[k].end <= n /\ q[k].end \in Nat
    BY DEF Divided, WordSpan
  <2>. QED
    BY <2>2
<1>2. \A b \in 0..m - 1 : b \in 0..n - 1 \/ b \in n..m - 1
  OBVIOUS
<1>. QED
  BY <1>1, <1>2 DEF Divided

(* ... and then one more word, if whitespace came first.                    *)
LEMMA DividedMore ==
  ASSUME NEW t, NEW q, NEW i \in Nat, NEW j \in Nat, Divided(t, q, i), WordSpan(t, i, j),
         \A k \in 1..Len(q) : Apart(t, q[k].end, i),
         NEW r, Len(r) = Len(q) + 1,
         \A k \in 1..Len(q) : r[k] = q[k],
         r[Len(q) + 1].start = i, r[Len(q) + 1].end = j
  PROVE  Divided(t, r, j)
<1>1. Len(q) \in Nat /\ Len(r) \in Nat /\ i < j
  BY DEF Divided, WordSpan
<1>2. \A k \in 1..Len(r) : k \in 1..Len(q) \/ k = Len(q) + 1
  BY <1>1
<1>3. \A k \in 1..Len(r) : WordSpan(t, r[k].start, r[k].end) /\ r[k].end <= j
  <2>1. TAKE k \in 1..Len(r)
  <2>2. CASE k \in 1..Len(q)
    <3>1. WordSpan(t, q[k].start, q[k].end) /\ q[k].end <= i /\ q[k].end \in Nat
      BY <2>2 DEF Divided, WordSpan
    <3>. QED
      BY <1>1, <2>2, <3>1
  <2>3. CASE k = Len(q) + 1
    BY <2>3
  <2>. QED
    BY <1>2, <2>2, <2>3
<1>4. ASSUME NEW k \in 1..Len(r), NEW m \in 1..Len(r), k < m
      PROVE  Apart(t, r[k].end, r[m].start)
  <2>1. k \in 1..Len(q)
    BY <1>1, <1>4
  <2>2. CASE m \in 1..Len(q)
    BY <1>4, <2>1, <2>2 DEF Divided
  <2>3. CASE m = Len(q) + 1
    BY <2>1, <2>3
  <2>. QED
    BY <1>2, <2>2, <2>3
<1>5. ASSUME NEW b \in 0..j - 1, SolidAt(t, b)
      PROVE  \E k \in 1..Len(r) : b \in r[k].start..r[k].end - 1
  <2>1. CASE b \in 0..i - 1
    <3>1. PICK k \in 1..Len(q) : b \in q[k].start..q[k].end - 1
      BY <1>5, <2>1 DEF Divided
    <3>2. k \in 1..Len(r) /\ r[k] = q[k]
      BY <1>1, <3>1
    <3>. QED
      BY <3>1, <3>2
  <2>2. CASE b \in i..j - 1
    <3>1. Len(q) + 1 \in 1..Len(r)
      BY <1>1
    <3>. QED
      BY <2>2, <3>1
  <2>. QED
    BY <2>1, <2>2
<1>. QED
  BY <1>1, <1>3, <1>4, <1>5 DEF Divided

(* The bytes behind a whitespace that ends the last word are of words of    *)
(* their own: whatever they are, the words found so far are the first ones. *)
Parted(t, q, n) == \A k \in 1..Len(q) : Apart(t, q[k].end, n)
Completes(t, r, q, n) ==
  /\ Divided(t, r, Len(t))
  /\ Len(q) <= Len(r) /\ \A k \in 1..Len(q) : r[k] = q[k]
  /\ n < Len(t) /\ SolidAt(t, n) => Len(q) < Len(r) /\ r[Len(q) + 1].start = n

(* One word more, up to the whitespace that ends it or the end of the text. *)
LEMMA WordMore ==
  ASSUME NEW t, Len(t) \in Nat, NEW q, NEW n \in 0..Len(t),
         q \in Seq([start : Nat, end : Nat]), Divided(t, q, n), Parted(t, q, n)
  PROVE  \/ Completes(t, q, q, n)
         \/ \E r, j :
              /\ r \in Seq([start : Nat, end : Nat])
              /\ j \in n + 1..Len(t) /\ Divided(t, r, j)
              /\ Len(r) = Len(q) + 1 /\ \A k \in 1..Len(q) : r[k] = q[k]
              /\ SolidAt(t, n) => r[Len(q) + 1].start = n
              /\ j = Len(t) \/ Parted(t, r, j)
<1>. DEFINE S == {b \in n..Len(t) - 1 : SolidAt(t, b)}
<1>1. n \in Nat /\ n <= Len(t) /\ Len(q) \in Nat
  OBVIOUS
<1>2. CASE S = {}
  <2>1. Divided(t, q, Len(t))
    BY <1>1, <1>2, DividedSkip
  <2>2. ~(n < Len(t) /\ SolidAt(t, n))
    BY <1>1, <1>2
  <2>. QED
    BY <1>1, <2>1, <2>2 DEF Completes
<1>3. CASE S # {}
  <2>. DEFINE i == Min(S)
              E == {e \in i..Len(t) : e = Len(t) \/ BlankAt(t, e)}
              e == Min(E)
              r == Append(q, [start |-> i, end |-> e])
  <2>1. i \in S /\ \A b \in S : i <= b
    <3>1. S \in SUBSET Nat
      BY <1>1
    <3>. HIDE DEF S
    <3>. QED
      BY <1>3, <3>1, MinIs
  <2>2. i \in n..Len(t) - 1 /\ SolidAt(t, i) /\ i \in Nat
    BY <1>1, <2>1
  <2>3. \A b \in n..i - 1 : ~SolidAt(t, b)
    <3>1. SUFFICES ASSUME NEW b \in n..i - 1, SolidAt(t, b) PROVE FALSE
      OBVIOUS
    <3>2. b \in S /\ b < i
      BY <1>1, <2>2, <3>1
    <3>3. i <= b
      BY <2>1, <3>2
    <3>. QED
      BY <2>2, <3>1, <3>2, <3>3
  <2>4. SolidAt(t, n) => i = n
    <3>1. SolidAt(t, n) => n \in S
      BY <1>1, <2>2
    <3>. HIDE DEF i, S
    <3>. QED
      BY <1>1, <2>1, <2>2, <3>1
  <2>. HIDE DEF i, S
  <2>5. e \in E /\ \A x \in E : e <= x
    <3>1. E \in SUBSET Nat /\ Len(t) \in E
      BY <1>1, <2>2
    <3>. HIDE DEF E
    <3>. QED
      BY <3>1, MinIs
  <2>6. e \in i..Len(t) /\ e \in Nat /\ (e = Len(t) \/ BlankAt(t, e))
    BY <2>2, <2>5
  <2>7. \A b \in i..e - 1 : ~BlankAt(t, b)
    <3>1. SUFFICES ASSUME NEW b \in i..e - 1, BlankAt(t, b) PROVE FALSE
      OBVIOUS
    <3>2. b \in E /\ b < e
      BY <2>2, <2>6, <3>1
    <3>3. e <= b
      BY <2>5, <3>2
    <3>. QED
      BY <2>6, <3>1, <3>2, <3>3
  <2>. HIDE DEF e, E
  <2>8. i < e
    <3>1. e # i
      BY <2>2, <2>6 DEF SolidAt, BlankAt
    <3>. QED
      BY <2>2, <2>6, <3>1
  <2>9. WordSpan(t, i, e)
    BY <2>2, <2>6, <2>7, <2>8 DEF WordSpan, SolidAt
  <2>10. Divided(t, q, i) /\ Parted(t, q, i)
    <3>1. Divided(t, q, i)
      <4>1. n <= i
        BY <1>1, <2>2
      <4>. QED
        BY <1>1, <2>2, <2>3, <4>1, DividedSkip
    <3>2. ASSUME NEW k \in 1..Len(q) PROVE Apart(t, q[k].end, i)
      <4>1. PICK b \in q[k].end..n - 1 : BlankAt(t, b)
        BY DEF Parted, Apart
      <4>2. q[k].end \in Nat
        BY DEF Divided, WordSpan
      <4>3. b \in q[k].end..i - 1
        BY <1>1, <2>2, <4>1, <4>2
      <4>. QED
        BY <4>1, <4>3 DEF Apart
    <3>. QED
      BY <3>1, <3>2 DEF Parted
  <2>11. /\ r \in Seq([start : Nat, end : Nat]) /\ Len(r) = Len(q) + 1
         /\ \A k \in 1..Len(q) : r[k] = q[k]
         /\ r[Len(q) + 1].start = i /\ r[Len(q) + 1].end = e
    BY <1>1, <2>2, <2>6
  <2>. HIDE DEF r
  <2>12. Divided(t, r, e)
    BY <2>2, <2>6, <2>9, <2>10, <2>11, DividedMore DEF Parted
  <2>13. CASE e = Len(t)
    <3>1. e \in n + 1..Len(t)
      BY <1>1, <2>2, <2>6, <2>8
    <3>. QED
      BY <2>4, <2>11, <2>12, <2>13, <3>1
  <2>14. CASE e # Len(t)
    <3>1. e + 1 \in n + 1..Len(t) /\ e + 1 \in Nat /\ e <= e + 1 /\ BlankAt(t, e)
      BY <1>1, <2>2, <2>6, <2>8, <2>14
    <3>2. Divided(t, r, e + 1)
      <4>1. \A b \in e..(e + 1) - 1 : b = e
        BY <2>6
      <4>2. \A b \in e..(e + 1) - 1 : ~SolidAt(t, b)
        BY <3>1, <4>1 DEF SolidAt, BlankAt
      <4>. QED
        BY <2>6, <2>12, <3>1, <4>2, DividedSkip
    <3>3. ASSUME NEW k \in 1..Len(r)
          PROVE  Apart(t, r[k].end, e + 1)
      <4>1. r[k].end \in Nat /\ r[k].end <= e
        BY <2>12 DEF Divided, WordSpan
      <4>2. e \in r[k].end..(e + 1) - 1
        BY <2>6, <4>1
      <4>. QED
        BY <3>1, <4>2 DEF Apart
    <3>. QED
      BY <2>4, <2>11, <3>1, <3>2, <3>3 DEF Parted
  <2>. QED
    BY <2>13, <2>14
<1>. QED
  BY <1>2, <1>3

(* No text has a word after which there is no telling.                      *)
LEMMA WordsComplete ==
  ASSUME NEW t, Len(t) \in Nat, NEW q, NEW n \in 0..Len(t),
         q \in Seq([start : Nat, end : Nat]), Divided(t, q, n), Parted(t, q, n)
  PROVE  \E r : Completes(t, r, q, n)
<1>. DEFINE Found(p, m) ==
              /\ p \in Seq([start : Nat, end : Nat]) /\ m \in 0..Len(t)
              /\ Divided(t, p, m) /\ Parted(t, p, m)
            Bad == {d \in Nat : \E p, m : /\ Found(p, m) /\ d = Len(t) - m
                                         /\ ~\E r : Completes(t, r, p, m)}
<1>1. SUFFICES ASSUME Bad # {} PROVE FALSE
  <2>1. Len(t) - n \in Nat /\ Found(q, n)
    OBVIOUS
  <2>. QED
    BY <2>1
<1>2. PICK d \in Bad : \A x \in Bad : d <= x
  <2>1. Bad \in SUBSET Nat
    OBVIOUS
  <2>. HIDE DEF Bad
  <2>. QED
    BY <1>1, <2>1, MinIs
<1>3. PICK p, m : /\ Found(p, m) /\ d = Len(t) - m
                  /\ ~\E r : Completes(t, r, p, m)
  BY <1>2
<1>4. d \in Nat /\ Len(p) \in Nat
  BY <1>2, <1>3
<1>5. PICK r, j :
        /\ r \in Seq([start : Nat, end : Nat])
        /\ j \in m + 1..Len(t) /\ Divided(t, r, j)
        /\ Len(r) = Len(p) + 1 /\ \A k \in 1..Len(p) : r[k] = p[k]
        /\ SolidAt(t, m) => r[Len(p) + 1].start = m
        /\ j = Len(t) \/ Parted(t, r, j)
  BY <1>3, WordMore
<1>6. ASSUME NEW u, Divided(t, u, Len(t)), Len(r) <= Len(u), \A k \in 1..Len(r) : u[k] = r[k]
      PROVE  FALSE
  <2>1. Len(u) \in Nat
    BY <1>6 DEF Divided
  <2>2. /\ Len(p) <= Len(u) /\ Len(p) < Len(u)
        /\ \A k \in 1..Len(p) : k \in 1..Len(r) /\ u[k] = p[k]
        /\ u[Len(p) + 1] = r[Len(p) + 1]
    <3>1. Len(p) + 1 \in 1..Len(r) /\ \A k \in 1..Len(p) : k \in 1..Len(r)
      BY SMTT(30), <1>4, <1>5
    <3>2. Len(p) + 1 <= Len(u)
      BY <1>5, <1>6
    <3>3. \A k \in 1..Len(p) : u[k] = r[k] /\ r[k] = p[k]
      BY <1>5, <1>6, <3>1
    <3>4. Len(p) <= Len(u) /\ Len(p) < Len(u)
      BY <1>4, <2>1, <3>2
    <3>. QED
      BY <1>6, <3>1, <3>3, <3>4
  <2>3. Completes(t, u, p, m)
    BY <1>5, <1>6, <2>2 DEF Completes
  <2>. QED
    BY <1>3, <2>3
<1>7. CASE j = Len(t)
  <2>1. Len(r) <= Len(r)
    BY <1>4, <1>5
  <2>. QED
    BY <1>5, <1>6, <1>7, <2>1
<1>8. CASE Parted(t, r, j)
  <2>1. Len(t) - j \in Nat /\ Len(t) - j < d /\ j \in 0..Len(t)
    BY <1>3, <1>4, <1>5
  <2>2. Found(r, j)
    BY <1>5, <1>8, <2>1
  <2>3. Len(t) - j \notin Bad
    <3>1. ~(d <= Len(t) - j)
      BY <1>4, <2>1
    <3>. HIDE DEF Bad
    <3>. QED
      BY <1>2, <3>1
  <2>4. PICK u : Completes(t, u, r, j)
    BY <2>1, <2>2, <2>3
  <2>. QED
    BY <1>6, <2>4 DEF Completes
<1>. QED
  BY <1>5, <1>7, <1>8

Span == [start : Nat, end : Nat]

(* What the words found so far tell of the words of the line: they come     *)
(* first, and the next one is the run of bytes that starts at n.            *)
WordFrom(t, w, n) ==
  /\ Min(w) = n
  /\ \A b : b \in w <=> /\ b \in n..Len(t) - 1 /\ SolidAt(t, b)
                        /\ \A c \in n..b : ~BlankAt(t, c)

LEMMA FirstWords ==
  ASSUME NEW t, Len(t) \in Nat, NEW q, NEW n, n \in 0..Len(t),
         q \in Seq(Span), Divided(t, q, n), Parted(t, q, n),
         NEW words, words = InOrder(LineWords(t))
  PROVE  /\ Len(words) \in Nat /\ Len(q) <= Len(words)
         /\ \A k \in 1..Len(q) : words[k] = WordAt(t, q[k])
         /\ n < Len(t) /\ SolidAt(t, n) =>
              Len(q) + 1 <= Len(words) /\ WordFrom(t, words[Len(q) + 1], n)
<1>1. PICK r : Completes(t, r, q, n)
  <2>1. q \in Seq([start : Nat, end : Nat])
    BY DEF Span
  <2>. QED
    BY <2>1, WordsComplete
<1>2. /\ Divided(t, r, Len(t)) /\ Len(r) \in Nat /\ Len(q) \in Nat
      /\ Len(q) <= Len(r) /\ \A k \in 1..Len(q) : r[k] = q[k]
  BY <1>1 DEF Completes, Divided
<1>3. words = [k \in 1..Len(r) |-> WordAt(t, r[k])]
  BY <1>2, WordsAre
<1>4. Len(words) = Len(r) /\ \A k \in 1..Len(r) : words[k] = WordAt(t, r[k])
  BY <1>2, <1>3
<1>5. \A k \in 1..Len(q) : k \in 1..Len(r) /\ words[k] = WordAt(t, q[k])
  BY <1>2, <1>4
<1>6. ASSUME n < Len(t), SolidAt(t, n)
      PROVE  Len(q) + 1 <= Len(words) /\ WordFrom(t, words[Len(q) + 1], n)
  <2>. DEFINE l == Len(q) + 1
  <2>1. l \in 1..Len(r) /\ r[l].start = n
    BY <1>1, <1>2, <1>6 DEF Completes
  <2>2. ASSUME NEW k \in 1..Len(r)
        PROVE  /\ WordSpan(t, r[k].start, r[k].end)
               /\ r[k].start \in Nat /\ r[k].end \in Nat /\ r[k].start < r[k].end
               /\ r[k].end <= Len(t)
    BY <1>2 DEF Divided, WordSpan
  <2>3. words[l] = WordAt(t, r[l]) /\ Min(words[l]) = n
    BY <1>4, <2>1, <2>2, WordAtIs
  <2>4. ASSUME NEW b \in WordAt(t, r[l])
        PROVE  /\ b \in n..Len(t) - 1 /\ SolidAt(t, b)
               /\ \A c \in n..b : ~BlankAt(t, c)
    <3>1. b \in n..r[l].end - 1 /\ Belongs(t, b)
      BY <2>1 DEF WordAt
    <3>2. \A c \in n..r[l].end - 1 : ~BlankAt(t, c)
      BY <2>1, <2>2 DEF WordSpan
    <3>3. r[l].end \in Nat /\ r[l].end <= Len(t) /\ n \in Nat
      BY <2>1, <2>2
    <3>4. b \in n..Len(t) - 1 /\ \A c \in n..b : c \in n..r[l].end - 1
      BY SMTT(30), <3>1, <3>3
    <3>. QED
      BY <3>1, <3>2, <3>4 DEF SolidAt, BlankAt
  <2>5. ASSUME NEW b \in n..Len(t) - 1, SolidAt(t, b), \A c \in n..b : ~BlankAt(t, c)
        PROVE  b \in WordAt(t, r[l])
    <3>1. b \in 0..Len(t) - 1
      OBVIOUS
    <3>2. PICK m \in 1..Len(r) : b \in r[m].start..r[m].end - 1
      BY <1>2, <2>5, <3>1 DEF Divided
    <3>3. ~(m < l)
      <4>1. SUFFICES ASSUME m < l PROVE FALSE
        OBVIOUS
      <4>2. m \in 1..Len(q)
        BY <1>2, <4>1
      <4>3. r[m].end <= n
        BY <1>2, <4>2 DEF Divided
      <4>4. r[m].start \in Nat /\ r[m].end \in Nat /\ n \in Nat
        BY <2>2
      <4>. QED
        BY <2>5, <3>2, <4>3, <4>4
    <3>4. ~(l < m)
      <4>1. SUFFICES ASSUME l < m PROVE FALSE
        OBVIOUS
      <4>2. PICK c \in r[l].end..r[m].start - 1 : BlankAt(t, c)
        BY <1>2, <2>1, <4>1 DEF Divided, Apart
      <4>3. /\ r[l].end \in Nat /\ n < r[l].end /\ n \in Nat
            /\ r[m].start \in Nat /\ r[m].end \in Nat
        BY <2>1, <2>2
      <4>4. ASSUME NEW e \in Nat, NEW f \in Nat, NEW g \in Nat, n < e,
                   c \in e..f - 1, b \in f..g - 1
            PROVE  c \in n..b
        BY <4>4
      <4>5. c \in n..b
        BY <3>2, <4>2, <4>3, <4>4
      <4>. QED
        BY <2>5, <4>2, <4>5
    <3>5. m = l
      BY <2>1, <3>3, <3>4
    <3>. QED
      BY <2>5, <3>2, <3>5 DEF WordAt, SolidAt
  <2>6. l <= Len(words)
    BY <1>4, <2>1
  <2>. QED
    BY <2>3, <2>4, <2>5, <2>6 DEF WordFrom
<1>. QED
  BY <1>2, <1>4, <1>5, <1>6

(* The words of the line behind the first ones start where the next does.   *)
LEMMA RestOfWords ==
  ASSUME NEW t, Len(t) \in Nat, NEW q, NEW n, n \in 0..Len(t),
         q \in Seq(Span), Divided(t, q, n), Parted(t, q, n), n < Len(t), SolidAt(t, n),
         NEW rest, rest = LineWords(t) \ {WordAt(t, q[k]) : k \in 1..Len(q)}
  PROVE  rest # {} /\ Min(UNION rest) = n
<1>1. PICK r : Completes(t, r, q, n)
  <2>1. q \in Seq([start : Nat, end : Nat])
    BY DEF Span
  <2>. QED
    BY <2>1, WordsComplete
<1>. DEFINE l == Len(q) + 1
<1>2. /\ Divided(t, r, Len(t)) /\ Len(r) \in Nat /\ Len(q) \in Nat /\ l \in 1..Len(r)
      /\ \A k \in 1..Len(q) : r[k] = q[k]
      /\ r[l].start = n
  BY <1>1 DEF Completes, Divided
<1>3. ASSUME NEW k \in 1..Len(r)
      PROVE  /\ WordSpan(t, r[k].start, r[k].end)
             /\ r[k].start \in Nat /\ r[k].end \in Nat /\ r[k].start < r[k].end
             /\ Min(WordAt(t, r[k])) = r[k].start
             /\ r[k].start \in WordAt(t, r[k])
             /\ \A b \in WordAt(t, r[k]) : b \in Nat /\ r[k].start <= b
  <2>1. WordSpan(t, r[k].start, r[k].end)
    BY <1>2 DEF Divided
  <2>2. r[k].start \in Nat /\ r[k].end \in Nat /\ r[k].start < r[k].end
    BY <2>1 DEF WordSpan
  <2>3. \A b \in WordAt(t, r[k]) : b \in Nat /\ r[k].start <= b
    BY <2>2 DEF WordAt
  <2>. QED
    BY <2>1, <2>2, <2>3, WordAtIs
<1>4. LineWords(t) = {WordAt(t, r[k]) : k \in 1..Len(r)}
  BY <1>2, LineWordsAre
<1>5. WordAt(t, r[l]) \in rest
  <2>1. SUFFICES ASSUME NEW k \in 1..Len(q), WordAt(t, r[l]) = WordAt(t, q[k]) PROVE FALSE
    BY <1>2, <1>4
  <2>2. k \in 1..Len(r) /\ r[k] = q[k] /\ r[k].end <= n
    BY <1>2 DEF Divided
  <2>3. r[k].start = n
    BY <1>2, <1>3, <2>1, <2>2
  <2>. QED
    BY <1>3, <2>2, <2>3
<1>6. ASSUME NEW b \in UNION rest
      PROVE  b \in Nat /\ n <= b
  <2>1. PICK k \in 1..Len(r) : b \in WordAt(t, r[k]) /\ WordAt(t, r[k]) \in rest
    BY <1>4, <1>6
  <2>2. k \notin 1..Len(q)
    BY <1>2, <2>1
  <2>3. b \in Nat /\ r[k].start <= b /\ r[k].start \in Nat
    BY <1>3, <2>1
  <2>4. CASE k = l
    BY <1>2, <2>3, <2>4
  <2>5. CASE l < k
    <3>1. PICK c \in r[l].end..r[k].start - 1 : BlankAt(t, c)
      BY <1>2, <2>5 DEF Divided, Apart
    <3>2. r[l].end \in Nat /\ n < r[l].end /\ n \in Nat
      BY <1>2, <1>3
    <3>. QED
      BY SMTT(30), <2>3, <3>1, <3>2
  <2>. QED
    BY <1>2, <2>2, <2>4, <2>5
<1>7. n \in UNION rest
  BY <1>2, <1>3, <1>5
<1>8. UNION rest \in SUBSET Nat /\ UNION rest # {}
  BY <1>6, <1>7
<1>9. Min(UNION rest) \in UNION rest /\ Min(UNION rest) <= n
  BY <1>7, <1>8, MinIs
<1>10. Min(UNION rest) \in Nat /\ n <= Min(UNION rest)
  BY <1>6, <1>9
<1>. QED
  BY <1>5, <1>9, <1>10

(* The flags are the first words if the next one is none, or there is none. *)
LEMMA LeadingFlagsAre ==
  ASSUME NEW t, NEW words \in Seq(SUBSET Nat), NEW n \in 0..Len(words),
         \A k \in 1..n : IsFlag(t, words[k]),
         n < Len(words) => ~IsFlag(t, words[n + 1]),
         NEW flags, flags = LeadingFlags(t, words)
  PROVE  /\ flags \in Seq(SUBSET Nat) /\ Len(flags) = n
         /\ \A k \in 1..n : flags[k] = words[k]
<1>. DEFINE plain == {k \in DOMAIN words : ~IsFlag(t, words[k])}
<1>1. Len(words) \in Nat /\ DOMAIN words = 1..Len(words)
  OBVIOUS
<1>2. \A k \in plain : k \in 1..Len(words) /\ n < k
  BY <1>1
<1>3. CASE n = Len(words)
  <2>1. plain = {}
    BY <1>1, <1>2, <1>3
  <2>2. flags = words
    BY <2>1 DEF LeadingFlags
  <2>. QED
    BY <1>1, <1>3, <2>2
<1>4. CASE n < Len(words)
  <2>1. n + 1 \in plain /\ plain \in SUBSET Nat
    BY <1>1, <1>2, <1>4
  <2>2. Min(plain) \in plain /\ Min(plain) <= n + 1
    BY <2>1, MinIs
  <2>3. Min(plain) = n + 1
    BY <1>2, <2>2
  <2>4. flags = SubSeq(words, 1, (n + 1) - 1)
    <3>1. plain # {}
      BY <2>1
    <3>. QED
      BY <2>3, <3>1 DEF LeadingFlags
  <2>5. (n + 1) - 1 = n
    BY <1>1
  <2>. QED
    BY <1>1, <1>4, <2>4, <2>5
<1>5. n = Len(words) \/ n < Len(words)
  <2>1. \A m \in Nat : \A k \in 0..m : k = m \/ k < m
    OBVIOUS
  <2>. QED
    BY <1>1, <2>1, Zenon
<1>. QED
  BY <1>3, <1>4, <1>5

(* The words behind the flags, and that the line has no byte from n on.     *)
WordsLeft(t) == LineWords(t) \ ToSet(FlagWords(t))
Spent(t, n) == \A b \in n..Len(t) - 1 : ~Belongs(t, b)

LEMMA FlagWordsAre ==
  ASSUME NEW t, Len(t) \in Nat, NEW q, NEW n, n \in 0..Len(t), q \in Seq(Span),
         Divided(t, q, n),
         \A k \in 1..Len(q) : IsFlag(t, WordAt(t, q[k])),
         \/ Spent(t, n)
         \/ /\ Parted(t, q, n) /\ n < Len(t) /\ SolidAt(t, n)
            /\ \A w : WordFrom(t, w, n) => ~IsFlag(t, w)
  PROVE  /\ FlagWords(t) \in Seq(SUBSET Nat) /\ Len(FlagWords(t)) = Len(q)
         /\ \A k \in 1..Len(q) : FlagWords(t)[k] = WordAt(t, q[k])
         /\ Spent(t, n) => WordsLeft(t) = {}
         /\ ~Spent(t, n) => WordsLeft(t) # {} /\ Min(UNION WordsLeft(t)) = n
<1>. DEFINE flags == FlagWords(t)
            rest == WordsLeft(t)
            words == InOrder(LineWords(t))
<1>1. Len(q) \in Nat /\ n \in Nat
  OBVIOUS
<1>2. flags = LeadingFlags(t, words)
  BY DEF FlagWords
<1>. HIDE DEF flags
<1>3. ASSUME NEW r, Divided(t, r, Len(t)), Len(r) \in Nat
      PROVE  words \in Seq(SUBSET Nat) /\ Len(words) = Len(r)
  <2>1. words = [k \in 1..Len(r) |-> WordAt(t, r[k])]
    BY <1>3, WordsAre
  <2>2. \A k \in 1..Len(r) : WordAt(t, r[k]) \in SUBSET Nat
    BY <1>3, WordAtIs DEF Divided
  <2>. QED
    BY <1>3, <2>1, <2>2
<1>4. ASSUME /\ words \in Seq(SUBSET Nat) /\ Len(q) <= Len(words)
             /\ \A k \in 1..Len(q) : words[k] = WordAt(t, q[k])
             /\ Len(q) < Len(words) => ~IsFlag(t, words[Len(q) + 1])
      PROVE  /\ flags \in Seq(SUBSET Nat) /\ Len(flags) = Len(q)
             /\ \A k \in 1..Len(q) : flags[k] = WordAt(t, q[k])
             /\ rest = LineWords(t) \ {WordAt(t, q[k]) : k \in 1..Len(q)}
  <2>. HIDE DEF words
  <2>1. Len(q) \in 0..Len(words)
    BY <1>1, <1>4
  <2>2. /\ flags \in Seq(SUBSET Nat) /\ Len(flags) = Len(q)
        /\ \A k \in 1..Len(q) : flags[k] = words[k]
    <3>1. \A k \in 1..Len(q) : IsFlag(t, words[k])
      BY <1>4
    <3>. QED
      BY <1>2, <1>4, <2>1, <3>1, LeadingFlagsAre
  <2>3. DOMAIN flags = 1..Len(q)
    BY <2>2
  <2>4. {flags[k] : k \in DOMAIN flags} = {WordAt(t, q[k]) : k \in 1..Len(q)}
    <3>1. \A k \in 1..Len(q) : flags[k] = WordAt(t, q[k])
      BY <1>4, <2>2
    <3>. QED
      BY <2>3, <3>1
  <2>. QED
    BY <1>4, <2>2, <2>4 DEF WordsLeft, ToSet, flags
<1>5. CASE Spent(t, n)
  <2>1. Divided(t, q, Len(t))
    BY <1>1, <1>5, DividedSkip DEF SolidAt, Spent
  <2>2. words = [k \in 1..Len(q) |-> WordAt(t, q[k])]
    BY <1>1, <2>1, WordsAre
  <2>3. \A k \in 1..Len(q) : words[k] = WordAt(t, q[k])
    BY <1>1, <2>2
  <2>4. words \in Seq(SUBSET Nat) /\ Len(words) = Len(q)
    BY <1>1, <1>3, <2>1
  <2>. HIDE DEF words
  <2>5. /\ flags \in Seq(SUBSET Nat) /\ Len(flags) = Len(q)
        /\ \A k \in 1..Len(q) : flags[k] = WordAt(t, q[k])
        /\ rest = LineWords(t) \ {WordAt(t, q[k]) : k \in 1..Len(q)}
    BY <1>1, <1>4, <2>3, <2>4
  <2>6. LineWords(t) = {WordAt(t, q[k]) : k \in 1..Len(q)}
    BY <2>1, LineWordsAre
  <2>. QED
    BY <1>5, <2>5, <2>6 DEF flags
<1>6. CASE /\ Parted(t, q, n) /\ n < Len(t) /\ SolidAt(t, n)
           /\ \A w : WordFrom(t, w, n) => ~IsFlag(t, w)
  <2>1. PICK r : Divided(t, r, Len(t)) /\ Len(r) \in Nat
    <3>1. q \in Seq([start : Nat, end : Nat])
      BY DEF Span
    <3>. QED
      BY <1>6, <3>1, WordsComplete DEF Completes, Divided
  <2>2. words \in Seq(SUBSET Nat)
    BY <1>3, <2>1
  <2>. HIDE DEF words
  <2>3. /\ Len(q) <= Len(words)
        /\ \A k \in 1..Len(q) : words[k] = WordAt(t, q[k])
        /\ WordFrom(t, words[Len(q) + 1], n)
    BY <1>6, FirstWords DEF words
  <2>4. /\ flags \in Seq(SUBSET Nat) /\ Len(flags) = Len(q)
        /\ \A k \in 1..Len(q) : flags[k] = WordAt(t, q[k])
        /\ rest = LineWords(t) \ {WordAt(t, q[k]) : k \in 1..Len(q)}
    BY <1>4, <1>6, <2>2, <2>3
  <2>5. rest # {} /\ Min(UNION rest) = n
    BY <1>6, <2>4, RestOfWords
  <2>6. ~Spent(t, n)
    BY <1>1, <1>6 DEF SolidAt, Spent
  <2>. QED
    BY <2>4, <2>5, <2>6 DEF flags
<1>. QED
  BY <1>5, <1>6

(* What is collected of a word spells it.                                   *)
LEMMA WordIsSpelt ==
  ASSUME NEW t, NEW string, NEW span, Collects(t, string, span.start, span.end)
  PROVE  Spells(string, WordAt(t, span))
<1>1. DOMAIN string = 1..Len(string)
  BY DEF Collects
<1>2. {string[k] : k \in DOMAIN string} = WordAt(t, span)
  BY <1>1 DEF Collects, WordAt
<1>. QED
  BY <1>1, <1>2 DEF Collects, Spells

(* Whitespace between two words keeps them apart from there on.             *)
LEMMA ApartGrows ==
  ASSUME NEW t, NEW i \in Nat, NEW n \in Nat, NEW m \in Nat, n <= m, Apart(t, i, n)
  PROVE  Apart(t, i, m)
<1>1. PICK b \in i..n - 1 : BlankAt(t, b)
  BY DEF Apart
<1>2. b \in i..m - 1
  OBVIOUS
<1>. QED
  BY <1>1, <1>2 DEF Apart

(* A byte of whitespace ...                                                 *)
LEMMA GapByte ==
  ASSUME NEW t, Len(t) \in Nat, NEW s, Walk(t, s), At(t, s, Whitespace)
  PROVE  /\ Walk(t, s + 1)
         /\ \A b \in s..(s + 1) - 1 : ~SolidAt(t, b)
         /\ \A i \in 0..s : Apart(t, i, s + 1)
<1>1. s \in 0..Len(t) /\ s < Len(t) /\ t[s + 1] \in Whitespace /\ t[s + 1] # "lf"
  BY DEF Walk, At, Whitespace
<1>2. ~Continues(t, s)
  BY <1>1, ContinuationAdvances DEF At, Whitespace
<1>3. Walk(t, s + 1) /\ Belongs(t, s)
  BY <1>1, <1>2, WalkByte
<1>4. \A b \in s..(s + 1) - 1 : b = s
  BY <1>1
<1>5. \A i \in 0..s : s \in i..(s + 1) - 1
  BY <1>1
<1>. QED
  BY <1>1, <1>3, <1>4, <1>5 DEF SolidAt, BlankAt, Apart

(* ... and a continuation behind a word.                                    *)
LEMMA GapContinuation ==
  ASSUME NEW t, Len(t) \in Nat, NEW s, Walk(t, s), Continues(t, s)
  PROVE  /\ Walk(t, Continuation(t, s)) /\ s <= Continuation(t, s)
         /\ \A b \in s..Continuation(t, s) - 1 : ~Belongs(t, b) /\ ~SolidAt(t, b)
<1>1. s \in 0..Len(t)
  BY DEF Walk
<1>2. s <= Continuation(t, s)
  <2>1. Continuation(t, s) \in s..Len(t)
    BY <1>1, ContinuationAdvances
  <2>. QED
    BY <1>1, <2>1
<1>. QED
  BY <1>2, WalkContinued DEF SolidAt

-----------------------------------------------------------------------------
(* Scanning a word or a part of one: started at i, the scanner is at s; the *)
(* pieces b lie before the piece that started at w.                         *)
Collecting(t, i, w, b, s) ==
  /\ Walk(t, s)
  /\ i \in Nat /\ w \in Nat /\ i <= w /\ w <= s
  /\ Collects(t, b, i, w)
  /\ \A x \in w..s - 1 : Belongs(t, x)
  /\ \A x \in i..s - 1 : ~BlankAt(t, x)

(* ... from the first byte of the word on.                                  *)
Scanned(t, i, w, b, s) ==
  /\ Collecting(t, i, w, b, s)
  /\ s = i \/ Belongs(t, i)
  /\ ~Continues(t, i)

LEMMA CollectingStart ==
  ASSUME NEW t, NEW s, Walk(t, s)
  PROVE  Collecting(t, s, s, <<>>, s)
<1>1. s \in Nat
  BY DEF Walk
<1>2. Collects(t, <<>>, s, s)
  BY <1>1 DEF Collects
<1>. QED
  BY <1>1, <1>2 DEF Collecting

LEMMA CollectingByte ==
  ASSUME NEW t, Len(t) \in Nat, NEW i, NEW w, NEW b, NEW s, Collecting(t, i, w, b, s),
         s < Len(t), t[s + 1] \notin Whitespace, t[s + 1] # "lf", ~Continues(t, s)
  PROVE  Collecting(t, i, w, b, s + 1) /\ Belongs(t, s)
<1>1. Walk(t, s) /\ s \in 0..Len(t) /\ i \in Nat /\ w \in Nat /\ i <= w /\ w <= s
  BY DEF Collecting, Walk
<1>2. Walk(t, s + 1) /\ Belongs(t, s)
  BY <1>1, WalkByte
<1>3. \A x : x \in w..(s + 1) - 1 => x \in w..s - 1 \/ x = s
  BY <1>1
<1>4. \A x : x \in i..(s + 1) - 1 => x \in i..s - 1 \/ x = s
  BY <1>1
<1>5. ~BlankAt(t, s)
  BY DEF BlankAt
<1>6. w <= s + 1
  BY <1>1
<1>. QED
  BY <1>1, <1>2, <1>3, <1>4, <1>5, <1>6 DEF Collecting

LEMMA CollectingContinued ==
  ASSUME NEW t, Len(t) \in Nat, NEW i, NEW w, NEW b, NEW s, Collecting(t, i, w, b, s),
         Continues(t, s)
  PROVE  Collecting(t, i, Continuation(t, s), b \o Piece(w, s), Continuation(t, s))
<1>. DEFINE c == Continuation(t, s)
<1>1. /\ Walk(t, s) /\ s \in 0..Len(t) /\ i \in Nat /\ w \in Nat /\ i <= w /\ w <= s
      /\ Collects(t, b, i, w) /\ \A x \in w..s - 1 : Belongs(t, x)
      /\ \A x \in i..s - 1 : ~BlankAt(t, x)
  BY DEF Collecting, Walk
<1>2. Walk(t, c) /\ \A x \in s..c - 1 : ~Belongs(t, x)
  BY <1>1, WalkContinued
<1>3. c \in s + 2..Len(t)
  BY <1>1, ContinuationAdvances
<1>. HIDE DEF c
<1>4. Collects(t, b \o Piece(w, s), i, s)
  BY <1>1, CollectsMore
<1>5. c \in Nat /\ s <= c /\ i <= c /\ i <= s
  BY <1>1, <1>3
<1>6. Collects(t, b \o Piece(w, s), i, c)
  BY <1>1, <1>2, <1>4, <1>5, CollectsSkip
<1>7. \A x \in i..c - 1 : ~BlankAt(t, x)
  <2>1. \A x \in i..c - 1 : x \in i..s - 1 \/ x \in s..c - 1
    BY <1>1, <1>5
  <2>. QED
    BY <1>1, <1>2, <2>1 DEF BlankAt
<1>8. \A x : x \notin c..c - 1
  BY <1>5
<1>. QED
  BY <1>1, <1>2, <1>5, <1>6, <1>7, <1>8 DEF Collecting, c

LEMMA ScannedStart ==
  ASSUME NEW t, NEW s, Walk(t, s), ~Continues(t, s)
  PROVE  Scanned(t, s, s, <<>>, s)
BY CollectingStart DEF Scanned

LEMMA ScannedByte ==
  ASSUME NEW t, Len(t) \in Nat, NEW i, NEW w, NEW b, NEW s, Scanned(t, i, w, b, s),
         s < Len(t), t[s + 1] \notin Whitespace, t[s + 1] # "lf", ~Continues(t, s)
  PROVE  Scanned(t, i, w, b, s + 1)
BY CollectingByte DEF Scanned

LEMMA ScannedContinued ==
  ASSUME NEW t, Len(t) \in Nat, NEW i, NEW w, NEW b, NEW s, Scanned(t, i, w, b, s),
         Continues(t, s)
  PROVE  Scanned(t, i, Continuation(t, s), b \o Piece(w, s), Continuation(t, s))
BY CollectingContinued DEF Scanned

(* What the scanner makes of the pieces is the bytes of the word.           *)
Gathered(i, w, b, s) == IF i = w THEN Piece(w, s) ELSE b \o Piece(w, s)

LEMMA CollectingIs ==
  ASSUME NEW t, NEW i, NEW w, NEW b, NEW s, Collecting(t, i, w, b, s)
  PROVE  Collects(t, Gathered(i, w, b, s), i, s)
<1>1. /\ s \in Nat /\ i \in Nat /\ w \in Nat /\ i <= w /\ w <= s
      /\ Collects(t, b, i, w) /\ \A x \in w..s - 1 : Belongs(t, x)
  BY DEF Collecting, Walk
<1>2. CASE i = w
  BY <1>1, <1>2, CollectsPiece DEF Gathered
<1>3. CASE i # w
  BY <1>1, <1>3, CollectsMore DEF Gathered
<1>. QED
  BY <1>2, <1>3

LEMMA ScannedIs ==
  ASSUME NEW t, Len(t) \in Nat, NEW i, NEW w, NEW b, NEW s, Scanned(t, i, w, b, s)
  PROVE  /\ Collects(t, Gathered(i, w, b, s), i, s)
         /\ Gathered(i, w, b, s) = <<>> <=> s = i
         /\ s # i => WordSpan(t, i, s)
<1>. DEFINE value == Gathered(i, w, b, s)
<1>1. /\ s \in Nat /\ i \in Nat /\ w \in Nat /\ i <= w /\ w <= s
      /\ \A x \in i..s - 1 : ~BlankAt(t, x)
      /\ s = i \/ Belongs(t, i)
  BY DEF Scanned, Collecting, Walk
<1>2. Collects(t, value, i, s)
  BY CollectingIs DEF Scanned
<1>. HIDE DEF value
<1>3. ASSUME s # i
      PROVE  WordSpan(t, i, s) /\ value # <<>>
  <2>1. i < s /\ Belongs(t, i)
    BY <1>1, <1>3
  <2>2. Len(value) >= 1
    BY <1>1, <1>2, <2>1, CollectsFirst
  <2>3. value # <<>>
    BY <2>2
  <2>. QED
    BY <1>1, <2>1, <2>3 DEF WordSpan
<1>4. ASSUME s = i
      PROVE  value = <<>>
  <2>1. Len(value) \in Nat /\ value \in Seq(Nat) /\ \A k \in 1..Len(value) : value[k] \in i..s - 1
    BY <1>2 DEF Collects
  <2>2. ~(1 \in 1..Len(value))
    BY <1>1, <1>4, <2>1
  <2>3. Len(value) = 0
    BY <2>1, <2>2
  <2>. QED
    BY <2>1, <2>3
<1>. QED
  BY <1>2, <1>3, <1>4 DEF value

(* Only whitespace lies between the start of a line that followup did not   *)
(* skip and n: a comment would have been skipped.                           *)
AfterWhitespace(t, n) ==
  \E c \in 0..n : ~Skipped(t, c) /\ \A b \in c..n - 1 : At(t, b, Whitespace)

(* A continuation leads to a line that followup did not skip.               *)
LEMMA ContinuationStops ==
  ASSUME NEW t, Len(t) \in Nat, NEW i \in 0..Len(t), Continues(t, i)
  PROVE  ~Skipped(t, Continuation(t, i))
<1>. DEFINE l == LineOf(t, i)
<1>1. l \in 0..i /\ \A j \in l..i - 1 : t[j + 1] # "lf"
  BY LineOfIs
<1>. HIDE DEF l
<1>2. EndOf(t, l) < Len(t) /\ Continuation(t, i) = Followup(t, EndOf(t, l) + 1)
  BY <1>1, ContinuesIs
<1>3. EndOf(t, l) + 1 \in 0..Len(t)
  <2>1. l \in 0..Len(t)
    BY <1>1
  <2>2. EndOf(t, l) \in l..Len(t)
    BY <2>1, EndOfIs
  <2>. QED
    BY <1>1, <1>2, <2>2
<1>. QED
  BY <1>2, <1>3, FollowupStops

(* There is no # behind the whitespace such a line starts with.             *)
LEMMA NoCommentBehind ==
  ASSUME NEW t, Len(t) \in Nat, NEW n \in 0..Len(t), AfterWhitespace(t, n)
  PROVE  ~At(t, n, {"hash"})
<1>. SUFFICES ASSUME At(t, n, {"hash"}) PROVE FALSE
  OBVIOUS
<1>1. PICK c \in 0..n : ~Skipped(t, c) /\ \A b \in c..n - 1 : At(t, b, Whitespace)
  BY DEF AfterWhitespace
<1>. DEFINE w == SkipWhile(t, c, Whitespace)
<1>2. /\ w \in c..Len(t) /\ ~At(t, w, Whitespace)
      /\ \A j \in c..w - 1 : At(t, j, Whitespace)
  <2>1. c \in 0..Len(t)
    BY <1>1
  <2>. QED
    BY <2>1, SkipWhileStops
<1>3. ~At(t, w, {"hash", "lf"})
  BY <1>1 DEF Skipped
<1>4. ~At(t, n, Whitespace)
  BY DEF At, Whitespace
<1>. HIDE DEF w
<1>5. ~(w < n)
  <2>1. w < n => w \in c..n - 1
    BY <1>1, <1>2
  <2>. QED
    BY <1>1, <1>2, <2>1
<1>6. ~(n < w)
  <2>1. n < w => n \in c..w - 1
    BY <1>1, <1>2
  <2>. QED
    BY <1>2, <1>4, <2>1
<1>7. w = n
  BY <1>1, <1>2, <1>5, <1>6
<1>. QED
  BY <1>3, <1>7 DEF At

-----------------------------------------------------------------------------
(* The positions of a set in the order of the text are the one string that  *)
(* spells it.  Below(string, i, j): its first j positions are before i.     *)
Below(string, i, j) ==
  j \in 0..Len(string) /\ \A k \in 1..Len(string) : string[k] < i <=> k <= j

LEMMA BelowIs ==
  ASSUME NEW string \in Seq(Nat), \A j, k \in 1..Len(string) : j < k => string[j] < string[k],
         NEW i \in Nat
  PROVE  \E j : Below(string, i, j)
<1>. DEFINE K == {k \in 1..Len(string) : string[k] < i}
<1>1. Len(string) \in Nat /\ \A k \in 1..Len(string) : string[k] \in Nat
  OBVIOUS
<1>2. CASE K = {}
  <2>1. Below(string, i, 0)
    BY <1>1, <1>2 DEF Below
  <2>. QED
    BY <2>1
<1>3. CASE K # {}
  <2>1. K \in SUBSET (0..Len(string)) /\ \A k : k \in K <=> k \in 1..Len(string) /\ string[k] < i
    BY <1>1
  <2>. HIDE DEF K
  <2>2. PICK j \in K : \A k \in K : k <= j
    BY <1>1, <1>3, <2>1, MaxIs
  <2>3. ASSUME NEW k \in 1..Len(string), k <= j
        PROVE  string[k] < i
    <3>1. k = j \/ string[k] < string[j]
      BY <1>1, <2>1, <2>2, <2>3
    <3>. QED
      BY <1>1, <2>1, <2>2, <3>1
  <2>4. Below(string, i, j)
    BY <1>1, <2>1, <2>2, <2>3 DEF Below
  <2>. QED
    BY <2>4
<1>. QED
  BY <1>2, <1>3

Prefix(string, j) == SubSeq(string, 1, j)

LEMMA PrefixMore ==
  ASSUME NEW string \in Seq(Nat), NEW k \in 1..Len(string)
  PROVE  SubSeq(string, 1, k) = Append(SubSeq(string, 1, k - 1), string[k])
<1>1. k \in 1..Len(string) /\ 1 \in 1..Len(string)
  OBVIOUS
<1>2. SubSeq(string, 1, k) = SubSeq(string, 1, k - 1) \o <<string[k]>>
  BY <1>1, SubSeqRecursiveSecond
<1>3. SubSeq(string, 1, k - 1) \in Seq(Nat)
  OBVIOUS
<1>. QED
  BY <1>2, <1>3

(* The function that Ordered defines, of a string that spells bytes: up to  *)
(* every i it is what of the string is before i.                            *)
IsOrdered(bytes, n, g) ==
  g = [i \in 0..n |-> IF i = 0 THEN <<>>
                      ELSE IF i - 1 \in bytes THEN Append(g[i - 1], i - 1)
                      ELSE g[i - 1]]

LEMMA PrefixIs ==
  ASSUME NEW bytes, NEW string \in Seq(Nat), Spells(string, bytes), NEW i \in Nat,
         NEW j, Below(string, i, j), NEW next, next = i + 1, NEW m, Below(string, next, m)
  PROVE  Prefix(string, m) = IF i \in bytes THEN Append(Prefix(string, j), i) ELSE Prefix(string, j)
<1>1. /\ Len(string) \in Nat /\ DOMAIN string = 1..Len(string)
      /\ \A k \in 1..Len(string) : string[k] \in Nat
  OBVIOUS
<1>2. /\ \A k, l \in 1..Len(string) : k < l => string[k] < string[l]
      /\ \A b : b \in bytes <=> \E k \in 1..Len(string) : string[k] = b
  BY <1>1 DEF Spells
<1>3. /\ j \in 0..Len(string) /\ m \in 0..Len(string)
      /\ \A k \in 1..Len(string) : string[k] < i <=> k <= j
      /\ \A k \in 1..Len(string) : string[k] < i + 1 <=> k <= m
  BY DEF Below
<1>4. CASE i \in bytes
  <2>1. PICK k \in 1..Len(string) : string[k] = i
    BY <1>2, <1>4
  <2>2. k <= m /\ ~(k <= j)
    BY <1>3, <2>1
  <2>3. m <= k
    <3>1. ASSUME m > k PROVE FALSE
      <4>1. m \in 1..Len(string) /\ string[m] < i + 1 /\ string[k] < string[m]
        BY <1>1, <1>2, <1>3, <3>1
      <4>. QED
        BY <1>1, <2>1, <4>1
    <3>. QED
      BY <1>1, <1>3, <3>1
  <2>4. k - 1 <= j
    <3>1. ASSUME k - 1 > j PROVE FALSE
      <4>1. k - 1 \in 1..Len(string) /\ k - 1 < k
        BY <1>1, <1>3, <3>1
      <4>2. string[k - 1] < string[k]
        BY <1>2, <4>1
      <4>3. string[k - 1] < i
        BY <2>1, <4>2
      <4>4. k - 1 <= j
        BY <1>3, <4>1, <4>3
      <4>. QED
        BY <1>3, <3>1, <4>4
    <3>. QED
      BY <1>1, <1>3, <3>1
  <2>5. m = k /\ j = k - 1
    BY <1>1, <1>3, <2>2, <2>3, <2>4
  <2>. QED
    BY <1>4, <2>1, <2>5, PrefixMore DEF Prefix
<1>5. CASE i \notin bytes
  <2>1. \A k \in 1..Len(string) : k <= m <=> k <= j
    BY <1>1, <1>2, <1>3, <1>5
  <2>2. m = j
    <3>1. m > 0 => m <= j
      BY <1>1, <1>3, <2>1
    <3>2. j > 0 => j <= m
      BY <1>1, <1>3, <2>1
    <3>. QED
      BY <1>3, <3>1, <3>2
  <2>. QED
    BY <1>5, <2>2
<1>. QED
  BY <1>4, <1>5

LEMMA OrderedIsOne ==
  ASSUME NEW bytes, NEW n \in Nat, NEW g, IsOrdered(bytes, n, g), NEW h, IsOrdered(bytes, n, h)
  PROVE  \A i \in 0..n : g[i] = h[i]
<1>. DEFINE Bad == {i \in 0..n : g[i] # h[i]}
            V(f, i) == IF i = 0 THEN <<>>
                       ELSE IF i - 1 \in bytes THEN Append(f[i - 1], i - 1)
                       ELSE f[i - 1]
<1>1. \A i \in 0..n : g[i] = V(g, i) /\ h[i] = V(h, i)
  <2>1. \A f : \A i \in 0..n : [x \in 0..n |-> V(f, x)][i] = V(f, i)
    OBVIOUS
  <2>2. g = [x \in 0..n |-> V(g, x)] /\ h = [x \in 0..n |-> V(h, x)]
    BY DEF IsOrdered
  <2>. HIDE DEF V
  <2>. QED
    BY <2>1, <2>2
<1>2. SUFFICES ASSUME Bad # {} PROVE FALSE
  OBVIOUS
<1>3. PICK m \in Bad : \A x \in Bad : m <= x
  <2>1. Bad \in SUBSET Nat
    OBVIOUS
  <2>. HIDE DEF Bad
  <2>. QED
    BY <1>2, <2>1, MinIs
<1>4. m # 0
  BY <1>1, <1>3
<1>5. m - 1 \in 0..n /\ m - 1 \notin Bad
  BY <1>3, <1>4
<1>6. V(g, m) = V(h, m)
  BY <1>4, <1>5
<1>. QED
  BY <1>1, <1>3, <1>6

LEMMA OrderedIs ==
  ASSUME NEW bytes, NEW n \in Nat, NEW string \in Seq(Nat), Spells(string, bytes),
         \A b \in bytes : b < n
  PROVE  Ordered(bytes, n) = string
<1>1. /\ Len(string) \in Nat /\ DOMAIN string = 1..Len(string)
      /\ \A k \in 1..Len(string) : string[k] \in Nat
  OBVIOUS
<1>2. /\ \A j, k \in 1..Len(string) : j < k => string[j] < string[k]
      /\ \A k \in 1..Len(string) : string[k] < n
  BY <1>1 DEF Spells
<1>. DEFINE c == [i \in 0..n |-> CHOOSE j : Below(string, i, j)]
<1>3. \A i \in 0..n : Below(string, i, c[i])
  <2>1. \A i \in 0..n : \E j : Below(string, i, j)
    BY <1>2, BelowIs
  <2>. QED
    BY <2>1
<1>. DEFINE h == [i \in 0..n |-> Prefix(string, c[i])]
            o == CHOOSE g : IsOrdered(bytes, n, g)
<1>. HIDE DEF c
<1>4. Prefix(string, c[0]) = <<>>
  <2>1. 0 \in 0..n /\ Below(string, 0, c[0])
    BY <1>3
  <2>2. ~(1 <= c[0])
    BY <1>1, <2>1 DEF Below
  <2>3. c[0] = 0
    BY <1>1, <2>1, <2>2 DEF Below
  <2>. QED
    BY <2>3 DEF Prefix
<1>5. ASSUME NEW i \in 1..n
      PROVE  Prefix(string, c[i]) = IF i - 1 \in bytes THEN Append(Prefix(string, c[i - 1]), i - 1) ELSE Prefix(string, c[i - 1])
  <2>1. PICK x : x = i - 1
    OBVIOUS
  <2>2. PICK j : j = c[x]
    OBVIOUS
  <2>3. PICK m : m = c[i]
    OBVIOUS
  <2>4. x \in Nat /\ x + 1 = i /\ x \in 0..n /\ i \in 0..n
    BY <2>1
  <2>5. Below(string, x, j) /\ Below(string, i, m)
    BY <1>3, <2>2, <2>3, <2>4
  <2>6. Prefix(string, m) = IF x \in bytes THEN Append(Prefix(string, j), x) ELSE Prefix(string, j)
    BY <2>4, <2>5, PrefixIs
  <2>. QED
    BY <2>1, <2>2, <2>3, <2>6
<1>6. Prefix(string, c[n]) = string
  <2>1. n \in 0..n /\ Below(string, n, c[n])
    BY <1>3
  <2>2. Len(string) > 0 => Len(string) <= c[n]
    BY <1>1, <1>2, <2>1 DEF Below
  <2>3. c[n] = Len(string)
    BY <1>1, <2>1, <2>2 DEF Below
  <2>. QED
    BY <2>3, SubSeqFull DEF Prefix
<1>7. \A i \in 0..n : i # 0 => i \in 1..n /\ i - 1 \in 0..n
  OBVIOUS
<1>8. /\ \A i \in 0..n : h[i] = Prefix(string, c[i])
      /\ h = [i \in 0..n |-> h[i]]
  OBVIOUS
<1>. HIDE DEF h
<1>9. IsOrdered(bytes, n, h)
  <2>1. \A i \in 0..n : h[i] = IF i = 0 THEN <<>>
                               ELSE IF i - 1 \in bytes THEN Append(h[i - 1], i - 1)
                               ELSE h[i - 1]
    BY <1>4, <1>5, <1>7, <1>8
  <2>2. [i \in 0..n |-> h[i]] = [i \in 0..n |-> IF i = 0 THEN <<>>
                                               ELSE IF i - 1 \in bytes THEN Append(h[i - 1], i - 1)
                                               ELSE h[i - 1]]
    BY <2>1
  <2>. QED
    BY <1>8, <2>2 DEF IsOrdered
<1>10. IsOrdered(bytes, n, o)
  BY <1>9
<1>11. Ordered(bytes, n) = o[n]
  BY DEF Ordered, IsOrdered
<1>. HIDE DEF o
<1>12. n \in 0..n /\ o[n] = h[n]
  BY <1>9, <1>10, OrderedIsOne
<1>. QED
  BY <1>6, <1>8, <1>11, <1>12

(* One more position, behind all others.                                    *)
LEMMA SpellsMore ==
  ASSUME NEW bytes, NEW string \in Seq(Nat), Spells(string, bytes), NEW b \in Nat,
         \A x \in bytes : x < b
  PROVE  Append(string, b) \in Seq(Nat) /\ Spells(Append(string, b), bytes \cup {b})
<1>. DEFINE r == Append(string, b)
<1>1. /\ r \in Seq(Nat) /\ Len(string) \in Nat /\ Len(r) = Len(string) + 1
      /\ DOMAIN string = 1..Len(string) /\ DOMAIN r = 1..Len(r)
      /\ \A k \in 1..Len(string) : r[k] = string[k] /\ string[k] \in Nat
      /\ r[Len(string) + 1] = b
  OBVIOUS
<1>. HIDE DEF r
<1>2. PICK m \in Nat : m = Len(string)
  BY <1>1
<1>3. \A k \in 1..m : string[k] \in bytes /\ string[k] < b
  BY <1>1, <1>2 DEF Spells
<1>4. \A k \in 1..m + 1 : k \in 1..m \/ k = m + 1
  BY <1>2
<1>5. ASSUME NEW j \in 1..m + 1, NEW k \in 1..m + 1, j < k
      PROVE  r[j] < r[k]
  <2>1. j \in 1..m
    BY <1>4, <1>5
  <2>2. CASE k = m + 1
    BY <1>1, <1>2, <1>3, <2>1, <2>2
  <2>3. CASE k \in 1..m
    BY <1>1, <1>2, <1>5, <2>1, <2>3 DEF Spells
  <2>. QED
    BY <1>4, <2>2, <2>3
<1>6. \A x : (\E k \in 1..m + 1 : r[k] = x) <=> x \in bytes \cup {b}
  <2>1. \A x : (\E k \in 1..m : string[k] = x) <=> x \in bytes
    BY <1>1, <1>2 DEF Spells
  <2>2. m + 1 \in 1..m + 1 /\ \A k \in 1..m : k \in 1..m + 1
    BY <1>2
  <2>. QED
    BY <1>1, <1>2, <1>4, <2>1, <2>2
<1>. QED
  BY <1>1, <1>2, <1>5, <1>6 DEF Spells, r

(* Whatever positions there are, a string spells them.                      *)
Spelt(n) == \A bytes \in SUBSET (0..n - 1) : \E string \in Seq(Nat) : Spells(string, bytes)

LEMMA SpeltIs == \A n \in Nat : Spelt(n)
<1>. DEFINE Bad == {n \in Nat : ~Spelt(n)}
<1>1. SUFFICES ASSUME Bad # {} PROVE FALSE
  OBVIOUS
<1>2. PICK n \in Bad : \A x \in Bad : n <= x
  BY <1>1, MinIs
<1>3. PICK bytes \in SUBSET (0..n - 1) : ~\E string \in Seq(Nat) : Spells(string, bytes)
  BY <1>2 DEF Spelt
<1>4. n # 0
  <2>1. SUFFICES ASSUME n = 0 PROVE FALSE
    OBVIOUS
  <2>2. bytes = {}
    BY <1>3, <2>1
  <2>3. <<>> \in Seq(Nat) /\ Spells(<<>>, bytes)
    BY <2>2 DEF Spells
  <2>. QED
    BY <1>3, <2>3
<1>5. PICK b \in Nat : b = n - 1
  BY <1>2, <1>4
<1>6. Spelt(b)
  BY <1>2, <1>5
<1>7. bytes \ {b} \in SUBSET (0..b - 1)
  BY <1>2, <1>3, <1>5
<1>8. PICK string \in Seq(Nat) : Spells(string, bytes \ {b})
  BY <1>6, <1>7 DEF Spelt
<1>9. CASE b \in bytes
  <2>1. PICK rest : rest = bytes \ {b}
    OBVIOUS
  <2>2. rest \cup {b} = bytes /\ \A x \in rest : x < b
    BY <1>5, <1>7, <1>9, <2>1
  <2>3. Append(string, b) \in Seq(Nat) /\ Spells(Append(string, b), rest \cup {b})
    BY <1>8, <2>1, <2>2, SpellsMore
  <2>. QED
    BY <1>3, <2>2, <2>3
<1>10. CASE b \notin bytes
  <2>1. bytes \ {b} = bytes
    BY <1>10
  <2>. QED
    BY <1>3, <1>8, <2>1
<1>. QED
  BY <1>9, <1>10

(* Ordered is that string.                                                  *)
LEMMA OrderedSpells ==
  ASSUME NEW n \in Nat, NEW bytes \in SUBSET (0..n - 1)
  PROVE  Ordered(bytes, n) \in Seq(Nat) /\ Spells(Ordered(bytes, n), bytes)
<1>1. PICK string \in Seq(Nat) : Spells(string, bytes)
  BY SpeltIs DEF Spelt
<1>2. \A b \in bytes : b < n
  OBVIOUS
<1>. QED
  BY <1>1, <1>2, OrderedIs

(* The bytes of string from k on are those from position i on.              *)
Ahead(string, i, k) ==
  /\ k \in 1..Len(string) + 1
  /\ \A m \in 1..Len(string) : string[m] < i <=> m < k

(* ... and how it moves on with the position.                               *)
LEMMA AheadByte ==
  ASSUME NEW bytes, NEW string \in Seq(Nat), Spells(string, bytes),
         NEW i \in Nat, i \in bytes, NEW k, Ahead(string, i, k)
  PROVE  /\ k \in 1..Len(string) /\ string[k] = i /\ k + 1 \in 1..Len(string) + 1
         /\ Ahead(string, i + 1, k + 1)
<1>1. /\ Len(string) \in Nat /\ DOMAIN string = 1..Len(string)
      /\ \A m \in 1..Len(string) : string[m] \in Nat
      /\ \A m, l \in 1..Len(string) : m < l => string[m] < string[l]
  BY DEF Spells
<1>2. PICK m \in 1..Len(string) : string[m] = i
  BY <1>1 DEF Spells
<1>3. k \in 1..Len(string) + 1 /\ k <= m
  BY <1>1, <1>2 DEF Ahead
<1>4. k = m
  <2>1. SUFFICES ASSUME k < m PROVE FALSE
    BY <1>1, <1>2, <1>3
  <2>2. k \in 1..Len(string) /\ string[k] < string[m]
    BY <1>1, <1>2, <1>3, <2>1
  <2>. QED
    BY <1>1, <1>2, <2>2 DEF Ahead
<1>5. ASSUME NEW l \in 1..Len(string)
      PROVE  string[l] < i + 1 <=> l < k + 1
  <2>1. l < k \/ l = k \/ k < l
    BY <1>1, <1>3
  <2>2. CASE k < l
    <3>1. i < string[l]
      BY <1>1, <1>2, <1>4, <2>2
    <3>. QED
      BY <1>1, <1>3, <2>2, <3>1
  <2>3. CASE l = k
    BY <1>1, <1>2, <1>4, <2>3
  <2>4. CASE l < k
    BY <1>1, <1>3, <2>4 DEF Ahead
  <2>. QED
    BY <2>1, <2>2, <2>3, <2>4
<1>6. k \in 1..Len(string) /\ k + 1 \in 1..Len(string) + 1
  BY <1>1, <1>2, <1>4
<1>. QED
  BY <1>2, <1>4, <1>5, <1>6 DEF Ahead

LEMMA AheadSkip ==
  ASSUME NEW bytes, NEW string \in Seq(Nat), Spells(string, bytes),
         NEW i \in Nat, NEW j \in Nat, i <= j, \A b \in i..j - 1 : b \notin bytes,
         NEW k, Ahead(string, i, k)
  PROVE  Ahead(string, j, k)
<1>1. /\ Len(string) \in Nat /\ DOMAIN string = 1..Len(string)
      /\ \A m \in 1..Len(string) : string[m] \in Nat /\ string[m] \in bytes
  BY DEF Spells
<1>2. \A m \in 1..Len(string) : string[m] < j <=> string[m] < i
  BY <1>1
<1>. QED
  BY <1>1, <1>2 DEF Ahead

LEMMA AheadEnd ==
  ASSUME NEW bytes, NEW string \in Seq(Nat), Spells(string, bytes),
         NEW i \in Nat, \A b \in bytes : b < i, NEW k, Ahead(string, i, k)
  PROVE  k = Len(string) + 1
<1>1. /\ Len(string) \in Nat /\ DOMAIN string = 1..Len(string)
      /\ \A m \in 1..Len(string) : string[m] \in bytes
  BY DEF Spells
<1>2. k \notin 1..Len(string)
  BY <1>1 DEF Ahead
<1>. QED
  BY <1>1, <1>2 DEF Ahead

LEMMA AheadStart ==
  ASSUME NEW string \in Seq(Nat), NEW i \in Nat, \A m \in 1..Len(string) : i <= string[m]
  PROVE  Ahead(string, i, 1)
<1>1. Len(string) \in Nat /\ \A m \in 1..Len(string) : string[m] \in Nat
  OBVIOUS
<1>. QED
  BY <1>1 DEF Ahead

-----------------------------------------------------------------------------
(* What is left of a text from o on: what the scanners say of it, they say   *)
(* of the text.                                                             *)
Left(t, o) == SubSeq(t, o + 1, Len(t))

LEMMA LeftIs ==
  ASSUME NEW t \in Seq(STRING), NEW o \in 0..Len(t), NEW u, u = Left(t, o)
  PROVE  /\ Len(t) \in Nat /\ Len(u) = Len(t) - o /\ Len(u) \in Nat
         /\ \A i \in 0..Len(u) - 1 : u[i + 1] = t[(o + i) + 1]
         /\ \A i \in Nat : \A C : At(u, i, C) <=> At(t, o + i, C)
<1>1. Len(t) \in Nat /\ o \in Nat
  OBVIOUS
<1>2. Len(u) = Len(t) - o /\ Len(u) \in Nat
  BY <1>1 DEF Left
<1>3. \A i \in 0..Len(u) - 1 : u[i + 1] = t[(o + i) + 1]
  <2>1. TAKE i \in 0..Len(u) - 1
  <2>2. PICK n \in Nat, m \in Nat, k \in Nat : n = Len(t) /\ m = o + 1 /\ k = i + 1
    BY <1>1, <1>2
  <2>3. k \in 1..(n - m) + 1 /\ m + (k - 1) = (o + i) + 1
    BY <1>1, <1>2, <2>2
  <2>4. u = SubSeq(t, m, n)
    BY <2>2 DEF Left
  <2>5. SubSeq(t, m, n) = [x \in 1..(n - m) + 1 |-> t[m + (x - 1)]]
    BY <1>1, <2>2
  <2>6. u[k] = t[m + (k - 1)]
    BY <2>3, <2>4, <2>5
  <2>. QED
    BY <2>2, <2>3, <2>6
<1>4. ASSUME NEW i \in Nat, NEW C
      PROVE  At(u, i, C) <=> At(t, o + i, C)
  BY <1>1, <1>2, <1>3 DEF At
<1>. QED
  BY <1>1, <1>2, <1>3, <1>4

LEMMA MinShift ==
  ASSUME NEW o \in Nat, NEW A \in SUBSET Nat, A # {},
         NEW B, \A x : x \in B <=> \E a \in A : x = o + a
  PROVE  Min(B) = o + Min(A)
<1>1. Min(A) \in A /\ Min(A) \in Nat /\ \A a \in A : Min(A) <= a
  BY MinIs
<1>2. B \in SUBSET Nat /\ o + Min(A) \in B
  BY <1>1
<1>3. Min(B) \in B /\ Min(B) \in Nat /\ \A b \in B : Min(B) <= b
  BY <1>2, MinIs
<1>4. PICK a \in A : Min(B) = o + a
  BY <1>3
<1>5. Min(A) <= a /\ Min(B) <= o + Min(A) /\ a \in Nat
  BY <1>1, <1>2, <1>3, <1>4
<1>. QED
  BY <1>1, <1>4, <1>5

LEMMA LeftSkip ==
  ASSUME NEW t \in Seq(STRING), NEW o \in 0..Len(t), NEW u, u = Left(t, o),
         NEW i \in 0..Len(u), NEW C
  PROVE  SkipWhile(t, o + i, C) = o + SkipWhile(u, i, C)
<1>. DEFINE A == {j \in i..Len(u) : ~At(u, j, C)}
            B == {j \in o + i..Len(t) : ~At(t, j, C)}
<1>1. /\ Len(t) \in Nat /\ Len(u) = Len(t) - o /\ Len(u) \in Nat /\ o \in Nat
      /\ \A j \in Nat : At(u, j, C) <=> At(t, o + j, C)
  BY LeftIs
<1>2. A \in SUBSET Nat /\ Len(u) \in A
  BY <1>1 DEF At
<1>3. \A x : x \in B <=> \E a \in A : x = o + a
  <2>1. ASSUME NEW x \in B PROVE x - o \in A /\ x = o + (x - o)
    <3>1. x \in Nat /\ x - o \in i..Len(u) /\ x - o \in Nat /\ x = o + (x - o)
      BY <1>1
    <3>. QED
      BY <1>1, <3>1
  <2>2. ASSUME NEW a \in A PROVE o + a \in B
    <3>1. a \in Nat /\ o + a \in o + i..Len(t)
      BY <1>1
    <3>. QED
      BY <1>1, <3>1
  <2>. QED
    BY <2>1, <2>2
<1>. HIDE DEF A, B
<1>4. Min(B) = o + Min(A)
  BY <1>1, <1>2, <1>3, MinShift
<1>. QED
  BY <1>4 DEF SkipWhile, A, B

LEMMA LeftNewline ==
  ASSUME NEW t \in Seq(STRING), NEW o \in 0..Len(t), NEW u, u = Left(t, o),
         NEW i \in 0..Len(u)
  PROVE  Newline(t, o + i) = o + Newline(u, i)
<1>1. /\ Len(u) \in Nat /\ o \in Nat /\ i \in Nat /\ i + 1 \in Nat /\ (o + i) + 1 = o + (i + 1)
      /\ (o + i) + 2 = o + (i + 2)
      /\ \A j \in Nat : \A C : At(u, j, C) <=> At(t, o + j, C)
  BY LeftIs
<1>2. /\ At(u, i, {"lf"}) <=> At(t, o + i, {"lf"})
      /\ At(u, i, {"cr"}) <=> At(t, o + i, {"cr"})
      /\ At(u, i + 1, {"lf"}) <=> At(t, (o + i) + 1, {"lf"})
  BY <1>1
<1>. QED
  BY <1>1, <1>2 DEF Newline

LEMMA LeftSkipped ==
  ASSUME NEW t \in Seq(STRING), NEW o \in 0..Len(t), NEW u, u = Left(t, o),
         NEW i \in 0..Len(u)
  PROVE  Skipped(t, o + i) <=> Skipped(u, i)
<1>. DEFINE w == SkipWhile(u, i, Whitespace)
<1>1. Len(u) \in Nat /\ \A j \in Nat : \A C : At(u, j, C) <=> At(t, o + j, C)
  BY LeftIs
<1>2. w \in i..Len(u)
  BY <1>1, SkipWhileStops
<1>3. SkipWhile(t, o + i, Whitespace) = o + w
  BY LeftSkip
<1>. HIDE DEF w
<1>4. w \in Nat
  BY <1>1, <1>2
<1>. QED
  BY <1>1, <1>3, <1>4 DEF Skipped, w

LEMMA LeftFollowup ==
  ASSUME NEW t \in Seq(STRING), NEW o \in 0..Len(t), NEW u, u = Left(t, o),
         NEW i \in 0..Len(u)
  PROVE  Followup(t, o + i) = o + Followup(u, i)
<1>. DEFINE A == {k \in LineStarts(u, i) : ~Skipped(u, k)}
            B == {k \in LineStarts(t, o + i) : ~Skipped(t, k)}
<1>1. /\ Len(t) \in Nat /\ Len(u) = Len(t) - o /\ Len(u) \in Nat /\ o \in Nat
      /\ \A j \in 0..Len(u) - 1 : u[j + 1] = t[(o + j) + 1]
  BY LeftIs
<1>2. \A j \in 0..Len(u) : Skipped(t, o + j) <=> Skipped(u, j)
  BY LeftSkipped
<1>3. \A a : a \in LineStarts(u, i) => a \in 0..Len(u) /\ o + a \in LineStarts(t, o + i)
  <2>1. ASSUME NEW a, a \in LineStarts(u, i) PROVE a \in 0..Len(u) /\ o + a \in LineStarts(t, o + i)
    <3>1. CASE a = i \/ a = Len(u)
      BY <1>1, <3>1 DEF LineStarts
    <3>2. CASE a \in i + 1..Len(u) /\ u[a] = "lf"
      <4>1. a - 1 \in 0..Len(u) - 1 /\ (a - 1) + 1 = a /\ (o + (a - 1)) + 1 = o + a
            /\ o + a \in (o + i) + 1..Len(t) /\ a \in 0..Len(u)
        BY <1>1, <3>2
      <4>2. t[o + a] = "lf"
        BY <1>1, <3>2, <4>1
      <4>. QED
        BY <4>1, <4>2 DEF LineStarts
    <3>. QED
      BY <2>1, <3>1, <3>2 DEF LineStarts
  <2>. QED
    BY <2>1
<1>4. \A x : x \in LineStarts(t, o + i) => x - o \in LineStarts(u, i) /\ x = o + (x - o)
  <2>1. ASSUME NEW x, x \in LineStarts(t, o + i) PROVE x - o \in LineStarts(u, i) /\ x = o + (x - o)
    <3>1. CASE x = o + i \/ x = Len(t)
      BY <1>1, <3>1 DEF LineStarts
    <3>2. CASE x \in (o + i) + 1..Len(t) /\ t[x] = "lf"
      <4>1. (x - o) - 1 \in 0..Len(u) - 1 /\ ((x - o) - 1) + 1 = x - o
            /\ (o + ((x - o) - 1)) + 1 = x /\ x - o \in i + 1..Len(u) /\ x = o + (x - o)
        BY <1>1, <3>2
      <4>2. u[x - o] = "lf"
        BY <1>1, <3>2, <4>1
      <4>. QED
        BY <4>1, <4>2 DEF LineStarts
    <3>. QED
      BY <2>1, <3>1, <3>2 DEF LineStarts
  <2>. QED
    BY <2>1
<1>5. \A x : x \in B <=> \E a \in A : x = o + a
  BY <1>2, <1>3, <1>4
<1>6. A \in SUBSET Nat /\ A # {}
  <2>1. Followup(u, i) \in LineStarts(u, i) /\ ~Skipped(u, Followup(u, i))
    BY <1>1, FollowupStops
  <2>. QED
    BY <1>3, <2>1
<1>. HIDE DEF A, B
<1>7. Min(B) = o + Min(A)
  BY <1>1, <1>5, <1>6, MinShift
<1>. QED
  BY <1>7 DEF Followup, A, B

LEMMA LeftContinuation ==
  ASSUME NEW t \in Seq(STRING), NEW o \in 0..Len(t), NEW u, u = Left(t, o),
         NEW i \in 0..Len(u)
  PROVE  /\ Continuation(t, o + i) = o + Continuation(u, i)
         /\ Continues(t, o + i) <=> Continues(u, i)
<1>1. /\ Len(u) \in Nat /\ o \in Nat /\ i \in Nat /\ (o + i) + 1 = o + (i + 1)
      /\ \A j \in Nat : \A C : At(u, j, C) <=> At(t, o + j, C)
  BY LeftIs
<1>2. Continuation(t, o + i) = o + Continuation(u, i)
  <2>1. CASE ~At(u, i, {"esc"})
    BY <1>1, <2>1 DEF Continuation
  <2>2. CASE At(u, i, {"esc"})
    <3>. DEFINE w == IF At(u, i + 1, Space) THEN SkipWhile(u, i + 1, Whitespace) ELSE i + 1
                v == IF At(t, (o + i) + 1, Space) THEN SkipWhile(t, (o + i) + 1, Whitespace)
                     ELSE (o + i) + 1
    <3>1. i + 1 \in 0..Len(u)
      BY <1>1, <2>2 DEF At
    <3>2. SkipWhile(u, i + 1, Whitespace) \in i + 1..Len(u)
          /\ SkipWhile(t, (o + i) + 1, Whitespace) = o + SkipWhile(u, i + 1, Whitespace)
      BY <1>1, <3>1, SkipWhileStops, LeftSkip
    <3>3. v = o + w /\ w \in 0..Len(u)
      BY <1>1, <3>1, <3>2
    <3>. HIDE DEF w, v
    <3>4. Newline(u, w) \in w..Len(u) /\ Newline(t, v) = o + Newline(u, w)
      BY <1>1, <3>3, NewlineAdvances, LeftNewline
    <3>5. Newline(u, w) \in 0..Len(u) /\ (Newline(t, v) # v <=> Newline(u, w) # w)
      BY <1>1, <3>3, <3>4
    <3>6. Followup(t, Newline(t, v)) = o + Followup(u, Newline(u, w))
      BY <3>4, <3>5, LeftFollowup
    <3>7. At(t, o + i, {"esc"})
      BY <1>1, <2>2
    <3>. QED
      BY <2>2, <3>5, <3>6, <3>7 DEF Continuation, w, v
  <2>. QED
    BY <2>1, <2>2
<1>3. Continuation(u, i) \in i..Len(u)
  BY <1>1, ContinuationAdvances
<1>. QED
  BY <1>1, <1>2, <1>3 DEF Continues

LEMMA LeftAll ==
  ASSUME NEW t \in Seq(STRING)
  PROVE  Left(t, 0) = t
BY DEF Left

-----------------------------------------------------------------------------
(* Where an error is.  The line and the column error.rs makes of a position *)
(* name that position: of any text, at any position, its end included.      *)
LEMMA NewlinesAre ==
  ASSUME NEW t \in Seq(STRING), NEW pos \in 0..Len(t)
  PROVE  /\ Len(UpTo(pos, t)) = pos
         /\ NewlinesIn(UpTo(pos, t)) = {k \in 1..pos : t[k] = "lf"}
<1>. DEFINE b == SubSeq(t, 1, pos)
<1>1. UpTo(pos, t) = b
  BY DEF UpTo
<1>2. Len(b) = pos /\ DOMAIN b = 1..pos /\ \A k \in 1..pos : b[k] = t[k]
  OBVIOUS
<1>. HIDE DEF b
<1>. QED
  BY <1>1, <1>2 DEF NewlinesIn

LEMMA LocationNames ==
  ASSUME NEW t \in Seq(STRING), NEW pos \in 0..Len(t)
  PROVE  Names(find_location_from_pos(pos, t), pos, t)
<1>. DEFINE N == {k \in 1..pos : t[k] = "lf"}
            b == UpTo(pos, t)
            l == IF N = {} THEN 0 ELSE Max(N)
            location == find_location_from_pos(pos, t)
            upto == {k \in LineStartsOf(t) : k <= l}
<1>1. Len(b) = pos /\ NewlinesIn(b) = N
  BY NewlinesAre
<1>2. LineStartsOf(t) = {0} \cup {k \in 1..Len(t) : t[k] = "lf"}
  BY DEF LineStartsOf, NewlinesIn
<1>3. N # {} => Max(N) \in N /\ \A k \in N : k <= Max(N)
  <2>1. N \in SUBSET (0..pos) /\ pos \in Nat
    OBVIOUS
  <2>. QED
    BY <2>1, MaxIs
<1>4. /\ l \in 0..pos /\ l \in LineStartsOf(t)
      /\ \A k \in N : k <= l
  BY <1>2, <1>3
<1>5. location.line = Cardinality(N) + 1
  BY <1>1 DEF find_location_from_pos, find_line_from_pos
<1>6. location.column = (pos - l) + 1
  BY <1>1, <1>3 DEF find_location_from_pos, column, memrchr
<1>. HIDE DEF location, b, l
<1>7. upto = N \cup {0}
  <2>1. \A k \in N : k \in upto
    BY <1>2, <1>4
  <2>2. \A k \in upto : k = 0 \/ k \in N
    BY <1>2, <1>4
  <2>3. 0 \in upto
    BY <1>2, <1>4
  <2>. QED
    BY <2>1, <2>2, <2>3
<1>8. Cardinality(upto) = Cardinality(N) + 1
  <2>1. IsFiniteSet(N) /\ 0 \notin N
    <3>1. N \subseteq 1..pos /\ IsFiniteSet(1..pos)
      BY FS_Interval
    <3>. QED
      BY <3>1, FS_Subset
  <2>. QED
    BY <1>7, <2>1, FS_AddElement
<1>9. \A k \in LineStartsOf(t) : k > l => pos < k
  <2>1. SUFFICES ASSUME NEW k \in LineStartsOf(t), k > l, ~(pos < k) PROVE FALSE
    OBVIOUS
  <2>2. k \in N
    BY <1>2, <1>4, <2>1
  <2>. QED
    BY <1>4, <2>1, <2>2
<1>10. pos = l + location.column - 1
  BY <1>4, <1>6
<1>11. IsNthLine(l, location.line, t)
  BY <1>4, <1>5, <1>8 DEF IsNthLine
<1>. QED
  BY <1>4, <1>9, <1>10, <1>11 DEF Names, location

LEMMA SeqMore ==
  ASSUME NEW A, NEW B, A \subseteq B, NEW t \in Seq(A)
  PROVE  t \in Seq(B)
<1>1. \A k \in 1..Len(t) : t[k] \in B
  OBVIOUS
<1>2. Len(t) \in Nat /\ t = [k \in 1..Len(t) |-> t[k]]
  OBVIOUS
<1>. QED
  BY <1>1, <1>2

(* The next newline, from anywhere before it.                               *)
LEMMA NextLineIs ==
  ASSUME NEW t, Len(t) \in Nat, NEW i \in 0..Len(t)
  PROVE  /\ NextLine(t, i) \in i..Len(t) /\ (i < Len(t) => i < NextLine(t, i))
         /\ NextLine(t, i) = Len(t) \/ t[NextLine(t, i)] = "lf"
         /\ \A k \in i + 1..NextLine(t, i) - 1 : t[k] # "lf"
<1>. DEFINE S == {k \in i + 1..Len(t) : t[k] = "lf"}
<1>1. {Len(t)} \cup S \in SUBSET Nat /\ {Len(t)} \cup S # {}
  OBVIOUS
<1>2. NextLine(t, i) \in {Len(t)} \cup S /\ \A x \in {Len(t)} \cup S : NextLine(t, i) <= x
  BY <1>1, MinIs DEF NextLine
<1>3. NextLine(t, i) \in i..Len(t)
  BY <1>2
<1>4. \A k \in i + 1..NextLine(t, i) - 1 : k \in i + 1..Len(t) /\ ~(NextLine(t, i) <= k)
  BY <1>3
<1>. QED
  BY <1>2, <1>3, <1>4
=============================================================================
