---------------------------- MODULE Dispatch_proofs ----------------------------
(***************************************************************************)
(* Of every text, over any bytes and of any length: the instructions are    *)
(* the logical lines, in order, each with the form its arguments have, and  *)
(* the error is that of the first line that has one.                        *)
(***************************************************************************)
EXTENDS Dispatch, LogicalLine_proofs

-----------------------------------------------------------------------------
(* A loop that moves on until a step does not move comes to a stop, in      *)
(* every set that it starts in and no step leaves.                          *)
Steps(step, n) == \A j \in 0..n : step[j] \in j..n
Closed(step, P) == \A j \in P : step[j] \in P

LEMMA StepsEnd ==
  ASSUME NEW n \in Nat, NEW step, Steps(step, n), NEW P \in SUBSET (0..n), Closed(step, P),
         NEW i \in P
  PROVE  \E r \in P : i <= r /\ step[r] = r
<1>1. PICK r \in P : \A x \in P : x <= r
  BY MaxIs
<1>2. step[r] \in r..n /\ step[r] \in P /\ r \in Nat
  BY DEF Steps, Closed
<1>. QED
  BY <1>1, <1>2

Reach(step, n, i) == {x \in 0..n : \A P \in SUBSET (0..n) : i \in P /\ Closed(step, P) => x \in P}

LEMMA ReachIs ==
  ASSUME NEW n \in Nat, NEW step, Steps(step, n), NEW i \in 0..n
  PROVE  /\ i \in Reach(step, n, i)
         /\ Reach(step, n, i) \in SUBSET (0..n)
         /\ Closed(step, Reach(step, n, i))
         /\ step[i] = i => Reach(step, n, i) = {i}
         /\ step[i] \in 0..n
         /\ Reach(step, n, i) = {i} \cup Reach(step, n, step[i])
         /\ \A x \in Reach(step, n, i) : i <= x
<1>. DEFINE R(j) == Reach(step, n, j)
<1>1. \A j \in 0..n : step[j] \in 0..n /\ j <= step[j] /\ step[j] \in Nat
  BY DEF Steps
<1>2. ASSUME NEW j \in 0..n
      PROVE  j \in R(j) /\ R(j) \in SUBSET (0..n) /\ Closed(step, R(j))
  <2>1. j \in R(j) /\ R(j) \in SUBSET (0..n)
    BY DEF Reach
  <2>2. ASSUME NEW x \in R(j) PROVE step[x] \in R(j)
    <3>1. x \in 0..n /\ step[x] \in 0..n
      BY <1>1, <2>1
    <3>2. ASSUME NEW P \in SUBSET (0..n), j \in P, Closed(step, P) PROVE step[x] \in P
      <4>1. x \in P
        BY <2>2, <3>2 DEF Reach
      <4>. QED
        BY <3>2, <4>1 DEF Closed
    <3>. QED
      BY <3>1, <3>2 DEF Reach
  <2>. QED
    BY <2>1, <2>2 DEF Closed
<1>3. \A j \in 0..n : \A P \in SUBSET (0..n) : j \in P /\ Closed(step, P) => R(j) \subseteq P
  BY DEF Reach
<1>4. step[i] = i => R(i) = {i}
  <2>1. SUFFICES ASSUME step[i] = i PROVE R(i) = {i}
    OBVIOUS
  <2>2. {i} \in SUBSET (0..n) /\ Closed(step, {i})
    BY <2>1 DEF Closed
  <2>. QED
    BY <1>2, <1>3, <2>2
<1>5. R(i) = {i} \cup R(step[i])
  <2>1. PICK k \in 0..n : k = step[i]
    BY <1>1
  <2>2. Closed(step, {i} \cup R(k)) /\ {i} \cup R(k) \in SUBSET (0..n)
    BY <1>2, <2>1 DEF Closed
  <2>3. R(i) \subseteq {i} \cup R(k)
    BY <1>3, <2>2
  <2>4. k \in R(i)
    BY <1>2, <2>1 DEF Closed
  <2>5. R(k) \subseteq R(i)
    BY <1>2, <1>3, <2>4
  <2>. QED
    BY <1>2, <2>1, <2>3, <2>5
<1>6. \A x \in R(i) : i <= x
  <2>1. i..n \in SUBSET (0..n) /\ i \in i..n
    OBVIOUS
  <2>2. Closed(step, i..n)
    <3>1. \A j \in i..n : j \in 0..n /\ step[j] \in j..n
      BY DEF Steps
    <3>. QED
      BY <3>1 DEF Closed
  <2>3. R(i) \subseteq i..n
    BY <1>3, <2>1, <2>2
  <2>. QED
    BY <2>3
<1>. QED
  BY <1>1, <1>2, <1>4, <1>5, <1>6

IsLoop(step, n, g) == g = [j \in 0..n |-> IF step[j] = j THEN j ELSE g[step[j]]]

LEMMA LoopExists ==
  ASSUME NEW n \in Nat, NEW step, Steps(step, n),
         NEW g, g = [j \in 0..n |-> Max(Reach(step, n, j))]
  PROVE  IsLoop(step, n, g)
<1>1. ASSUME NEW j \in 0..n
      PROVE  g[j] = IF step[j] = j THEN j ELSE g[step[j]]
  <2>1. PICK R : R = Reach(step, n, j)
    OBVIOUS
  <2>2. PICK k \in 0..n : k = step[j]
    BY ReachIs
  <2>3. PICK S : S = Reach(step, n, k)
    OBVIOUS
  <2>4. j \in R /\ R \in SUBSET (0..n) /\ (k = j => R = {j}) /\ R = {j} \cup S
    BY <2>1, <2>2, <2>3, ReachIs
  <2>5. k \in S /\ S \in SUBSET (0..n) /\ \A x \in S : k <= x
    BY <2>3, ReachIs
  <2>6. j <= k
    BY <2>2 DEF Steps
  <2>7. Max(R) \in R /\ \A x \in R : x <= Max(R)
    BY <2>4, MaxIs
  <2>8. Max(S) \in S /\ \A x \in S : x <= Max(S)
    BY <2>5, MaxIs
  <2>9. g[j] = Max(R) /\ g[k] = Max(S)
    BY <2>1, <2>3
  <2>10. CASE k = j
    BY <2>2, <2>4, <2>7, <2>9, <2>10
  <2>11. CASE k # j
    <3>1. Max(S) \in Nat /\ j < k /\ k <= Max(S) /\ Max(R) \in Nat /\ j \in Nat /\ k \in Nat
      <4>1. Max(S) \in 0..n /\ Max(R) \in 0..n
        BY <2>4, <2>5, <2>7, <2>8, Zenon
      <4>2. k <= Max(S)
        BY <2>5, <2>8
      <4>. QED
        BY <2>6, <2>11, <4>1, <4>2
    <3>2. Max(S) <= Max(R)
      BY <2>4, <2>7, <2>8
    <3>3. Max(R) \in S
      BY <2>4, <2>7, <3>1, <3>2
    <3>4. Max(R) <= Max(S)
      BY <2>8, <3>3
    <3>5. Max(R) = Max(S)
      BY <3>1, <3>2, <3>4
    <3>. QED
      BY <2>2, <2>9, <2>11, <3>5
  <2>. QED
    BY <2>10, <2>11
<1>2. g = [j \in 0..n |-> g[j]]
  OBVIOUS
<1>3. [j \in 0..n |-> g[j]] = [j \in 0..n |-> IF step[j] = j THEN j ELSE g[step[j]]]
  BY <1>1
<1>. QED
  BY <1>2, <1>3 DEF IsLoop

LEMMA LoopIsOne ==
  ASSUME NEW n \in Nat, NEW step, Steps(step, n),
         NEW g, IsLoop(step, n, g), NEW h, IsLoop(step, n, h)
  PROVE  \A j \in 0..n : g[j] = h[j]
<1>. DEFINE Bad == {j \in 0..n : g[j] # h[j]}
<1>1. \A j \in 0..n : /\ g[j] = IF step[j] = j THEN j ELSE g[step[j]]
                      /\ h[j] = IF step[j] = j THEN j ELSE h[step[j]]
  <2>1. \A f : \A j \in 0..n : [x \in 0..n |-> IF step[x] = x THEN x ELSE f[step[x]]][j]
                                = IF step[j] = j THEN j ELSE f[step[j]]
    OBVIOUS
  <2>2. /\ g = [x \in 0..n |-> IF step[x] = x THEN x ELSE g[step[x]]]
        /\ h = [x \in 0..n |-> IF step[x] = x THEN x ELSE h[step[x]]]
    BY DEF IsLoop
  <2>. QED
    BY <2>1, <2>2
<1>2. SUFFICES ASSUME Bad # {} PROVE FALSE
  OBVIOUS
<1>3. PICK m \in Bad : \A x \in Bad : x <= m
  <2>1. Bad \in SUBSET (0..n)
    OBVIOUS
  <2>. HIDE DEF Bad
  <2>. QED
    BY <1>2, <2>1, MaxIs
<1>4. step[m] # m /\ step[m] \in m..n
  BY <1>1, <1>3 DEF Steps
<1>5. step[m] \in 0..n /\ step[m] \notin Bad
  BY <1>3, <1>4
<1>. QED
  BY <1>1, <1>3, <1>4, <1>5

LEMMA StaysIs ==
  ASSUME Len(text) \in Nat, NEW step, Steps(step, Len(text)), NEW i \in 0..Len(text)
  PROVE  /\ Stays(step, i) \in i..Len(text)
         /\ step[Stays(step, i)] = Stays(step, i)
         /\ \A P \in SUBSET (0..Len(text)) : i \in P /\ Closed(step, P) => Stays(step, i) \in P
         /\ Stays(step, i) = Stays(step, step[i])
<1>1. PICK n \in Nat : n = Len(text)
  OBVIOUS
<1>. DEFINE o == CHOOSE g : IsLoop(step, n, g)
            h == [j \in 0..n |-> Max(Reach(step, n, j))]
<1>2. \A j : Stays(step, j) = o[j]
  BY <1>1 DEF Stays, IsLoop
<1>3. IsLoop(step, n, h)
  BY <1>1, LoopExists
<1>4. IsLoop(step, n, o)
  BY <1>3
<1>. HIDE DEF o, h
<1>5. \A j \in 0..n : o[j] = h[j]
  BY <1>1, <1>3, <1>4, LoopIsOne
<1>6. \A j \in 0..n : h[j] = Max(Reach(step, n, j))
  BY DEF h
<1>7. PICK k \in 0..n : k = step[i]
  BY <1>1, ReachIs
<1>8. PICK R : R = Reach(step, n, i)
  OBVIOUS
<1>9. PICK r : r = Stays(step, i)
  OBVIOUS
<1>10. /\ i \in R /\ R \in SUBSET (0..n) /\ Closed(step, R)
       /\ \A x \in R : i <= x
  BY <1>1, <1>8, ReachIs
<1>11. r = Max(R)
  BY <1>1, <1>2, <1>5, <1>6, <1>8, <1>9
<1>12. r \in R /\ \A x \in R : x <= r
  BY <1>10, <1>11, MaxIs
<1>13. r \in i..n /\ step[r] = r
  <2>1. step[r] \in R /\ r \in 0..n /\ step[r] \in r..n
    BY <1>1, <1>10, <1>12 DEF Closed, Steps
  <2>. QED
    BY <1>10, <1>12, <2>1
<1>14. \A P \in SUBSET (0..n) : i \in P /\ Closed(step, P) => r \in P
  BY <1>8, <1>12 DEF Reach
<1>15. o[i] = IF step[i] = i THEN i ELSE o[step[i]]
  <2>1. o = [x \in 0..n |-> IF step[x] = x THEN x ELSE o[step[x]]]
    BY <1>4 DEF IsLoop
  <2>2. [x \in 0..n |-> IF step[x] = x THEN x ELSE o[step[x]]][i] = IF step[i] = i THEN i ELSE o[step[i]]
    BY <1>1
  <2>. QED
    BY SMTT(30), <2>1, <2>2
<1>16. r = Stays(step, k)
  <2>1. CASE k = i
    BY <1>9, <2>1
  <2>2. CASE k # i
    BY <1>2, <1>7, <1>9, <1>15, <2>2
  <2>. QED
    BY <2>1, <2>2
<1>. QED
  BY <1>1, <1>7, <1>9, <1>13, <1>14, <1>16

-----------------------------------------------------------------------------
(* Where the scanners stop.                                                 *)
LEMMA TextIs ==
  ASSUME text \in Inputs
  PROVE  text \in Seq(STRING) /\ Len(text) \in Nat /\ MaxLen \in Nat /\ Len(text) <= MaxLen
<1>1. text \in Seq(Char) /\ Len(text) <= MaxLen
  BY InputsAssumption
<1>2. text \in Seq(STRING)
  BY <1>1, CharAssumption, SeqMore, Zenon
<1>. QED
  BY <1>1, <1>2, MaxLenAssumption

GapStep ==
  [j \in 0..Len(text) |-> IF At(text, j, Whitespace) THEN j + 1 ELSE Continuation(text, j)]
PastStep == [j \in 0..Len(text) |-> Continuation(text, j)]

LEMMA GapSteps ==
  ASSUME Len(text) \in Nat
  PROVE  Steps(GapStep, Len(text)) /\ Steps(PastStep, Len(text))
<1>1. ASSUME NEW j \in 0..Len(text)
      PROVE  GapStep[j] \in j..Len(text) /\ PastStep[j] \in j..Len(text)
  <2>1. Continuation(text, j) \in j..Len(text)
    BY ContinuationAdvances
  <2>2. At(text, j, Whitespace) => j + 1 \in j..Len(text)
    BY DEF At
  <2>. QED
    BY <2>1, <2>2 DEF GapStep, PastStep
<1>. QED
  BY <1>1 DEF Steps

LEMMA GapIs ==
  ASSUME Len(text) \in Nat, NEW i \in 0..Len(text)
  PROVE  /\ Gap(i) \in i..Len(text)
         /\ ~At(text, Gap(i), Whitespace) /\ ~Continues(text, Gap(i))
         /\ \A P \in SUBSET (0..Len(text)) :
              /\ i \in P
              /\ \A j \in P : At(text, j, Whitespace) => j + 1 \in P
              /\ \A j \in P : Continues(text, j) => Continuation(text, j) \in P
              => Gap(i) \in P
<1>1. Gap(i) = Stays(GapStep, i)
  BY DEF Gap, GapStep
<1>2. PICK r : r = Stays(GapStep, i)
  OBVIOUS
<1>3. /\ r \in i..Len(text) /\ GapStep[r] = r
      /\ \A P \in SUBSET (0..Len(text)) : i \in P /\ Closed(GapStep, P) => r \in P
  BY <1>2, GapSteps, StaysIs
<1>4. \A j \in 0..Len(text) :
        GapStep[j] = IF At(text, j, Whitespace) THEN j + 1 ELSE Continuation(text, j)
  BY DEF GapStep
<1>5. r \in 0..Len(text) /\ r + 1 # r
  BY <1>3
<1>6. ~At(text, r, Whitespace) /\ ~Continues(text, r)
  BY <1>3, <1>4, <1>5 DEF Continues
<1>7. ASSUME NEW P \in SUBSET (0..Len(text)), i \in P,
             \A j \in P : At(text, j, Whitespace) => j + 1 \in P,
             \A j \in P : Continues(text, j) => Continuation(text, j) \in P
      PROVE  r \in P
  <2>1. ASSUME NEW j \in P PROVE GapStep[j] \in P
    <3>1. CASE At(text, j, Whitespace)
      BY <1>4, <1>7, <3>1
    <3>2. CASE ~At(text, j, Whitespace)
      BY <1>4, <1>7, <3>2 DEF Continues
    <3>. QED
      BY <3>1, <3>2
  <2>. QED
    BY <1>3, <1>7, <2>1 DEF Closed
<1>. QED
  BY <1>1, <1>2, <1>3, <1>6, <1>7

LEMMA PastIs ==
  ASSUME Len(text) \in Nat, NEW i \in 0..Len(text)
  PROVE  /\ PastContinuations(i) \in i..Len(text)
         /\ ~Continues(text, PastContinuations(i))
         /\ \A P \in SUBSET (0..Len(text)) :
              /\ i \in P
              /\ \A j \in P : Continues(text, j) => Continuation(text, j) \in P
              => PastContinuations(i) \in P
         /\ ~Continues(text, i) => PastContinuations(i) = i
<1>1. PastContinuations(i) = Stays(PastStep, i)
  BY DEF PastContinuations, PastStep
<1>2. PICK r : r = Stays(PastStep, i)
  OBVIOUS
<1>3. /\ r \in i..Len(text) /\ PastStep[r] = r
      /\ \A P \in SUBSET (0..Len(text)) : i \in P /\ Closed(PastStep, P) => r \in P
  BY <1>2, GapSteps, StaysIs
<1>4. \A j \in 0..Len(text) : PastStep[j] = Continuation(text, j)
  BY DEF PastStep
<1>5. r \in 0..Len(text)
  BY <1>3
<1>6. ~Continues(text, r)
  BY <1>3, <1>4, <1>5 DEF Continues
<1>7. ASSUME NEW P \in SUBSET (0..Len(text)), i \in P,
             \A j \in P : Continues(text, j) => Continuation(text, j) \in P
      PROVE  r \in P
  <2>1. \A j \in P : PastStep[j] \in P
    BY <1>4, <1>7 DEF Continues
  <2>. QED
    BY <1>3, <1>7, <2>1 DEF Closed
<1>8. ~Continues(text, i) => r = i
  <2>1. {i} \in SUBSET (0..Len(text)) /\ i \in {i}
    OBVIOUS
  <2>2. ~Continues(text, i) => r \in {i}
    BY <1>7, <2>1
  <2>. QED
    BY <2>2
<1>. QED
  BY <1>1, <1>2, <1>3, <1>6, <1>7, <1>8

(* Past continuations with no whitespace behind them there is nothing else. *)
LEMMA GapPast ==
  ASSUME Len(text) \in Nat, NEW i \in 0..Len(text), NEW h, h = PastContinuations(i),
         ~At(text, h, Whitespace)
  PROVE  Gap(i) = h
<1>. DEFINE P == {j \in 0..Len(text) : Gap(j) = Gap(i)}
<1>1. /\ Steps(GapStep, Len(text)) /\ \A j : Gap(j) = Stays(GapStep, j)
      /\ \A j \in 0..Len(text) :
           GapStep[j] = IF At(text, j, Whitespace) THEN j + 1 ELSE Continuation(text, j)
  BY GapSteps DEF Gap, GapStep
<1>2. ASSUME NEW j \in P, Continues(text, j) PROVE Continuation(text, j) \in P
  <2>1. j \in 0..Len(text) /\ Gap(j) = Gap(i)
    OBVIOUS
  <2>2. Continuation(text, j) \in j..Len(text) /\ At(text, j, {"esc"})
    BY <1>2, <2>1, ContinuationAdvances
  <2>3. GapStep[j] = Continuation(text, j)
    BY <1>1, <2>1, <2>2 DEF At, Whitespace
  <2>4. Gap(GapStep[j]) = Gap(j)
    BY <1>1, <2>1, StaysIs
  <2>5. Continuation(text, j) \in 0..Len(text)
    BY <2>1, <2>2
  <2>. QED
    BY <2>1, <2>3, <2>4, <2>5
<1>3. P \in SUBSET (0..Len(text)) /\ i \in P
  OBVIOUS
<1>4. h \in P /\ ~Continues(text, h)
  <2>. HIDE DEF P
  <2>. QED
    BY <1>2, <1>3, PastIs
<1>5. h \in 0..Len(text) /\ Gap(h) = Gap(i)
  BY <1>4
<1>6. Gap(h) = h
  <2>1. {h} \in SUBSET (0..Len(text)) /\ h \in {h}
    BY <1>5
  <2>2. \A j \in {h} : ~At(text, j, Whitespace) /\ ~Continues(text, j)
    BY <1>4
  <2>3. PICK P1 \in SUBSET (0..Len(text)) : P1 = {h}
    BY <2>1
  <2>4. /\ h \in P1
        /\ \A j \in P1 : At(text, j, Whitespace) => j + 1 \in P1
        /\ \A j \in P1 : Continues(text, j) => Continuation(text, j) \in P1
    BY <2>1, <2>2, <2>3
  <2>5. Gap(h) \in P1
    BY <1>5, <2>4, GapIs
  <2>. QED
    BY <2>3, <2>5
<1>. QED
  BY <1>5, <1>6

-----------------------------------------------------------------------------
(* The logical line that starts at b, by the positions of the text: the     *)
(* bytes it holds, and where a scanner that reads it can be.                *)
Held(b, x) == Belongs(Rest(b), x - b)
On(b, x) == Walk(Rest(b), x - b)

LEMMA RestIs ==
  ASSUME text \in Seq(STRING), NEW b \in 0..Len(text), NEW u, u = Rest(b)
  PROVE  /\ u = Left(text, b) /\ Len(text) \in Nat /\ Len(u) = Len(text) - b /\ Len(u) \in Nat
         /\ \A x \in b..Len(text) - 1 : u[(x - b) + 1] = text[x + 1]
         /\ \A x \in b..Len(text) : \A C : At(u, x - b, C) <=> At(text, x, C)
         /\ \A x \in b..Len(text) : x - b \in 0..Len(u) /\ x = b + (x - b) /\ x \in 0..Len(text)
         /\ \A i \in 0..Len(u) : b + i \in b..Len(text) /\ (b + i) - b = i
<1>1. u = Left(text, b)
  BY DEF Rest, Left
<1>2. /\ Len(text) \in Nat /\ Len(u) = Len(text) - b /\ Len(u) \in Nat
      /\ \A i \in 0..Len(u) - 1 : u[i + 1] = text[(b + i) + 1]
      /\ \A i \in Nat : \A C : At(u, i, C) <=> At(text, b + i, C)
  BY <1>1, LeftIs
<1>3. /\ \A x \in b..Len(text) : x - b \in 0..Len(u) /\ x - b \in Nat /\ b + (x - b) = x
                                 /\ x \in 0..Len(text)
      /\ \A x \in b..Len(text) - 1 : x - b \in 0..Len(u) - 1 /\ b + (x - b) = x
      /\ \A i \in 0..Len(u) : b + i \in b..Len(text) /\ (b + i) - b = i
  BY <1>2
<1>4. \A x \in b..Len(text) - 1 : u[(x - b) + 1] = text[x + 1]
  BY <1>2, <1>3
<1>5. \A x \in b..Len(text) : \A C : At(u, x - b, C) <=> At(text, x, C)
  BY <1>2, <1>3
<1>. QED
  BY <1>1, <1>2, <1>3, <1>4, <1>5

LEMMA RestByte ==
  ASSUME text \in Seq(STRING), NEW b \in 0..Len(text), NEW x \in b..Len(text) - 1,
         NEW u, u = Rest(b), NEW i, i = x - b
  PROVE  /\ Len(u) \in Nat /\ i \in 0..Len(u) - 1 /\ u[i + 1] = text[x + 1]
         /\ x \in b..Len(text) /\ x < Len(text) /\ x \in 0..Len(text)
<1>1. u = Left(text, b)
  BY DEF Rest, Left
<1>2. /\ Len(text) \in Nat /\ Len(u) = Len(text) - b /\ Len(u) \in Nat
      /\ \A y \in 0..Len(u) - 1 : u[y + 1] = text[(b + y) + 1]
  BY <1>1, LeftIs
<1>3. i \in 0..Len(u) - 1 /\ b + i = x
  BY <1>2
<1>4. u[i + 1] = text[(b + i) + 1]
  BY <1>2, <1>3
<1>. QED
  BY <1>2, <1>3, <1>4

LEMMA RestContinues ==
  ASSUME text \in Seq(STRING), NEW b \in 0..Len(text), NEW x \in b..Len(text), NEW u, u = Rest(b),
         NEW i, i = x - b
  PROVE  /\ Continues(text, x) <=> Continues(u, i)
         /\ Continuation(text, x) = b + Continuation(u, i)
         /\ Newline(text, x) = b + Newline(u, i)
         /\ Continuation(u, i) \in i..Len(u) /\ Continuation(u, i) = Continuation(text, x) - b
         /\ Continuation(text, x) \in x..Len(text)
<1>1. u = Left(text, b) /\ Len(u) \in Nat /\ Len(text) \in Nat /\ i \in 0..Len(u) /\ x = b + i
      /\ x \in 0..Len(text)
  BY RestIs
<1>2. /\ Continuation(text, b + i) = b + Continuation(u, i)
      /\ Continues(text, b + i) <=> Continues(u, i)
      /\ Newline(text, b + i) = b + Newline(u, i)
  BY <1>1, LeftContinuation, LeftNewline
<1>3. Continuation(u, i) \in i..Len(u) /\ Continuation(text, x) \in x..Len(text)
  BY <1>1, ContinuationAdvances
<1>. QED
  BY <1>1, <1>2, <1>3

LEMMA OnStart ==
  ASSUME text \in Seq(STRING), NEW b \in 0..Len(text)
  PROVE  On(b, b)
<1>1. PICK u : u = Rest(b)
  OBVIOUS
<1>2. Len(u) \in Nat /\ b - b = 0
  BY <1>1, RestIs
<1>. QED
  BY <1>1, <1>2, WalkStart DEF On

LEMMA OnByte ==
  ASSUME text \in Seq(STRING), NEW b \in 0..Len(text), NEW x \in b..Len(text), On(b, x),
         x < Len(text), text[x + 1] # "lf", ~Continues(text, x)
  PROVE  On(b, x + 1) /\ Held(b, x) /\ x + 1 \in b..Len(text)
<1>1. PICK u : u = Rest(b)
  OBVIOUS
<1>2. PICK i : i = x - b
  OBVIOUS
<1>3. /\ Len(u) \in Nat /\ Len(u) = Len(text) - b /\ x \in b..Len(text) - 1 /\ Len(text) \in Nat
      /\ u[i + 1] = text[x + 1] /\ (x + 1) - b = i + 1 /\ i \in 0..Len(u) - 1
  <2>1. Len(u) \in Nat /\ Len(u) = Len(text) - b /\ x \in b..Len(text) - 1 /\ Len(text) \in Nat
    BY <1>1, RestIs
  <2>2. u[i + 1] = text[x + 1]
    BY <1>1, <1>2, <2>1, RestIs
  <2>. QED
    BY <1>2, <2>1, <2>2
<1>4. Walk(u, i) /\ ~Continues(u, i)
  BY <1>1, <1>2, RestContinues DEF On
<1>5. Walk(u, i + 1) /\ Belongs(u, i)
  BY <1>3, <1>4, WalkByte
<1>. QED
  BY <1>1, <1>2, <1>3, <1>5 DEF On, Held

LEMMA OnContinued ==
  ASSUME text \in Seq(STRING), NEW b \in 0..Len(text), NEW x \in b..Len(text), On(b, x),
         Continues(text, x)
  PROVE  /\ On(b, Continuation(text, x)) /\ Continuation(text, x) \in x..Len(text)
         /\ \A y \in x..Continuation(text, x) - 1 : ~Held(b, y)
<1>1. PICK u : u = Rest(b)
  OBVIOUS
<1>2. PICK i : i = x - b
  OBVIOUS
<1>3. PICK c : c = Continuation(text, x)
  OBVIOUS
<1>4. Len(u) \in Nat /\ i \in 0..Len(u)
  BY <1>1, <1>2, RestIs
<1>5. Walk(u, i) /\ Continues(u, i) /\ Continuation(u, i) = c - b /\ c \in x..Len(text)
  BY <1>1, <1>2, <1>3, RestContinues DEF On
<1>6. Walk(u, c - b) /\ \A y \in i..(c - b) - 1 : ~Belongs(u, y)
  BY <1>4, <1>5, WalkContinued
<1>7. \A y \in x..c - 1 : y - b \in i..(c - b) - 1
  BY <1>2, <1>5
<1>. QED
  BY <1>1, <1>3, <1>5, <1>6, <1>7 DEF On, Held

LEMMA OnOver ==
  ASSUME text \in Seq(STRING), NEW b \in 0..Len(text), NEW x \in b..Len(text), On(b, x),
         x = Len(text) \/ At(text, x, {"lf"})
  PROVE  LineEndAt(b) = Newline(text, x) /\ \A y \in x..Len(text) - 1 : ~Held(b, y)
<1>1. PICK u : u = Rest(b)
  OBVIOUS
<1>2. PICK i : i = x - b
  OBVIOUS
<1>3. /\ Len(u) \in Nat /\ Len(u) = Len(text) - b /\ i \in 0..Len(u)
      /\ At(u, i, {"lf"}) <=> At(text, x, {"lf"})
  BY <1>1, <1>2, RestIs
<1>4. Walk(u, i) /\ Newline(text, x) = b + Newline(u, i)
  BY <1>1, <1>2, RestContinues DEF On
<1>5. i = Len(u) \/ At(u, i, {"lf"})
  BY <1>2, <1>3
<1>6. Newline(u, i) = After(u) /\ \A y \in i..Len(u) - 1 : ~Belongs(u, y)
  BY <1>3, <1>4, <1>5, WalkOver
<1>7. \A y \in x..Len(text) - 1 : y - b \in i..Len(u) - 1
  BY <1>2, <1>3
<1>. QED
  BY <1>1, <1>4, <1>6, <1>7 DEF LineEndAt, Held

(* A byte of the line is one that a scanner reads.                          *)
LEMMA BelongsWalk ==
  ASSUME NEW t, Len(t) \in Nat, NEW x \in 0..Len(t) - 1, Belongs(t, x)
  PROVE  Walk(t, x) /\ t[x + 1] # "lf" /\ ~Continues(t, x)
<1>. DEFINE l == LineOf(t, x)
<1>1. /\ l <= LastLine(t) /\ Counts(t, l) /\ t[x + 1] # "lf"
      /\ \A m \in l..x : ~Marker(t, l, m)
  BY DEF Belongs, BelongsTo
<1>2. /\ l \in Lines(t) /\ l \in 0..x
      /\ \A j \in l..x - 1 : t[j + 1] # "lf"
  BY LineOfIs
<1>. HIDE DEF l
<1>3. ~Continues(t, x)
  BY <1>1, <1>2, ContinuesIs
<1>4. Until(t, l)
  <2>1. SUFFICES ASSUME NEW k \in Lines(t), k < l, k \in Ends(t) PROVE FALSE
    BY DEF Until
  <2>2. Ends(t) \in SUBSET Nat /\ Ends(t) # {}
    BY <2>1 DEF Ends, Lines
  <2>3. Min(Ends(t)) <= k /\ Min(Ends(t)) \in Nat
    BY <2>1, <2>2, MinIs
  <2>4. LastLine(t) = Min(Ends(t))
    BY <2>2 DEF LastLine
  <2>. QED
    BY <1>1, <1>2, <2>1, <2>2, <2>3, <2>4
<1>5. \A m \in l..x - 1 : ~Marker(t, l, m)
  BY <1>1, <1>2
<1>. QED
  BY <1>1, <1>3, <1>4, <1>5 DEF Walk, OnLine, l

LEMMA HeldIs ==
  ASSUME text \in Seq(STRING), NEW b \in 0..Len(text), NEW x \in b..Len(text) - 1, Held(b, x)
  PROVE  On(b, x) /\ text[x + 1] # "lf" /\ ~Continues(text, x) /\ On(b, x + 1)
<1>1. PICK u : u = Rest(b)
  OBVIOUS
<1>2. PICK i : i = x - b
  OBVIOUS
<1>3. /\ Len(u) \in Nat /\ i \in 0..Len(u) - 1 /\ u[i + 1] = text[x + 1]
      /\ x \in b..Len(text) /\ x < Len(text)
  BY SMTT(30), <1>1, <1>2, RestByte
<1>4. Walk(u, i) /\ u[i + 1] # "lf" /\ ~Continues(u, i)
  BY <1>1, <1>2, <1>3, BelongsWalk DEF Held
<1>5. On(b, x) /\ text[x + 1] # "lf" /\ ~Continues(text, x)
  BY <1>1, <1>2, <1>3, <1>4, RestContinues DEF On
<1>. QED
  BY <1>3, <1>5, OnByte

(* How a scanner moves on along a line: past a byte of it, or past a        *)
(* continuation.                                                            *)
LineStep ==
  [x \in 0..Len(text) |->
     IF Continues(text, x) THEN Continuation(text, x)
     ELSE IF x < Len(text) /\ text[x + 1] # "lf" THEN x + 1
     ELSE x]
Over(x) == x = Len(text) \/ At(text, x, {"lf"})

LEMMA LineSteps ==
  ASSUME Len(text) \in Nat
  PROVE  /\ Steps(LineStep, Len(text))
         /\ \A x \in 0..Len(text) :
              LineStep[x] = IF Continues(text, x) THEN Continuation(text, x)
                            ELSE IF x < Len(text) /\ text[x + 1] # "lf" THEN x + 1
                            ELSE x
         /\ \A x \in 0..Len(text) : LineStep[x] = x => Over(x)
<1>1. \A x \in 0..Len(text) :
        LineStep[x] = IF Continues(text, x) THEN Continuation(text, x)
                      ELSE IF x < Len(text) /\ text[x + 1] # "lf" THEN x + 1
                      ELSE x
  BY DEF LineStep
<1>2. ASSUME NEW x \in 0..Len(text)
      PROVE  LineStep[x] \in x..Len(text) /\ (LineStep[x] = x => Over(x))
  <2>1. /\ Continuation(text, x) \in x..Len(text)
        /\ Continues(text, x) => Continuation(text, x) # x
    BY ContinuationAdvances DEF Continues
  <2>2. x \in x..Len(text) /\ (x < Len(text) => x + 1 \in x..Len(text)) /\ x + 1 # x
    OBVIOUS
  <2>3. (x < Len(text) /\ text[x + 1] = "lf") \/ x = Len(text) => Over(x)
    BY DEF Over, At
  <2>4. x < Len(text) \/ x = Len(text)
    OBVIOUS
  <2>. QED
    BY <1>1, <2>1, <2>2, <2>3, <2>4
<1>. QED
  BY <1>1, <1>2 DEF Steps

LEMMA OnStep ==
  ASSUME text \in Seq(STRING), NEW b \in 0..Len(text), NEW x \in b..Len(text), On(b, x)
  PROVE  On(b, LineStep[x]) /\ LineStep[x] \in b..Len(text)
<1>1. x \in 0..Len(text) /\ Len(text) \in Nat
  OBVIOUS
<1>2. LineStep[x] = IF Continues(text, x) THEN Continuation(text, x)
                    ELSE IF x < Len(text) /\ text[x + 1] # "lf" THEN x + 1
                    ELSE x
  BY <1>1, LineSteps
<1>3. CASE Continues(text, x)
  <2>1. On(b, Continuation(text, x)) /\ Continuation(text, x) \in x..Len(text)
    BY <1>3, OnContinued
  <2>. QED
    BY <1>2, <1>3, <2>1
<1>4. CASE ~Continues(text, x) /\ x < Len(text) /\ text[x + 1] # "lf"
  <2>1. On(b, x + 1) /\ x + 1 \in b..Len(text)
    BY <1>4, OnByte
  <2>. QED
    BY <1>2, <1>4, <2>1
<1>. QED
  BY <1>2, <1>3, <1>4

(* A scanner is not past the end of its line.                               *)
LEMMA OnBefore ==
  ASSUME text \in Seq(STRING), NEW b \in 0..Len(text), NEW x \in b..Len(text), On(b, x)
  PROVE  x \in b..LineEndAt(b) /\ LineEndAt(b) \in x..Len(text)
<1>. DEFINE P == {y \in b..Len(text) : On(b, y)}
<1>1. P \in SUBSET (0..Len(text)) /\ x \in P /\ Len(text) \in Nat
  OBVIOUS
<1>2. Closed(LineStep, P)
  BY OnStep DEF Closed
<1>3. Steps(LineStep, Len(text))
  BY LineSteps
<1>4. PICK r \in P : x <= r /\ LineStep[r] = r
  <2>. HIDE DEF P
  <2>. QED
    BY <1>1, <1>2, <1>3, StepsEnd
<1>5. r \in b..Len(text) /\ On(b, r) /\ r \in 0..Len(text) /\ Over(r)
  BY <1>4, LineSteps
<1>6. LineEndAt(b) = Newline(text, r)
  BY <1>5, OnOver DEF Over
<1>7. Newline(text, r) \in r..Len(text)
  BY <1>5, NewlineAdvances
<1>. QED
  BY <1>4, <1>5, <1>6, <1>7

(* What is read of a line from some place in it on is the same if the line  *)
(* starts there.                                                            *)
Alike(b, o, x) ==
  /\ On(b, x) /\ On(o, x)
  /\ \A y \in o..x - 1 : Held(b, y) <=> Held(o, y)

LEMMA AlikeStep ==
  ASSUME text \in Seq(STRING), NEW b \in 0..Len(text), NEW o \in b..Len(text),
         NEW x \in o..Len(text), Alike(b, o, x), NEW z, z = LineStep[x]
  PROVE  z \in o..Len(text) /\ Alike(b, o, z)
<1>1. o \in 0..Len(text) /\ x \in b..Len(text) /\ x \in 0..Len(text) /\ Len(text) \in Nat
  OBVIOUS
<1>2. On(b, x) /\ On(o, x)
  BY DEF Alike
<1>3. On(b, z) /\ On(o, z) /\ z \in o..Len(text)
  BY <1>1, <1>2, OnStep
<1>4. z = IF Continues(text, x) THEN Continuation(text, x)
          ELSE IF x < Len(text) /\ text[x + 1] # "lf" THEN x + 1
          ELSE x
  BY <1>1, LineSteps
<1>5. \A y \in x..z - 1 : Held(b, y) <=> Held(o, y)
  <2>1. CASE Continues(text, x)
    <3>1. /\ \A y \in x..Continuation(text, x) - 1 : ~Held(b, y)
          /\ \A y \in x..Continuation(text, x) - 1 : ~Held(o, y)
      BY <1>1, <1>2, <2>1, OnContinued
    <3>. QED
      BY <1>4, <2>1, <3>1
  <2>2. CASE ~Continues(text, x) /\ x < Len(text) /\ text[x + 1] # "lf"
    <3>1. Held(b, x) /\ Held(o, x)
      BY <1>1, <1>2, <2>2, OnByte
    <3>2. z = x + 1
      BY <1>4, <2>2
    <3>3. \A y \in x..z - 1 : y = x
      BY <1>1, <3>2
    <3>. QED
      BY <3>1, <3>3
  <2>3. CASE ~Continues(text, x) /\ ~(x < Len(text) /\ text[x + 1] # "lf")
    BY <1>1, <1>4, <2>3
  <2>. QED
    BY <2>1, <2>2, <2>3
<1>6. \A y \in o..z - 1 : y \in o..x - 1 \/ y \in x..z - 1
  BY <1>1, <1>3
<1>7. \A y \in o..z - 1 : Held(b, y) <=> Held(o, y)
  BY <1>5, <1>6 DEF Alike
<1>. QED
  BY <1>3, <1>7 DEF Alike

LEMMA OnSuffix ==
  ASSUME text \in Seq(STRING), NEW b \in 0..Len(text), NEW o \in b..Len(text), On(b, o)
  PROVE  /\ LineEndAt(b) = LineEndAt(o)
         /\ \A x \in o..Len(text) - 1 : Held(b, x) <=> Held(o, x)
<1>. DEFINE P == {y \in o..Len(text) : Alike(b, o, y)}
<1>1. o \in 0..Len(text) /\ Len(text) \in Nat
  OBVIOUS
<1>2. P \in SUBSET (0..Len(text)) /\ o \in P
  <2>1. On(o, o)
    BY <1>1, OnStart
  <2>2. Alike(b, o, o)
    BY <1>1, <2>1 DEF Alike
  <2>. QED
    BY <1>1, <2>2
<1>3. Closed(LineStep, P)
  BY AlikeStep DEF Closed
<1>4. Steps(LineStep, Len(text))
  BY LineSteps
<1>5. PICK r \in P : o <= r /\ LineStep[r] = r
  <2>. HIDE DEF P
  <2>. QED
    BY <1>1, <1>2, <1>3, <1>4, StepsEnd
<1>6. r \in o..Len(text) /\ r \in b..Len(text) /\ On(b, r) /\ On(o, r) /\ r \in 0..Len(text)
      /\ \A y \in o..r - 1 : Held(b, y) <=> Held(o, y)
  BY <1>5 DEF Alike
<1>7. r = Len(text) \/ At(text, r, {"lf"})
  BY <1>5, <1>6, LineSteps DEF Over
<1>8. /\ LineEndAt(b) = Newline(text, r) /\ \A y \in r..Len(text) - 1 : ~Held(b, y)
      /\ LineEndAt(o) = Newline(text, r) /\ \A y \in r..Len(text) - 1 : ~Held(o, y)
  BY <1>1, <1>6, <1>7, OnOver
<1>9. \A y \in o..Len(text) - 1 : y \in o..r - 1 \/ y \in r..Len(text) - 1
  BY <1>1, <1>6
<1>. QED
  BY <1>6, <1>8, <1>9

-----------------------------------------------------------------------------
(* The words of a line.                                                     *)
SpansOf(b, r) ==
  /\ Divided(Rest(b), r, Len(Rest(b)))
  /\ WordsAt(b) = [k \in 1..Len(r) |-> WordAt(Rest(b), r[k])]

LEMMA SpansExist ==
  ASSUME text \in Seq(STRING), NEW b \in 0..Len(text)
  PROVE  \E r : SpansOf(b, r)
<1>1. PICK u : u = Rest(b)
  OBVIOUS
<1>2. Len(u) \in Nat
  BY <1>1, RestIs
<1>3. PICK q : q = <<>>
  OBVIOUS
<1>4. Len(q) = 0 /\ (\A k : k \notin 1..0) /\ q \in Seq([start : Nat, end : Nat])
  BY <1>3
<1>5. Divided(u, q, 0) /\ Parted(u, q, 0)
  BY <1>4 DEF Divided, Parted
<1>6. PICK r : Completes(u, r, q, 0)
  <2>1. PICK n \in 0..Len(u) : n = 0
    BY <1>2
  <2>2. Divided(u, q, n) /\ Parted(u, q, n)
    BY <1>5, <2>1
  <2>3. \E r : Completes(u, r, q, n)
    BY <1>2, <1>4, <2>2, WordsComplete
  <2>. QED
    BY <2>1, <2>3
<1>7. Divided(u, r, Len(u))
  BY <1>6 DEF Completes
<1>8. InOrder(LineWords(u)) = [k \in 1..Len(r) |-> WordAt(u, r[k])]
  BY <1>2, <1>7, WordsAre
<1>. QED
  BY <1>1, <1>7, <1>8 DEF SpansOf, WordsAt

SpansAre(b, r) ==
  /\ Len(r) \in Nat
  /\ \A k \in 1..Len(r) :
       /\ r[k].start \in Nat /\ r[k].end \in Nat /\ r[k].start < r[k].end
       /\ r[k].end <= Len(text) - b
       /\ Held(b, b + r[k].start) /\ text[b + r[k].start + 1] \notin Whitespace
       /\ \A x \in r[k].start..r[k].end - 1 :
            Held(b, b + x) => text[b + x + 1] \notin Whitespace
  /\ \A k, m \in 1..Len(r) : k < m =>
       /\ r[k].end < r[m].start
       /\ \E x \in r[k].end..r[m].start - 1 : Held(b, b + x) /\ text[b + x + 1] \in Whitespace
  /\ \A x \in 0..(Len(text) - b) - 1 : Held(b, b + x) /\ text[b + x + 1] \notin Whitespace =>
       \E k \in 1..Len(r) : x \in r[k].start..r[k].end - 1
Bytes1(b, span) == {x \in span.start..span.end - 1 : Held(b, b + x)}

LEMMA RestHeld ==
  ASSUME text \in Seq(STRING), NEW b \in 0..Len(text), NEW u, u = Rest(b)
  PROVE  /\ Len(u) \in Nat /\ Len(u) = Len(text) - b /\ Len(text) \in Nat
         /\ \A x \in 0..Len(u) - 1 :
              /\ Belongs(u, x) <=> Held(b, b + x)
              /\ u[x + 1] = text[b + x + 1]
              /\ SolidAt(u, x) <=> Held(b, b + x) /\ text[b + x + 1] \notin Whitespace
              /\ BlankAt(u, x) <=> Held(b, b + x) /\ text[b + x + 1] \in Whitespace
<1>1. u = Left(text, b)
  BY DEF Rest, Left
<1>2. /\ Len(u) \in Nat /\ Len(u) = Len(text) - b /\ Len(text) \in Nat
      /\ \A y \in 0..Len(u) - 1 : u[y + 1] = text[(b + y) + 1]
  BY <1>1, LeftIs
<1>3. \A y \in 0..Len(u) - 1 : (b + y) - b = y
  BY <1>2
<1>4. \A y \in 0..Len(u) - 1 : Belongs(u, y) <=> Held(b, b + y)
  BY <1>3 DEF Held
<1>. QED
  BY <1>2, <1>4 DEF SolidAt, BlankAt

LEMMA SpansFrom ==
  ASSUME text \in Seq(STRING), NEW b \in 0..Len(text), NEW r, SpansAre(b, r)
  PROVE  SpansOf(b, r) /\ WordsAt(b) = [k \in 1..Len(r) |-> Bytes1(b, r[k])]
<1>1. PICK u : u = Rest(b)
  OBVIOUS
<1>2. /\ Len(u) \in Nat /\ Len(u) = Len(text) - b /\ Len(text) \in Nat
      /\ \A x \in 0..Len(u) - 1 :
           /\ Belongs(u, x) <=> Held(b, b + x)
           /\ SolidAt(u, x) <=> Held(b, b + x) /\ text[b + x + 1] \notin Whitespace
           /\ BlankAt(u, x) <=> Held(b, b + x) /\ text[b + x + 1] \in Whitespace
  BY <1>1, RestHeld
<1>3. ASSUME NEW k \in 1..Len(r)
      PROVE  /\ WordSpan(u, r[k].start, r[k].end) /\ r[k].end <= Len(u)
             /\ WordAt(u, r[k]) = Bytes1(b, r[k])
  <2>1. PICK i : i = r[k].start
    OBVIOUS
  <2>2. PICK j : j = r[k].end
    OBVIOUS
  <2>3. /\ i \in Nat /\ j \in Nat /\ i < j /\ j <= Len(u) /\ Held(b, b + i)
        /\ \A x \in i..j - 1 : Held(b, b + x) => text[b + x + 1] \notin Whitespace
    BY <1>2, <2>1, <2>2 DEF SpansAre
  <2>4. \A x \in i..j - 1 : x \in 0..Len(u) - 1
    BY <1>2, <2>3
  <2>5. WordSpan(u, i, j)
    <3>1. i \in i..j - 1
      BY <2>3
    <3>2. Belongs(u, i)
      BY <1>2, <2>3, <2>4, <3>1
    <3>3. \A x \in i..j - 1 : ~BlankAt(u, x)
      BY <1>2, <2>3, <2>4
    <3>. QED
      BY <2>3, <3>2, <3>3 DEF WordSpan
  <2>6. {x \in i..j - 1 : Belongs(u, x)} = {x \in i..j - 1 : Held(b, b + x)}
    BY <1>2, <2>4
  <2>. QED
    BY <2>1, <2>2, <2>3, <2>5, <2>6 DEF WordAt, Bytes1
<1>4. ASSUME NEW k \in 1..Len(r), NEW m \in 1..Len(r), k < m
      PROVE  Apart(u, r[k].end, r[m].start)
  <2>1. PICK x \in r[k].end..r[m].start - 1 : Held(b, b + x) /\ text[b + x + 1] \in Whitespace
    BY <1>4 DEF SpansAre
  <2>2. x \in 0..Len(u) - 1
    <3>1. PICK e, i, j : e = r[k].end /\ i = r[m].start /\ j = r[m].end
      OBVIOUS
    <3>2. e \in Nat /\ i \in Nat /\ j \in Nat /\ i < j /\ j <= Len(u)
      BY <1>2, <3>1 DEF SpansAre
    <3>3. x \in e..i - 1
      BY <3>1
    <3>. QED
      BY <1>2, <3>2, <3>3
  <2>. QED
    BY <1>2, <2>1, <2>2 DEF Apart
<1>5. ASSUME NEW x \in 0..Len(u) - 1, SolidAt(u, x)
      PROVE  \E k \in 1..Len(r) : x \in r[k].start..r[k].end - 1
  BY <1>2, <1>5 DEF SpansAre
<1>6. Divided(u, r, Len(u))
  BY <1>3, <1>4, <1>5 DEF Divided, SpansAre
<1>7. InOrder(LineWords(u)) = [k \in 1..Len(r) |-> WordAt(u, r[k])]
  BY <1>2, <1>6, WordsAre
<1>8. [k \in 1..Len(r) |-> WordAt(u, r[k])] = [k \in 1..Len(r) |-> Bytes1(b, r[k])]
  BY <1>3
<1>. QED
  BY <1>1, <1>6, <1>7, <1>8 DEF SpansOf, WordsAt

LEMMA SpansKnown ==
  ASSUME text \in Seq(STRING), NEW b \in 0..Len(text), NEW r, SpansOf(b, r)
  PROVE  SpansAre(b, r) /\ WordsAt(b) = [k \in 1..Len(r) |-> Bytes1(b, r[k])]
<1>1. PICK u : u = Rest(b)
  OBVIOUS
<1>2. /\ Len(u) \in Nat /\ Len(u) = Len(text) - b /\ Len(text) \in Nat
      /\ \A x \in 0..Len(u) - 1 :
           /\ Belongs(u, x) <=> Held(b, b + x)
           /\ SolidAt(u, x) <=> Held(b, b + x) /\ text[b + x + 1] \notin Whitespace
           /\ BlankAt(u, x) <=> Held(b, b + x) /\ text[b + x + 1] \in Whitespace
  BY <1>1, RestHeld
<1>3. Divided(u, r, Len(u))
  BY <1>1 DEF SpansOf
<1>4. Len(r) \in Nat
  BY <1>3 DEF Divided
<1>5. ASSUME NEW k \in 1..Len(r)
      PROVE  /\ r[k].start \in Nat /\ r[k].end \in Nat /\ r[k].start < r[k].end
             /\ r[k].end <= Len(u)
             /\ Held(b, b + r[k].start) /\ text[b + r[k].start + 1] \notin Whitespace
             /\ \A x \in r[k].start..r[k].end - 1 :
                  Held(b, b + x) => text[b + x + 1] \notin Whitespace
  <2>1. PICK i : i = r[k].start
    OBVIOUS
  <2>2. PICK j : j = r[k].end
    OBVIOUS
  <2>3. WordSpan(u, i, j) /\ j <= Len(u)
    BY <1>3, <2>1, <2>2 DEF Divided
  <2>4. i \in Nat /\ j \in Nat /\ i < j /\ Belongs(u, i) /\ \A x \in i..j - 1 : ~BlankAt(u, x)
    BY <2>3 DEF WordSpan
  <2>5. \A x \in i..j - 1 : x \in 0..Len(u) - 1
    BY <1>2, <2>3, <2>4
  <2>6. i \in i..j - 1
    BY <2>4
  <2>7. \A x \in i..j - 1 : Held(b, b + x) => text[b + x + 1] \notin Whitespace
    BY <1>2, <2>4, <2>5
  <2>8. Held(b, b + i)
    BY <1>2, <2>4, <2>5, <2>6
  <2>. QED
    BY <2>1, <2>2, <2>3, <2>4, <2>6, <2>7, <2>8
<1>6. ASSUME NEW k \in 1..Len(r), NEW m \in 1..Len(r), k < m
      PROVE  /\ r[k].end < r[m].start
             /\ \E x \in r[k].end..r[m].start - 1 : Held(b, b + x) /\ text[b + x + 1] \in Whitespace
  <2>1. PICK x \in r[k].end..r[m].start - 1 : BlankAt(u, x)
    BY <1>3, <1>6 DEF Divided, Apart
  <2>2. r[k].end \in Nat /\ r[m].start \in Nat /\ r[m].end \in Nat
        /\ r[m].start < r[m].end /\ r[m].end <= Len(u)
    BY <1>5
  <2>3. x \in 0..Len(u) - 1 /\ r[k].end < r[m].start
    BY SMTT(30), <1>2, <2>1, <2>2
  <2>. QED
    BY <1>2, <2>1, <2>3
<1>7. ASSUME NEW x \in 0..Len(u) - 1, Held(b, b + x), text[b + x + 1] \notin Whitespace
      PROVE  \E k \in 1..Len(r) : x \in r[k].start..r[k].end - 1
  BY <1>2, <1>3, <1>7 DEF Divided
<1>8. SpansAre(b, r)
  BY <1>2, <1>4, <1>5, <1>6, <1>7 DEF SpansAre
<1>. QED
  BY <1>8, SpansFrom

LEMMA WordsAtIs ==
  ASSUME text \in Seq(STRING), NEW b \in 0..Len(text), NEW W, W = WordsAt(b)
  PROVE  /\ Len(W) \in Nat /\ DOMAIN W = 1..Len(W) /\ W \in Seq(SUBSET Nat)
         /\ \A k \in 1..Len(W) :
              /\ W[k] # {} /\ W[k] \in SUBSET Nat /\ W[k] \in SUBSET (0..Len(text))
              /\ \A x \in W[k] : /\ x \in Nat /\ b + x \in b..Len(text) - 1
                                 /\ Held(b, b + x) /\ text[b + x + 1] \notin Whitespace
              /\ Min(W[k]) \in W[k] /\ Max(W[k]) \in W[k]
              /\ \A x \in W[k] : Min(W[k]) <= x /\ x <= Max(W[k])
<1>1. PICK r : SpansOf(b, r)
  BY SpansExist
<1>2. SpansAre(b, r) /\ W = [k \in 1..Len(r) |-> Bytes1(b, r[k])]
  BY <1>1, SpansKnown
<1>3. Len(r) \in Nat /\ Len(text) \in Nat
  BY <1>2 DEF SpansAre
<1>4. Len(W) = Len(r) /\ DOMAIN W = 1..Len(r)
  BY <1>2, <1>3
<1>5. ASSUME NEW k \in 1..Len(r)
      PROVE  /\ W[k] # {} /\ W[k] \in SUBSET Nat /\ W[k] \in SUBSET (0..Len(text))
             /\ \A x \in W[k] : /\ x \in Nat /\ b + x \in b..Len(text) - 1
                                /\ Held(b, b + x) /\ text[b + x + 1] \notin Whitespace
             /\ Min(W[k]) \in W[k] /\ Max(W[k]) \in W[k]
             /\ \A x \in W[k] : Min(W[k]) <= x /\ x <= Max(W[k])
  <2>1. PICK i, j, w : i = r[k].start /\ j = r[k].end /\ w = W[k]
    OBVIOUS
  <2>2. /\ i \in Nat /\ j \in Nat /\ i < j /\ j <= Len(text) - b /\ Held(b, b + i)
        /\ \A x \in i..j - 1 : Held(b, b + x) => text[b + x + 1] \notin Whitespace
    BY <1>2, <2>1 DEF SpansAre
  <2>3. w = {x \in i..j - 1 : Held(b, b + x)}
    BY <1>2, <2>1 DEF Bytes1
  <2>4. i \in w /\ w \in SUBSET Nat /\ w \in SUBSET (0..Len(text))
    BY <1>3, <2>2, <2>3
  <2>5. \A x \in w : /\ x \in Nat /\ b + x \in b..Len(text) - 1
                     /\ Held(b, b + x) /\ text[b + x + 1] \notin Whitespace
    BY <1>3, <2>2, <2>3
  <2>6. /\ Min(w) \in w /\ \A x \in w : Min(w) <= x
        /\ Max(w) \in w /\ \A x \in w : x <= Max(w)
    BY <1>3, <2>4, MinIs, MaxIs
  <2>. QED
    BY <2>1, <2>4, <2>5, <2>6
<1>6. W \in Seq(SUBSET Nat)
  BY <1>2, <1>3, <1>4, <1>5
<1>. QED
  BY <1>3, <1>4, <1>5, <1>6

(* A line goes on at o, behind n of its words: what follows there are its   *)
(* other words.                                                             *)
Shift(word, d) == {x + d : x \in word}
Follows(b, n, o) ==
  /\ o \in b..Len(text) /\ On(b, o)
  /\ n \in 0..Len(WordsAt(b)) /\ Len(WordsAt(b)) = n + Len(WordsAt(o))
  /\ \A k \in 1..Len(WordsAt(o)) : WordsAt(b)[n + k] = Shift(WordsAt(o)[k], o - b)

LEMMA FollowsAt ==
  ASSUME text \in Seq(STRING), NEW b \in 0..Len(text), NEW o \in b..Len(text), On(b, o),
         NEW r, SpansOf(b, r), NEW n \in 0..Len(r),
         \A k \in 1..n : r[k].end <= o - b,
         \A k \in n + 1..Len(r) : o - b <= r[k].start
  PROVE  Follows(b, n, o)
<1>1. PICK d : d = o - b
  OBVIOUS
<1>2. SpansAre(b, r) /\ WordsAt(b) = [k \in 1..Len(r) |-> Bytes1(b, r[k])]
  BY SpansKnown
<1>3. /\ Len(r) \in Nat /\ Len(text) \in Nat /\ d \in Nat /\ o \in 0..Len(text) /\ n \in Nat
      /\ o = b + d /\ d <= Len(text) - b
  BY <1>1, <1>2 DEF SpansAre
<1>4. \A x \in o..Len(text) - 1 : Held(b, x) <=> Held(o, x)
  BY OnSuffix
<1>. DEFINE q == [k \in 1..Len(r) - n |-> [start |-> r[n + k].start - d, end |-> r[n + k].end - d]]
<1>5. Len(q) = Len(r) - n /\ Len(q) \in Nat
  BY <1>3
<1>6. \A k \in 1..Len(q) : /\ n + k \in 1..Len(r) /\ n + k \in n + 1..Len(r)
                           /\ q[k].start = r[n + k].start - d /\ q[k].end = r[n + k].end - d
  BY <1>3
<1>. HIDE DEF q
<1>7. ASSUME NEW k \in 1..Len(q)
      PROVE  /\ q[k].start \in Nat /\ q[k].end \in Nat /\ q[k].start < q[k].end
             /\ q[k].end <= Len(text) - o
             /\ Held(o, o + q[k].start) /\ text[o + q[k].start + 1] \notin Whitespace
             /\ \A x \in q[k].start..q[k].end - 1 :
                  Held(o, o + x) => text[o + x + 1] \notin Whitespace
             /\ Bytes1(b, r[n + k]) = Shift(Bytes1(o, q[k]), d)
  <2>1. PICK i, j, v, w : i = r[n + k].start /\ j = r[n + k].end /\ v = q[k].start /\ w = q[k].end
    OBVIOUS
  <2>2. /\ i \in Nat /\ j \in Nat /\ i < j /\ j <= Len(text) - b
        /\ Held(b, b + i) /\ text[b + i + 1] \notin Whitespace
        /\ \A x \in i..j - 1 : Held(b, b + x) => text[b + x + 1] \notin Whitespace
    BY <1>2, <1>6, <2>1 DEF SpansAre
  <2>3. d <= i /\ v = i - d /\ w = j - d
    BY <1>1, <1>6, <2>1
  <2>4. /\ v \in Nat /\ w \in Nat /\ v < w /\ w <= Len(text) - o /\ o + v = b + i
    BY <1>3, <2>2, <2>3
  <2>5. \A x \in v..w - 1 : /\ x + d \in i..j - 1 /\ o + x = b + (x + d)
                            /\ o + x \in o..Len(text) - 1
    BY <1>3, <2>2, <2>3, <2>4
  <2>6. \A x \in v..w - 1 : Held(o, o + x) <=> Held(b, b + (x + d))
    BY <1>4, <2>5
  <2>7. v \in v..w - 1 /\ v + d = i
    BY <1>3, <2>2, <2>3, <2>4
  <2>8. Held(o, o + v) /\ text[o + v + 1] \notin Whitespace
    BY <2>2, <2>4, <2>6, <2>7
  <2>9. \A x \in v..w - 1 : Held(o, o + x) => text[o + x + 1] \notin Whitespace
    BY <2>2, <2>5, <2>6
  <2>10. {x \in i..j - 1 : Held(b, b + x)} = Shift({x \in v..w - 1 : Held(o, o + x)}, d)
    <3>1. \A x \in i..j - 1 : x - d \in v..w - 1 /\ (x - d) + d = x
      BY <1>3, <2>2, <2>3, <2>4
    <3>2. \A x \in {y \in i..j - 1 : Held(b, b + y)} : x \in Shift({y \in v..w - 1 : Held(o, o + y)}, d)
      BY <2>6, <3>1 DEF Shift
    <3>3. \A x \in Shift({y \in v..w - 1 : Held(o, o + y)}, d) : x \in {y \in i..j - 1 : Held(b, b + y)}
      BY <2>5, <2>6 DEF Shift
    <3>. QED
      BY <3>2, <3>3
  <2>. QED
    BY <2>1, <2>4, <2>8, <2>9, <2>10 DEF Bytes1
<1>8. ASSUME NEW k \in 1..Len(q), NEW m \in 1..Len(q), k < m
      PROVE  /\ q[k].end < q[m].start
             /\ \E x \in q[k].end..q[m].start - 1 : Held(o, o + x) /\ text[o + x + 1] \in Whitespace
  <2>1. PICK j, i, e, a : j = r[n + k].end /\ i = r[n + m].start /\ e = q[k].end /\ a = q[m].start
    OBVIOUS
  <2>2. n + k < n + m /\ n + k \in 1..Len(r) /\ n + m \in 1..Len(r)
    BY SMTT(30), <1>3, <1>5, <1>6, <1>8
  <2>3. /\ j < i /\ \E x \in j..i - 1 : Held(b, b + x) /\ text[b + x + 1] \in Whitespace
    BY <1>2, <2>1, <2>2 DEF SpansAre
  <2>4. j \in Nat /\ i \in Nat /\ e = j - d /\ a = i - d /\ e \in Nat /\ a \in Nat
    BY <1>2, <1>6, <1>7, <2>1, <2>2 DEF SpansAre
  <2>5. PICK x \in j..i - 1 : Held(b, b + x) /\ text[b + x + 1] \in Whitespace
    BY <2>3
  <2>6. i <= Len(text) - b
    <3>1. PICK f : f = r[n + m].end
      OBVIOUS
    <3>2. i < f /\ f <= Len(text) - b /\ f \in Nat
      BY <1>2, <2>1, <2>2, <3>1 DEF SpansAre
    <3>. QED
      BY <1>3, <2>4, <3>2
  <2>7. PICK y : y = x - d
    OBVIOUS
  <2>8. y \in e..a - 1 /\ o + y = b + x /\ o + y \in o..Len(text) - 1
    BY <1>3, <2>4, <2>5, <2>6, <2>7
  <2>9. Held(o, o + y) /\ text[o + y + 1] \in Whitespace
    BY <1>4, <2>5, <2>8
  <2>10. e < a
    BY <1>3, <2>3, <2>4
  <2>. QED
    BY <2>1, <2>8, <2>9, <2>10
<1>9. ASSUME NEW x \in 0..(Len(text) - o) - 1, Held(o, o + x), text[o + x + 1] \notin Whitespace
      PROVE  \E k \in 1..Len(q) : x \in q[k].start..q[k].end - 1
  <2>1. PICK y : y = x + d
    OBVIOUS
  <2>2. y \in 0..(Len(text) - b) - 1 /\ o + x = b + y /\ o + x \in o..Len(text) - 1
    BY <1>3, <2>1
  <2>3. Held(b, b + y) /\ text[b + y + 1] \notin Whitespace
    BY <1>4, <1>9, <2>2
  <2>4. PICK m \in 1..Len(r) : y \in r[m].start..r[m].end - 1
    BY <1>2, <2>2, <2>3 DEF SpansAre
  <2>5. PICK i, j : i = r[m].start /\ j = r[m].end
    OBVIOUS
  <2>6. i \in Nat /\ j \in Nat /\ y \in i..j - 1
    BY <1>2, <2>4, <2>5 DEF SpansAre
  <2>7. ~(m <= n)
    <3>1. SUFFICES ASSUME m <= n PROVE FALSE
      OBVIOUS
    <3>2. m \in 1..n
      BY <1>3, <3>1
    <3>3. j <= d
      BY <1>1, <2>5, <3>2
    <3>. QED
      BY <1>3, <2>1, <2>6, <3>3
  <2>8. PICK k : k = m - n
    OBVIOUS
  <2>9. k \in 1..Len(q) /\ n + k = m
    BY <1>3, <1>5, <2>7, <2>8
  <2>10. q[k].start = i - d /\ q[k].end = j - d
    BY <1>6, <2>5, <2>9
  <2>11. x \in i - d..(j - d) - 1
    BY <1>3, <2>1, <2>6
  <2>. QED
    BY <2>9, <2>10, <2>11
<1>10. SpansAre(o, q)
  BY <1>5, <1>7, <1>8, <1>9 DEF SpansAre
<1>11. WordsAt(o) = [k \in 1..Len(q) |-> Bytes1(o, q[k])]
  BY <1>3, <1>10, SpansFrom
<1>12. Len(WordsAt(o)) = Len(q) /\ \A k \in 1..Len(q) : WordsAt(o)[k] = Bytes1(o, q[k])
  BY <1>5, <1>11
<1>13. Len(WordsAt(b)) = Len(r) /\ \A k \in 1..Len(r) : WordsAt(b)[k] = Bytes1(b, r[k])
  BY <1>2, <1>3
<1>14. \A k \in 1..Len(q) : WordsAt(b)[n + k] = Shift(WordsAt(o)[k], d)
  BY <1>6, <1>7, <1>12, <1>13
<1>15. PICK W, V : W = WordsAt(b) /\ V = WordsAt(o)
  OBVIOUS
<1>16. Len(V) = Len(q) /\ Len(W) = Len(r)
  BY <1>12, <1>13, <1>15
<1>17. \A k \in 1..Len(q) : W[n + k] = Shift(V[k], d)
  BY <1>14, <1>15
<1>18. n \in 0..Len(W) /\ Len(W) = n + Len(V)
  BY <1>3, <1>5, <1>16
<1>. QED
  BY <1>1, <1>15, <1>16, <1>17, <1>18 DEF Follows

Clean(x) == x \in 0..Len(text) /\ ~At(text, x, Whitespace) /\ ~Continues(text, x)

LEMMA GapEnds ==
  ASSUME text \in Seq(STRING), NEW b \in 0..Len(text), NEW e \in b..Len(text), On(b, e),
         NEW g, g = Gap(e)
  PROVE  /\ g \in e..Len(text) /\ On(b, g) /\ Clean(g)
         /\ \A x \in e..g - 1 : Held(b, x) => text[x + 1] \in Whitespace
<1>. DEFINE P == {x \in e..Len(text) : On(b, x) /\ \A y \in e..x - 1 : Held(b, y) => text[y + 1] \in Whitespace}
<1>1. e \in 0..Len(text) /\ Len(text) \in Nat
  OBVIOUS
<1>2. P \in SUBSET (0..Len(text)) /\ e \in P
  OBVIOUS
<1>3. ASSUME NEW x \in P, At(text, x, Whitespace) PROVE x + 1 \in P
  <2>1. x \in b..Len(text) /\ x \in e..Len(text) /\ On(b, x)
        /\ \A y \in e..x - 1 : Held(b, y) => text[y + 1] \in Whitespace
    OBVIOUS
  <2>2. x < Len(text) /\ text[x + 1] \in Whitespace /\ text[x + 1] # "lf" /\ text[x + 1] # "esc"
    BY <1>3 DEF At, Whitespace
  <2>3. ~Continues(text, x)
    BY <2>1, <2>2, ContinuationAdvances DEF At
  <2>4. On(b, x + 1) /\ x + 1 \in b..Len(text)
    BY <2>1, <2>2, <2>3, OnByte
  <2>5. \A y \in e..(x + 1) - 1 : y \in e..x - 1 \/ y = x
    BY <1>1, <2>1
  <2>6. x + 1 \in e..Len(text)
    BY <1>1, <2>1, <2>2
  <2>. QED
    BY <2>1, <2>2, <2>4, <2>5, <2>6
<1>4. ASSUME NEW x \in P, Continues(text, x) PROVE Continuation(text, x) \in P
  <2>1. x \in b..Len(text) /\ x \in e..Len(text) /\ On(b, x)
        /\ \A y \in e..x - 1 : Held(b, y) => text[y + 1] \in Whitespace
    OBVIOUS
  <2>2. PICK c : c = Continuation(text, x)
    OBVIOUS
  <2>3. On(b, c) /\ c \in x..Len(text) /\ \A y \in x..c - 1 : ~Held(b, y)
    BY <1>4, <2>1, <2>2, OnContinued
  <2>4. c \in e..Len(text) /\ \A y \in e..c - 1 : y \in e..x - 1 \/ y \in x..c - 1
    BY <1>1, <2>1, <2>3
  <2>5. c \in P
    BY <2>1, <2>3, <2>4
  <2>. QED
    BY <2>2, <2>5
<1>5. g \in P
  <2>. HIDE DEF P
  <2>. QED
    BY <1>1, <1>2, <1>3, <1>4, GapIs
<1>6. g \in e..Len(text) /\ ~At(text, g, Whitespace) /\ ~Continues(text, g)
  BY <1>1, GapIs
<1>. QED
  BY <1>1, <1>5, <1>6 DEF Clean

LEMMA CleanIs ==
  ASSUME text \in Seq(STRING), NEW b \in 0..Len(text), NEW g \in b..Len(text), On(b, g), Clean(g)
  PROVE  \/ Over(g) /\ \A x \in g..Len(text) - 1 : ~Held(b, x)
         \/ ~Over(g) /\ g \in b..Len(text) - 1 /\ Held(b, g) /\ text[g + 1] \notin Whitespace
<1>1. Len(text) \in Nat
  OBVIOUS
<1>2. CASE Over(g)
  BY <1>2, OnOver DEF Over
<1>3. CASE ~Over(g)
  <2>1. g < Len(text) /\ text[g + 1] # "lf" /\ g \in b..Len(text) - 1
    BY <1>1, <1>3 DEF Over, At
  <2>2. Held(b, g)
    BY <2>1, OnByte DEF Clean
  <2>3. text[g + 1] \notin Whitespace
    BY <2>1 DEF Clean, At
  <2>. QED
    BY <1>3, <2>1, <2>2, <2>3
<1>. QED
  BY <1>2, <1>3

LEMMA StartFollows ==
  ASSUME text \in Seq(STRING), NEW b \in 0..Len(text)
  PROVE  Follows(b, 0, b)
<1>1. PICK W : W = WordsAt(b)
  OBVIOUS
<1>2. Len(W) \in Nat /\ \A k \in 1..Len(W) : W[k] \in SUBSET Nat
  BY <1>1, WordsAtIs
<1>3. \A k \in 1..Len(W) : W[0 + k] = Shift(W[k], b - b)
  <2>1. ASSUME NEW k \in 1..Len(W) PROVE W[0 + k] = Shift(W[k], b - b)
    <3>1. 0 + k = k /\ b - b = 0
      OBVIOUS
    <3>2. \A x \in W[k] : x + 0 = x
      BY <1>2
    <3>. QED
      BY <3>1, <3>2 DEF Shift
  <2>. QED
    BY <2>1
<1>4. b \in b..Len(text) /\ 0 \in 0..Len(W) /\ Len(W) = 0 + Len(W)
  BY <1>2
<1>5. On(b, b)
  BY OnStart
<1>. QED
  BY <1>1, <1>3, <1>4, <1>5 DEF Follows

LEMMA OverEmpty ==
  ASSUME text \in Seq(STRING), NEW g \in 0..Len(text), Over(g)
  PROVE  WordsAt(g) = <<>>
<1>1. Len(text) \in Nat /\ g \in g..Len(text) /\ On(g, g)
  BY OnStart
<1>2. \A x \in g..Len(text) - 1 : ~Held(g, x)
  BY <1>1, OnOver DEF Over
<1>3. PICK r : SpansOf(g, r)
  BY SpansExist
<1>4. SpansAre(g, r) /\ WordsAt(g) = [k \in 1..Len(r) |-> Bytes1(g, r[k])]
  BY <1>3, SpansKnown
<1>5. Len(r) = 0
  <2>1. Len(r) \in Nat
    BY <1>4 DEF SpansAre
  <2>2. SUFFICES ASSUME 1 \in 1..Len(r) PROVE FALSE
    BY <2>1
  <2>3. PICK i, j : i = r[1].start /\ j = r[1].end
    OBVIOUS
  <2>4. i \in Nat /\ j \in Nat /\ i < j /\ j <= Len(text) - g /\ Held(g, g + i)
    BY <1>4, <2>2, <2>3 DEF SpansAre
  <2>5. g + i \in g..Len(text) - 1
    BY <1>1, <2>4
  <2>. QED
    BY <1>2, <2>4, <2>5
<1>. QED
  BY <1>4, <1>5

(* Past a word and the whitespace after it, the next word starts.           *)
LEMMA GapFollows ==
  ASSUME text \in Seq(STRING), NEW b \in 0..Len(text), NEW W, W = WordsAt(b), NEW n \in 1..Len(W),
         NEW g, g = Gap(b + Max(W[n]) + 1)
  PROVE  Follows(b, n, g) /\ Clean(g)
<1>1. PICK r : SpansOf(b, r)
  BY SpansExist
<1>2. SpansAre(b, r) /\ W = [k \in 1..Len(r) |-> Bytes1(b, r[k])]
  BY <1>1, SpansKnown
<1>3. Len(r) \in Nat /\ Len(text) \in Nat /\ Len(W) = Len(r) /\ n \in 1..Len(r) /\ n \in Nat
  <2>1. Len(r) \in Nat
    BY <1>2 DEF SpansAre
  <2>. QED
    BY <1>2, <2>1
<1>4. PICK w, m : w = W[n] /\ m = Max(w)
  OBVIOUS
<1>5. /\ m \in w /\ m \in Nat /\ \A x \in w : x <= m
      /\ b + m \in b..Len(text) - 1 /\ Held(b, b + m)
  BY <1>4, WordsAtIs
<1>6. w = Bytes1(b, r[n])
  BY <1>2, <1>3, <1>4
<1>7. PICK e : e = b + m + 1
  OBVIOUS
<1>8. On(b, e) /\ e \in b..Len(text) /\ e \in Nat
  BY <1>5, <1>7, HeldIs
<1>9. g = Gap(e)
  BY <1>4, <1>7
<1>10. /\ g \in e..Len(text) /\ On(b, g) /\ Clean(g)
       /\ \A x \in e..g - 1 : Held(b, x) => text[x + 1] \in Whitespace
  BY <1>8, <1>9, GapEnds
<1>11. g \in b..Len(text)
  BY <1>8, <1>10
<1>12. ASSUME NEW k \in n + 1..Len(r)
       PROVE  g - b <= r[k].start /\ ~Over(g)
  <2>1. PICK i, j, z : i = r[k].start /\ j = r[n].end /\ z = b + i
    OBVIOUS
  <2>2. k \in 1..Len(r) /\ n < k
    BY <1>3
  <2>3. /\ i \in Nat /\ j \in Nat /\ j < i /\ Held(b, z) /\ text[z + 1] \notin Whitespace
        /\ i < r[k].end /\ r[k].end \in Nat /\ r[k].end <= Len(text) - b
    BY <1>2, <1>3, <2>1, <2>2 DEF SpansAre
  <2>4. m < j
    <3>1. PICK a : a = r[n].start
      OBVIOUS
    <3>2. m \in a..j - 1
      BY <1>5, <1>6, <2>1, <3>1 DEF Bytes1
    <3>3. a \in Nat
      BY <1>2, <1>3, <3>1 DEF SpansAre
    <3>. QED
      BY <1>5, <2>3, <3>2, <3>3
  <2>5. PICK f : f = r[k].end
    OBVIOUS
  <2>6. z \in e..Len(text) - 1
    <3>1. i < f /\ f \in Nat /\ f <= Len(text) - b
      BY <2>3, <2>5
    <3>2. z = b + i /\ b \in Nat /\ e = b + m + 1
      BY <1>7, <2>1
    <3>. QED
      BY <1>3, <1>5, <2>3, <2>4, <3>1, <3>2
  <2>7. ~(z \in e..g - 1)
    BY <1>10, <2>3
  <2>8. z \in g..Len(text) - 1
    BY <1>3, <1>8, <1>10, <2>6, <2>7
  <2>9. ~Over(g)
    BY <1>10, <1>11, <2>3, <2>8, CleanIs
  <2>. QED
    BY SMTT(30), <1>11, <2>1, <2>3, <2>8, <2>9
<1>13. ASSUME NEW k \in 1..n, ~Over(g) \/ k < n
       PROVE  r[k].end <= g - b
  <2>1. PICK i, j, z : i = r[k].start /\ j = r[k].end /\ z = r[n].start
    OBVIOUS
  <2>2. k \in 1..Len(r) /\ (k < n \/ k = n)
    BY <1>3
  <2>3. i \in Nat /\ j \in Nat /\ i < j /\ z \in Nat
    BY <1>2, <1>3, <2>1, <2>2 DEF SpansAre
  <2>4. CASE k < n
    <3>1. j < z
      BY <1>2, <1>3, <2>1, <2>2, <2>4 DEF SpansAre
    <3>2. z <= m
      BY <1>5, <1>6, <2>1 DEF Bytes1
    <3>. QED
      BY SMTT(30), <1>5, <1>7, <1>8, <1>10, <2>1, <2>3, <3>1, <3>2
  <2>5. CASE k = n /\ ~Over(g)
    <3>1. SUFFICES ASSUME g - b < j PROVE FALSE
      BY <1>11, <2>1, <2>3
    <3>2. g \in b..Len(text) - 1 /\ Held(b, g)
      BY <1>10, <1>11, <2>5, CleanIs
    <3>3. PICK x : x = g - b
      OBVIOUS
    <3>4. x \in Nat /\ m < x /\ b + x = g /\ x < j
      BY <1>5, <1>7, <1>8, <1>10, <1>11, <3>1, <3>3
    <3>5. z <= m
      BY <1>5, <1>6, <2>1 DEF Bytes1
    <3>6. x \in z..j - 1
      BY <1>5, <2>3, <3>4, <3>5
    <3>7. x \in w
      BY <1>6, <2>1, <2>5, <3>2, <3>4, <3>6 DEF Bytes1
    <3>. QED
      BY <1>5, <3>4, <3>7
  <2>. QED
    BY <1>13, <2>2, <2>4, <2>5
<1>14. CASE ~Over(g)
  <2>1. \A k \in 1..n : r[k].end <= g - b
    BY <1>13, <1>14
  <2>2. \A k \in n + 1..Len(r) : g - b <= r[k].start
    BY <1>12
  <2>3. n \in 0..Len(r)
    BY <1>3
  <2>4. Follows(b, n, g)
    BY <1>1, <1>10, <1>11, <2>1, <2>2, <2>3, FollowsAt
  <2>. QED
    BY <1>10, <2>4
<1>15. CASE Over(g)
  <2>1. n = Len(r)
    <3>1. SUFFICES ASSUME n + 1 \in n + 1..Len(r) PROVE FALSE
      BY <1>3
    <3>. QED
      BY <1>12, <1>15, <3>1
  <2>2. WordsAt(g) = <<>>
    BY <1>10, <1>11, <1>15, OverEmpty
  <2>3. Len(WordsAt(g)) = 0
    BY <2>2
  <2>4. PICK V : V = WordsAt(g)
    OBVIOUS
  <2>5. Len(V) = 0 /\ n \in 0..Len(W) /\ Len(W) = n + Len(V)
    BY <1>3, <2>1, <2>3, <2>4
  <2>6. \A k \in 1..Len(V) : W[n + k] = Shift(V[k], g - b)
    BY <2>5
  <2>7. Follows(b, n, g)
    BY <1>10, <1>11, <2>4, <2>5, <2>6 DEF Follows
  <2>. QED
    BY <1>10, <2>7
<1>. QED
  BY <1>14, <1>15

-----------------------------------------------------------------------------
(* The letters of a keyword.                                                *)
Letter == {"A", "B", "C", "D", "E", "F", "G", "H", "I", "K", "L", "M", "N", "O", "P", "R", "S", "T",
           "U", "V", "W", "X", "Y"}
Names19 == {"ARG", "ADD", "COPY", "CMD", "ENV", "EXPOSE", "ENTRYPOINT", "FROM", "HEALTHCHECK",
            "LABEL", "MAINTAINER", "ONBUILD", "RUN", "SHELL", "STOPSIGNAL", "USER", "VOLUME",
            "WORKDIR", "NONE"}

LEMMA LettersAre ==
  ASSUME NEW name \in Names19, NEW L, L = Letters[name]
  PROVE  L \in Seq(Letter) /\ Len(L) \in Nat /\ 3 <= Len(L)
<1>1. CASE name = "ARG"
  BY <1>1 DEF Letters, Letter
<1>2. CASE name = "ADD"
  BY <1>2 DEF Letters, Letter
<1>3. CASE name = "COPY"
  BY <1>3 DEF Letters, Letter
<1>4. CASE name = "CMD"
  BY <1>4 DEF Letters, Letter
<1>5. CASE name = "ENV"
  BY <1>5 DEF Letters, Letter
<1>6. CASE name = "EXPOSE"
  BY <1>6 DEF Letters, Letter
<1>7. CASE name = "ENTRYPOINT"
  BY <1>7 DEF Letters, Letter
<1>8. CASE name = "FROM"
  BY <1>8 DEF Letters, Letter
<1>9. CASE name = "HEALTHCHECK"
  BY <1>9 DEF Letters, Letter
<1>10. CASE name = "LABEL"
  BY <1>10 DEF Letters, Letter
<1>11. CASE name = "MAINTAINER"
  BY <1>11 DEF Letters, Letter
<1>12. CASE name = "ONBUILD"
  BY <1>12 DEF Letters, Letter
<1>13. CASE name = "RUN"
  BY <1>13 DEF Letters, Letter
<1>14. CASE name = "SHELL"
  BY <1>14 DEF Letters, Letter
<1>15. CASE name = "STOPSIGNAL"
  BY <1>15 DEF Letters, Letter
<1>16. CASE name = "USER"
  BY <1>16 DEF Letters, Letter
<1>17. CASE name = "VOLUME"
  BY <1>17 DEF Letters, Letter
<1>18. CASE name = "WORKDIR"
  BY <1>18 DEF Letters, Letter
<1>19. CASE name = "NONE"
  BY <1>19 DEF Letters, Letter
<1>. QED
  BY <1>1, <1>2, <1>3, <1>4, <1>5, <1>6, <1>7, <1>8, <1>9, <1>10,
     <1>11, <1>12, <1>13, <1>14, <1>15, <1>16, <1>17, <1>18, <1>19 DEF Names19

(* The first three letters tell them apart.                                 *)
LEMMA LettersDiffer ==
  ASSUME NEW n \in Names19, NEW m \in Names19,
         Letters[n][1] = Letters[m][1], Letters[n][2] = Letters[m][2],
         Letters[n][3] = Letters[m][3]
  PROVE  n = m
<1>. DEFINE Third(L, x, y, z) == L[1] = x /\ L[2] = y /\ L[3] = z
<1>1. /\ Third(Letters["ARG"], "A", "R", "G") /\ Third(Letters["ADD"], "A", "D", "D")
      /\ Third(Letters["COPY"], "C", "O", "P") /\ Third(Letters["CMD"], "C", "M", "D")
      /\ Third(Letters["ENV"], "E", "N", "V") /\ Third(Letters["EXPOSE"], "E", "X", "P")
  BY DEF Letters
<1>2. /\ Third(Letters["ENTRYPOINT"], "E", "N", "T") /\ Third(Letters["FROM"], "F", "R", "O")
      /\ Third(Letters["HEALTHCHECK"], "H", "E", "A") /\ Third(Letters["LABEL"], "L", "A", "B")
  BY DEF Letters
<1>3. /\ Third(Letters["MAINTAINER"], "M", "A", "I") /\ Third(Letters["ONBUILD"], "O", "N", "B")
      /\ Third(Letters["RUN"], "R", "U", "N") /\ Third(Letters["SHELL"], "S", "H", "E")
      /\ Third(Letters["STOPSIGNAL"], "S", "T", "O")
  BY DEF Letters
<1>4. /\ Third(Letters["USER"], "U", "S", "E") /\ Third(Letters["VOLUME"], "V", "O", "L")
      /\ Third(Letters["WORKDIR"], "W", "O", "R") /\ Third(Letters["NONE"], "N", "O", "N")
  BY DEF Letters
<1>. QED
  BY SMTT(30), <1>1, <1>2, <1>3, <1>4 DEF Names19

LEMMA UpperIs ==
  ASSUME NEW c, Upper(c) \in Letter
  PROVE  c \notin Whitespace \cup {"lf", "esc"}
<1>1. Upper("sp") = "sp" /\ Upper("tab") = "tab" /\ Upper("ff") = "ff" /\ Upper("cr") = "cr"
      /\ Upper("lf") = "lf" /\ Upper("esc") = "esc"
  BY DEF Upper, Capital
<1>. QED
  BY <1>1 DEF Letter, Whitespace

LEMMA LetterIs ==
  ASSUME NEW name \in Names19, NEW L, L = Letters[name], NEW k \in 1..Len(L),
         NEW c, Upper(c) = L[k]
  PROVE  c \notin Whitespace /\ c # "lf" /\ c # "esc"
<1>1. L[k] \in Letter
  BY LettersAre
<1>. QED
  BY <1>1, UpperIs

(* The first word of a line that starts with no whitespace.                 *)
FirstWord(b, w) ==
  /\ w \in SUBSET Nat /\ 0 \in w /\ Min(w) = 0
  /\ \A x \in Nat : x \in w <=> /\ b + x \in b..Len(text) - 1 /\ Held(b, b + x)
                                /\ text[b + x + 1] \notin Whitespace
                                /\ \A y \in b..b + x : Held(b, y) => text[y + 1] \notin Whitespace

LEMMA CleanWords ==
  ASSUME text \in Seq(STRING), NEW b \in 0..Len(text), Clean(b), NEW W, W = WordsAt(b)
  PROVE  /\ Over(b) => W = <<>>
         /\ ~Over(b) => Len(W) >= 1 /\ FirstWord(b, W[1])
<1>1. Over(b) => W = <<>>
  BY OverEmpty
<1>2. SUFFICES ASSUME ~Over(b) PROVE Len(W) >= 1 /\ FirstWord(b, W[1])
  BY <1>1
<1>3. PICK u : u = Rest(b)
  OBVIOUS
<1>4. /\ Len(u) \in Nat /\ Len(u) = Len(text) - b /\ Len(text) \in Nat
      /\ \A x \in 0..Len(u) - 1 :
           /\ Belongs(u, x) <=> Held(b, b + x)
           /\ SolidAt(u, x) <=> Held(b, b + x) /\ text[b + x + 1] \notin Whitespace
           /\ BlankAt(u, x) <=> Held(b, b + x) /\ text[b + x + 1] \in Whitespace
  BY <1>3, RestHeld
<1>5. b \in b..Len(text) - 1 /\ Held(b, b) /\ text[b + 1] \notin Whitespace
  BY <1>2, <1>4, OnStart, CleanIs
<1>6. PICK q, n : q = <<>> /\ n = 0
  OBVIOUS
<1>7. Len(q) = 0 /\ (\A k : k \notin 1..0) /\ q \in Seq(Span)
  BY <1>6
<1>8. Divided(u, q, n) /\ Parted(u, q, n)
  BY <1>6, <1>7 DEF Divided, Parted
<1>9. n \in 0..Len(u) /\ n < Len(u) /\ SolidAt(u, n)
  <2>1. 0 \in 0..Len(u) - 1 /\ b + 0 = b
    BY <1>4, <1>5
  <2>2. SolidAt(u, 0)
    BY <1>4, <1>5, <2>1
  <2>. QED
    BY <1>4, <1>6, <2>1, <2>2
<1>10. W = InOrder(LineWords(u))
  BY <1>3 DEF WordsAt
<1>11. Len(W) \in Nat /\ Len(q) + 1 <= Len(W) /\ WordFrom(u, W[Len(q) + 1], n)
  BY <1>4, <1>7, <1>8, <1>9, <1>10, FirstWords
<1>12. PICK w : w = W[1]
  OBVIOUS
<1>13. Len(W) >= 1 /\ WordFrom(u, w, 0)
  BY <1>6, <1>7, <1>11, <1>12
<1>14. Min(w) = 0 /\ \A x : x \in w <=> /\ x \in 0..Len(u) - 1 /\ SolidAt(u, x)
                                        /\ \A c \in 0..x : ~BlankAt(u, c)
  BY <1>13 DEF WordFrom
<1>15. w \in SUBSET Nat /\ w # {}
  BY <1>12, <1>13, WordsAtIs
<1>16. 0 \in w
  BY <1>14, <1>15, MinIs
<1>17. ASSUME NEW x \in 0..Len(u) - 1
       PROVE  (\A c \in 0..x : ~BlankAt(u, c))
                <=> \A y \in b..b + x : Held(b, y) => text[y + 1] \notin Whitespace
  <2>1. \A y \in b..b + x : y - b \in 0..x /\ b + (y - b) = y
    BY <1>4
  <2>2. \A c \in 0..x : b + c \in b..b + x /\ c \in 0..Len(u) - 1
    BY <1>4
  <2>3. ASSUME \A c \in 0..x : ~BlankAt(u, c), NEW y \in b..b + x, Held(b, y)
        PROVE  text[y + 1] \notin Whitespace
    <3>1. PICK c : c = y - b
      OBVIOUS
    <3>2. c \in 0..x /\ b + c = y /\ c \in 0..Len(u) - 1
      BY <2>1, <2>2, <3>1
    <3>3. ~BlankAt(u, c)
      BY <2>3, <3>2
    <3>. QED
      BY <1>4, <2>3, <3>2, <3>3
  <2>4. ASSUME \A y \in b..b + x : Held(b, y) => text[y + 1] \notin Whitespace, NEW c \in 0..x
        PROVE  ~BlankAt(u, c)
    BY <1>4, <2>2, <2>4
  <2>. QED
    BY <2>3, <2>4
<1>18. \A x \in Nat : x \in 0..Len(u) - 1 <=> b + x \in b..Len(text) - 1
  BY <1>4
<1>19. FirstWord(b, w)
  <2>1. ASSUME NEW x \in Nat
        PROVE  x \in w <=> /\ b + x \in b..Len(text) - 1 /\ Held(b, b + x)
                           /\ text[b + x + 1] \notin Whitespace
                           /\ \A y \in b..b + x : Held(b, y) => text[y + 1] \notin Whitespace
    <3>1. CASE x \in 0..Len(u) - 1
      <4>1. SolidAt(u, x) <=> Held(b, b + x) /\ text[b + x + 1] \notin Whitespace
        BY <1>4, <3>1
      <4>2. b + x \in b..Len(text) - 1
        BY <1>18, <3>1
      <4>. QED
        BY <1>14, <1>17, <3>1, <4>1, <4>2
    <3>2. CASE x \notin 0..Len(u) - 1
      BY <1>14, <1>18, <3>2
    <3>. QED
      BY <3>1, <3>2
  <2>. QED
    BY <1>14, <1>15, <1>16, <2>1 DEF FirstWord
<1>. QED
  BY <1>12, <1>13, <1>19

-----------------------------------------------------------------------------
(* Reading a word letter by letter: x is behind the first k bytes of the    *)
(* first word of the line, of which p has the positions.                    *)
Reading(b, p, k, x) ==
  /\ x \in b..Len(text) /\ On(b, x) /\ k \in 0..Len(p)
  /\ \A m \in 1..Len(p) : b + p[m] < x <=> m <= k
  /\ \A y \in b..x - 1 : Held(b, y) => text[y + 1] \notin Whitespace
  /\ k >= 1 => x = b + p[k] + 1

(* h is at the next letter, or the word is over.                            *)
ReadsOn(b, p, k, h) ==
  \/ /\ k < Len(p) /\ h < Len(text) /\ b + p[k + 1] = h
     /\ text[h + 1] \notin Whitespace /\ text[h + 1] # "lf" /\ Held(b, h)
     /\ Reading(b, p, k + 1, h + 1)
  \/ k = Len(p) /\ (h = Len(text) \/ At(text, h, Whitespace \cup {"lf"}))

LEMMA LetterNext ==
  ASSUME text \in Seq(STRING), NEW b \in 0..Len(text), NEW w, FirstWord(b, w),
         NEW p \in Seq(Nat), Spells(p, w), NEW k, NEW x, Reading(b, p, k, x),
         NEW h, h = PastContinuations(x)
  PROVE  h \in x..Len(text) /\ ReadsOn(b, p, k, h)
<1>. SUFFICES /\ h \in x..Len(text)
              /\ \/ /\ k < Len(p) /\ h < Len(text) /\ b + p[k + 1] = h
                    /\ text[h + 1] \notin Whitespace /\ text[h + 1] # "lf" /\ Held(b, h)
                    /\ Reading(b, p, k + 1, h + 1)
                 \/ k = Len(p) /\ (h = Len(text) \/ At(text, h, Whitespace \cup {"lf"}))
  BY DEF ReadsOn
<1>. DEFINE P == {y \in x..Len(text) : On(b, y) /\ \A z \in x..y - 1 : ~Held(b, z)}
<1>1. /\ Len(text) \in Nat /\ x \in b..Len(text) /\ x \in 0..Len(text) /\ On(b, x)
      /\ k \in 0..Len(p) /\ Len(p) \in Nat /\ k \in Nat
      /\ \A m \in 1..Len(p) : b + p[m] < x <=> m <= k
      /\ \A y \in b..x - 1 : Held(b, y) => text[y + 1] \notin Whitespace
  BY DEF Reading
<1>2. P \in SUBSET (0..Len(text)) /\ x \in P
  BY <1>1
<1>3. ASSUME NEW y \in P, Continues(text, y) PROVE Continuation(text, y) \in P
  <2>1. y \in b..Len(text) /\ y \in x..Len(text) /\ On(b, y) /\ \A z \in x..y - 1 : ~Held(b, z)
    BY <1>1
  <2>2. PICK c : c = Continuation(text, y)
    OBVIOUS
  <2>3. On(b, c) /\ c \in y..Len(text) /\ \A z \in y..c - 1 : ~Held(b, z)
    BY <1>3, <2>1, <2>2, OnContinued
  <2>4. c \in x..Len(text) /\ \A z \in x..c - 1 : z \in x..y - 1 \/ z \in y..c - 1
    BY <1>1, <2>1, <2>3
  <2>5. c \in P
    BY <2>1, <2>3, <2>4
  <2>. QED
    BY <2>2, <2>5
<1>4. h \in P /\ ~Continues(text, h)
  <2>. HIDE DEF P
  <2>. QED
    BY <1>1, <1>2, <1>3, PastIs
<1>5. /\ h \in x..Len(text) /\ h \in b..Len(text) /\ On(b, h)
      /\ \A z \in x..h - 1 : ~Held(b, z)
  BY <1>1, <1>4
<1>6. /\ \A j, m \in 1..Len(p) : j < m => p[j] < p[m]
      /\ \A x_ : x_ \in w <=> \E m \in 1..Len(p) : p[m] = x_
      /\ \A m \in 1..Len(p) : p[m] \in Nat /\ p[m] \in w
  BY DEF Spells
<1>7. \A m \in 1..Len(p) : /\ b + p[m] \in b..Len(text) - 1 /\ Held(b, b + p[m])
                           /\ text[b + p[m] + 1] \notin Whitespace
                           /\ \A y \in b..b + p[m] : Held(b, y) => text[y + 1] \notin Whitespace
  BY <1>6 DEF FirstWord
<1>8. ASSUME NEW m \in 1..Len(p), k < m
      PROVE  b + p[m] \in h..Len(text) - 1
  <2>1. PICK z : z = b + p[m]
    OBVIOUS
  <2>2. z \in b..Len(text) - 1 /\ Held(b, z) /\ ~(z < x)
    BY <1>1, <1>7, <1>8, <2>1
  <2>. QED
    BY SMTT(30), <1>1, <1>5, <2>1, <2>2
<1>9. CASE Over(h)
  <2>1. \A y \in h..Len(text) - 1 : ~Held(b, y)
    BY <1>5, <1>9, OnOver DEF Over
  <2>2. \A m \in 1..Len(p) : ~(k < m)
    BY <1>7, <1>8, <2>1
  <2>3. k = Len(p)
    BY <1>1, <2>2
  <2>4. h = Len(text) \/ At(text, h, Whitespace \cup {"lf"})
    BY <1>9 DEF Over, At
  <2>. QED
    BY <1>5, <2>3, <2>4
<1>10. ASSUME ~Over(h)
       PROVE  h \in b..Len(text) - 1 /\ h < Len(text) /\ text[h + 1] # "lf" /\ Held(b, h)
  <2>1. h < Len(text) /\ text[h + 1] # "lf" /\ h \in b..Len(text) - 1
    BY <1>1, <1>5, <1>10 DEF Over, At
  <2>. QED
    BY <1>4, <1>5, <2>1, OnByte
<1>11. CASE ~Over(h) /\ text[h + 1] \in Whitespace
  <2>1. \A m \in 1..Len(p) : ~(k < m)
    <3>1. SUFFICES ASSUME NEW m \in 1..Len(p), k < m PROVE FALSE
      OBVIOUS
    <3>2. PICK z : z = b + p[m]
      OBVIOUS
    <3>3. z \in h..Len(text) - 1
      BY <1>8, <3>1, <3>2
    <3>4. h \in b..z
      BY <1>5, <3>3
    <3>. QED
      BY <1>7, <1>10, <1>11, <3>2, <3>4
  <2>2. k = Len(p)
    BY <1>1, <2>1
  <2>3. At(text, h, Whitespace \cup {"lf"})
    BY <1>10, <1>11 DEF At
  <2>. QED
    BY <1>5, <2>2, <2>3
<1>12. CASE ~Over(h) /\ text[h + 1] \notin Whitespace
  <2>1. h \in b..Len(text) - 1 /\ h < Len(text) /\ text[h + 1] # "lf" /\ Held(b, h)
    BY <1>10, <1>12
  <2>2. PICK v : v = h - b
    OBVIOUS
  <2>3. v \in Nat /\ b + v = h
    BY <1>5, <2>2
  <2>4. \A y \in b..h : y \in b..x - 1 \/ y \in x..h - 1 \/ y = h
    BY <1>1, <1>5
  <2>5. \A y \in b..h : Held(b, y) => text[y + 1] \notin Whitespace
    BY <1>1, <1>5, <1>12, <2>4
  <2>6. v \in w
    BY <1>12, <2>1, <2>3, <2>5 DEF FirstWord
  <2>7. PICK m \in 1..Len(p) : p[m] = v
    BY <1>6, <2>6
  <2>8. k < m
    BY <1>1, <1>5, <2>3, <2>7
  <2>9. m = k + 1
    <3>1. SUFFICES ASSUME k + 1 < m PROVE FALSE
      BY <1>1, <2>8
    <3>2. k + 1 \in 1..Len(p) /\ k < k + 1
      BY <1>1, <3>1
    <3>3. PICK z : z = p[k + 1]
      OBVIOUS
    <3>4. z < v /\ b + z \in h..Len(text) - 1 /\ z \in Nat
      BY <1>6, <1>8, <2>7, <3>1, <3>2, <3>3
    <3>. QED
      BY <2>3, <3>4
  <2>10. k < Len(p) /\ b + p[k + 1] = h /\ k + 1 \in 0..Len(p)
    BY <1>1, <2>3, <2>7, <2>9
  <2>11. On(b, h + 1) /\ h + 1 \in b..Len(text)
    BY <1>4, <1>5, <2>1, OnByte
  <2>12. \A j \in 1..Len(p) : b + p[j] < h + 1 <=> j <= k + 1
    <3>1. TAKE j \in 1..Len(p)
    <3>2. PICK z : z = p[j]
      OBVIOUS
    <3>3. z \in Nat
      BY <1>6, <3>2
    <3>4. CASE j < m
      <4>1. z < v
        BY <1>6, <2>7, <3>2, <3>4
      <4>. QED
        BY <2>3, <2>9, <3>2, <3>3, <3>4, <4>1
    <3>5. CASE j = m
      BY <2>3, <2>7, <2>9, <3>2, <3>5
    <3>6. CASE m < j
      <4>1. v < z
        BY <1>6, <2>7, <3>2, <3>6
      <4>. QED
        BY SMTT(30), <1>1, <2>3, <2>9, <3>2, <3>3, <3>6, <4>1
    <3>. QED
      BY <3>4, <3>5, <3>6
  <2>13. \A y \in b..(h + 1) - 1 : Held(b, y) => text[y + 1] \notin Whitespace
    BY <1>5, <2>5
  <2>14. Reading(b, p, k + 1, h + 1)
    BY <2>10, <2>11, <2>12, <2>13 DEF Reading
  <2>. QED
    BY <1>5, <1>12, <2>1, <2>10, <2>14
<1>. QED
  BY <1>9, <1>11, <1>12

(* The recursion of token_slow.                                             *)
SlowStep(word, f, k) ==
  IF f[k - 1] = NoToken THEN NoToken
  ELSE LET here == PastContinuations(f[k - 1]) IN
       IF here < Len(text) /\ Upper(text[here + 1]) = word[k] THEN here + 1 ELSE NoToken
IsSlow(i, word, n, f) ==
  f = [k \in 0..n |-> IF k = 0 THEN i ELSE SlowStep(word, f, k)]

LEMMA IsSlowIs ==
  ASSUME NEW i, NEW word, NEW n \in Nat, NEW f
  PROVE  IsSlow(i, word, n, f) <=>
           /\ f = [k \in 0..n |-> f[k]] /\ f[0] = i
           /\ \A k \in 1..n : f[k] = SlowStep(word, f, k)
<1>. DEFINE V(k) == IF k = 0 THEN i ELSE SlowStep(word, f, k)
<1>1. \A k \in 0..n : [x \in 0..n |-> V(x)][k] = V(k)
  OBVIOUS
<1>2. \A k \in 1..n : k \in 0..n /\ k # 0
  OBVIOUS
<1>3. \A k \in 0..n : k = 0 \/ k \in 1..n
  OBVIOUS
<1>4. 0 \in 0..n
  OBVIOUS
<1>5. V(0) = i /\ \A k \in 1..n : V(k) = SlowStep(word, f, k)
  BY <1>2
<1>6. IsSlow(i, word, n, f) <=> f = [x \in 0..n |-> V(x)]
  BY DEF IsSlow
<1>. HIDE DEF V
<1>7. ASSUME f = [x \in 0..n |-> V(x)]
      PROVE  /\ f = [k \in 0..n |-> f[k]] /\ f[0] = i
             /\ \A k \in 1..n : f[k] = SlowStep(word, f, k)
  <2>1. \A k \in 0..n : f[k] = V(k)
    BY <1>1, <1>7
  <2>2. [k \in 0..n |-> f[k]] = [k \in 0..n |-> V(k)]
    BY <2>1
  <2>. QED
    BY <1>2, <1>4, <1>5, <1>7, <2>1, <2>2
<1>8. ASSUME f = [k \in 0..n |-> f[k]], f[0] = i, \A k \in 1..n : f[k] = SlowStep(word, f, k)
      PROVE  f = [x \in 0..n |-> V(x)]
  <2>1. \A k \in 0..n : f[k] = V(k)
    BY <1>3, <1>5, <1>8
  <2>2. [k \in 0..n |-> f[k]] = [k \in 0..n |-> V(k)]
    BY <2>1
  <2>. QED
    BY <1>8, <2>2
<1>. QED
  BY <1>6, <1>7, <1>8

LEMMA SlowExists ==
  ASSUME NEW i, NEW word, NEW n \in Nat
  PROVE  \E f : IsSlow(i, word, n, f)
<1>. DEFINE Bad == {m \in Nat : ~\E f : IsSlow(i, word, m, f)}
<1>1. SUFFICES ASSUME Bad # {} PROVE FALSE
  OBVIOUS
<1>2. PICK m \in Bad : \A x \in Bad : m <= x
  <2>1. Bad \in SUBSET Nat
    OBVIOUS
  <2>. HIDE DEF Bad
  <2>. QED
    BY <1>1, <2>1, MinIs
<1>3. m \in Nat /\ ~\E f : IsSlow(i, word, m, f)
  BY <1>2
<1>4. CASE m = 0
  <2>1. PICK f : f = [k \in 0..m |-> i]
    OBVIOUS
  <2>2. f[0] = i /\ f = [k \in 0..m |-> f[k]]
    BY <1>4, <2>1
  <2>3. \A k : k \notin 1..m
    BY <1>4
  <2>4. IsSlow(i, word, m, f)
    BY <1>3, <2>2, <2>3, IsSlowIs
  <2>. QED
    BY <1>3, <2>4
<1>5. CASE m # 0
  <2>1. PICK j \in Nat : m = j + 1
    BY <1>3, <1>5
  <2>2. j \notin Bad
    BY <1>2, <2>1
  <2>3. PICK g : IsSlow(i, word, j, g)
    BY <2>2
  <2>4. g[0] = i /\ \A k \in 1..j : g[k] = SlowStep(word, g, k)
    BY <2>3, IsSlowIs
  <2>5. PICK f : f = [k \in 0..m |-> IF k = m THEN SlowStep(word, g, m) ELSE g[k]]
    OBVIOUS
  <2>6. (\A k \in 0..j : f[k] = g[k]) /\ f[m] = SlowStep(word, g, m) /\ f = [k \in 0..m |-> f[k]]
    <3>1. \A k \in 0..j : k \in 0..m /\ k # m
      BY <2>1
    <3>2. m \in 0..m
      BY <1>3
    <3>. QED
      BY <2>5, <3>1, <3>2
  <2>7. \A k \in 1..m : k - 1 \in 0..j /\ (k = m \/ (k \in 1..j /\ k \in 0..j))
    BY <2>1
  <2>8. \A k \in 1..m : SlowStep(word, f, k) = SlowStep(word, g, k)
    BY <2>6, <2>7 DEF SlowStep
  <2>9. \A k \in 1..m : f[k] = SlowStep(word, f, k)
    BY <2>4, <2>6, <2>7, <2>8
  <2>10. f[0] = i
    <3>1. 0 \in 0..j
      BY <2>1
    <3>. QED
      BY <2>4, <2>6, <3>1
  <2>11. IsSlow(i, word, m, f)
    BY <1>3, <2>6, <2>9, <2>10, IsSlowIs
  <2>. QED
    BY <1>3, <2>11
<1>. QED
  BY <1>4, <1>5

SlowAlong(i, word, f) ==
  /\ f[0] = i
  /\ \A k \in 1..Len(word) : f[k] = SlowStep(word, f, k)
  /\ TokenSlow(i, word) = IF Len(text) - i < Len(word) THEN NoToken ELSE f[Len(word)]

LEMMA SlowIs ==
  ASSUME NEW i, NEW word, Len(word) \in Nat
  PROVE  \E f : SlowAlong(i, word, f)
<1>1. PICK n \in Nat : n = Len(word)
  OBVIOUS
<1>. DEFINE f == CHOOSE g : IsSlow(i, word, n, g)
<1>2. IsSlow(i, word, n, f)
  BY SlowExists
<1>3. TokenSlow(i, word) = IF Len(text) - i < Len(word) THEN NoToken ELSE f[Len(word)]
  BY <1>1 DEF TokenSlow, IsSlow, SlowStep
<1>. HIDE DEF f
<1>4. f[0] = i /\ \A k \in 1..n : f[k] = SlowStep(word, f, k)
  BY <1>2, IsSlowIs
<1>. QED
  BY <1>1, <1>3, <1>4 DEF SlowAlong

LEMMA RestLetters ==
  ASSUME NEW name \in Names19, NEW L, L = Letters[name], NEW word, word = Tail(L)
  PROVE  /\ Len(L) \in Nat /\ 3 <= Len(L) /\ word \in Seq(Letter)
         /\ Len(word) \in Nat /\ Len(word) = Len(L) - 1 /\ DOMAIN word = 1..Len(word)
         /\ \A k \in 1..Len(word) : word[k] = L[k + 1] /\ k + 1 \in 1..Len(L)
<1>1. L \in Seq(Letter) /\ Len(L) \in Nat /\ 3 <= Len(L) /\ L # <<>>
  BY LettersAre
<1>2. Tail(L) \in Seq(Letter) /\ Len(Tail(L)) = Len(L) - 1 /\ Len(Tail(L)) \in Nat
  BY <1>1
<1>3. \A k \in 1..Len(L) - 1 : Tail(L)[k] = L[k + 1]
  BY <1>1
<1>. QED
  BY <1>1, <1>2, <1>3

(* The letters one after the other are also those that are read one by one. *)
LEMMA FastIsSlow ==
  ASSUME text \in Seq(STRING), NEW i \in 0..Len(text), NEW name \in Names19,
         NEW word, word = Tail(Letters[name]), Token(i, word)
  PROVE  TokenSlow(i, word) = i + Len(word) /\ i + Len(word) \in 0..Len(text)
<1>1. Len(text) \in Nat
  OBVIOUS
<1>2. PICK L : L = Letters[name]
  OBVIOUS
<1>3. PICK n \in Nat : n = Len(word)
  BY <1>2, RestLetters
<1>4. /\ DOMAIN word = 1..n
      /\ \A k \in 1..n : word[k] = L[k + 1] /\ k + 1 \in 1..Len(L)
  BY <1>2, <1>3, RestLetters
<1>5. i + n <= Len(text) /\ \A k \in 1..n : Upper(text[i + k]) = word[k]
  BY <1>3, <1>4 DEF Token
<1>6. PICK f : /\ f[0] = i
               /\ \A k \in 1..n : f[k] = SlowStep(word, f, k)
               /\ TokenSlow(i, word) = IF Len(text) - i < n THEN NoToken ELSE f[n]
  <2>1. Len(word) \in Nat
    BY <1>3
  <2>2. PICK f : SlowAlong(i, word, f)
    BY <2>1, SlowIs
  <2>. QED
    BY <1>3, <2>2 DEF SlowAlong
<1>. DEFINE Bad == {k \in 0..n : f[k] # i + k}
<1>7. Bad = {}
  <2>1. SUFFICES ASSUME Bad # {} PROVE FALSE
    OBVIOUS
  <2>2. PICK k \in Bad : \A x \in Bad : k <= x
    <3>1. Bad \in SUBSET Nat
      OBVIOUS
    <3>. HIDE DEF Bad
    <3>. QED
      BY <2>1, <3>1, MinIs
  <2>3. k \in 0..n /\ f[k] # i + k
    BY <2>2
  <2>4. k # 0
    BY <1>6, <2>3
  <2>5. PICK j \in Nat : k = j + 1
    BY <2>3, <2>4
  <2>6. j \in 0..n /\ k \in 1..n /\ k - 1 = j /\ j \notin Bad
    BY <2>2, <2>3, <2>5
  <2>7. f[j] = i + j
    BY <2>6
  <2>8. PICK x : x = i + j
    OBVIOUS
  <2>9. x \in 0..Len(text) /\ x < Len(text) /\ x + 1 = i + k /\ x # NoToken
    BY <1>1, <1>5, <2>5, <2>6, <2>8 DEF NoToken
  <2>10. Upper(text[x + 1]) = word[k]
    BY <1>5, <2>6, <2>9
  <2>11. text[x + 1] # "esc"
    BY SMTT(30), <1>2, <1>4, <2>6, <2>10, LetterIs
  <2>12. ~Continues(text, x)
    BY <1>1, <2>9, <2>11, ContinuationAdvances DEF At
  <2>13. PastContinuations(x) = x
    BY <1>1, <2>9, <2>12, PastIs
  <2>14. f[k] = SlowStep(word, f, k)
    BY <1>6, <2>6
  <2>15. f[k] = x + 1
    BY <2>6, <2>7, <2>8, <2>9, <2>10, <2>13, <2>14 DEF SlowStep
  <2>. QED
    BY <2>3, <2>9, <2>15
<1>8. f[n] = i + n
  <2>1. n \in 0..n
    OBVIOUS
  <2>. QED
    BY <1>7, <2>1
<1>. QED
  BY <1>1, <1>3, <1>5, <1>6, <1>8

LEMMA TokenEndIs ==
  ASSUME text \in Seq(STRING), NEW i \in 0..Len(text) - 1, NEW name \in Names19,
         NEW word, word = Tail(Letters[name])
  PROVE  /\ TokenEnd(i, name) = TokenSlow(i + 1, word)
         /\ Token(i + 1, word) => TokenSlow(i + 1, word) # NoToken
<1>1. i + 1 \in 0..Len(text) /\ Len(text) \in Nat
  OBVIOUS
<1>2. PICK x \in 0..Len(text) : x = i + 1
  BY <1>1
<1>3. Token(x, word) => TokenSlow(x, word) = x + Len(word) /\ x + Len(word) \in 0..Len(text)
  BY FastIsSlow
<1>4. TokenEnd(i, name) = IF Token(x, word) THEN x + Len(word) ELSE TokenSlow(x, word)
  BY <1>2 DEF TokenEnd
<1>5. TokenEnd(i, name) = TokenSlow(x, word)
  BY <1>3, <1>4
<1>6. \A y \in 0..Len(text) : y # NoToken
  BY <1>1 DEF NoToken
<1>7. Token(x, word) => TokenSlow(x, word) # NoToken
  BY <1>3, <1>6
<1>. QED
  BY <1>2, <1>5, <1>7

(* The k-th of positions in order is not below k - 1.                       *)
LEMMA PositionsGrow ==
  ASSUME NEW p \in Seq(Nat), \A j, k \in 1..Len(p) : j < k => p[j] < p[k], NEW k \in 1..Len(p)
  PROVE  p[k] >= k - 1
<1>. DEFINE Bad == {m \in 1..Len(p) : ~(p[m] >= m - 1)}
<1>1. SUFFICES ASSUME Bad # {} PROVE FALSE
  OBVIOUS
<1>2. Len(p) \in Nat /\ \A m \in 1..Len(p) : p[m] \in Nat
  OBVIOUS
<1>3. PICK m \in Bad : \A x \in Bad : m <= x
  <2>1. Bad \in SUBSET Nat
    OBVIOUS
  <2>. HIDE DEF Bad
  <2>. QED
    BY <1>1, <2>1, MinIs
<1>4. m \in 1..Len(p) /\ ~(p[m] >= m - 1)
  BY <1>3
<1>5. m # 1
  BY <1>2, <1>4
<1>6. PICK j \in Nat : m = j + 1
  BY <1>4
<1>7. j \in 1..Len(p) /\ j < m /\ j \notin Bad
  BY <1>2, <1>3, <1>4, <1>5, <1>6
<1>8. p[j] >= j - 1
  BY <1>7
<1>9. p[j] < p[m]
  BY <1>4, <1>7
<1>. QED
  BY <1>2, <1>4, <1>6, <1>7, <1>8, <1>9

(* As many letters as k are those of the keyword.                           *)
Matches(b, p, L, k) ==
  k <= Len(p) /\ \A m \in 1..k : Upper(text[b + p[m] + 1]) = L[m]

LEMMA ReadingStarts ==
  ASSUME text \in Seq(STRING), NEW b \in 0..Len(text), Clean(b), NEW w, FirstWord(b, w),
         NEW p \in Seq(Nat), Spells(p, w)
  PROVE  /\ Len(p) >= 1 /\ Len(p) \in Nat /\ p[1] = 0 /\ b < Len(text)
         /\ Reading(b, p, 0, b) /\ Reading(b, p, 1, b + 1)
         /\ \A m \in 1..Len(p) : p[m] \in Nat /\ p[m] \in w /\ b + p[m] < Len(text)
         /\ \A k, m \in 1..Len(p) : k < m => p[k] < p[m]
<1>1. /\ Len(text) \in Nat /\ Len(p) \in Nat /\ DOMAIN p = 1..Len(p)
      /\ \A m \in 1..Len(p) : p[m] \in Nat
  OBVIOUS
<1>2. /\ \A j, k \in 1..Len(p) : j < k => p[j] < p[k]
      /\ \A x : x \in w <=> \E k \in 1..Len(p) : p[k] = x
  BY <1>1 DEF Spells
<1>3. /\ 0 \in w
      /\ \A x \in Nat : x \in w => /\ b + x \in b..Len(text) - 1 /\ Held(b, b + x)
                                   /\ text[b + x + 1] \notin Whitespace
  BY DEF FirstWord
<1>4. PICK k \in 1..Len(p) : p[k] = 0
  BY <1>2, <1>3
<1>5. Len(p) >= 1 /\ p[1] = 0
  <2>1. 1 \in 1..Len(p)
    BY <1>1, <1>4
  <2>2. 1 < k => FALSE
    BY <1>1, <1>2, <1>4, <2>1
  <2>. QED
    BY <1>1, <1>4, <2>2
<1>6. \A m \in 1..Len(p) : p[m] \in Nat /\ p[m] \in w /\ b + p[m] \in b..Len(text) - 1
  BY <1>1, <1>2, <1>3
<1>7. b + 0 = b /\ b + 0 \in b..Len(text) - 1 /\ text[b + 0 + 1] \notin Whitespace
  <2>1. 0 \in Nat
    OBVIOUS
  <2>. QED
    BY <1>1, <1>3, <2>1
<1>8. On(b, b)
  BY OnStart
<1>9. Reading(b, p, 0, b)
  <2>1. \A m \in 1..Len(p) : ~(b + p[m] < b) /\ ~(m <= 0)
    BY <1>1
  <2>2. b \in b..Len(text) /\ 0 \in 0..Len(p) /\ \A y : y \notin b..b - 1
    BY <1>1
  <2>. QED
    BY <1>8, <2>1, <2>2 DEF Reading
<1>10. PICK h : h = PastContinuations(b)
  OBVIOUS
<1>11. h = b
  BY <1>1, <1>10, PastIs DEF Clean
<1>12. Reading(b, p, 1, b + 1)
  <2>1. PICK z : z = 0
    OBVIOUS
  <2>2. Reading(b, p, z, b)
    BY <1>9, <2>1
  <2>3. ReadsOn(b, p, z, h)
    BY <1>10, <2>2, LetterNext
  <2>4. z + 1 = 1 /\ z # Len(p)
    BY <1>5, <2>1
  <2>. QED
    BY <1>11, <2>3, <2>4 DEF ReadsOn
<1>13. b < Len(text) /\ \A m \in 1..Len(p) : p[m] \in Nat /\ p[m] \in w /\ b + p[m] < Len(text)
  BY SMTT(30), <1>1, <1>6, <1>7
<1>. HIDE DEF Reading
<1>. QED
  BY <1>1, <1>2, <1>5, <1>9, <1>12, <1>13

LEMMA MatchesMore ==
  ASSUME NEW b, NEW p \in Seq(Nat), NEW L, NEW k \in Nat
  PROVE  Matches(b, p, L, k + 1) <=>
           /\ Matches(b, p, L, k) /\ k + 1 <= Len(p)
           /\ Upper(text[b + p[k + 1] + 1]) = L[k + 1]
<1>1. 1..k + 1 = 1..k \cup {k + 1} /\ Len(p) \in Nat
  OBVIOUS
<1>2. k + 1 <= Len(p) => k <= Len(p)
  BY <1>1
<1>. QED
  BY <1>1, <1>2 DEF Matches

LEMMA TokenReads ==
  ASSUME text \in Seq(STRING), NEW b \in 0..Len(text), Clean(b), NEW w, FirstWord(b, w),
         NEW p \in Seq(Nat), Spells(p, w), NEW name \in Names19, NEW L, L = Letters[name],
         StartsLike(b, name), NEW e, e = TokenEnd(b, name)
  PROVE  \/ Matches(b, p, L, Len(L)) /\ Reading(b, p, Len(L), e) /\ e # NoToken
         \/ ~Matches(b, p, L, Len(L)) /\ e = NoToken
<1>1. /\ Len(text) \in Nat /\ Len(p) \in Nat /\ Len(p) >= 1 /\ p[1] = 0 /\ b < Len(text)
      /\ Reading(b, p, 1, b + 1)
      /\ \A m \in 1..Len(p) : p[m] \in Nat /\ b + p[m] < Len(text)
      /\ \A k, m \in 1..Len(p) : k < m => p[k] < p[m]
  <2>1. Len(text) \in Nat
    OBVIOUS
  <2>2. /\ Len(p) >= 1 /\ Len(p) \in Nat /\ p[1] = 0 /\ b < Len(text)
        /\ Reading(b, p, 0, b) /\ Reading(b, p, 1, b + 1)
        /\ \A m \in 1..Len(p) : p[m] \in Nat /\ p[m] \in w /\ b + p[m] < Len(text)
        /\ \A k, m \in 1..Len(p) : k < m => p[k] < p[m]
    BY ReadingStarts
  <2>. QED
    BY <2>1, <2>2
<1>2. PICK word : word = Tail(L)
  OBVIOUS
<1>3. PICK n \in Nat : n = Len(word)
  BY <1>2, RestLetters
<1>4. /\ Len(L) = n + 1 /\ Len(L) \in Nat /\ 3 <= Len(L) /\ Len(word) \in Nat
      /\ \A k \in 1..n : word[k] = L[k + 1] /\ k + 1 \in 1..Len(L)
  <2>1. /\ Len(L) \in Nat /\ 3 <= Len(L) /\ word \in Seq(Letter)
        /\ Len(word) \in Nat /\ Len(word) = Len(L) - 1 /\ DOMAIN word = 1..Len(word)
        /\ \A k \in 1..Len(word) : word[k] = L[k + 1] /\ k + 1 \in 1..Len(L)
    BY ZenonT(60), <1>2, RestLetters
  <2>. QED
    BY <1>3, <2>1
<1>5. e = TokenSlow(b + 1, word)
  <2>1. b \in 0..Len(text) - 1
    BY <1>1
  <2>. QED
    BY <1>2, <2>1, TokenEndIs
<1>6. PICK i : i = b + 1
  OBVIOUS
<1>7. PICK f : SlowAlong(i, word, f)
  BY <1>4, SlowIs
<1>8. /\ f[0] = i
      /\ \A k \in 1..n : f[k] = SlowStep(word, f, k)
      /\ e = IF Len(text) - i < n THEN NoToken ELSE f[n]
  BY <1>3, <1>5, <1>6, <1>7 DEF SlowAlong
<1>9. \A x \in b..Len(text) : x # NoToken
  BY <1>1 DEF NoToken
<1>. DEFINE Good(k) == IF Matches(b, p, L, k + 1) THEN Reading(b, p, k + 1, f[k]) ELSE f[k] = NoToken
            Bad == {k \in 0..n : ~Good(k)}
<1>10. Good(0)
  <2>1. Matches(b, p, L, 0 + 1)
    <3>1. Matches(b, p, L, 0)
      BY <1>1 DEF Matches
    <3>2. Upper(text[b + p[0 + 1] + 1]) = L[0 + 1]
      <4>1. b + p[0 + 1] + 1 = b + 1
        BY <1>1
      <4>. QED
        BY <4>1 DEF StartsLike
    <3>. QED
      BY <1>1, <3>1, <3>2, MatchesMore
  <2>2. Reading(b, p, 0 + 1, f[0])
    BY <1>1, <1>6, <1>8
  <2>. QED
    BY <2>1, <2>2
<1>11. ASSUME NEW j \in 0..n, NEW k \in 1..n, k = j + 1, Good(j)
       PROVE  Good(k)
  <2>1. f[k] = SlowStep(word, f, k) /\ k - 1 = j
    BY <1>8, <1>11
  <2>2. Matches(b, p, L, k + 1) <=>
          /\ Matches(b, p, L, k) /\ k + 1 <= Len(p)
          /\ Upper(text[b + p[k + 1] + 1]) = L[k + 1]
    BY MatchesMore
  <2>3. CASE ~Matches(b, p, L, k)
    <3>1. f[j] = NoToken
      BY <1>11, <2>3
    <3>2. f[k] = NoToken
      BY <2>1, <3>1 DEF SlowStep
    <3>. QED
      BY <2>2, <2>3, <3>2
  <2>4. CASE Matches(b, p, L, k)
    <3>1. PICK x : x = f[j]
      OBVIOUS
    <3>2. Reading(b, p, k, x)
      BY <1>11, <2>4, <3>1
    <3>3. x # NoToken
      BY <1>9, <3>2 DEF Reading
    <3>4. PICK h : h = PastContinuations(x)
      OBVIOUS
    <3>5. f[k] = IF h < Len(text) /\ Upper(text[h + 1]) = word[k] THEN h + 1 ELSE NoToken
      BY <2>1, <3>1, <3>3, <3>4 DEF SlowStep
    <3>6. word[k] = L[k + 1] /\ k + 1 \in 1..Len(L)
      BY <1>4
    <3>7. \/ /\ k < Len(p) /\ h < Len(text) /\ b + p[k + 1] = h
             /\ Reading(b, p, k + 1, h + 1)
          \/ k = Len(p) /\ (h = Len(text) \/ At(text, h, Whitespace \cup {"lf"}))
      <4>1. ReadsOn(b, p, k, h)
        BY <3>2, <3>4, LetterNext
      <4>. QED
        BY <4>1 DEF ReadsOn
    <3>8. CASE k < Len(p) /\ h < Len(text) /\ b + p[k + 1] = h /\ Reading(b, p, k + 1, h + 1)
      <4>1. k + 1 <= Len(p)
        BY <1>1, <3>8
      <4>2. Matches(b, p, L, k + 1) <=> Upper(text[h + 1]) = L[k + 1]
        BY <2>2, <2>4, <3>8, <4>1
      <4>. QED
        BY <3>5, <3>6, <3>8, <4>2
    <3>9. CASE k = Len(p) /\ (h = Len(text) \/ At(text, h, Whitespace \cup {"lf"}))
      <4>1. ~(k + 1 <= Len(p))
        BY <1>1, <3>9
      <4>2. h < Len(text) => Upper(text[h + 1]) # L[k + 1]
        <5>1. h < Len(text) => text[h + 1] \in Whitespace \cup {"lf"}
          BY <1>1, <3>9 DEF At
        <5>. QED
          BY <3>6, <5>1, LetterIs
      <4>3. f[k] = NoToken
        BY <3>5, <3>6, <4>2
      <4>. QED
        BY <2>2, <4>1, <4>3
    <3>. QED
      BY <3>7, <3>8, <3>9
  <2>. QED
    BY <2>3, <2>4
<1>. HIDE DEF Good
<1>12. Bad = {}
  <2>1. SUFFICES ASSUME Bad # {} PROVE FALSE
    OBVIOUS
  <2>2. PICK k \in Bad : \A x \in Bad : k <= x
    <3>1. Bad \in SUBSET Nat
      OBVIOUS
    <3>. HIDE DEF Bad
    <3>. QED
      BY <2>1, <3>1, MinIs
  <2>3. k \in 0..n /\ ~Good(k)
    BY <2>2
  <2>4. k # 0
    BY <1>10, <2>3
  <2>5. PICK j \in Nat : k = j + 1
    BY <2>3, <2>4
  <2>6. j \in 0..n /\ k \in 1..n /\ j \notin Bad
    BY <2>2, <2>3, <2>5
  <2>. QED
    BY <1>11, <2>3, <2>5, <2>6
<1>13. Good(n)
  <2>1. n \in 0..n
    OBVIOUS
  <2>. QED
    BY <1>12, <2>1
<1>14. CASE Matches(b, p, L, Len(L))
  <2>1. Reading(b, p, Len(L), f[n])
    BY <1>4, <1>13, <1>14 DEF Good
  <2>2. f[n] \in b..Len(text) /\ f[n] = b + p[Len(L)] + 1 /\ f[n] # NoToken
    BY <1>4, <1>9, <2>1 DEF Reading
  <2>3. p[Len(L)] >= n
    <3>1. Len(L) <= Len(p)
      BY <1>14 DEF Matches
    <3>2. PICK m \in 1..Len(p) : m = Len(L)
      BY <1>1, <1>4, <3>1
    <3>3. p[m] >= m - 1
      BY <1>1, PositionsGrow
    <3>. QED
      BY SMTT(30), <1>1, <1>4, <3>1, <3>2, <3>3
  <2>4. ~(Len(text) - i < n)
    <3>1. p[Len(L)] \in Nat
      BY SMTT(30), <1>1, <1>4, <1>14 DEF Matches
    <3>. QED
      BY SMTT(30), <1>1, <1>6, <2>2, <2>3, <3>1
  <2>. QED
    BY <1>8, <1>14, <2>1, <2>2, <2>4
<1>15. CASE ~Matches(b, p, L, Len(L))
  BY <1>4, <1>8, <1>13, <1>15 DEF Good
<1>. QED
  BY <1>14, <1>15

(* A keyword and the letters of a word.                                     *)
LEMMA PrefixOf ==
  ASSUME NEW L, NEW t, Len(L) \in Nat, Len(t) \in Nat,
         L = [k \in 1..Len(L) |-> L[k]], t = [k \in 1..Len(t) |-> t[k]]
  PROVE  /\ IsPrefix(L, t) <=> Len(L) <= Len(t) /\ \A k \in 1..Len(L) : t[k] = L[k]
         /\ t = L <=> IsPrefix(L, t) /\ Len(L) = Len(t)
<1>1. PICK n \in Nat : n = Len(L)
  OBVIOUS
<1>2. SubSeq(L, 1, n) = [k \in 1..n |-> L[k]]
  OBVIOUS
<1>3. n <= Len(t) => SubSeq(t, 1, n) = [k \in 1..n |-> t[k]]
  OBVIOUS
<1>4. [k \in 1..n |-> L[k]] = [k \in 1..n |-> t[k]] <=> \A k \in 1..n : L[k] = t[k]
  <2>1. ASSUME [k \in 1..n |-> L[k]] = [k \in 1..n |-> t[k]], NEW k \in 1..n
        PROVE  L[k] = t[k]
    <3>1. [x \in 1..n |-> L[x]][k] = [x \in 1..n |-> t[x]][k]
      BY <2>1
    <3>. QED
      BY <3>1
  <2>. QED
    BY <2>1
<1>5. IsPrefix(L, t) <=> n <= Len(t) /\ SubSeq(L, 1, n) = SubSeq(t, 1, n)
  BY <1>1 DEF IsPrefix
<1>6. IsPrefix(L, t) <=> n <= Len(t) /\ \A k \in 1..n : t[k] = L[k]
  BY <1>2, <1>3, <1>4, <1>5
<1>7. t = L => IsPrefix(L, t) /\ n = Len(t)
  BY <1>1, <1>6
<1>8. ASSUME IsPrefix(L, t), n = Len(t) PROVE t = L
  <2>1. \A k \in 1..n : t[k] = L[k]
    BY <1>6, <1>8
  <2>2. [k \in 1..n |-> L[k]] = [k \in 1..n |-> t[k]]
    BY <2>1
  <2>. QED
    BY <1>1, <1>8, <2>2
<1>. QED
  BY <1>1, <1>6, <1>7, <1>8

LEMMA SpelledIs ==
  ASSUME text \in Inputs, NEW b \in 0..Len(text), NEW w, FirstWord(b, w),
         NEW p, p = Ordered(w, MaxLen), NEW L \in Seq(Letter)
  PROVE  /\ p \in Seq(Nat) /\ Spells(p, w)
         /\ IsPrefix(L, Spelled(b, w)) <=> Matches(b, p, L, Len(L))
         /\ Spelled(b, w) = L <=> Matches(b, p, L, Len(L)) /\ Len(p) = Len(L)
         /\ Len(Spelled(b, w)) = Len(p)
<1>1. text \in Seq(STRING) /\ Len(text) \in Nat /\ MaxLen \in Nat /\ Len(text) <= MaxLen
  BY TextIs
<1>2. w \in SUBSET (0..MaxLen - 1)
  <2>1. ASSUME NEW x \in w PROVE x \in 0..MaxLen - 1
    <3>1. x \in Nat /\ b + x \in b..Len(text) - 1
      BY <2>1 DEF FirstWord
    <3>. QED
      BY <1>1, <3>1
  <2>. QED
    BY <2>1
<1>3. p \in Seq(Nat) /\ Spells(p, w)
  BY <1>1, <1>2, OrderedSpells
<1>4. PICK n \in Nat : n = Len(p) /\ DOMAIN p = 1..n
  BY <1>3
<1>5. PICK t : t = Spelled(b, w)
  OBVIOUS
<1>6. t = [k \in 1..n |-> Upper(text[b + p[k] + 1])]
  <2>1. t = [k \in DOMAIN p |-> Upper(text[b + p[k] + 1])]
    BY <1>5 DEF Spelled
  <2>. QED
    BY <1>4, <2>1
<1>7. /\ Len(t) = n /\ Len(t) \in Nat /\ t = [k \in 1..n |-> t[k]]
      /\ \A k \in 1..n : t[k] = Upper(text[b + p[k] + 1])
  <2>1. DOMAIN t = 1..n
    BY <1>6
  <2>2. Len(t) = n
    BY <1>6, <2>1
  <2>3. \A k \in 1..n : t[k] = Upper(text[b + p[k] + 1])
    BY <1>6
  <2>. QED
    BY <1>6, <2>2, <2>3
<1>8. PICK l \in Nat : l = Len(L) /\ L = [k \in 1..l |-> L[k]]
  OBVIOUS
<1>9. /\ IsPrefix(L, t) <=> l <= n /\ \A k \in 1..l : t[k] = L[k]
      /\ t = L <=> IsPrefix(L, t) /\ l = n
  <2>1. Len(L) \in Nat /\ L = [k \in 1..Len(L) |-> L[k]]
    BY <1>8
  <2>2. Len(t) \in Nat /\ t = [k \in 1..Len(t) |-> t[k]]
    BY <1>7
  <2>3. /\ IsPrefix(L, t) <=> Len(L) <= Len(t) /\ \A k \in 1..Len(L) : t[k] = L[k]
        /\ t = L <=> IsPrefix(L, t) /\ Len(L) = Len(t)
    BY <2>1, <2>2, PrefixOf
  <2>. QED
    BY <1>7, <1>8, <2>3
<1>10. Matches(b, p, L, l) <=> l <= n /\ \A k \in 1..l : t[k] = L[k]
  <2>1. l <= n => \A k \in 1..l : k \in 1..n
    OBVIOUS
  <2>. QED
    BY <1>4, <1>7, <2>1 DEF Matches
<1>. QED
  BY <1>3, <1>4, <1>5, <1>7, <1>8, <1>9, <1>10

(* h is at the byte of the word behind its first l.                         *)
Behind(o, w, l, h) ==
  /\ l + 1 \in 1..Len(Ordered(w, MaxLen)) /\ h \in 0..Len(text)
  /\ h = o + Ordered(w, MaxLen)[l + 1]

(* A token of the keyword's letters at o, by the first word of the line.    *)
TokenOf(o, name, w, e) ==
  /\ e # NoToken <=> IsPrefix(Letters[name], Spelled(o, w))
  /\ e # NoToken => /\ e \in o + 1..Len(text) /\ On(o, e)
                    /\ Separated(e) <=> Is(o, w, name)
                    /\ Separated(e) => e = o + Max(w) + 1
                    /\ ~Separated(e) => Gap(e) < Len(text) /\ ~At(text, Gap(e), {"lf"})
                    /\ ~Separated(e) => /\ Behind(o, w, Len(Letters[name]), PastContinuations(e))
                                       /\ Gap(e) = PastContinuations(e)

LEMMA TokenIs ==
  ASSUME text \in Inputs, NEW o \in 0..Len(text), Clean(o), NEW w, FirstWord(o, w),
         NEW name \in Names19, NEW e, e = TokenAt(o, name)
  PROVE  TokenOf(o, name, w, e)
<1>1. text \in Seq(STRING) /\ Len(text) \in Nat /\ MaxLen \in Nat /\ Len(text) <= MaxLen
  BY TextIs
<1>2. PICK p : p = Ordered(w, MaxLen)
  OBVIOUS
<1>3. PICK L : L = Letters[name]
  OBVIOUS
<1>4. L \in Seq(Letter) /\ Len(L) \in Nat /\ 3 <= Len(L)
  BY <1>3, LettersAre
<1>5. /\ p \in Seq(Nat) /\ Spells(p, w)
      /\ IsPrefix(L, Spelled(o, w)) <=> Matches(o, p, L, Len(L))
      /\ Spelled(o, w) = L <=> Matches(o, p, L, Len(L)) /\ Len(p) = Len(L)
  BY <1>2, <1>4, SpelledIs
<1>6. /\ Len(p) >= 1 /\ Len(p) \in Nat /\ p[1] = 0 /\ o < Len(text)
      /\ Reading(o, p, 0, o) /\ Reading(o, p, 1, o + 1)
      /\ \A m \in 1..Len(p) : p[m] \in Nat /\ p[m] \in w /\ o + p[m] < Len(text)
      /\ \A k, m \in 1..Len(p) : k < m => p[k] < p[m]
  BY <1>1, <1>5, ReadingStarts
<1>7. CASE ~StartsLike(o, name)
  <2>1. e = NoToken
    BY <1>7 DEF TokenAt
  <2>2. Upper(text[o + 1]) # L[1]
    BY <1>3, <1>6, <1>7 DEF StartsLike
  <2>3. ~Matches(o, p, L, Len(L))
    <3>1. SUFFICES ASSUME Matches(o, p, L, Len(L)) PROVE FALSE
      OBVIOUS
    <3>2. 1 \in 1..Len(L)
      BY <1>4
    <3>3. Upper(text[o + p[1] + 1]) = L[1]
      BY <3>1, <3>2 DEF Matches
    <3>4. o + p[1] + 1 = o + 1
      BY <1>6
    <3>. QED
      BY <2>2, <3>3, <3>4
  <2>. QED
    BY <1>3, <1>5, <2>1, <2>3 DEF TokenOf
<1>8. CASE StartsLike(o, name)
  <2>1. e = TokenEnd(o, name)
    BY <1>8 DEF TokenAt
  <2>2. \/ Matches(o, p, L, Len(L)) /\ Reading(o, p, Len(L), e) /\ e # NoToken
        \/ ~Matches(o, p, L, Len(L)) /\ e = NoToken
    BY <1>1, <1>3, <1>5, <1>8, <2>1, TokenReads
  <2>3. CASE ~Matches(o, p, L, Len(L)) /\ e = NoToken
    BY <1>3, <1>5, <2>3 DEF TokenOf
  <2>4. CASE Matches(o, p, L, Len(L)) /\ Reading(o, p, Len(L), e) /\ e # NoToken
    <3>1. PICK l \in Nat : l = Len(L) /\ l >= 1
      BY <1>4
    <3>2. /\ e \in o..Len(text) /\ On(o, e) /\ l \in 1..Len(p)
          /\ e = o + p[l] + 1
      BY <1>6, <2>4, <3>1 DEF Reading
    <3>3. e \in o + 1..Len(text) /\ e \in 0..Len(text)
      BY <1>1, <1>6, <3>2
    <3>4. PICK h : h = PastContinuations(e)
      OBVIOUS
    <3>5. ReadsOn(o, p, l, h) /\ h \in e..Len(text)
      BY <1>1, <1>5, <2>4, <3>1, <3>4, LetterNext
    <3>6. Separated(e) <=> h = Len(text) \/ At(text, h, Whitespace \cup {"lf"})
      BY <3>4 DEF Separated
    <3>7. Is(o, w, name) <=> l = Len(p)
      BY <1>3, <1>5, <2>4, <3>1 DEF Is
    <3>8. CASE l = Len(p)
      <4>1. Separated(e)
        <5>1. ~(l < Len(p))
          BY <1>6, <3>8
        <5>. QED
          BY <3>5, <3>6, <5>1 DEF ReadsOn
      <4>2. Max(w) = p[l]
        <5>1. w \in SUBSET (0..Len(text)) /\ w # {}
          BY <1>1 DEF FirstWord
        <5>2. Max(w) \in w /\ \A x \in w : x <= Max(w)
          BY <1>1, <5>1, MaxIs
        <5>3. p[l] \in w /\ p[l] \in Nat
          BY <1>6, <3>2
        <5>4. PICK k \in 1..Len(p) : p[k] = Max(w)
          BY <1>5, <5>2 DEF Spells
        <5>5. k < l => FALSE
          BY <1>6, <3>2, <5>2, <5>3, <5>4
        <5>. QED
          BY <1>6, <3>2, <3>8, <5>4, <5>5
      <4>. QED
        BY <1>3, <1>5, <2>4, <3>2, <3>3, <3>7, <3>8, <4>1, <4>2 DEF TokenOf
    <3>9. CASE l < Len(p)
      <4>1. h < Len(text) /\ text[h + 1] \notin Whitespace /\ text[h + 1] # "lf" /\ Held(o, h)
        BY <1>6, <3>5, <3>9 DEF ReadsOn
      <4>2. ~Separated(e)
        BY <1>1, <3>5, <3>6, <4>1 DEF At
      <4>3. ~Is(o, w, name)
        BY <1>6, <3>7, <3>9
      <4>4. PICK g : g = Gap(e)
        OBVIOUS
      <4>5. /\ g \in e..Len(text) /\ On(o, g) /\ Clean(g)
            /\ \A x \in e..g - 1 : Held(o, x) => text[x + 1] \in Whitespace
        BY <1>1, <3>2, <4>4, GapEnds
      <4>6. h \in g..Len(text) - 1
        BY <1>1, <3>3, <3>5, <4>1, <4>5
      <4>7. g \in o..Len(text)
        BY <1>1, <3>3, <4>5
      <4>8. ~Over(g)
        BY <1>1, <4>1, <4>5, <4>6, <4>7, CleanIs
      <4>9. g < Len(text) /\ ~At(text, g, {"lf"})
        BY <1>1, <4>5, <4>8 DEF Over
      <4>10. Behind(o, w, l, h)
        <5>1. h \in 0..Len(text) /\ h = o + p[l + 1]
          BY <1>1, <1>6, <3>3, <3>5, <3>9 DEF ReadsOn
        <5>2. l + 1 \in 1..Len(p)
          BY <1>6, <3>9
        <5>. QED
          BY <1>2, <5>1, <5>2 DEF Behind
      <4>11. Gap(e) = h
        BY <1>1, <3>3, <3>4, <4>1, GapPast DEF At
      <4>. QED
        BY <1>3, <1>5, <2>4, <3>1, <3>2, <3>3, <3>4, <4>2, <4>3, <4>4, <4>9, <4>10, <4>11 DEF TokenOf
    <3>. QED
      BY <1>6, <3>2, <3>8, <3>9
  <2>. QED
    BY <2>2, <2>3, <2>4
<1>. QED
  BY <1>7, <1>8

LEMMA NoTokenOver ==
  ASSUME text \in Seq(STRING), NEW o \in 0..Len(text), Over(o), NEW name \in Names19
  PROVE  ~StartsLike(o, name) /\ TokenAt(o, name) = NoToken
<1>1. PICK L : L = Letters[name]
  OBVIOUS
<1>2. 1 \in 1..Len(L)
  BY <1>1, LettersAre
<1>3. o < Len(text) => text[o + 1] = "lf"
  BY DEF Over, At
<1>4. o < Len(text) => Upper(text[o + 1]) # L[1]
  BY <1>1, <1>2, <1>3, LetterIs
<1>. QED
  BY <1>1, <1>4 DEF StartsLike, TokenAt

(* The keyword a line starts with is that its first word names.             *)
LEMMA KeywordsAre ==
  /\ DOMAIN Keywords = 1..18
  /\ \A k \in 1..18 : Keywords[k] \in Names19 /\ Keywords[k] # "NONE" /\ Keywords[k] # "none"
  /\ ToSet(Keywords) = {Keywords[k] : k \in 1..18}
<1>1. DOMAIN Keywords = 1..18
  BY DEF Keywords
<1>2. \A k \in 1..18 : k \in {1, 2, 3, 4, 5, 6, 7, 8, 9, 10, 11, 12, 13, 14, 15, 16, 17, 18}
  OBVIOUS
<1>3. \A k \in 1..18 : Keywords[k] \in Names19 /\ Keywords[k] # "NONE" /\ Keywords[k] # "none"
  <2>1. \A k \in {1, 2, 3, 4, 5, 6, 7, 8, 9} :
          Keywords[k] \in Names19 /\ Keywords[k] # "NONE" /\ Keywords[k] # "none"
    BY DEF Keywords, Names19
  <2>2. \A k \in {10, 11, 12, 13, 14, 15, 16, 17, 18} :
          Keywords[k] \in Names19 /\ Keywords[k] # "NONE" /\ Keywords[k] # "none"
    BY DEF Keywords, Names19
  <2>. QED
    BY <1>2, <2>1, <2>2
<1>. QED
  BY <1>1, <1>3 DEF ToSet

LEMMA PrefixesAgree ==
  ASSUME NEW n \in Names19, NEW m \in Names19, NEW u, Len(u) \in Nat,
         u = [k \in 1..Len(u) |-> u[k]],
         IsPrefix(Letters[n], u), IsPrefix(Letters[m], u)
  PROVE  n = m
<1>1. PICK L : L = Letters[n]
  OBVIOUS
<1>2. PICK K : K = Letters[m]
  OBVIOUS
<1>3. L \in Seq(Letter) /\ Len(L) \in Nat /\ 3 <= Len(L)
  BY <1>1, LettersAre
<1>4. K \in Seq(Letter) /\ Len(K) \in Nat /\ 3 <= Len(K)
  BY <1>2, LettersAre
<1>5. L = [k \in 1..Len(L) |-> L[k]] /\ K = [k \in 1..Len(K) |-> K[k]]
  BY <1>3, <1>4
<1>6. \A k \in 1..Len(L) : u[k] = L[k]
  BY <1>1, <1>3, <1>5, PrefixOf
<1>7. \A k \in 1..Len(K) : u[k] = K[k]
  BY <1>2, <1>4, <1>5, PrefixOf
<1>8. L[1] = K[1] /\ L[2] = K[2] /\ L[3] = K[3]
  <2>1. \A k \in {1, 2, 3} : k \in 1..Len(L) /\ k \in 1..Len(K)
    BY <1>3, <1>4
  <2>. QED
    BY <1>6, <1>7, <2>1
<1>. QED
  BY <1>1, <1>2, <1>8, LettersDiffer

(* The first word of a line spells at most one of the names.                *)
LEMMA SpelledOnce ==
  ASSUME text \in Inputs, NEW o \in 0..Len(text), NEW w, FirstWord(o, w),
         NEW n \in Names19, NEW m \in Names19,
         NEW u, u = Spelled(o, w)
  PROVE  /\ IsPrefix(Letters[n], u) /\ IsPrefix(Letters[m], u) => n = m
         /\ u = Letters[n] => IsPrefix(Letters[n], u)
         /\ Is(o, w, n) <=> u = Letters[n]
<1>1. PICK p : p = Ordered(w, MaxLen)
  OBVIOUS
<1>2. PICK L : L = Letters[n]
  OBVIOUS
<1>3. L \in Seq(Letter) /\ Len(L) \in Nat
  BY <1>2, LettersAre
<1>4. /\ p \in Seq(Nat)
      /\ IsPrefix(L, u) <=> Matches(o, p, L, Len(L))
      /\ u = L <=> Matches(o, p, L, Len(L)) /\ Len(p) = Len(L)
      /\ Len(u) = Len(p)
  BY <1>1, <1>3, SpelledIs
<1>5. u = [k \in DOMAIN p |-> Upper(text[o + p[k] + 1])] /\ DOMAIN p = 1..Len(p) /\ Len(p) \in Nat
  BY <1>1, <1>4 DEF Spelled
<1>6. Len(u) \in Nat /\ u = [k \in 1..Len(u) |-> u[k]]
  BY <1>4, <1>5
<1>7. IsPrefix(Letters[n], u) /\ IsPrefix(Letters[m], u) => n = m
  BY <1>6, PrefixesAgree
<1>. QED
  BY <1>2, <1>4, <1>7 DEF Is

LEMMA NoName ==
  ASSUME text \in Seq(STRING), NEW o \in 0..Len(text), Over(o)
  PROVE  WordsAt(o) = <<>> /\ NameAt(o) = "none" /\ KeywordsAt(o) = {}
<1>1. WordsAt(o) = <<>>
  BY OverEmpty
<1>2. NameAt(o) = "none"
  BY <1>1 DEF NameAt, NameOf
<1>3. Candidates(o) = {}
  BY KeywordsAre, NoTokenOver DEF Candidates
<1>4. KeywordsAt(o) = {}
  BY <1>3 DEF KeywordsAt, Fast, Slow
<1>. QED
  BY <1>1, <1>2, <1>4

LEMMA KeywordsAtAre ==
  ASSUME text \in Inputs, NEW o \in 0..Len(text), Clean(o), ~Over(o)
  PROVE  /\ KeywordsAt(o) \in SUBSET (1..18)
         /\ KeywordsAt(o) = {} => \A k \in 1..18 : TokenAt(o, Keywords[k]) = NoToken
         /\ \A k \in KeywordsAt(o) : /\ StartsLike(o, Keywords[k])
                                     /\ TokenAt(o, Keywords[k]) # NoToken
<1>1. text \in Seq(STRING) /\ Len(text) \in Nat
  BY TextIs
<1>2. o \in 0..Len(text) - 1
  BY <1>1 DEF Over
<1>3. ASSUME NEW k \in 1..18, StartsLike(o, Keywords[k])
      PROVE  /\ TokenAt(o, Keywords[k]) = TokenSlow(o + 1, Tail(Letters[Keywords[k]]))
             /\ Token(o + 1, Tail(Letters[Keywords[k]])) =>
                  TokenSlow(o + 1, Tail(Letters[Keywords[k]])) # NoToken
  <2>1. PICK name \in Names19 : name = Keywords[k]
    BY KeywordsAre
  <2>2. PICK word : word = Tail(Letters[name])
    OBVIOUS
  <2>3. /\ TokenEnd(o, name) = TokenSlow(o + 1, word)
        /\ Token(o + 1, word) => TokenSlow(o + 1, word) # NoToken
    BY <1>1, <1>2, <2>2, TokenEndIs
  <2>4. TokenAt(o, name) = TokenEnd(o, name)
    BY <1>3, <2>1 DEF TokenAt
  <2>. QED
    BY <2>1, <2>2, <2>3, <2>4
<1>4. /\ Candidates(o) \in SUBSET (1..18)
      /\ \A k \in 1..18 : k \in Candidates(o) <=> StartsLike(o, Keywords[k])
  BY KeywordsAre DEF Candidates
<1>5. \A k \in 1..18 : k \notin Candidates(o) => TokenAt(o, Keywords[k]) = NoToken
  BY <1>4 DEF TokenAt
<1>6. \A k \in Candidates(o) : k \in Fast(o) => k \in Slow(o)
  BY <1>3, <1>4 DEF Fast, Slow
<1>7. \A k \in Candidates(o) : k \in Slow(o) <=> TokenAt(o, Keywords[k]) # NoToken
  BY <1>3, <1>4 DEF Slow
<1>8. Fast(o) \in SUBSET Candidates(o) /\ Slow(o) \in SUBSET Candidates(o)
  BY DEF Fast, Slow
<1>9. KeywordsAt(o) \in SUBSET Slow(o) /\ (KeywordsAt(o) = {} => Slow(o) = {})
  BY <1>6, <1>8 DEF KeywordsAt
<1>. QED
  BY <1>4, <1>5, <1>7, <1>8, <1>9

(* What Found and KeywordIs do with it.                                     *)
FoundAt(o) ==
  /\ KeywordsAt(o) # {}
  /\ Separated(TokenEnd(o, Keywords[Min(KeywordsAt(o))]))

LEMMA KeywordIsName ==
  ASSUME text \in Inputs, NEW o \in 0..Len(text), Clean(o), NEW W, W = WordsAt(o),
         NEW keyword, keyword = Keywords[Min(KeywordsAt(o))]
  PROVE  /\ ~FoundAt(o) => NameAt(o) = "none"
         /\ FoundAt(o) => /\ NameAt(o) = keyword /\ keyword \in ToSet(Keywords)
                          /\ Len(W) >= 1 /\ FirstWord(o, W[1]) /\ ~Over(o)
                          /\ Is(o, W[1], keyword)
                          /\ TokenEnd(o, keyword) = o + Max(W[1]) + 1
<1>1. text \in Seq(STRING) /\ Len(text) \in Nat
  BY TextIs
<1>2. CASE Over(o)
  BY <1>1, <1>2, NoName DEF FoundAt
<1>3. CASE ~Over(o)
  <2>1. Len(W) >= 1 /\ FirstWord(o, W[1]) /\ Len(W) \in Nat /\ W # <<>>
    <3>1. Len(W) >= 1 /\ FirstWord(o, W[1])
      BY <1>1, <1>3, CleanWords
    <3>2. Len(W) \in Nat
      BY <1>1, WordsAtIs
    <3>. QED
      BY <3>1, <3>2
  <2>2. PICK w : w = W[1] /\ FirstWord(o, w)
    BY <2>1
  <2>3. PICK M : M = KeywordsAt(o)
    OBVIOUS
  <2>4. /\ M \in SUBSET (1..18)
        /\ M = {} => \A k \in 1..18 : TokenAt(o, Keywords[k]) = NoToken
        /\ \A k \in M : StartsLike(o, Keywords[k]) /\ TokenAt(o, Keywords[k]) # NoToken
    <3>1. /\ KeywordsAt(o) \in SUBSET (1..18)
          /\ KeywordsAt(o) = {} => \A k \in 1..18 : TokenAt(o, Keywords[k]) = NoToken
          /\ \A k \in KeywordsAt(o) : /\ StartsLike(o, Keywords[k])
                                      /\ TokenAt(o, Keywords[k]) # NoToken
      BY <1>3, KeywordsAtAre
    <3>. QED
      BY <2>3, <3>1
  <2>5. ASSUME NEW name \in Names19, NEW e, e = TokenAt(o, name)
        PROVE  /\ e # NoToken <=> IsPrefix(Letters[name], Spelled(o, w))
               /\ e # NoToken => (Separated(e) <=> Is(o, w, name))
               /\ e # NoToken /\ Separated(e) => e = o + Max(w) + 1
    <3>1. TokenOf(o, name, w, e)
      BY <2>2, <2>5, TokenIs
    <3>. QED
      BY <3>1 DEF TokenOf
  <2>6. ASSUME NEW n \in Names19, NEW m \in Names19
        PROVE  /\ /\ IsPrefix(Letters[n], Spelled(o, w)) /\ IsPrefix(Letters[m], Spelled(o, w))
                  => n = m
               /\ Is(o, w, n) => IsPrefix(Letters[n], Spelled(o, w))
    <3>1. PICK u : u = Spelled(o, w)
      OBVIOUS
    <3>2. /\ IsPrefix(Letters[n], u) /\ IsPrefix(Letters[m], u) => n = m
          /\ u = Letters[n] => IsPrefix(Letters[n], u)
          /\ Is(o, w, n) <=> u = Letters[n]
      BY <2>2, <3>1, SpelledOnce
    <3>. QED
      BY <3>1, <3>2
  <2>7. PICK names : names = {name \in ToSet(Keywords) : Is(o, w, name)}
    OBVIOUS
  <2>8. NameAt(o) = IF names = {} THEN "none" ELSE CHOOSE name \in names : TRUE
    <3>1. names = {name \in ToSet(Keywords) : W # <<>> /\ Is(o, W[1], name)}
      BY <2>1, <2>2, <2>7
    <3>. QED
      BY <3>1 DEF NameAt, NameOf
  <2>9. \A name \in ToSet(Keywords) : name \in Names19 /\ \E k \in 1..18 : name = Keywords[k]
    BY KeywordsAre
  <2>10. ASSUME ~FoundAt(o) PROVE NameAt(o) = "none"
    <3>1. SUFFICES ASSUME NEW name \in names PROVE FALSE
      BY <2>8
    <3>2. name \in Names19 /\ Is(o, w, name) /\ name \in ToSet(Keywords)
      BY <2>7, <2>9
    <3>3. IsPrefix(Letters[name], Spelled(o, w))
      BY <2>6, <3>2
    <3>4. PICK e : e = TokenAt(o, name)
      OBVIOUS
    <3>5. e # NoToken /\ Separated(e)
      BY <2>5, <3>2, <3>3, <3>4
    <3>6. M # {}
      BY <2>4, <2>9, <3>2, <3>4, <3>5
    <3>7. keyword \in Names19 /\ StartsLike(o, keyword) /\ TokenAt(o, keyword) # NoToken
      <4>1. PICK k : k = Min(M)
        OBVIOUS
      <4>2. M \in SUBSET Nat
        BY <2>4
      <4>3. k \in M
        BY <3>6, <4>1, <4>2, MinIs
      <4>4. keyword = Keywords[k] /\ k \in 1..18
        BY <2>3, <2>4, <4>1, <4>3
      <4>. QED
        BY <2>4, <4>3, <4>4, KeywordsAre
    <3>8. IsPrefix(Letters[keyword], Spelled(o, w))
      BY <2>5, <3>7
    <3>9. keyword = name
      BY <2>6, <3>2, <3>3, <3>7, <3>8
    <3>10. TokenEnd(o, keyword) = e
      BY <3>4, <3>7, <3>9 DEF TokenAt
    <3>. QED
      BY <2>3, <2>10, <3>5, <3>6, <3>10 DEF FoundAt
  <2>11. ASSUME FoundAt(o)
         PROVE  /\ NameAt(o) = keyword /\ keyword \in ToSet(Keywords)
                /\ Is(o, w, keyword) /\ TokenEnd(o, keyword) = o + Max(w) + 1
    <3>1. M # {} /\ Separated(TokenEnd(o, keyword))
      BY <2>3, <2>11 DEF FoundAt
    <3>2. /\ keyword \in Names19 /\ keyword \in ToSet(Keywords)
          /\ StartsLike(o, keyword) /\ TokenAt(o, keyword) # NoToken
      <4>1. PICK k : k = Min(M)
        OBVIOUS
      <4>2. M \in SUBSET Nat
        BY <2>4
      <4>3. k \in M
        BY <3>1, <4>1, <4>2, MinIs
      <4>4. keyword = Keywords[k] /\ k \in 1..18
        BY <2>3, <2>4, <4>1, <4>3
      <4>. QED
        BY <2>4, <4>3, <4>4, KeywordsAre
    <3>3. PICK e : e = TokenAt(o, keyword)
      OBVIOUS
    <3>4. e = TokenEnd(o, keyword)
      BY <3>2, <3>3 DEF TokenAt
    <3>5. Is(o, w, keyword) /\ e = o + Max(w) + 1
      BY <2>5, <3>1, <3>2, <3>3, <3>4
    <3>6. \A name \in names : name = keyword
      <4>1. \A name \in names : name \in Names19 /\ Is(o, w, name)
        BY <2>7, <2>9
      <4>. QED
        BY <2>6, <3>2, <3>5, <4>1
    <3>7. keyword \in names
      BY <2>7, <3>2, <3>5
    <3>8. NameAt(o) \in names
      BY <2>8, <3>7
    <3>. QED
      BY <3>2, <3>4, <3>5, <3>6, <3>8
  <2>. QED
    BY <1>3, <2>1, <2>2, <2>10, <2>11
<1>. QED
  BY <1>2, <1>3

(* A word of a line, told from another place of the line.                   *)
Bounded(w, n) == w # {} /\ \A x \in w : x \in 0..n

LEMMA ShiftIs ==
  ASSUME NEW n \in Nat, NEW w, Bounded(w, n), NEW d \in Nat, NEW v, v = Shift(w, d)
  PROVE  /\ Min(v) = Min(w) + d /\ Max(v) = Max(w) + d
         /\ Min(w) \in 0..n /\ Max(w) \in 0..n
<1>1. /\ \A x \in w : x \in 0..n
      /\ \A x : x \in v <=> \E a \in w : x = d + a
  BY DEF Bounded, Shift
<1>. w \in SUBSET (0..n) /\ w # {}
  BY <1>1 DEF Bounded
<1>2. v \in SUBSET (0..n + d) /\ v # {}
  <2>1. ASSUME NEW x \in v PROVE x \in 0..n + d
    <3>1. PICK a \in w : x = d + a
      BY <1>1, <2>1
    <3>2. a \in 0..n
      BY <1>1
    <3>. QED
      BY <3>1, <3>2
  <2>2. PICK a : a \in w
    OBVIOUS
  <2>3. d + a \in v
    BY <1>1, <2>2
  <2>. QED
    BY <2>1, <2>3
<1>3. Min(v) = d + Min(w)
  <2>1. w \in SUBSET Nat
    OBVIOUS
  <2>. QED
    BY <1>1, <2>1, MinShift
<1>4. Max(w) \in w /\ \A x \in w : x <= Max(w)
  BY MaxIs
<1>5. PICK m : m = n + d
  OBVIOUS
<1>6. Max(v) \in v /\ \A x \in v : x <= Max(v)
  <2>1. m \in Nat /\ v \in SUBSET (0..m)
    BY <1>2, <1>5
  <2>. QED
    BY <1>2, <2>1, MaxIs
<1>7. Max(v) = Max(w) + d
  <2>1. PICK a \in w : Max(v) = d + a
    BY <1>1, <1>6
  <2>2. PICK y : y = Max(w)
    OBVIOUS
  <2>3. PICK z : z = Max(v)
    OBVIOUS
  <2>4. d + y \in v
    BY <1>1, <1>4, <2>2
  <2>5. a <= y /\ d + y <= z /\ z = d + a
    BY <1>4, <1>6, <2>1, <2>2, <2>3, <2>4
  <2>6. a \in Nat /\ y \in Nat
    <3>1. \A x \in w : x \in Nat
      BY <1>1
    <3>2. y \in w
      BY <1>4, <2>2
    <3>. QED
      BY <3>1, <3>2
  <2>7. z = y + d
    BY <2>5, <2>6
  <2>. QED
    BY <2>2, <2>3, <2>7
<1>8. Min(w) \in w
  <2>1. w \in SUBSET Nat
    OBVIOUS
  <2>. QED
    BY <2>1, MinIs
<1>9. Min(w) \in 0..n /\ Max(w) \in 0..n
  BY <1>1, <1>4, <1>8
<1>10. PICK y : y = Min(w)
  OBVIOUS
<1>11. Min(v) = y + d
  BY <1>3, <1>9, <1>10
<1>. QED
  BY <1>2, <1>7, <1>9, <1>10, <1>11

LEMMA SpelledShift ==
  ASSUME text \in Inputs, NEW b \in 0..Len(text), NEW o \in b..Len(text), NEW w \in SUBSET Nat,
         \A x \in w : o + x < Len(text), NEW v, v = Shift(w, o - b)
  PROVE  /\ Spelled(b, v) = Spelled(o, w)
         /\ Len(Ordered(v, MaxLen)) = Len(Ordered(w, MaxLen))
         /\ \A k \in 1..Len(Ordered(w, MaxLen)) : b + Ordered(v, MaxLen)[k] = o + Ordered(w, MaxLen)[k]
<1>1. text \in Seq(STRING) /\ Len(text) \in Nat /\ MaxLen \in Nat /\ Len(text) <= MaxLen
  BY TextIs
<1>2. PICK d \in Nat : d = o - b
  BY <1>1
<1>3. PICK p : p = Ordered(w, MaxLen)
  OBVIOUS
<1>4. p \in Seq(Nat) /\ Spells(p, w)
  <2>1. w \in SUBSET (0..MaxLen - 1)
    BY <1>1
  <2>. QED
    BY <1>1, <1>3, <2>1, OrderedSpells
<1>5. PICK q : q = [k \in DOMAIN p |-> p[k] + d]
  OBVIOUS
<1>6. PICK n \in Nat : DOMAIN p = 1..n /\ n = Len(p)
  BY <1>4
<1>7. /\ DOMAIN q = 1..n /\ q \in Seq(Nat)
      /\ \A k \in 1..n : q[k] = p[k] + d /\ p[k] \in Nat
  BY SMTT(30), <1>4, <1>5, <1>6
<1>8. /\ \A j, k \in 1..n : j < k => p[j] < p[k]
      /\ \A x : x \in w <=> \E k \in 1..n : p[k] = x
  BY <1>4, <1>6 DEF Spells
<1>9. \A x : x \in v <=> \E a \in w : x = a + d
  BY <1>2 DEF Shift
<1>10. Spells(q, v)
  <2>1. \A j, k \in DOMAIN q : j < k => q[j] < q[k]
    <3>1. SUFFICES ASSUME NEW j \in 1..n, NEW k \in 1..n, j < k PROVE q[j] < q[k]
      BY <1>7
    <3>2. p[j] < p[k] /\ p[j] \in Nat /\ p[k] \in Nat /\ q[j] = p[j] + d /\ q[k] = p[k] + d
      BY <1>7, <1>8, <3>1
    <3>. QED
      BY <3>2
  <2>2. {q[k] : k \in DOMAIN q} = v
    <3>1. \A x : x \in v <=> \E k \in 1..n : q[k] = x
      BY SMTT(30), <1>7, <1>8, <1>9
    <3>. QED
      BY <1>7, <3>1
  <2>. QED
    BY <2>1, <2>2 DEF Spells
<1>11. \A x \in v : x < MaxLen
  BY <1>1, <1>2, <1>9
<1>12. Ordered(v, MaxLen) = q
  BY <1>1, <1>7, <1>10, <1>11, OrderedIs
<1>13. Spelled(b, v) = [k \in 1..n |-> Upper(text[b + q[k] + 1])]
  BY <1>7, <1>12 DEF Spelled
<1>14. Spelled(o, w) = [k \in 1..n |-> Upper(text[o + p[k] + 1])]
  BY <1>3, <1>6 DEF Spelled
<1>15. \A k \in 1..n : b + q[k] = o + p[k] /\ b + q[k] + 1 = o + p[k] + 1
  BY <1>1, <1>2, <1>7
<1>16. [k \in 1..n |-> Upper(text[b + q[k] + 1])] = [k \in 1..n |-> Upper(text[o + p[k] + 1])]
  BY <1>15
<1>17. Spelled(b, v) = Spelled(o, w)
  BY <1>13, <1>14, <1>16
<1>18. \A k \in 1..Len(p) : b + q[k] = o + p[k]
  BY <1>6, <1>15
<1>19. Len(q) = Len(p)
  BY <1>6, <1>7
<1>. QED
  BY <1>3, <1>12, <1>17, <1>18, <1>19

LEMMA RestAt ==
  ASSUME text \in Seq(STRING), NEW b \in 0..Len(text), NEW x \in Nat, NEW y, y = b + x,
         y < Len(text)
  PROVE  Rest(b)[x + 1] = text[y + 1]
  BY DEF Rest

LEMMA FlagShift ==
  ASSUME text \in Seq(STRING), NEW b \in 0..Len(text), NEW o \in b..Len(text),
         NEW w \in SUBSET Nat, \A x \in w : o + x < Len(text), NEW v, v = Shift(w, o - b)
  PROVE  IsFlag(Rest(b), v) <=> IsFlag(Rest(o), w)
<1>1. Len(text) \in Nat
  OBVIOUS
<1>2. PICK d \in Nat : d = o - b
  BY <1>1
<1>3. PICK u : u = Rest(b)
  OBVIOUS
<1>4. PICK t : t = Rest(o)
  OBVIOUS
<1>5. \A x \in w : x \in Nat /\ x + d \in Nat /\ u[(x + d) + 1] = t[x + 1]
  <2>1. ASSUME NEW x \in w PROVE u[(x + d) + 1] = t[x + 1]
    <3>1. PICK y : y = o + x
      OBVIOUS
    <3>2. y \in o..Len(text) - 1 /\ y \in b..Len(text) - 1 /\ y - o = x /\ y - b = x + d
      BY <1>1, <1>2, <2>1, <3>1
    <3>3. t[x + 1] = text[y + 1]
      BY <1>1, <1>4, <2>1, <3>1, <3>2, RestAt
    <3>4. PICK z \in Nat : z = x + d
      BY <2>1
    <3>5. u[z + 1] = text[y + 1]
      <4>1. b + z = y /\ y < Len(text)
        BY <1>1, <1>2, <3>1, <3>2, <3>4
      <4>. QED
        BY <1>3, <4>1, RestAt
    <3>. QED
      BY <3>3, <3>4, <3>5
  <2>. QED
    BY <2>1
<1>6. \A x : x \in v <=> \E a \in w : x = a + d
  BY <1>2 DEF Shift
<1>7. ASSUME IsFlag(t, w) PROVE IsFlag(u, v)
  <2>1. PICK i \in w, j \in w : /\ i < j /\ \A k \in w : k \in {i, j} \/ k > j
                               /\ t[i + 1] = "dash" /\ t[j + 1] = "dash"
    BY <1>7 DEF IsFlag
  <2>2. PICK x : x = i + d
    OBVIOUS
  <2>3. PICK y : y = j + d
    OBVIOUS
  <2>4. x \in v /\ y \in v /\ x < y /\ u[x + 1] = "dash" /\ u[y + 1] = "dash"
    BY <1>5, <1>6, <2>1, <2>2, <2>3
  <2>5. \A k \in v : k \in {x, y} \/ k > y
    <3>1. SUFFICES ASSUME NEW k \in v PROVE k \in {x, y} \/ k > y
      OBVIOUS
    <3>2. PICK a \in w : k = a + d
      BY <1>6
    <3>3. a = i \/ a = j \/ a > j
      BY <2>1
    <3>4. a \in Nat /\ j \in Nat
      BY <2>1
    <3>. QED
      BY <2>2, <2>3, <3>2, <3>3, <3>4
  <2>. QED
    BY <2>4, <2>5 DEF IsFlag
<1>8. ASSUME IsFlag(u, v) PROVE IsFlag(t, w)
  <2>1. PICK x \in v, y \in v : /\ x < y /\ \A k \in v : k \in {x, y} \/ k > y
                               /\ u[x + 1] = "dash" /\ u[y + 1] = "dash"
    BY <1>8 DEF IsFlag
  <2>2. PICK i \in w : x = i + d
    BY <1>6
  <2>3. PICK j \in w : y = j + d
    BY <1>6
  <2>4. i < j /\ t[i + 1] = "dash" /\ t[j + 1] = "dash"
    BY <1>5, <2>1, <2>2, <2>3
  <2>5. \A k \in w : k \in {i, j} \/ k > j
    <3>1. SUFFICES ASSUME NEW k \in w PROVE k \in {i, j} \/ k > j
      OBVIOUS
    <3>2. k + d \in v /\ k \in Nat /\ i \in Nat /\ j \in Nat
      BY <1>6
    <3>3. k + d = x \/ k + d = y \/ k + d > y
      BY <2>1, <3>2
    <3>. QED
      BY <2>2, <2>3, <3>2, <3>3
  <2>. QED
    BY <2>4, <2>5 DEF IsFlag
<1>. QED
  BY <1>3, <1>4, <1>7, <1>8

-----------------------------------------------------------------------------
(* The arguments A of the instruction at b start at o: they are the other   *)
(* words of its line, the words of what follows at o.                       *)
ArgsAt(b, A, o) ==
  /\ A \in Seq(SUBSET Nat) /\ Clean(o)
  /\ \E m \in Nat : Follows(b, m, o) /\ \A k \in 1..Len(A) : A[k] = WordsAt(b)[m + k]
  /\ Len(A) = Len(WordsAt(o))

ArgsKnown(b, A, o, U) ==
  /\ o \in b..Len(text) /\ On(b, o) /\ o \in 0..Len(text)
  /\ LineEndAt(o) = LineEndAt(b) /\ o \in b..LineEndAt(b)
  /\ Len(A) \in Nat /\ Len(A) = Len(U)
  /\ \A k \in 1..Len(A) :
       /\ A[k] = Shift(U[k], o - b)
       /\ U[k] \in SUBSET Nat /\ U[k] # {} /\ \A x \in U[k] : o + x < Len(text)
       /\ Min(U[k]) \in Nat /\ Min(A[k]) \in Nat /\ b + Min(A[k]) = o + Min(U[k])
       /\ Max(U[k]) \in Nat /\ Max(A[k]) \in Nat /\ b + Max(A[k]) = o + Max(U[k])
  /\ Len(A) = 0 <=> Over(o)
  /\ Len(A) >= 1 => FirstWord(o, U[1]) /\ b + Min(A[1]) = o

LEMMA ArgsAre ==
  ASSUME text \in Seq(STRING), NEW b \in 0..Len(text), NEW A, NEW o, ArgsAt(b, A, o),
         NEW U, U = WordsAt(o)
  PROVE  ArgsKnown(b, A, o, U)
<1>1. Len(text) \in Nat
  OBVIOUS
<1>2. PICK m \in Nat : Follows(b, m, o) /\ \A k \in 1..Len(A) : A[k] = WordsAt(b)[m + k]
  BY DEF ArgsAt
<1>3. A \in Seq(SUBSET Nat) /\ Clean(o) /\ Len(A) = Len(U) /\ Len(A) \in Nat
  BY DEF ArgsAt
<1>4. /\ o \in b..Len(text) /\ On(b, o) /\ o \in 0..Len(text)
      /\ \A k \in 1..Len(U) : WordsAt(b)[m + k] = Shift(U[k], o - b)
  BY <1>1, <1>2 DEF Follows
<1>5. LineEndAt(o) = LineEndAt(b)
  BY <1>4, OnSuffix
<1>6. o \in b..LineEndAt(b)
  BY <1>4, OnBefore
<1>7. /\ \A k \in 1..Len(U) :
           /\ U[k] # {} /\ U[k] \in SUBSET (0..Len(text))
           /\ \A x \in U[k] : x \in Nat /\ o + x \in o..Len(text) - 1
  BY <1>4, WordsAtIs
<1>8. ASSUME NEW k \in 1..Len(A)
      PROVE  /\ A[k] = Shift(U[k], o - b)
             /\ U[k] \in SUBSET Nat /\ U[k] # {} /\ \A x \in U[k] : o + x < Len(text)
             /\ Min(U[k]) \in Nat /\ Min(A[k]) \in Nat /\ b + Min(A[k]) = o + Min(U[k])
             /\ Max(U[k]) \in Nat /\ Max(A[k]) \in Nat /\ b + Max(A[k]) = o + Max(U[k])
  <2>1. PICK u : u = U[k]
    OBVIOUS
  <2>2. PICK v : v = A[k]
    OBVIOUS
  <2>3. PICK d \in Nat : d = o - b
    BY <1>1, <1>4
  <2>4. v = Shift(u, d)
    BY <1>2, <1>3, <1>4, <2>1, <2>2, <2>3
  <2>5. u # {} /\ u \in SUBSET (0..Len(text)) /\ \A x \in u : x \in Nat /\ o + x \in o..Len(text) - 1
    BY <1>3, <1>7, <2>1
  <2>6. /\ Min(v) = Min(u) + d /\ Max(v) = Max(u) + d
        /\ Min(u) \in 0..Len(text) /\ Max(u) \in 0..Len(text)
    <3>1. PICK n \in Nat : n = Len(text)
      BY <1>1
    <3>2. Bounded(u, n)
      BY <2>5, <3>1 DEF Bounded
    <3>3. /\ Min(v) = Min(u) + d /\ Max(v) = Max(u) + d
          /\ Min(u) \in 0..n /\ Max(u) \in 0..n
      BY <2>4, <3>2, ShiftIs
    <3>. QED
      BY <3>1, <3>3
  <2>7. \A x \in u : o + x < Len(text) /\ x \in Nat
    BY <1>1, <1>4, <2>5
  <2>8. PICK y : y = Min(u)
    OBVIOUS
  <2>9. PICK z : z = Max(u)
    OBVIOUS
  <2>10. y + d \in Nat /\ z + d \in Nat /\ b + (y + d) = o + y /\ b + (z + d) = o + z
         /\ y \in Nat /\ z \in Nat
    BY <1>1, <1>4, <2>3, <2>6, <2>8, <2>9
  <2>11. /\ Min(u) \in Nat /\ Min(v) \in Nat /\ b + Min(v) = o + Min(u)
         /\ Max(u) \in Nat /\ Max(v) \in Nat /\ b + Max(v) = o + Max(u)
    BY <2>6, <2>8, <2>9, <2>10
  <2>. QED
    BY <2>1, <2>2, <2>3, <2>4, <2>5, <2>7, <2>11
<1>9. /\ Over(o) => U = <<>>
      /\ ~Over(o) => Len(U) >= 1 /\ FirstWord(o, U[1])
  BY <1>3, <1>4, CleanWords
<1>10. Len(A) = 0 <=> Over(o)
  BY <1>3, <1>9
<1>11. ASSUME Len(A) >= 1 PROVE FirstWord(o, U[1]) /\ b + Min(A[1]) = o
  <2>1. FirstWord(o, U[1])
    BY <1>3, <1>9, <1>10, <1>11
  <2>2. Min(U[1]) = 0
    BY <2>1 DEF FirstWord
  <2>3. 1 \in 1..Len(A)
    BY <1>3, <1>11
  <2>4. b + Min(A[1]) = o + 0
    BY <1>8, <2>2, <2>3
  <2>. QED
    BY <1>4, <2>1, <2>4
<1>. QED
  BY <1>3, <1>4, <1>5, <1>6, <1>8, <1>10, <1>11 DEF ArgsKnown

(* ... behind n of them.                                                    *)
LEMMA ArgsNext ==
  ASSUME text \in Seq(STRING), NEW b \in 0..Len(text), NEW A, NEW o, ArgsAt(b, A, o),
         NEW n \in 1..Len(A), NEW g, g = Gap(o + Max(WordsAt(o)[n]) + 1),
         NEW B \in Seq(SUBSET Nat), Len(B) = Len(A) - n, \A k \in 1..Len(B) : B[k] = A[n + k]
  PROVE  ArgsAt(b, B, g)
<1>1. Len(text) \in Nat
  OBVIOUS
<1>2. PICK U : U = WordsAt(o)
  OBVIOUS
<1>3. PICK W : W = WordsAt(b)
  OBVIOUS
<1>4. PICK m \in Nat : Follows(b, m, o) /\ \A k \in 1..Len(A) : A[k] = W[m + k]
  BY <1>3 DEF ArgsAt
<1>5. ArgsKnown(b, A, o, U)
  BY <1>2, ArgsAre
<1>6. Len(A) \in Nat /\ Len(A) = Len(U) /\ b + Max(A[n]) = o + Max(U[n])
  BY <1>5 DEF ArgsKnown
<1>7. Len(W) = m + Len(U) /\ Len(W) \in Nat
  <2>1. Len(W) \in Nat
    BY <1>3, WordsAtIs
  <2>. QED
    BY <1>2, <1>3, <1>4, <2>1 DEF Follows
<1>8. PICK j : j = m + n
  OBVIOUS
<1>9. j \in 1..Len(W) /\ j \in Nat
  BY <1>4, <1>6, <1>7, <1>8
<1>10. g = Gap(b + Max(W[j]) + 1)
  <2>1. W[j] = A[n]
    BY <1>4, <1>8
  <2>. QED
    BY <1>2, <1>6, <2>1
<1>11. Follows(b, j, g) /\ Clean(g)
  BY <1>3, <1>9, <1>10, GapFollows
<1>12. Len(W) = j + Len(WordsAt(g)) /\ g \in 0..Len(text)
  BY <1>1, <1>3, <1>11 DEF Follows
<1>13. Len(WordsAt(g)) \in Nat
  BY <1>12, WordsAtIs
<1>14. Len(B) = Len(WordsAt(g)) /\ Len(B) \in Nat
  BY SMTT(30), <1>4, <1>6, <1>7, <1>8, <1>12, <1>13
<1>15. \A k \in 1..Len(B) : B[k] = W[j + k]
  <2>1. SUFFICES ASSUME NEW k \in 1..Len(B) PROVE B[k] = W[j + k]
    OBVIOUS
  <2>2. PICK x : x = n + k
    OBVIOUS
  <2>3. x \in 1..Len(A) /\ j + k = m + x
    BY <1>4, <1>6, <1>8, <1>14, <2>1, <2>2
  <2>. QED
    BY <1>4, <2>1, <2>2, <2>3
<1>. QED
  BY <1>3, <1>9, <1>11, <1>14, <1>15 DEF ArgsAt

LEMMA ArgsStart ==
  ASSUME text \in Seq(STRING), NEW b \in 0..Len(text), Clean(b), NEW W, W = WordsAt(b)
  PROVE  ArgsAt(b, W, b) /\ W \in Seq(SUBSET Nat)
<1>1. W \in Seq(SUBSET Nat) /\ Len(W) \in Nat
  BY WordsAtIs
<1>2. PICK z \in Nat : z = 0
  OBVIOUS
<1>3. Follows(b, z, b)
  BY <1>2, StartFollows
<1>4. \A k \in 1..Len(W) : W[k] = W[z + k]
  BY <1>1, <1>2
<1>. QED
  BY <1>1, <1>3, <1>4 DEF ArgsAt

(* ... behind the first word, that is the keyword.                          *)
LEMMA ArgsBehind ==
  ASSUME text \in Seq(STRING), NEW b \in 0..Len(text), NEW A, NEW o, ArgsAt(b, A, o),
         A # <<>>, NEW B, B = Tail(A), NEW g, g = Gap(o + Max(WordsAt(o)[1]) + 1)
  PROVE  ArgsAt(b, B, g)
<1>1. A \in Seq(SUBSET Nat) /\ Len(A) \in Nat /\ Len(A) >= 1
  BY DEF ArgsAt
<1>2. Tail(A) \in Seq(SUBSET Nat) /\ Len(Tail(A)) = Len(A) - 1
  BY <1>1
<1>3. \A k \in 1..Len(A) - 1 : Tail(A)[k] = A[k + 1]
  BY <1>1
<1>4. PICK n : n = 1
  OBVIOUS
<1>5. n \in 1..Len(A) /\ Len(B) = Len(A) - n /\ B \in Seq(SUBSET Nat)
  BY <1>1, <1>2, <1>4
<1>6. \A k \in 1..Len(B) : B[k] = A[n + k]
  BY <1>1, <1>2, <1>3, <1>4
<1>7. g = Gap(o + Max(WordsAt(o)[n]) + 1)
  BY <1>4
<1>. QED
  BY <1>5, <1>6, <1>7, ArgsNext

(* ... behind the flags.                                                    *)
LEMMA LeadingExists ==
  ASSUME NEW t, NEW U, Len(U) \in Nat
  PROVE  \E n \in 0..Len(U) : /\ \A k \in 1..n : IsFlag(t, U[k])
                              /\ n < Len(U) => ~IsFlag(t, U[n + 1])
<1>1. PICK l \in Nat : l = Len(U)
  OBVIOUS
<1>. DEFINE K == {n \in 0..l : \A k \in 1..n : IsFlag(t, U[k])}
<1>2. PICK n \in K : \A x \in K : x <= n
  <2>1. 0 \in K /\ K \in SUBSET (0..l)
    BY <1>1
  <2>. HIDE DEF K
  <2>. QED
    BY <1>1, <2>1, MaxIs
<1>3. n \in 0..l /\ \A k \in 1..n : IsFlag(t, U[k])
  BY <1>2
<1>4. n < l => ~IsFlag(t, U[n + 1])
  <2>1. SUFFICES ASSUME n < l, IsFlag(t, U[n + 1]) PROVE FALSE
    OBVIOUS
  <2>2. n + 1 \in 0..l /\ \A k \in 1..n + 1 : k \in 1..n \/ k = n + 1
    BY <1>1, <1>3, <2>1
  <2>3. n + 1 \in K
    BY <1>3, <2>1, <2>2
  <2>4. n + 1 <= n
    BY <1>2, <2>3
  <2>. QED
    BY <1>3, <2>4
<1>. QED
  BY <1>1, <1>3, <1>4

LEMMA PlainFromIs ==
  ASSUME NEW b, NEW A \in Seq(SUBSET Nat), NEW n \in 0..Len(A),
         \A k \in 1..n : IsFlag(Rest(b), A[k]),
         n < Len(A) => ~IsFlag(Rest(b), A[n + 1]),
         NEW B, B = PlainFrom(b, A)
  PROVE  /\ n = 0 => B = A
         /\ B \in Seq(SUBSET Nat) /\ Len(B) = Len(A) - n
         /\ \A k \in 1..Len(B) : B[k] = A[n + k]
<1>1. Len(A) \in Nat /\ DOMAIN A = 1..Len(A) /\ n \in Nat
  OBVIOUS
<1>2. PICK K : K = {k \in DOMAIN A : \A j \in 1..k : IsFlag(Rest(b), A[j])}
  OBVIOUS
<1>3. K = 1..n
  <2>1. ASSUME NEW k \in 1..n PROVE k \in K
    <3>1. k \in 1..Len(A) /\ \A j \in 1..k : j \in 1..n
      BY <1>1
    <3>. QED
      BY <1>1, <1>2, <3>1
  <2>2. ASSUME NEW k \in K PROVE k \in 1..n
    <3>1. k \in 1..Len(A) /\ \A j \in 1..k : IsFlag(Rest(b), A[j])
      BY <1>1, <1>2
    <3>2. n < k => n + 1 \in 1..k /\ n < Len(A)
      BY <1>1, <3>1
    <3>. QED
      BY <1>1, <3>1, <3>2
  <2>. QED
    BY <2>1, <2>2
<1>4. Cardinality(K) = n
  BY <1>1, <1>3, FS_Interval
<1>5. B = SubSeq(A, n + 1, Len(A))
  BY <1>2, <1>4 DEF PlainFrom
<1>6. PICK m \in 1..Len(A) + 1 : m = n + 1
  BY <1>1
<1>7. /\ B \in Seq(SUBSET Nat) /\ Len(B) = Len(A) - n
      /\ \A k \in 1..Len(A) - n : B[k] = A[n + k]
  <2>1. PICK l \in Nat : l = Len(A)
    BY <1>1
  <2>2. B = SubSeq(A, m, l)
    BY <1>5, <1>6, <2>1
  <2>3. m \in Nat /\ m <= l + 1 /\ 1 <= m /\ l - m + 1 = l - n
    BY <1>1, <1>6, <2>1
  <2>4. /\ B \in Seq(SUBSET Nat)
        /\ Len(B) = IF m <= l THEN l - m + 1 ELSE 0
        /\ \A i \in 1..l - m + 1 : B[i] = A[m + i - 1]
    <3>1. m \in Int /\ l \in Int
      BY <2>1, <2>3
    <3>2. \A i \in m..l : A[i] \in SUBSET Nat
      BY <1>1, <2>1, <2>3
    <3>. QED
      BY <2>2, <3>1, <3>2, SubSeqProperties
  <2>5. Len(B) = l - n
    <3>1. n \in Nat /\ n <= l /\ m = n + 1
      BY <1>1, <1>6, <2>1
    <3>2. CASE m <= l
      BY <2>3, <2>4, <3>2
    <3>3. CASE ~(m <= l)
      <4>1. l - n = 0
        BY <2>1, <3>1, <3>3
      <4>. QED
        BY <2>4, <3>3, <4>1
    <3>. QED
      BY <3>2, <3>3
  <2>6. \A k \in 1..l - n : m + k - 1 = n + k
    BY <1>1, <1>6, <2>1
  <2>. QED
    BY <2>1, <2>3, <2>4, <2>5, <2>6
<1>8. n = 0 => B = A
  BY <1>1, <1>5
<1>. QED
  BY <1>7, <1>8

LEMMA ArgsFlags ==
  ASSUME text \in Seq(STRING), NEW b \in 0..Len(text), NEW A, NEW o, ArgsAt(b, A, o),
         NEW B, B = PlainFrom(b, A), NEW g, g = PastFlags(o)
  PROVE  ArgsAt(b, B, g)
<1>1. PICK U : U = WordsAt(o)
  OBVIOUS
<1>2. ArgsKnown(b, A, o, U)
  BY <1>1, ArgsAre
<1>3. /\ o \in b..Len(text) /\ o \in 0..Len(text) /\ Len(A) \in Nat /\ Len(A) = Len(U)
      /\ \A k \in 1..Len(A) : /\ A[k] = Shift(U[k], o - b)
                              /\ U[k] \in SUBSET Nat /\ \A x \in U[k] : o + x < Len(text)
  BY <1>2 DEF ArgsKnown
<1>4. A \in Seq(SUBSET Nat)
  BY DEF ArgsAt
<1>5. PICK t : t = Rest(o)
  OBVIOUS
<1>6. PICK n \in 0..Len(U) : /\ \A k \in 1..n : IsFlag(t, U[k])
                             /\ n < Len(U) => ~IsFlag(t, U[n + 1])
  <2>1. Len(U) \in Nat
    BY <1>3
  <2>. QED
    BY <2>1, LeadingExists
<1>7. ASSUME NEW k \in 1..Len(A) PROVE IsFlag(Rest(b), A[k]) <=> IsFlag(t, U[k])
  <2>1. PICK u \in SUBSET Nat : u = U[k]
    BY <1>3
  <2>2. PICK v : v = A[k]
    OBVIOUS
  <2>3. v = Shift(u, o - b) /\ \A x \in u : o + x < Len(text)
    BY <1>3, <2>1, <2>2
  <2>4. IsFlag(Rest(b), v) <=> IsFlag(Rest(o), u)
    BY <1>3, <2>3, FlagShift
  <2>. QED
    BY <1>5, <2>1, <2>2, <2>4
<1>8. /\ n \in 0..Len(A) /\ \A k \in 1..n : IsFlag(Rest(b), A[k])
      /\ n < Len(A) => ~IsFlag(Rest(b), A[n + 1])
  <2>1. n \in 0..Len(A) /\ \A k \in 1..n : k \in 1..Len(A)
    BY <1>3
  <2>2. n < Len(A) => n + 1 \in 1..Len(A) /\ n < Len(U)
    BY <1>3, <2>1
  <2>3. \A k \in 1..n : IsFlag(Rest(b), A[k])
    BY <1>6, <1>7, <2>1
  <2>4. n < Len(A) => ~IsFlag(Rest(b), A[n + 1])
    BY <1>6, <1>7, <2>2
  <2>. QED
    BY <2>1, <2>3, <2>4
<1>9. /\ n = 0 => B = A
      /\ B \in Seq(SUBSET Nat) /\ Len(B) = Len(A) - n
      /\ \A k \in 1..Len(B) : B[k] = A[n + k]
  BY <1>4, <1>8, PlainFromIs
<1>10. PICK flags : flags = FlagWords(t)
  OBVIOUS
<1>11. /\ flags \in Seq(SUBSET Nat) /\ Len(flags) = n
       /\ \A k \in 1..n : flags[k] = U[k]
  <2>1. U = InOrder(LineWords(t))
    BY <1>1, <1>5 DEF WordsAt
  <2>2. flags = LeadingFlags(t, U)
    BY <1>10, <2>1 DEF FlagWords
  <2>3. U \in Seq(SUBSET Nat)
    BY <1>1, <1>3, WordsAtIs
  <2>. QED
    <3>1. n \in 0..Len(U) /\ \A k \in 1..n : IsFlag(t, U[k])
      BY <1>6
    <3>2. n < Len(U) => ~IsFlag(t, U[n + 1])
      BY <1>6
    <3>. QED
      BY <2>2, <2>3, <3>1, <3>2, LeadingFlagsAre
<1>12. g = IF flags = <<>> THEN o ELSE Gap(o + Max(Last(flags)) + 1)
  BY <1>5, <1>10 DEF PastFlags
<1>13. CASE n = 0
  <2>1. flags = <<>>
    BY <1>11, <1>13
  <2>. QED
    BY <1>9, <1>12, <1>13, <2>1
<1>14. CASE n # 0
  <2>1. flags # <<>> /\ n \in 1..Len(A)
    BY <1>8, <1>11, <1>14
  <2>2. Last(flags) = U[n]
    BY <1>11, <2>1 DEF Last
  <2>3. g = Gap(o + Max(WordsAt(o)[n]) + 1)
    BY <1>1, <1>12, <2>1, <2>2
  <2>. QED
    <3>1. B \in Seq(SUBSET Nat) /\ Len(B) = Len(A) - n
      BY <1>9
    <3>2. \A k \in 1..Len(B) : B[k] = A[n + k]
      BY <1>9
    <3>3. n \in 1..Len(A)
      BY <2>1
    <3>. QED
      BY ZenonT(60), <2>3, <3>1, <3>2, <3>3, ArgsNext
<1>. QED
  BY <1>13, <1>14

-----------------------------------------------------------------------------
(* is_maybe_json: nothing else is an array.                                 *)
LEMMA NoArrayIs ==
  ASSUME NEW line, NEW n \in Nat, Len(line) = n, DOMAIN line = 1..n, n >= 1,
         text[line[1] + 1] \notin Whitespace,
         text[line[1] + 1] = "open" => n >= 2 /\ text[line[2] + 1] = "open",
         NEW q \in Seq(Nat), Spells(q, Array!Unescaped(line, "quote"))
  PROVE  ~Array!IsArray(line, q)
<1>1. SUFFICES ASSUME Array!IsArray(line, q) PROVE FALSE
  OBVIOUS
<1>2. \A k : Array!Byte(line, k) = text[line[k] + 1]
  BY DEF Array!Byte
<1>3. \A i, j : Array!Around(line, i, j) = {k \in i + 1..j - 1 : text[line[k] + 1] \notin Whitespace}
  BY <1>2 DEF Array!Around, Array!Whitespace, Whitespace
<1>4. 1 \in 1..n
  OBVIOUS
<1>5. "open" \notin Whitespace /\ "open" # "close" /\ "open" # "quote"
  BY DEF Whitespace
<1>6. CASE q = <<>>
  <2>1. PICK k \in 1..n, m \in 1..n :
          /\ k < m /\ text[line[k] + 1] = "open" /\ text[line[m] + 1] = "close"
          /\ Array!Around(line, 0, n + 1) = {k, m}
    BY <1>1, <1>2, <1>6 DEF Array!IsArray
  <2>2. 1 \in Array!Around(line, 0, n + 1)
    <3>1. 1 \in 0 + 1..(n + 1) - 1
      BY <1>4
    <3>. QED
      BY <1>3, <3>1
  <2>3. k = 1
    BY <2>1, <2>2
  <2>4. n >= 2 /\ text[line[2] + 1] = "open"
    BY <2>1, <2>3
  <2>5. 2 \in Array!Around(line, 0, n + 1)
    <3>1. 2 \in 0 + 1..(n + 1) - 1
      BY <2>4
    <3>. QED
      BY <1>3, <1>5, <2>4, <3>1
  <2>6. m = 2
    BY <2>1, <2>3, <2>5
  <2>. QED
    BY <1>5, <2>1, <2>4, <2>6
<1>7. CASE q # <<>>
  <2>1. Array!Only(line, 0, q[1], "open")
    BY <1>1, <1>7 DEF Array!IsArray
  <2>2. PICK e \in Nat : e = q[1]
    BY <1>7
  <2>3. PICK k \in 0 + 1..e - 1 : text[line[k] + 1] = "open" /\ Array!Around(line, 0, e) = {k}
    BY <1>2, <2>1, <2>2 DEF Array!Only
  <2>4. 1 \in 0 + 1..e - 1
    BY <2>2, <2>3
  <2>5. 1 \in Array!Around(line, 0, e)
    BY <1>3, <2>4
  <2>6. k = 1
    BY <2>3, <2>5
  <2>7. n >= 2 /\ text[line[2] + 1] = "open"
    BY <2>3, <2>6
  <2>8. e # 2
    <3>1. q[1] \in Array!Unescaped(line, "quote")
      <4>1. 1 \in DOMAIN q
        BY <1>7
      <4>. QED
        BY <4>1 DEF Spells
    <3>2. text[line[e] + 1] = "quote"
      BY <1>2, <2>2, <3>1 DEF Array!Unescaped
    <3>. QED
      BY <1>5, <2>7, <3>2
  <2>9. 2 \in 0 + 1..e - 1
    BY <2>2, <2>4, <2>8
  <2>10. 2 \in Array!Around(line, 0, e)
    BY <1>3, <1>5, <2>7, <2>9
  <2>. QED
    BY <2>3, <2>6, <2>10
<1>. QED
  BY <1>6, <1>7

LEMMA NotAnArray ==
  ASSUME text \in Inputs, NEW o \in 0..Len(text), Clean(o), ~Over(o), ~MaybeJson(o)
  PROVE  ArrayAt(o) = NoArray
<1>1. text \in Seq(STRING) /\ Len(text) \in Nat
  BY TextIs
<1>2. PICK u : u = Rest(o)
  OBVIOUS
<1>3. PICK p : p = Ordered(Bytes(u), Len(u))
  OBVIOUS
<1>4. Len(u) \in Nat /\ Len(u) = Len(text) - o /\ \A x \in 0..Len(u) - 1 : Belongs(u, x) <=> Held(o, o + x)
  BY <1>1, <1>2, RestHeld
<1>5. /\ p \in Seq(Nat) /\ Spells(p, Bytes(u))
      /\ \A x : x \in Bytes(u) <=> x \in 0..Len(u) - 1 /\ Held(o, o + x)
  <2>1. Bytes(u) \in SUBSET (0..Len(u) - 1)
    BY DEF Bytes
  <2>2. p \in Seq(Nat) /\ Spells(p, Bytes(u))
    <3>1. PICK l \in Nat : l = Len(u)
      BY <1>4
    <3>. QED
      BY <1>3, <2>1, <3>1, OrderedSpells
  <2>3. \A x : x \in Bytes(u) <=> x \in 0..Len(u) - 1 /\ Belongs(u, x)
    BY DEF Bytes, Belongs
  <2>. QED
    BY <1>4, <2>2, <2>3
<1>6. /\ o < Len(text) /\ On(o, o) /\ Held(o, o) /\ text[o + 1] \notin Whitespace
      /\ text[o + 1] # "lf"
  <2>1. On(o, o)
    BY <1>1, OnStart
  <2>2. o \in o..Len(text)
    BY <1>1
  <2>3. o < Len(text) /\ Held(o, o) /\ text[o + 1] \notin Whitespace
    BY <1>1, <2>1, <2>2, CleanIs
  <2>4. text[o + 1] # "lf"
    BY <2>3 DEF Over, At
  <2>. QED
    BY <2>1, <2>3, <2>4
<1>7. PICK l \in Nat : l = Len(p) /\ DOMAIN p = 1..l
  BY <1>5
<1>8. /\ \A j, k \in 1..l : j < k => p[j] < p[k]
      /\ \A x : x \in Bytes(u) <=> \E k \in 1..l : p[k] = x
      /\ \A k \in 1..l : p[k] \in Nat
  <2>1. p \in Seq(Nat) /\ \A j, k \in 1..l : j < k => p[j] < p[k]
    BY <1>5, <1>7 DEF Spells
  <2>2. {p[k] : k \in 1..l} = Bytes(u)
    BY <1>5, <1>7 DEF Spells
  <2>3. \A x : x \in Bytes(u) <=> \E k \in 1..l : p[k] = x
    BY <2>2
  <2>4. \A k \in 1..l : p[k] \in Nat
    BY <1>7, <2>1
  <2>. QED
    BY <2>1, <2>3, <2>4
<1>9. l >= 1 /\ p[1] = 0
  <2>1. 0 \in Bytes(u)
    <3>1. 0 \in 0..Len(u) - 1
      BY <1>1, <1>4, <1>6
    <3>2. o + 0 = o
      OBVIOUS
    <3>. QED
      BY <1>5, <1>6, <3>1, <3>2
  <2>2. PICK k \in 1..l : p[k] = 0
    BY <1>8, <2>1
  <2>3. 1 \in 1..l
    BY <2>2
  <2>4. 1 < k => FALSE
    BY <1>8, <2>2, <2>3
  <2>. QED
    BY <2>2, <2>3, <2>4
<1>10. PICK line : line = [k \in DOMAIN p |-> o + p[k]]
  OBVIOUS
<1>11. DOMAIN line = 1..l /\ Len(line) = l /\ \A k \in 1..l : line[k] = o + p[k]
  <2>1. DOMAIN line = 1..l /\ \A k \in 1..l : line[k] = o + p[k]
    BY <1>7, <1>10
  <2>2. Len(line) = l
    BY <1>7, <1>10
  <2>. QED
    BY <2>1, <2>2
<1>12. line[1] = o
  BY <1>9, <1>11
<1>13. ASSUME text[o + 1] = "open"
       PROVE  l >= 2 /\ text[line[2] + 1] = "open"
  <2>1. o + 1 < Len(text) /\ text[o + 2] = "open"
    BY <1>6, <1>13 DEF MaybeJson, At
  <2>2. PICK x : x = o + 1
    OBVIOUS
  <2>3. On(o, x) /\ x \in o..Len(text)
    <3>1. ~Continues(text, o) /\ o \in o..Len(text)
      BY <1>1 DEF Clean
    <3>. QED
      BY <1>1, <1>6, <2>2, <3>1, OnByte
  <2>4. x < Len(text) /\ text[x + 1] = "open"
    BY <2>1, <2>2
  <2>5. ~Continues(text, x)
    <3>1. x \in 0..Len(text)
      BY <1>1, <2>3
    <3>2. ~At(text, x, {"esc"})
      BY <2>4 DEF At
    <3>. QED
      BY <1>1, <3>1, <3>2, ContinuationAdvances
  <2>6. Held(o, x)
    <3>1. text[x + 1] # "lf"
      BY <2>4
    <3>. QED
      BY <1>1, <2>3, <2>4, <2>5, <3>1, OnByte
  <2>7. 1 \in Bytes(u)
    <3>1. 1 \in 0..Len(u) - 1 /\ o + 1 = x
      BY <1>1, <1>4, <2>1, <2>2
    <3>. QED
      BY <1>5, <2>6, <3>1
  <2>8. PICK k \in 1..l : p[k] = 1
    BY <1>8, <2>7
  <2>9. k # 1
    BY <1>9, <2>8
  <2>10. l >= 2 /\ 2 \in 1..l /\ 1 \in 1..l
    BY <1>7, <2>8, <2>9
  <2>11. p[2] > 0 /\ p[2] \in Nat
    BY <1>8, <1>9, <2>10
  <2>12. 2 < k => FALSE
    BY <1>8, <2>8, <2>10, <2>11
  <2>13. p[2] = 1
    BY <2>8, <2>9, <2>12
  <2>. QED
    BY <1>11, <2>2, <2>4, <2>10, <2>13
<1>14. PICK Q : Q = Array!Unescaped(line, "quote")
  OBVIOUS
<1>15. PICK q : q = Ordered(Q, Len(line) + 1)
  OBVIOUS
<1>16. q \in Seq(Nat) /\ Spells(q, Q)
  <2>1. PICK j \in Nat : j = Len(line) + 1
    BY <1>11
  <2>2. Q \in SUBSET (0..j - 1)
    BY <1>11, <1>14, <2>1 DEF Array!Unescaped
  <2>. QED
    BY <1>15, <2>1, <2>2, OrderedSpells
<1>17. ~Array!IsArray(line, q)
  <2>1. text[line[1] + 1] \notin Whitespace
    BY <1>6, <1>12
  <2>2. text[line[1] + 1] = "open" => l >= 2 /\ text[line[2] + 1] = "open"
    BY <1>12, <1>13
  <2>. QED
    BY <1>9, <1>11, <1>14, <1>16, <2>1, <2>2, NoArrayIs
<1>18. PICK markers : markers = {o + m : m \in Markers(u)}
  OBVIOUS
<1>19. ArrayAt(o) = StringsOf(line, q, markers)
  <2>1. PICK M : M = Markers(u)
    OBVIOUS
  <2>2. ArrayAt(o) = ArrayOf(o, p, M)
    BY <1>2, <1>3, <2>1 DEF ArrayAt
  <2>3. ArrayOf(o, p, M) = StringsIn(line, markers)
    BY <1>10, <1>18, <2>1 DEF ArrayOf
  <2>4. StringsIn(line, markers) = StringsOf(line, q, markers)
    BY <1>14, <1>15 DEF StringsIn
  <2>. QED
    BY <2>2, <2>3, <2>4
<1>. QED
  BY <1>17, <1>19 DEF StringsOf, Array!IsRead

-----------------------------------------------------------------------------
(* Where the next instruction starts: k is one of its bytes that count.     *)
Counted(t, k) ==
  /\ k \in 0..Len(t) - 1 /\ t[k + 1] \notin Whitespace \cup {"lf"}
  /\ ~Comment(t, LineOf(t, k)) /\ ~Marker(t, LineOf(t, k), k)

(* The scan has passed nothing that counts, and only whitespace of its line. *)
Passed(t, x) ==
  /\ x \in 0..Len(t)
  /\ x = Len(t) \/ \A k \in LineOf(t, x)..x - 1 : t[k + 1] \in Whitespace
  /\ \A k \in 0..x - 1 : ~Counted(t, k)

LEMMA LineStartIs ==
  ASSUME NEW t, Len(t) \in Nat, NEW x \in 0..Len(t), x \in Lines(t)
  PROVE  \A k : k \notin LineOf(t, x)..x - 1
<1>1. \A j : j \notin x..x - 1
  OBVIOUS
<1>2. LineOf(t, x) = x
  BY <1>1, LineOfAt
<1>. QED
  BY <1>1, <1>2

LEMMA PassedStart ==
  ASSUME NEW t, Len(t) \in Nat
  PROVE  Passed(t, 0)
<1>1. 0 \in Lines(t) /\ 0 \in 0..Len(t)
  BY DEF Lines
<1>2. \A k : k \notin LineOf(t, 0)..0 - 1
  <2>1. PICK z : z = 0
    OBVIOUS
  <2>2. z \in 0..Len(t) /\ z \in Lines(t)
    BY <1>1, <2>1
  <2>3. \A k : k \notin LineOf(t, z)..z - 1
    BY <2>2, LineStartIs
  <2>. QED
    BY <2>1, <2>3
<1>3. \A k : k \notin 0..0 - 1
  OBVIOUS
<1>. QED
  BY <1>1, <1>2, <1>3 DEF Passed

LEMMA PassedBlank ==
  ASSUME NEW t, Len(t) \in Nat, NEW x, Passed(t, x), At(t, x, Whitespace \cup {"lf"}),
         NEW y, y = x + 1
  PROVE  Passed(t, y)
<1>1. x \in 0..Len(t) - 1 /\ t[x + 1] \in Whitespace \cup {"lf"} /\ y \in 0..Len(t)
      /\ x \in 0..Len(t) /\ y \in 1..Len(t)
  BY DEF Passed, At
<1>2. \A k \in 0..y - 1 : ~Counted(t, k)
  <2>1. \A k \in 0..y - 1 : k \in 0..x - 1 \/ k = x
    BY <1>1
  <2>2. ~Counted(t, x)
    BY <1>1 DEF Counted
  <2>. QED
    BY <2>1, <2>2 DEF Passed
<1>3. CASE t[x + 1] = "lf"
  <2>1. y \in Lines(t)
    BY <1>1, <1>3 DEF Lines
  <2>2. \A k : k \notin LineOf(t, y)..y - 1
    BY <1>1, <2>1, LineStartIs
  <2>. QED
    BY <1>1, <1>2, <2>2 DEF Passed
<1>4. CASE t[x + 1] # "lf"
  <2>1. PICK l : l = LineOf(t, x)
    OBVIOUS
  <2>2. l \in Lines(t) /\ l \in 0..x /\ \A j \in l..x - 1 : t[j + 1] # "lf"
    BY <1>1, <2>1, LineOfIs
  <2>3. l <= y /\ \A j \in l..y - 1 : j \in l..x - 1 \/ j = x
    BY <1>1, <2>2
  <2>4. LineOf(t, y) = l
    BY <1>1, <1>4, <2>2, <2>3, LineOfAt
  <2>5. \A k \in l..x - 1 : t[k + 1] \in Whitespace
    BY <1>1, <2>1 DEF Passed
  <2>6. \A k \in l..y - 1 : t[k + 1] \in Whitespace
    BY <1>1, <1>4, <2>3, <2>5
  <2>. QED
    BY <1>1, <1>2, <2>4, <2>6 DEF Passed
<1>. QED
  BY <1>3, <1>4

LEMMA PassedComment ==
  ASSUME NEW t, Len(t) \in Nat, NEW x, Passed(t, x), At(t, x, {"hash"}),
         NEW y \in x + 1..Len(t), y = Len(t) \/ t[y] = "lf",
         \A k \in x + 1..y - 2 : t[k + 1] # "lf"
  PROVE  Passed(t, y)
<1>1. x \in 0..Len(t) - 1 /\ t[x + 1] = "hash" /\ y \in 0..Len(t) /\ x \in 0..Len(t)
  BY DEF Passed, At
<1>2. PICK l : l = LineOf(t, x)
  OBVIOUS
<1>3. l \in Lines(t) /\ l \in 0..x /\ l \in 0..Len(t) /\ \A j \in l..x - 1 : t[j + 1] # "lf"
  BY <1>1, <1>2, LineOfIs
<1>4. Comment(t, l)
  <2>1. PICK e : e = EndOf(t, l)
    OBVIOUS
  <2>2. e \in l..Len(t) /\ (e < Len(t) => t[e + 1] = "lf")
    BY <1>3, <2>1, EndOfIs
  <2>3. e # x /\ (e < x => e \in l..x - 1 /\ e < Len(t))
    BY <1>1, <1>3, <2>2
  <2>4. x \in l..e - 1
    BY <1>1, <1>3, <2>2, <2>3
  <2>5. \A j \in l..x - 1 : t[j + 1] \in Whitespace
    BY <1>1, <1>2 DEF Passed
  <2>. QED
    BY <1>1, <2>1, <2>4, <2>5 DEF Comment
<1>5. \A k \in x..y - 1 : ~Counted(t, k)
  <2>1. SUFFICES ASSUME NEW k \in x..y - 1, t[k + 1] # "lf" PROVE ~Counted(t, k)
    BY DEF Counted
  <2>2. k \in 0..Len(t) /\ l <= k
    BY <1>1, <1>3
  <2>3. \A j \in l..k - 1 : j \in l..x - 1 \/ j = x \/ j \in x + 1..y - 2
    BY <1>1, <1>3
  <2>4. \A j \in l..k - 1 : t[j + 1] # "lf"
    BY <1>1, <1>3, <2>3
  <2>5. LineOf(t, k) = l
    BY <1>3, <2>2, <2>4, LineOfAt
  <2>. QED
    BY <1>4, <2>5 DEF Counted
<1>6. \A k \in 0..y - 1 : ~Counted(t, k)
  <2>1. \A k \in 0..y - 1 : k \in 0..x - 1 \/ k \in x..y - 1
    BY <1>1
  <2>. QED
    BY <1>5, <2>1 DEF Passed
<1>7. CASE y = Len(t)
  BY <1>1, <1>6, <1>7 DEF Passed
<1>8. CASE t[y] = "lf"
  <2>1. y \in Lines(t)
    BY <1>1, <1>8 DEF Lines
  <2>2. \A k : k \notin LineOf(t, y)..y - 1
    BY <1>1, <2>1, LineStartIs
  <2>. QED
    BY <1>1, <1>6, <2>2 DEF Passed
<1>. QED
  BY <1>7, <1>8

LEMMA PassedContinued ==
  ASSUME NEW t, Len(t) \in Nat, NEW x, Passed(t, x), Continues(t, x),
         NEW y, y = Continuation(t, x)
  PROVE  Passed(t, y)
<1>1. x \in 0..Len(t)
  BY DEF Passed
<1>2. PICK l : l = LineOf(t, x)
  OBVIOUS
<1>3. l \in Lines(t) /\ l \in 0..x /\ l \in 0..Len(t) /\ \A j \in l..x - 1 : t[j + 1] # "lf"
  BY <1>1, <1>2, LineOfIs
<1>4. PICK e : e = EndOf(t, l)
  OBVIOUS
<1>5. e \in l..Len(t) /\ (e < Len(t) => t[e + 1] = "lf") /\ \A j \in l..e - 1 : t[j + 1] # "lf"
  BY <1>3, <1>4, EndOfIs
<1>6. Marker(t, l, x) /\ e < Len(t) /\ x < e /\ y = Followup(t, e + 1)
  BY <1>1, <1>3, <1>4, ContinuesIs
<1>7. PICK f : f = e + 1
  OBVIOUS
<1>8. f \in 0..Len(t) /\ f \in Lines(t)
  <2>1. f \in 1..Len(t) /\ t[f] = "lf"
    BY <1>3, <1>5, <1>6, <1>7
  <2>. QED
    BY <2>1 DEF Lines
<1>9. /\ y \in LineStarts(t, f) /\ y \in f..Len(t)
      /\ \A k \in LineStarts(t, f) : k < y => Skipped(t, k)
  BY <1>6, <1>7, <1>8, FollowupStops
<1>10. \A k \in x..e : ~Counted(t, k)
  <2>1. SUFFICES ASSUME NEW k \in x..e PROVE ~Counted(t, k)
    OBVIOUS
  <2>2. CASE k = x
    BY <1>2, <1>6, <2>2 DEF Counted
  <2>3. CASE k = e
    BY <1>5, <1>6, <2>3 DEF Counted
  <2>4. CASE k \in x + 1..e - 1
    <3>1. t[k + 1] \in RestOf(t, l, x + 1)
      BY <1>4, <2>4 DEF RestOf
    <3>2. t[k + 1] \in Whitespace
      BY <1>6, <3>1 DEF Marker
    <3>. QED
      BY <3>2 DEF Counted
  <2>. QED
    BY <1>1, <1>5, <1>6, <2>2, <2>3, <2>4
<1>11. \A k \in f..y - 1 : ~Counted(t, k)
  <2>1. SUFFICES ASSUME NEW k \in f..y - 1 PROVE ~Counted(t, k)
    OBVIOUS
  <2>2. k \in 0..Len(t) /\ k < Len(t)
    BY <1>8, <1>9
  <2>3. PICK m : m = LineOf(t, k)
    OBVIOUS
  <2>4. /\ m \in Lines(t) /\ m \in 0..k /\ \A j \in m..k - 1 : t[j + 1] # "lf"
        /\ \A n \in Lines(t) : n <= k => n <= m
    BY <2>2, <2>3, LineOfIs
  <2>5. f <= m /\ m < y /\ m \in 0..Len(t)
    BY <1>8, <1>9, <2>2, <2>4
  <2>6. m \in LineStarts(t, f)
    <3>1. m = f \/ (m \in f + 1..Len(t) /\ t[m] = "lf")
      BY <1>8, <2>4, <2>5 DEF Lines
    <3>. QED
      BY <3>1 DEF LineStarts
  <2>7. Blank(t, m) \/ Comment(t, m)
    BY <1>9, <2>5, <2>6, SkippedIs
  <2>8. CASE Comment(t, m)
    BY <2>3, <2>8 DEF Counted
  <2>9. CASE Blank(t, m)
    <3>1. PICK d : d = EndOf(t, m)
      OBVIOUS
    <3>2. d \in m..Len(t) /\ (d < Len(t) => t[d + 1] = "lf")
      BY <2>5, <3>1, EndOfIs
    <3>3. d < Len(t) /\ RestOf(t, m, m) \subseteq Whitespace
      BY <2>9, <3>1 DEF Blank, Terminated
    <3>4. ~(d \in m..k - 1)
      BY <2>4, <3>2, <3>3
    <3>5. k = d \/ k \in m..d - 1
      BY <2>2, <2>4, <3>2, <3>4
    <3>6. CASE k = d
      BY <3>2, <3>3, <3>6 DEF Counted
    <3>7. CASE k \in m..d - 1
      <4>1. t[k + 1] \in RestOf(t, m, m)
        BY <3>1, <3>7 DEF RestOf
      <4>. QED
        BY <3>3, <4>1 DEF Counted
    <3>. QED
      BY <3>5, <3>6, <3>7
  <2>. QED
    BY <2>7, <2>8, <2>9
<1>12. \A k \in 0..y - 1 : ~Counted(t, k)
  <2>1. \A k \in 0..y - 1 : k \in 0..x - 1 \/ k \in x..e \/ k \in f..y - 1
    BY <1>1, <1>5, <1>7, <1>8, <1>9
  <2>. QED
    BY <1>10, <1>11, <2>1 DEF Passed
<1>13. y \in 0..Len(t)
  BY <1>8, <1>9
<1>14. CASE y = Len(t)
  BY <1>12, <1>13, <1>14 DEF Passed
<1>15. CASE y # Len(t)
  <2>1. y \in Lines(t)
    <3>1. y = f \/ (y \in f + 1..Len(t) /\ t[y] = "lf")
      BY <1>9, <1>15 DEF LineStarts
    <3>. QED
      BY <1>8, <3>1 DEF Lines
  <2>2. \A k : k \notin LineOf(t, y)..y - 1
    BY <1>13, <2>1, LineStartIs
  <2>. QED
    BY <1>12, <1>13, <2>2 DEF Passed
<1>. QED
  BY <1>14, <1>15

LEMMA PassedEnd ==
  ASSUME NEW t, Len(t) \in Nat, NEW x, Passed(t, x), x < Len(t),
         ~At(t, x, Whitespace \cup {"lf"}), ~At(t, x, {"hash"}), ~Continues(t, x)
  PROVE  Counted(t, x)
<1>1. /\ x \in 0..Len(t) /\ x \in 0..Len(t) - 1 /\ t[x + 1] \notin Whitespace \cup {"lf"}
      /\ t[x + 1] # "hash"
  BY DEF Passed, At
<1>2. PICK l : l = LineOf(t, x)
  OBVIOUS
<1>3. l \in Lines(t) /\ l \in 0..x /\ l \in 0..Len(t) /\ \A j \in l..x - 1 : t[j + 1] # "lf"
  BY <1>1, <1>2, LineOfIs
<1>4. \A j \in l..x - 1 : t[j + 1] \in Whitespace
  BY <1>1, <1>2 DEF Passed
<1>5. ~Marker(t, l, x)
  BY <1>1, <1>3, ContinuesIs
<1>6. ~Comment(t, l)
  <2>1. SUFFICES ASSUME Comment(t, l) PROVE FALSE
    OBVIOUS
  <2>2. PICK i \in l..EndOf(t, l) - 1 :
          t[i + 1] = "hash" /\ \A j \in l..i - 1 : t[j + 1] \in Whitespace
    BY <2>1 DEF Comment
  <2>3. EndOf(t, l) \in l..Len(t)
    BY <1>3, EndOfIs
  <2>4. i \in l..x - 1 \/ i = x \/ x \in l..i - 1
    BY <1>1, <1>3, <2>3
  <2>5. "hash" \notin Whitespace
    BY DEF Whitespace
  <2>. QED
    BY <1>1, <1>4, <2>2, <2>4, <2>5
<1>. QED
  BY <1>1, <1>2, <1>5, <1>6 DEF Counted

NextStep ==
  [j \in 0..Len(text) |->
     IF At(text, j, Whitespace \cup PossibleLine) THEN j + 1
     ELSE IF At(text, j, {"hash"}) THEN NextLine(text, j + 1)
     ELSE Continuation(text, j)]

LEMMA NextSteps ==
  ASSUME Len(text) \in Nat, NEW j \in 0..Len(text), NEW k, k = NextStep[j]
  PROVE  /\ k \in j..Len(text)
         /\ \/ At(text, j, Whitespace \cup {"lf"}) /\ k = j + 1
            \/ At(text, j, {"hash"}) /\ k = NextLine(text, j + 1) /\ k # j
            \/ Continues(text, j) /\ k = Continuation(text, j) /\ k # j
            \/ /\ ~At(text, j, Whitespace \cup {"lf"}) /\ ~At(text, j, {"hash"})
               /\ ~Continues(text, j) /\ k = j
<1>1. Whitespace \cup PossibleLine = Whitespace \cup {"lf"}
  BY DEF Whitespace, PossibleLine
<1>2. NextStep[j] = IF At(text, j, Whitespace \cup {"lf"}) THEN j + 1
                    ELSE IF At(text, j, {"hash"}) THEN NextLine(text, j + 1)
                    ELSE Continuation(text, j)
  BY <1>1 DEF NextStep
<1>3. \A C : At(text, j, C) => j + 1 \in 0..Len(text)
  BY DEF At
<1>4. CASE At(text, j, Whitespace \cup {"lf"})
  BY <1>2, <1>3, <1>4
<1>5. CASE ~At(text, j, Whitespace \cup {"lf"}) /\ At(text, j, {"hash"})
  <2>1. PICK i \in 0..Len(text) : i = j + 1
    BY <1>3, <1>5
  <2>2. NextLine(text, i) \in i..Len(text)
    BY NextLineIs
  <2>. QED
    BY <1>2, <1>5, <2>1, <2>2
<1>6. CASE ~At(text, j, Whitespace \cup {"lf"}) /\ ~At(text, j, {"hash"})
  <2>1. Continuation(text, j) \in j..Len(text)
    BY ContinuationAdvances
  <2>. QED
    BY <1>2, <1>6, <2>1 DEF Continues
<1>. QED
  BY <1>4, <1>5, <1>6

LEMMA NextPassed ==
  ASSUME text \in Seq(STRING), NEW b \in 0..Len(text), NEW u, u = Rest(b),
         NEW x \in b..Len(text), Passed(u, x - b), NEW y, y = NextStep[x]
  PROVE  y \in b..Len(text) /\ Passed(u, y - b)
<1>1. /\ Len(text) \in Nat /\ Len(u) = Len(text) - b /\ Len(u) \in Nat
      /\ \A z \in b..Len(text) - 1 : u[(z - b) + 1] = text[z + 1]
      /\ \A C : At(u, x - b, C) <=> At(text, x, C)
      /\ x - b \in 0..Len(u) /\ x \in 0..Len(text)
  <2>1. /\ u = Left(text, b) /\ Len(text) \in Nat /\ Len(u) = Len(text) - b /\ Len(u) \in Nat
        /\ \A z \in b..Len(text) - 1 : u[(z - b) + 1] = text[z + 1]
        /\ \A z \in b..Len(text) : \A C : At(u, z - b, C) <=> At(text, z, C)
        /\ \A z \in b..Len(text) : z - b \in 0..Len(u) /\ z = b + (z - b) /\ z \in 0..Len(text)
        /\ \A i \in 0..Len(u) : b + i \in b..Len(text) /\ (b + i) - b = i
    BY ZenonT(60), RestIs
  <2>. QED
    BY <2>1
<1>2. PICK i \in 0..Len(u) : i = x - b
  BY <1>1
<1>3. y \in x..Len(text) /\ y \in b..Len(text) /\ y - b \in i..Len(u)
  <2>1. y \in x..Len(text)
    BY <1>1, NextSteps
  <2>. QED
    BY <1>1, <1>2, <2>1
<1>4. PICK j \in i..Len(u) : j = y - b
  BY <1>3
<1>5. Passed(u, i)
  BY <1>2
<1>6. CASE At(text, x, Whitespace \cup {"lf"}) /\ y = x + 1
  <2>1. At(u, i, Whitespace \cup {"lf"}) /\ j = i + 1
    BY <1>1, <1>2, <1>4, <1>6
  <2>2. Passed(u, j)
    BY <1>1, <1>5, <2>1, PassedBlank
  <2>. QED
    BY <1>3, <1>4, <2>2
<1>7. CASE At(text, x, {"hash"}) /\ y = NextLine(text, x + 1)
  <2>1. At(u, i, {"hash"})
    BY <1>1, <1>2, <1>7
  <2>2. PICK n \in 0..Len(text) : n = x + 1
    BY <1>1, <1>7 DEF At
  <2>3. /\ y \in n..Len(text) /\ (y = Len(text) \/ text[y] = "lf")
        /\ \A k \in n + 1..y - 1 : text[k] # "lf"
    BY <1>1, <1>7, <2>2, NextLineIs
  <2>4. j \in i + 1..Len(u)
    BY SMTT(30), <1>1, <1>2, <1>4, <2>2, <2>3
  <2>5. j = Len(u) \/ u[j] = "lf"
    <3>1. PICK N \in Nat : N = Len(text)
      BY <1>1
    <3>2. x \in b..N /\ b \in 0..N /\ y \in n..N
      BY <2>3, <3>1
    <3>3. PICK z \in b..N - 1 : z + 1 = y
      BY SMTT(30), <2>2, <3>2
    <3>4. (z - b) + 1 = j
      BY <1>4, <3>2, <3>3
    <3>5. u[j] = text[y]
      BY <1>1, <3>1, <3>3, <3>4
    <3>. QED
      BY <1>1, <1>4, <2>3, <3>5
  <2>6. ASSUME NEW k \in i + 1..j - 2 PROVE u[k + 1] # "lf"
    <3>1. PICK N \in Nat : N = Len(text)
      BY <1>1
    <3>2. x \in b..N /\ b \in 0..N /\ y \in n..N /\ k \in Nat
      BY <1>2, <2>3, <3>1
    <3>3. PICK z \in n..y - 2 : z = b + k
      <4>1. x \in Nat /\ b \in Nat
        BY <3>2
      <4>2. n \in Nat /\ y \in Nat /\ n <= y
        BY <2>2, <3>2, <4>1
      <4>3. i \in Int /\ j \in Int /\ x = b + i /\ y = b + j
        BY SMTT(30), <1>2, <1>4, <4>1, <4>2
      <4>4. k \in Nat /\ i + 1 <= k /\ k <= j - 2
        BY <3>2, <4>3
      <4>5. b + k \in n..y - 2
        BY <2>2, <4>1, <4>2, <4>3, <4>4
      <4>. QED
        BY <4>5
    <3>4. z \in b..N - 1 /\ z - b = k /\ z + 1 \in n + 1..y - 1
      BY SMTT(30), <2>2, <3>2, <3>3
    <3>5. u[(z - b) + 1] = text[z + 1]
      BY <1>1, <3>1, <3>4
    <3>. QED
      BY <2>3, <3>4, <3>5
  <2>7. Passed(u, j)
    BY <1>1, <1>5, <2>1, <2>4, <2>5, <2>6, PassedComment
  <2>. QED
    BY <1>3, <1>4, <2>7
<1>8. CASE Continues(text, x) /\ y = Continuation(text, x)
  <2>1. Continues(u, i) /\ Continuation(u, i) = Continuation(text, x) - b
    BY <1>2, <1>8, RestContinues
  <2>2. j = Continuation(u, i)
    BY <1>4, <1>8, <2>1
  <2>3. Passed(u, j)
    BY <1>1, <1>5, <2>1, <2>2, PassedContinued
  <2>. QED
    BY <1>3, <1>4, <2>3
<1>9. CASE y = x
  BY <1>3, <1>9
<1>. QED
  BY <1>1, <1>6, <1>7, <1>8, <1>9, NextSteps

LEMMA NextIs ==
  ASSUME text \in Seq(STRING), NEW b \in 0..Len(text), NEW f, f = NextInstruction(b)
  PROVE  /\ f = FirstFrom(b) /\ f \in b..Len(text) /\ f \in 0..Len(text)
         /\ Clean(f) /\ (f < Len(text) => ~Over(f))
<1>1. PICK u : u = Rest(b)
  OBVIOUS
<1>2. PICK n \in Nat : n = Len(text)
  OBVIOUS
<1>3. Len(u) = n - b /\ Len(u) \in Nat
  BY <1>1, <1>2, RestIs
<1>4. f = Stays(NextStep, b)
  BY DEF NextInstruction, NextStep
<1>5. Steps(NextStep, Len(text))
  BY <1>2, NextSteps DEF Steps
<1>. DEFINE P == {x \in b..n : Passed(u, x - b)}
<1>6. b \in P
  <2>1. Passed(u, 0)
    BY <1>3, PassedStart
  <2>. QED
    BY <1>2, <2>1
<1>7. Closed(NextStep, P)
  BY <1>1, <1>2, NextPassed DEF Closed
<1>8. P \in SUBSET (0..Len(text))
  BY <1>2
<1>. HIDE DEF P
<1>9. f \in b..n /\ NextStep[f] = f /\ f \in P
  BY <1>2, <1>4, <1>5, <1>6, <1>7, <1>8, StaysIs
<1>10. f \in 0..n /\ Passed(u, f - b)
  BY <1>2, <1>9 DEF P
<1>11. ~At(text, f, Whitespace \cup {"lf"}) /\ ~At(text, f, {"hash"}) /\ ~Continues(text, f)
  <2>1. f + 1 # f
    BY <1>10
  <2>. QED
    BY <1>2, <1>9, <1>10, <2>1, NextSteps
<1>12. Clean(f) /\ (f < Len(text) => ~Over(f))
  <2>1. ~At(text, f, Whitespace) /\ ~At(text, f, {"lf"})
    BY <1>11 DEF At
  <2>. QED
    BY <1>2, <1>10, <1>11, <2>1 DEF Clean, Over
<1>. DEFINE S == {Len(text)} \cup {b + j : j \in {k \in 0..Len(u) - 1 :
         /\ u[k + 1] \notin Whitespace \cup {"lf"}
         /\ ~Comment(u, LineOf(u, k)) /\ ~Marker(u, LineOf(u, k), k)}}
<1>13. FirstFrom(b) = Min(S)
  BY <1>1 DEF FirstFrom
<1>14. S = {n} \cup {b + j : j \in {k \in 0..Len(u) - 1 : Counted(u, k)}}
  BY <1>2 DEF Counted
<1>. HIDE DEF S
<1>15. S \in SUBSET Nat /\ S # {}
  BY <1>2, <1>3, <1>14
<1>16. PICK i \in 0..Len(u) : i = f - b
  BY <1>2, <1>3, <1>9
<1>17. f \in S
  <2>1. CASE f = n
    BY <1>14, <2>1
  <2>2. CASE f # n
    <3>1. i \in 0..Len(u) - 1 /\ f = b + i
      BY <1>2, <1>3, <1>9, <1>16, <2>2
    <3>2. /\ \A C : At(u, f - b, C) <=> At(text, f, C)
      BY <1>1, <1>2, <1>9, RestIs
    <3>3. Continues(text, f) <=> Continues(u, i)
      BY <1>1, <1>2, <1>9, <1>16, RestContinues
    <3>4. /\ Passed(u, i) /\ i < Len(u) /\ ~Continues(u, i)
          /\ ~At(u, i, Whitespace \cup {"lf"}) /\ ~At(u, i, {"hash"})
      BY <1>3, <1>10, <1>11, <1>16, <3>1, <3>2, <3>3
    <3>5. Counted(u, i)
      BY <1>3, <3>4, PassedEnd
    <3>. QED
      BY <1>14, <3>1, <3>5
  <2>. QED
    BY <2>1, <2>2
<1>18. \A x \in S : f <= x
  <2>1. SUFFICES ASSUME NEW j \in 0..Len(u) - 1, Counted(u, j) PROVE f <= b + j
    BY <1>2, <1>9, <1>14
  <2>2. \A k \in 0..i - 1 : ~Counted(u, k)
    BY <1>10, <1>16 DEF Passed
  <2>3. j \notin 0..i - 1
    BY <2>1, <2>2
  <2>. QED
    BY <1>2, <1>3, <1>9, <1>16, <2>3
<1>19. f = FirstFrom(b)
  <2>1. Min(S) \in S /\ \A x \in S : Min(S) <= x
    BY <1>15, MinIs
  <2>2. Min(S) \in Nat /\ f \in Nat
    BY <1>15, <1>17, <2>1
  <2>. QED
    BY <1>13, <1>17, <1>18, <2>1, <2>2
<1>. QED
  BY <1>2, <1>9, <1>10, <1>12, <1>19

(* The newline that a FROM leaves is passed over.                           *)
LEMMA NextNewline ==
  ASSUME text \in Seq(STRING), NEW b \in 0..Len(text), At(text, b, {"lf"}), NEW e, e = b + 1
  PROVE  NextInstruction(b) = NextInstruction(e)
<1>1. PICK n \in Nat : n = Len(text)
  OBVIOUS
<1>2. \A x : NextInstruction(x) = Stays(NextStep, x)
  BY DEF NextInstruction, NextStep
<1>3. Steps(NextStep, Len(text))
  BY <1>1, NextSteps DEF Steps
<1>4. NextStep[b] = e
  <2>1. At(text, b, Whitespace \cup PossibleLine)
    BY DEF At, PossibleLine
  <2>. QED
    BY <1>1, <2>1 DEF NextStep
<1>5. Stays(NextStep, b) = Stays(NextStep, NextStep[b])
  BY <1>1, <1>3, StaysIs
<1>. QED
  BY <1>2, <1>4, <1>5

-----------------------------------------------------------------------------
(* Strings.  What is read at a position is the array the arguments say.     *)
LEMMA StringsIs ==
  ASSUME text \in Inputs, NEW b \in 0..Len(text), NEW A, NEW o, ArgsAt(b, A, o)
  PROVE  Strings(o) = ArrayFrom(b, A)
<1>1. text \in Seq(STRING)
  BY TextIs
<1>2. PICK U : U = WordsAt(o)
  OBVIOUS
<1>3. ArgsKnown(b, A, o, U)
  BY <1>1, <1>2, ArgsAre
<1>4. /\ o \in 0..Len(text) /\ Len(A) \in Nat /\ (Len(A) = 0 <=> Over(o))
      /\ Len(A) >= 1 => b + Min(A[1]) = o
  BY <1>3 DEF ArgsKnown
<1>5. Clean(o) /\ A \in Seq(SUBSET Nat)
  BY DEF ArgsAt
<1>6. CASE Over(o)
  <2>1. ~MaybeJson(o)
    BY <1>6 DEF Over, MaybeJson, At
  <2>2. A = <<>>
    BY <1>4, <1>5, <1>6
  <2>. QED
    BY <2>1, <2>2 DEF Strings, ArrayFrom
<1>7. CASE ~Over(o)
  <2>1. A # <<>> /\ b + Min(A[1]) = o
    BY <1>4, <1>5, <1>7
  <2>2. ArrayFrom(b, A) = ArrayAt(o)
    BY <2>1 DEF ArrayFrom
  <2>3. ~MaybeJson(o) => ArrayAt(o) = NoArray
    BY <1>4, <1>5, <1>7, NotAnArray
  <2>. QED
    BY <2>2, <2>3 DEF Strings
<1>. QED
  BY <1>6, <1>7

-----------------------------------------------------------------------------
(* What is said of the text stays so: it never changes.                     *)
LEMMA RestKept ==
  ASSUME text' = text
  PROVE  /\ \A i : Rest(i)' = Rest(i) /\ WordsAt(i)' = WordsAt(i)
         /\ \A i : LineEndAt(i)' = LineEndAt(i) /\ InLine(i)' = InLine(i)
         /\ \A i : FirstFrom(i)' = FirstFrom(i) /\ MaybeJson(i)' = MaybeJson(i)
         /\ \A i, args : PlainFrom(i, args)' = PlainFrom(i, args)
         /\ \A i, name, words : Args(i, name, words)' = Args(i, name, words)
<1>1. \A i : Rest(i)' = Rest(i)
  BY DEF Rest
<1>2. \A i : WordsAt(i)' = WordsAt(i)
  BY <1>1 DEF WordsAt
<1>3. \A i : LineEndAt(i)' = LineEndAt(i)
  BY <1>1 DEF LineEndAt
<1>4. \A i : InLine(i)' = InLine(i)
  BY <1>3 DEF InLine
<1>5. \A i : FirstFrom(i)' = FirstFrom(i)
  BY <1>1 DEF FirstFrom
<1>6. \A i : MaybeJson(i)' = MaybeJson(i)
  BY DEF MaybeJson
<1>7. \A i, args : PlainFrom(i, args)' = PlainFrom(i, args)
  BY <1>1 DEF PlainFrom
<1>8. \A i, name, words : Args(i, name, words)' = Args(i, name, words)
  BY <1>7 DEF Args
<1>. QED
  BY <1>1, <1>2, <1>3, <1>4, <1>5, <1>6, <1>7, <1>8

StaysIn(step, i, n) ==
  LET end[j \in 0..n] == IF step[j] = j THEN j ELSE end[step[j]]
  IN end[i]

LEMMA GapKept ==
  ASSUME text' = text
  PROVE  \A i : Gap(i)' = Gap(i)
<1>1. \A i : Gap(i) = StaysIn(GapStep, i, Len(text))
  BY DEF Gap, GapStep, Stays, StaysIn
<1>2. \A i : Gap(i)' = StaysIn(GapStep', i, Len(text'))
  BY DEF Gap, GapStep, Stays, StaysIn
<1>3. GapStep' = GapStep
  BY DEF GapStep
<1>. QED
  BY <1>1, <1>2, <1>3

NameSet(i, words) == {name \in ToSet(Keywords) : words # <<>> /\ Is(i, words[1], name)}
NameFrom(names) == IF names = {} THEN "none" ELSE CHOOSE name \in names : TRUE

LEMMA NameKept ==
  ASSUME text' = text
  PROVE  /\ \A i, word : Spelled(i, word)' = Spelled(i, word)
         /\ \A i, word, name : Is(i, word, name)' <=> Is(i, word, name)
         /\ \A i, words : NameOf(i, words)' = NameOf(i, words)
         /\ \A i : NameAt(i)' = NameAt(i)
         /\ \A i : Inner(i)' = Inner(i)
<1>1. \A i, word : Spelled(i, word)' = Spelled(i, word)
  BY DEF Spelled
<1>2. \A i, word, name : Is(i, word, name)' <=> Is(i, word, name)
  BY <1>1 DEF Is
<1>3. \A i, words : NameOf(i, words)' = NameOf(i, words)
  <2>1. \A i, words : NameSet(i, words)' = NameSet(i, words)
    BY <1>2 DEF NameSet
  <2>2. \A i, words : NameOf(i, words) = NameFrom(NameSet(i, words))
    BY DEF NameOf, NameFrom, NameSet
  <2>3. \A i, words : NameOf(i, words)' = NameFrom(NameSet(i, words)')
    BY DEF NameOf, NameFrom, NameSet
  <2>. QED
    BY <2>1, <2>2, <2>3
<1>4. \A i : NameAt(i)' = NameAt(i)
  BY <1>3, RestKept DEF NameAt
<1>5. \A i, words : InnerOf(i, words)' = InnerOf(i, words)
  BY <1>3, GapKept DEF InnerOf
<1>6. \A i : Inner(i)' = Inner(i)
  BY <1>5, RestKept DEF Inner
<1>. QED
  BY <1>1, <1>2, <1>3, <1>4, <1>6

NoStrings(line) ==
  \E k, m \in DOMAIN line :
    /\ k < m /\ Array!Byte(line, k) = "open" /\ Array!Byte(line, m) = "close"
    /\ Array!Around(line, 0, Len(line) + 1) = {k, m}
EachString(line, q, m) ==
  \A i \in 1..m : /\ Array!IsString(line, q[2 * i - 1], q[2 * i])
                  /\ i < m => Array!Only(line, q[2 * i], q[2 * i + 1], "comma")
SomeStrings(line, q) ==
  \E m \in 1..Len(q) :
    /\ Len(q) = 2 * m
    /\ Array!Only(line, 0, q[1], "open") /\ Array!Only(line, q[2 * m], Len(line) + 1, "close")
    /\ EachString(line, q, m)

LEMMA ArrayKept ==
  ASSUME text' = text
  PROVE  /\ \A line : Array!Unescaped(line, "quote")' = Array!Unescaped(line, "quote")
         /\ \A line, q, markers : Array!IsRead(line, q, markers)' <=> Array!IsRead(line, q, markers)
<1>1. /\ \A l, k : Array!Byte(l, k)' = Array!Byte(l, k)
      /\ Backslash' = Backslash
  BY DEF Array!Byte, Backslash
<1>2. \A l, k : Array!Escaped(l, k)' <=> Array!Escaped(l, k)
  BY <1>1 DEF Array!Escaped
<1>3. \A l, b : Array!Unescaped(l, b)' = Array!Unescaped(l, b)
  BY <1>1, <1>2 DEF Array!Unescaped
<1>4. \A l, k : Array!IsHex(l, k)' <=> Array!IsHex(l, k)
  BY <1>1, <1>2 DEF Array!IsHex
<1>5. \A l, k : Array!Bits(l, k)' = Array!Bits(l, k)
  BY <1>1 DEF Array!Bits
<1>6. \A l, k : Array!Pairs(l, k)' <=> Array!Pairs(l, k)
  BY <1>4, <1>5 DEF Array!Pairs
<1>7. \A l, k : Array!IsEscape(l, k)' <=> Array!IsEscape(l, k)
  <2>1. Array!Named' = Array!Named
    BY <1>1 DEF Array!Named
  <2>. QED
    BY <1>1, <1>4, <1>5, <1>6, <2>1 DEF Array!IsEscape
<1>8. \A l, i, j : Array!IsString(l, i, j)' <=> Array!IsString(l, i, j)
  BY <1>1, <1>2, <1>7 DEF Array!IsString
<1>9. \A l, i, j : Array!Around(l, i, j)' = Array!Around(l, i, j)
  BY <1>1 DEF Array!Around
<1>10. \A l, i, j, b : Array!Only(l, i, j, b)' <=> Array!Only(l, i, j, b)
  BY <1>1, <1>9 DEF Array!Only
<1>11. \A l, q : Array!IsArray(l, q)' <=> Array!IsArray(l, q)
  <2>1. \A l : NoStrings(l)' <=> NoStrings(l)
    BY <1>1, <1>9 DEF NoStrings
  <2>2. \A l, q : SomeStrings(l, q)' <=> SomeStrings(l, q)
    <3>1. TAKE l, q
    <3>2. \A m : EachString(l, q, m)' <=> EachString(l, q, m)
      BY <1>8, <1>10 DEF EachString
    <3>3. Array!Only(l, 0, q[1], "open")' <=> Array!Only(l, 0, q[1], "open")
      BY <1>10
    <3>4. \A m : Array!Only(l, q[2 * m], Len(l) + 1, "close")'
                   <=> Array!Only(l, q[2 * m], Len(l) + 1, "close")
      BY <1>10
    <3>. QED
      BY <3>2, <3>3, <3>4 DEF SomeStrings
  <2>3. \A l, q : Array!IsArray(l, q) <=> IF q = <<>> THEN NoStrings(l) ELSE SomeStrings(l, q)
    BY DEF Array!IsArray, NoStrings, SomeStrings, EachString
  <2>4. \A l, q : Array!IsArray(l, q)' <=> IF q = <<>> THEN NoStrings(l)' ELSE SomeStrings(l, q)'
    BY DEF Array!IsArray, NoStrings, SomeStrings, EachString
  <2>. QED
    BY <2>1, <2>2, <2>3, <2>4
<1>12. \A l, k : Array!Size(l, k)' = Array!Size(l, k)
  BY <1>4, <1>6 DEF Array!Size
<1>13. \A l, markers : Array!BrokenTwice(l, markers)' <=> Array!BrokenTwice(l, markers)
  <2>1. \A l : Array!Unescaped(l, Backslash)' = Array!Unescaped(l, Backslash)
    BY <1>1, <1>3
  <2>. QED
    BY <1>12, <2>1 DEF Array!BrokenTwice
<1>14. \A l, q, markers : Array!IsRead(l, q, markers)' <=> Array!IsRead(l, q, markers)
  BY <1>11, <1>13 DEF Array!IsRead
<1>. QED
  BY <1>3, <1>14

LEMMA MeaningKept ==
  ASSUME text' = text
  PROVE  \A i, inner : Meaning(i, inner)' = Meaning(i, inner)
<1>1. \A line, q, markers : StringsOf(line, q, markers)' = StringsOf(line, q, markers)
  BY ArrayKept DEF StringsOf
<1>2. \A line, markers : StringsIn(line, markers)' = StringsIn(line, markers)
  BY <1>1, ArrayKept DEF StringsIn
<1>3. \A i, bytes, markers : ArrayOf(i, bytes, markers)' = ArrayOf(i, bytes, markers)
  BY <1>2 DEF ArrayOf
<1>4. \A i : ArrayAt(i)' = ArrayAt(i)
  BY <1>3, RestKept DEF ArrayAt
<1>5. \A i, args : ArrayFrom(i, args)' = ArrayFrom(i, args)
  BY <1>4 DEF ArrayFrom
<1>6. \A i, args : ShellError(i, args)' = ShellError(i, args)
  BY RestKept DEF ShellError, ShellErrorAt
<1>7. \A i, args : HealthcheckMeaning(i, args)' = HealthcheckMeaning(i, args)
  <2>1. \A i, word : NotCmdOrNone(i, word)' = NotCmdOrNone(i, word)
    BY NameKept DEF NotCmdOrNone, Upper
  <2>2. \A i, args : PastNone(i, args)' = PastNone(i, args)
    BY DEF PastNone
  <2>. QED
    BY <1>5, <2>1, <2>2, NameKept, RestKept DEF HealthcheckMeaning
<1>8. \A i, name, args, strings : MeaningOf(i, name, args, strings)' = MeaningOf(i, name, args, strings)
  BY <1>6, <1>7 DEF MeaningOf
<1>9. \A i, name, args : MeaningOfArgs(i, name, args)' = MeaningOfArgs(i, name, args)
  BY <1>5, <1>8 DEF MeaningOfArgs
<1>10. \A i, name, words : MeaningOfLine(i, name, words)' = MeaningOfLine(i, name, words)
  BY <1>9, RestKept DEF MeaningOfLine
<1>11. \A i : MeaningAt(i)' = MeaningAt(i)
  BY <1>10, NameKept, RestKept DEF MeaningAt
<1>. QED
  BY <1>11 DEF Meaning

LEMMA LineKept ==
  ASSUME text' = text
  PROVE  /\ \A inst, i : IsLineAt(inst, i)' <=> IsLineAt(inst, i)
         /\ \A i : NextInstruction(i)' = NextInstruction(i)
<1>1. \A inst, i, inner, meaning : IsOf(inst, i, inner, meaning)' <=> IsOf(inst, i, inner, meaning)
  BY NameKept DEF IsOf
<1>2. \A inst, i, inner : IsLine(inst, i, inner)' <=> IsLine(inst, i, inner)
  BY <1>1, MeaningKept DEF IsLine
<1>3. \A inst, i : IsLineAt(inst, i)' <=> IsLineAt(inst, i)
  BY <1>2, NameKept DEF IsLineAt
<1>4. \A i : NextInstruction(i) = StaysIn(NextStep, i, Len(text))
  BY DEF NextInstruction, NextStep, Stays, StaysIn
<1>5. \A i : NextInstruction(i)' = StaysIn(NextStep', i, Len(text'))
  BY DEF NextInstruction, NextStep, Stays, StaysIn
<1>6. NextStep' = NextStep
  BY DEF NextStep
<1>. QED
  BY <1>3, <1>4, <1>5, <1>6

-----------------------------------------------------------------------------
(* The inductive invariant.                                                 *)
Line == LineStart(Len(instructions) + 1)

(* The keyword sought at b is that of the line at i, or the one after the   *)
(* ONBUILD there.                                                           *)
Sought(i, b, ks, onb) ==
  /\ b \in 0..Len(text) - 1
  /\ ~onb => ks = <<>> /\ b = i
  /\ onb => ks = <<i>> /\ b # i /\ b = Inner(i) /\ NameAt(i) = "ONBUILD"

(* It has been read, and the whitespace after it.                           *)
Read(b, name, pos) ==
  /\ name = NameAt(b) /\ name \in ToSet(Keywords)
  /\ WordsAt(b) # <<>> /\ pos = Gap(b + Max(WordsAt(b)[1]) + 1)

Forms == {"none", "string", "words", "shell", "exec"}
Told == [keywords : Seq(Nat), instruction : ToSet(Keywords), form : Forms]

TypesOk ==
  /\ text \in Inputs /\ s \in 0..Len(text) /\ in_onbuild \in BOOLEAN
  /\ keywords \in Seq(Nat) /\ instruction \in ToSet(Keywords) /\ form \in Forms
  /\ instructions \in Seq(Told)

LinesAre == \A k \in 1..Len(instructions) : IsLineAt(instructions[k], LineStart(k))

(* The line reached starts where an instruction can.                        *)
LineIs == Clean(Line) /\ (Line < Len(text) => ~Over(Line))

AtLoop == s = Line /\ ~in_onbuild
AtInstruction == Sought(Line, s, keywords, in_onbuild) /\ Line < Len(text)
AtArguments ==
  \E b \in 0..Len(text), ks \in {<<>>, <<Line>>} :
    /\ keywords = Append(ks, b) /\ Sought(Line, b, ks, in_onbuild)
    /\ Read(b, instruction, s) /\ Line < Len(text)
AtReturn ==
  /\ IsLineAt(Returned, Line) /\ Line < Len(text)
  /\ in_onbuild => Len(keywords) # 1
  /\ NextInstruction(s) = FirstFrom(LineEndAt(Line))

IInv ==
  /\ TypesOk
  /\ LinesAre
  /\ LineIs
  /\ pc = "loop" => AtLoop
  /\ pc = "end" => Line = Len(text)
  /\ pc = "instruction" => AtInstruction
  /\ pc = "arguments" => AtArguments
  /\ pc = "return" => AtReturn
  /\ pc = "failed" => IsErrorOf(Line)

(* In a line that starts with ONBUILD the next instruction is sought past   *)
(* the whitespace after it.                                                 *)
LEMMA InnerIs ==
  ASSUME text \in Inputs, NEW i \in 0..Len(text), Clean(i), NEW W, W = WordsAt(i), Len(W) >= 1,
         NEW g, g = Gap(i + Max(W[1]) + 1)
  PROVE  /\ ArgsAt(i, Tail(W), g) /\ g \in i + 1..Len(text) /\ W \in Seq(SUBSET Nat)
         /\ NameAt(i) = "ONBUILD" => Inner(i) = g
<1>1. text \in Seq(STRING) /\ Len(text) \in Nat
  BY TextIs
<1>2. ArgsAt(i, W, i) /\ W \in Seq(SUBSET Nat)
  BY <1>1, ArgsStart
<1>3. PICK A : A = Tail(W)
  OBVIOUS
<1>4. W # <<>>
  BY <1>2
<1>5. ArgsAt(i, A, g)
  BY <1>1, <1>2, <1>3, <1>4, ArgsBehind
<1>6. g \in i + 1..Len(text)
  <2>1. /\ Max(W[1]) \in W[1] /\ \A x \in W[1] : x \in Nat /\ i + x \in i..Len(text) - 1
    <3>1. 1 \in 1..Len(W)
      BY <1>2
    <3>2. /\ Len(W) \in Nat /\ DOMAIN W = 1..Len(W) /\ W \in Seq(SUBSET Nat)
          /\ \A k \in 1..Len(W) :
               /\ W[k] # {} /\ W[k] \in SUBSET Nat /\ W[k] \in SUBSET (0..Len(text))
               /\ \A x \in W[k] : /\ x \in Nat /\ i + x \in i..Len(text) - 1
                                  /\ Held(i, i + x) /\ text[i + x + 1] \notin Whitespace
               /\ Min(W[k]) \in W[k] /\ Max(W[k]) \in W[k]
               /\ \A x \in W[k] : Min(W[k]) <= x /\ x <= Max(W[k])
      BY <1>1, WordsAtIs
    <3>. QED
      BY <3>1, <3>2
  <2>2. PICK e \in i + 1..Len(text) : e = i + Max(W[1]) + 1
    BY <1>1, <2>1
  <2>3. e \in 0..Len(text)
    BY <1>1
  <2>4. Gap(e) \in e..Len(text)
    BY <1>1, <2>3, GapIs
  <2>. QED
    BY <1>1, <2>2, <2>4
<1>7. ASSUME NameAt(i) = "ONBUILD" PROVE Inner(i) = g
  <2>1. NameOf(i, W) = "ONBUILD"
    BY <1>7 DEF NameAt
  <2>2. Inner(i) = IF Len(W) = 1 THEN g ELSE i + Min(W[2])
    BY <2>1 DEF Inner, InnerOf
  <2>3. CASE Len(W) # 1
    <3>1. PICK U : U = WordsAt(g)
      OBVIOUS
    <3>2. ArgsKnown(i, A, g, U)
      BY <1>1, <1>5, <3>1, ArgsAre
    <3>3. Len(A) >= 1 /\ A[1] = W[2]
      <4>1. PICK n \in Nat : n = Len(W)
        BY <1>2
      <4>2. n >= 2
        BY <2>3, <4>1
      <4>3. Len(A) = n - 1 /\ \A k \in 1..n - 1 : A[k] = W[k + 1]
        BY <1>2, <1>3, <4>1, <4>2
      <4>. QED
        BY <4>2, <4>3
    <3>4. i + Min(A[1]) = g
      BY <3>2, <3>3 DEF ArgsKnown
    <3>. QED
      BY <2>2, <2>3, <3>3, <3>4
  <2>. QED
    BY <2>2, <2>3
<1>. QED
  BY <1>2, <1>3, <1>5, <1>6, <1>7

(* Its name is not empty.                                                   *)
LEMMA NamedIs ==
  ASSUME text \in Inputs, NEW i \in 0..Len(text), NEW W, W = WordsAt(i), NameAt(i) # "none"
  PROVE  Len(W) \in Nat /\ Len(W) >= 1
<1>1. text \in Seq(STRING)
  BY TextIs
<1>2. W \in Seq(SUBSET Nat)
  <2>1. /\ Len(W) \in Nat /\ DOMAIN W = 1..Len(W) /\ W \in Seq(SUBSET Nat)
        /\ \A k \in 1..Len(W) :
             /\ W[k] # {} /\ W[k] \in SUBSET Nat /\ W[k] \in SUBSET (0..Len(text))
             /\ \A x \in W[k] : /\ x \in Nat /\ i + x \in i..Len(text) - 1
                                /\ Held(i, i + x) /\ text[i + x + 1] \notin Whitespace
             /\ Min(W[k]) \in W[k] /\ Max(W[k]) \in W[k]
             /\ \A x \in W[k] : Min(W[k]) <= x /\ x <= Max(W[k])
    BY <1>1, WordsAtIs
  <2>. QED
    BY <2>1
<1>3. W # <<>>
  BY DEF NameAt, NameOf
<1>. QED
  BY <1>2, <1>3

LEMMA AppendOne ==
  ASSUME NEW x, NEW y
  PROVE  Append(<<x>>, y) = <<x, y>>
<1>1. PICK q : q = <<x>>
  OBVIOUS
<1>2. q \in Seq({x, y}) /\ Len(q) = 1 /\ q[1] = x
  BY <1>1
<1>3. PICK r : r = Append(q, y)
  OBVIOUS
<1>4. r \in Seq({x, y}) /\ Len(r) = 2 /\ r[1] = x /\ r[2] = y
  <2>1. PICK S : S = {x, y}
    OBVIOUS
  <2>2. q \in Seq(S) /\ y \in S /\ Len(q) = 1
    BY <1>2, <2>1
  <2>3. /\ r \in Seq(S) /\ Len(r) = Len(q) + 1
        /\ \A k \in 1..Len(q) : r[k] = q[k]
        /\ r[Len(q) + 1] = y
    <3>1. /\ Append(q, y) \in Seq(S)
          /\ Append(q, y) # <<>>
          /\ Len(Append(q, y)) = Len(q) + 1
          /\ \A k \in 1..Len(q) : Append(q, y)[k] = q[k]
          /\ Append(q, y)[Len(q) + 1] = y
      <4>1. q \in Seq(S) /\ y \in S
        BY <2>2
      <4>. QED
        BY <4>1, AppendProperties, Zenon
    <3>. QED
      BY <1>3, <3>1, Zenon
  <2>4. Len(r) = 2 /\ r[1] = q[1]
    BY <2>2, <2>3
  <2>5. r[2] = y
    BY <2>2, <2>3
  <2>. QED
    BY <1>2, <2>1, <2>3, <2>4, <2>5
<1>5. r = [k \in 1..2 |-> r[k]]
  BY <1>4
<1>6. <<x, y>> = [k \in 1..2 |-> <<x, y>>[k]]
  OBVIOUS
<1>7. \A k \in 1..2 : r[k] = <<x, y>>[k]
  <2>1. \A k \in 1..2 : k = 1 \/ k = 2
    OBVIOUS
  <2>. QED
    BY <1>4, <2>1
<1>8. r = <<x, y>>
  BY <1>5, <1>6, <1>7
<1>. QED
  BY <1>1, <1>3, <1>8

(* The instruction at b is the one that the line at i is.                   *)
Innermost(i, b) ==
  /\ Inner(i) = b /\ Meaning(i, Inner(i)) = MeaningAt(b)

LEMMA SoughtIs ==
  ASSUME text \in Inputs, NEW i \in 0..Len(text), Clean(i), NEW b, NEW ks, NEW onb \in BOOLEAN,
         Sought(i, b, ks, onb)
  PROVE  /\ b \in 0..Len(text) - 1 /\ b \in 0..Len(text) /\ b \in Nat
         /\ Clean(b) /\ LineEndAt(b) = LineEndAt(i)
         /\ onb \/ NameAt(b) # "ONBUILD" =>
              Innermost(i, b) /\ Append(ks, b) = IF Inner(i) = i THEN <<i>> ELSE <<i, Inner(i)>>
<1>1. text \in Seq(STRING) /\ Len(text) \in Nat
  BY TextIs
<1>2. b \in 0..Len(text) - 1 /\ b \in 0..Len(text) /\ b \in Nat /\ b # Len(text)
  BY <1>1 DEF Sought
<1>3. \A x \in 0..Len(text) : x # Len(text) => Meaning(i, x) = MeaningAt(x)
  BY DEF Meaning
<1>4. CASE ~onb
  <2>1. b = i /\ ks = <<>>
    BY <1>4 DEF Sought
  <2>2. NameAt(b) # "ONBUILD" => Inner(i) = i
    BY <2>1 DEF Inner, InnerOf, NameAt
  <2>3. Append(ks, b) = <<i>>
    BY <2>1
  <2>. QED
    BY <1>2, <1>3, <1>4, <2>1, <2>2, <2>3 DEF Innermost
<1>5. CASE onb
  <2>1. ks = <<i>> /\ b # i /\ b = Inner(i) /\ NameAt(i) = "ONBUILD"
    BY <1>5 DEF Sought
  <2>2. PICK W : W = WordsAt(i)
    OBVIOUS
  <2>3. Len(W) >= 1
    BY <2>1, <2>2, NamedIs
  <2>4. PICK g : g = Gap(i + Max(W[1]) + 1)
    OBVIOUS
  <2>5. PICK A : A = Tail(W)
    OBVIOUS
  <2>6. ArgsAt(i, A, g) /\ Inner(i) = g
    BY <2>1, <2>2, <2>3, <2>4, <2>5, InnerIs
  <2>7. PICK U : U = WordsAt(g)
    OBVIOUS
  <2>8. ArgsKnown(i, A, g, U)
    BY <1>1, <2>6, <2>7, ArgsAre
  <2>9. LineEndAt(g) = LineEndAt(i) /\ Clean(g)
    BY <2>6, <2>8 DEF ArgsKnown, ArgsAt
  <2>10. Append(ks, b) = <<i, b>>
    <3>. QED
      BY <2>1, AppendOne
  <2>. QED
    BY <1>2, <1>3, <2>1, <2>6, <2>9, <2>10 DEF Innermost
<1>. QED
  BY <1>4, <1>5

LEMMA StartKept ==
  ASSUME text' = text, instructions' = instructions
  PROVE  /\ \A k : LineStart(k)' = LineStart(k)
         /\ Line' = Line
         /\ \A i : Clean(i)' <=> Clean(i)
         /\ \A i : Over(i)' <=> Over(i)
         /\ \A i, b, ks, onb : Sought(i, b, ks, onb)' <=> Sought(i, b, ks, onb)
         /\ \A b, name, pos : Read(b, name, pos)' <=> Read(b, name, pos)
         /\ LinesAre' <=> LinesAre
         /\ LineIs' <=> LineIs
<1>1. \A k : LineStart(k)' = LineStart(k)
  BY RestKept DEF LineStart
<1>2. Line' = Line
  BY <1>1 DEF Line
<1>3. \A i : Clean(i)' <=> Clean(i)
  BY DEF Clean, Continues
<1>4. \A i : Over(i)' <=> Over(i)
  BY DEF Over
<1>5. \A i, b, ks, onb : Sought(i, b, ks, onb)' <=> Sought(i, b, ks, onb)
  BY NameKept DEF Sought
<1>6. \A b, name, pos : Read(b, name, pos)' <=> Read(b, name, pos)
  BY NameKept, RestKept, GapKept DEF Read
<1>7. LinesAre' <=> LinesAre
  BY <1>1, LineKept DEF LinesAre
<1>8. LineIs' <=> LineIs
  BY <1>2, <1>3, <1>4 DEF LineIs
<1>. QED
  BY <1>1, <1>2, <1>3, <1>4, <1>5, <1>6, <1>7, <1>8

Unchanged ==
  /\ text' = text /\ instructions' = instructions
  /\ s' \in 0..Len(text) /\ in_onbuild' \in BOOLEAN
  /\ keywords' \in Seq(Nat) /\ instruction' \in ToSet(Keywords) /\ form' \in Forms

LEMMA Failing ==
  ASSUME IInv, Unchanged, pc' = "failed",
         NEW m, m = Meaning(Line, Inner(Line)), NEW kind, NEW pos \in 0..Len(text),
         error' = [kind |-> kind, pos |-> pos], m.kind = kind, pos \in m.pos
  PROVE  IInv'
<1>1. text \in Inputs /\ text \in Seq(STRING) /\ text' = text /\ instructions' = instructions
  BY TextIs DEF IInv, TypesOk, Unchanged
<1>2. Line' = Line /\ (LinesAre' <=> LinesAre) /\ (LineIs' <=> LineIs)
  BY <1>1, StartKept
<1>3. IsErrorOf(Line)'
  <2>1. Names(find_location_from_pos(pos, text), pos, text)
    BY <1>1, LocationNames
  <2>2. PICK i : i = Line
    OBVIOUS
  <2>3. Meaning(i, Inner(i))' = m
    BY <1>1, <2>2, MeaningKept, NameKept
  <2>4. IsErrorOf(i)'
    BY <1>1, <2>1, <2>3 DEF IsErrorOf, IsError
  <2>. QED
    BY <1>2, <2>2, <2>4
<1>4. TypesOk'
  BY <1>1 DEF IInv, TypesOk, Unchanged
<1>. QED
  BY <1>2, <1>3, <1>4 DEF IInv

(* An instruction of which the arguments are read, its keyword at b.        *)
Handling(b, ks) ==
  /\ b \in 0..Len(text) /\ ks \in {<<>>, <<Line>>}
  /\ keywords = Append(ks, b) /\ Sought(Line, b, ks, in_onbuild)
  /\ Read(b, instruction, s) /\ Line < Len(text)

LEMMA LineIn ==
  ASSUME IInv
  PROVE  /\ text \in Inputs /\ text \in Seq(STRING) /\ Len(text) \in Nat
         /\ Line \in 0..Len(text) /\ Line \in Nat /\ Clean(Line)
         /\ in_onbuild \in BOOLEAN /\ s \in 0..Len(text)
BY TextIs DEF IInv, TypesOk, LineIs, Clean

LEMMA LastIs ==
  ASSUME NEW x, NEW y, NEW q, q = <<>> \/ q = <<x>>, NEW r, r = Append(q, y)
  PROVE  /\ Last(r) = y /\ (q = <<>> => Len(r) = 1) /\ (q = <<x>> => Len(r) = 2)
<1>1. CASE q = <<>>
  <2>1. r = <<y>>
    BY <1>1
  <2>2. Len(r) = 1 /\ r[1] = y
    BY <2>1
  <2>3. q # <<x>>
    BY <1>1
  <2>. QED
    BY <2>2, <2>3 DEF Last
<1>2. CASE q = <<x>>
  <2>1. r = <<x, y>>
    BY <1>2, AppendOne
  <2>2. Len(r) = 2 /\ r[2] = y
    BY <2>1
  <2>3. q # <<>>
    BY <1>2
  <2>. QED
    BY <2>2, <2>3 DEF Last
<1>. QED
  BY <1>1, <1>2

LEMMA HandlingIs ==
  ASSUME IInv, NEW b, NEW ks, Handling(b, ks)
  PROVE  /\ b \in 0..Len(text) - 1 /\ b \in 0..Len(text) /\ b \in Nat
         /\ Clean(b) /\ LineEndAt(b) = LineEndAt(Line) /\ Start = b
         /\ in_onbuild \/ NameAt(b) # "ONBUILD" =>
              Innermost(Line, b) /\ keywords = IF Inner(Line) = Line THEN <<Line>> ELSE <<Line, Inner(Line)>>
         /\ in_onbuild => Len(keywords) = 2
         /\ instruction = NameAt(b) /\ instruction \in ToSet(Keywords)
         /\ Len(WordsAt(b)) \in Nat /\ Len(WordsAt(b)) >= 1
<1>1. /\ text \in Inputs /\ text \in Seq(STRING) /\ Len(text) \in Nat
      /\ Line \in 0..Len(text) /\ Line \in Nat /\ Clean(Line)
      /\ in_onbuild \in BOOLEAN /\ s \in 0..Len(text)
  BY LineIn
<1>2. PICK i \in 0..Len(text) : i = Line
  BY <1>1
<1>3. Sought(i, b, ks, in_onbuild) /\ Clean(i)
  BY <1>1, <1>2 DEF Handling
<1>4. /\ b \in 0..Len(text) - 1 /\ b \in 0..Len(text) /\ b \in Nat
      /\ Clean(b) /\ LineEndAt(b) = LineEndAt(i)
      /\ in_onbuild \/ NameAt(b) # "ONBUILD" =>
           Innermost(i, b) /\ Append(ks, b) = IF Inner(i) = i THEN <<i>> ELSE <<i, Inner(i)>>
  BY <1>1, <1>3, SoughtIs
<1>5. keywords = Append(ks, b) /\ (ks = <<>> \/ ks = <<i>>) /\ (in_onbuild => ks = <<i>>)
  BY <1>2, <1>3 DEF Handling, Sought
<1>6. Last(keywords) = b /\ (ks = <<i>> => Len(keywords) = 2)
  BY <1>5, LastIs
<1>7. instruction = NameAt(b) /\ instruction \in ToSet(Keywords)
  BY DEF Handling, Read
<1>8. instruction # "none"
  BY <1>7, KeywordsAre
<1>9. Len(WordsAt(b)) \in Nat /\ Len(WordsAt(b)) >= 1
  BY <1>1, <1>4, <1>7, <1>8, NamedIs
<1>. QED
  BY <1>2, <1>4, <1>5, <1>6, <1>7, <1>9 DEF Start

Flagged == {"FROM", "RUN", "ADD", "COPY", "HEALTHCHECK"}

(* Where the arguments start, past the flags if there can be some.          *)
LEMMA ArgumentsAre ==
  ASSUME IInv, NEW b, NEW ks, Handling(b, ks), NEW A, A = Args(b, instruction, WordsAt(b)),
         NEW o, o = IF instruction \in Flagged THEN PastFlags(s) ELSE s
  PROVE  /\ ArgsAt(b, A, o)
         /\ MeaningAt(b) = MeaningOf(b, instruction, A, Strings(o))
<1>1. /\ text \in Inputs /\ text \in Seq(STRING) /\ Len(text) \in Nat
      /\ Line \in 0..Len(text) /\ Line \in Nat /\ Clean(Line)
      /\ in_onbuild \in BOOLEAN /\ s \in 0..Len(text)
  BY LineIn
<1>2. /\ b \in 0..Len(text) /\ Clean(b) /\ instruction = NameAt(b)
      /\ Len(WordsAt(b)) \in Nat /\ Len(WordsAt(b)) >= 1
  BY HandlingIs
<1>3. PICK W : W = WordsAt(b)
  OBVIOUS
<1>4. s = Gap(b + Max(W[1]) + 1)
  BY <1>3 DEF Handling, Read
<1>5. PICK g : g = s
  OBVIOUS
<1>6. PICK T : T = Tail(W)
  OBVIOUS
<1>7. ArgsAt(b, T, g) /\ W \in Seq(SUBSET Nat)
  BY <1>1, <1>2, <1>3, <1>4, <1>5, <1>6, InnerIs
<1>8. W # <<>>
  BY <1>2, <1>3
<1>9. A = IF instruction \in Flagged THEN PlainFrom(b, T) ELSE T
  BY <1>3, <1>6, <1>8 DEF Args, Flagged
<1>10. ArgsAt(b, A, o)
  <2>1. PICK B : B = PlainFrom(b, T)
    OBVIOUS
  <2>2. PICK h : h = PastFlags(g)
    OBVIOUS
  <2>3. ArgsAt(b, B, h)
    BY <1>1, <1>2, <1>7, <2>1, <2>2, ArgsFlags
  <2>. QED
    BY <1>5, <1>7, <1>9, <2>1, <2>2, <2>3
<1>11. MeaningAt(b) = MeaningOf(b, instruction, A, ArrayFrom(b, A))
  BY <1>2 DEF MeaningAt, MeaningOfLine, MeaningOfArgs
<1>12. Strings(o) = ArrayFrom(b, A)
  BY <1>1, <1>2, <1>10, StringsIs
<1>. QED
  BY <1>10, <1>11, <1>12

LEMMA StringsNat ==
  ASSUME text \in Inputs, NEW o \in 0..Len(text)
  PROVE  Strings(o) \in Nat
<1>1. MaxLen \in Nat /\ NoArray \in Nat /\ text \in Seq(STRING) /\ Len(text) \in Nat
  BY TextIs DEF NoArray
<1>2. ASSUME NEW line, NEW q \in Seq(Nat), NEW markers
      PROVE  StringsOf(line, q, markers) \in Nat
  <2>1. Len(q) \in Nat
    OBVIOUS
  <2>2. Len(q) \div 2 \in Nat
    BY <2>1
  <2>. QED
    BY <1>1, <2>2 DEF StringsOf
<1>3. PICK u : u = Rest(o)
  OBVIOUS
<1>4. Len(u) \in Nat
  BY <1>1, <1>3, RestHeld
<1>5. PICK p : p = Ordered(Bytes(u), Len(u))
  OBVIOUS
<1>6. p \in Seq(Nat)
  <2>1. PICK l \in Nat : l = Len(u)
    BY <1>4
  <2>2. Bytes(u) \in SUBSET (0..l - 1)
    BY <2>1 DEF Bytes
  <2>. QED
    BY <1>5, <2>1, <2>2, OrderedSpells
<1>7. PICK l \in Nat : l = Len(p) /\ DOMAIN p = 1..l
  BY <1>6
<1>8. PICK line : line = [k \in DOMAIN p |-> o + p[k]]
  OBVIOUS
<1>9. DOMAIN line = 1..l /\ Len(line) = l
  BY <1>7, <1>8
<1>10. PICK q : q = Ordered(Array!Unescaped(line, "quote"), Len(line) + 1)
  OBVIOUS
<1>11. q \in Seq(Nat)
  <2>1. PICK n \in Nat : n = l + 1
    OBVIOUS
  <2>2. PICK bytes : bytes = Array!Unescaped(line, "quote")
    OBVIOUS
  <2>3. bytes \in SUBSET (0..n - 1)
    BY <1>9, <2>1, <2>2 DEF Array!Unescaped
  <2>4. q = Ordered(bytes, n)
    BY <1>9, <1>10, <2>1, <2>2
  <2>. QED
    BY <2>3, <2>4, OrderedSpells
<1>12. PICK markers : markers = {o + m : m \in Markers(u)}
  OBVIOUS
<1>13. ArrayAt(o) = StringsOf(line, q, markers)
  <2>1. PICK M : M = Markers(u)
    OBVIOUS
  <2>2. ArrayAt(o) = ArrayOf(o, p, M)
    BY <1>3, <1>5, <2>1 DEF ArrayAt
  <2>3. ArrayOf(o, p, M) = StringsIn(line, markers)
    BY <1>8, <1>12, <2>1 DEF ArrayOf
  <2>4. StringsIn(line, markers) = StringsOf(line, q, markers)
    BY <1>10 DEF StringsIn
  <2>. QED
    BY <2>2, <2>3, <2>4
<1>14. ArrayAt(o) \in Nat
  BY <1>2, <1>11, <1>13
<1>. QED
  BY <1>1, <1>14 DEF Strings

LEMMA Returning ==
  ASSUME IInv, NEW b, NEW ks, Handling(b, ks), in_onbuild \/ NameAt(b) # "ONBUILD",
         NEW read \in Forms, NEW end \in 0..Len(text), Return(read, end),
         NEW m, m = MeaningAt(b), m.kind = "none", m.form = read,
         NextInstruction(end) = FirstFrom(LineEndAt(b))
  PROVE  IInv'
<1>1. text' = text /\ instructions' = instructions /\ pc' = "return" /\ form' = read /\ s' = end
      /\ keywords' = keywords /\ instruction' = instruction /\ in_onbuild' = in_onbuild
  BY DEF Return, never
<1>2. PICK i : i = Line
  OBVIOUS
<1>3. Line' = i /\ (LinesAre' <=> LinesAre) /\ (LineIs' <=> LineIs)
  BY <1>1, <1>2, StartKept
<1>4. /\ LineEndAt(b) = LineEndAt(i)
      /\ Innermost(i, b) /\ keywords = IF Inner(i) = i THEN <<i>> ELSE <<i, Inner(i)>>
      /\ in_onbuild => Len(keywords) = 2
      /\ instruction = NameAt(b)
  BY <1>2, HandlingIs
<1>5. PICK inst : inst = Returned'
  OBVIOUS
<1>6. inst.keywords = keywords /\ inst.instruction = instruction /\ inst.form = read
  BY <1>1, <1>5 DEF Returned
<1>7. IsLineAt(inst, i)
  BY <1>4, <1>6 DEF IsLineAt, IsLine, IsOf, Innermost
<1>8. AtReturn'
  <2>1. IsLineAt(inst, i)'
    BY <1>1, <1>7, LineKept
  <2>2. IsLineAt(Returned, Line)'
    BY <1>3, <1>5, <2>1
  <2>3. Line < Len(text)
    BY DEF Handling
  <2>4. (in_onbuild => Len(keywords) # 1)'
    BY <1>1, <1>4
  <2>5. (NextInstruction(s) = FirstFrom(LineEndAt(Line)))'
    <3>1. NextInstruction(end)' = NextInstruction(end)
      BY <1>1, LineKept
    <3>2. FirstFrom(LineEndAt(i))' = FirstFrom(LineEndAt(i))
      BY <1>1, RestKept
    <3>. QED
      BY <1>1, <1>3, <1>4, <3>1, <3>2
  <2>. QED
    BY <1>1, <1>2, <1>3, <2>2, <2>3, <2>4, <2>5 DEF AtReturn
<1>9. TypesOk'
  BY <1>1 DEF IInv, TypesOk
<1>. QED
  BY <1>1, <1>3, <1>8, <1>9 DEF IInv

(* An instruction that is refused if it has too few arguments.              *)
LEMMA Answering ==
  ASSUME IInv, NEW b, NEW ks, Handling(b, ks), in_onbuild \/ NameAt(b) # "ONBUILD",
         NEW missing \in BOOLEAN, NEW kind, NEW read \in Forms, NEW end \in 0..Len(text),
         ReturnUnless(missing, kind, read, end),
         NEW m, m = MeaningAt(b),
         missing => m.kind = kind /\ b \in m.pos,
         ~missing => m.kind = "none" /\ m.form = read,
         NextInstruction(end) = FirstFrom(LineEndAt(b))
  PROVE  IInv'
<1>1. CASE missing
  <2>1. /\ b \in 0..Len(text) /\ Start = b /\ Innermost(Line, b)
    BY HandlingIs
  <2>2. Fail(kind, b) /\ s' = s
    BY <1>1, <2>1 DEF ReturnUnless
  <2>3. Unchanged /\ pc' = "failed" /\ error' = [kind |-> kind, pos |-> b]
    BY <2>2 DEF Fail, Unchanged, IInv, TypesOk
  <2>4. m = Meaning(Line, Inner(Line))
    BY <2>1 DEF Innermost
  <2>. QED
    BY <1>1, <2>1, <2>3, <2>4, Failing
<1>2. CASE ~missing
  <2>1. Return(read, end)
    BY <1>2 DEF ReturnUnless
  <2>. QED
    BY <1>2, <2>1, Returning
<1>. QED
  BY <1>1, <1>2

(* The forms of the arguments.                                              *)
LEMMA FormIs ==
  ASSUME NEW b, NEW name, NEW A, NEW strings, NEW m, m = FormOrError(b, name, A, strings),
         NEW array \in BOOLEAN, array <=> name \in TakesArray /\ strings # NoArray,
         NEW missing \in BOOLEAN,
         missing <=> IF array THEN strings < LeastStrings(name) ELSE Len(A) < LeastArgs(name)
  PROVE  /\ missing => m.kind = TooFew(name) /\ b \in m.pos
         /\ ~missing => m.kind = "none" /\ m.form = IF array THEN "exec" ELSE FormOf(name)
<1>1. m = IF missing THEN Error(TooFew(name), {b}) ELSE Ok(IF array THEN "exec" ELSE FormOf(name))
  BY DEF FormOrError
<1>. QED
  BY <1>1 DEF Error, Ok

LEMMA FormsAre ==
  ASSUME NEW name
  PROVE  FormOf(name) \in Forms
BY DEF FormOf, Forms

LEMMA ExecAnswers ==
  ASSUME IInv, NEW b, NEW ks, Handling(b, ks), in_onbuild \/ NameAt(b) # "ONBUILD",
         NEW name \in TakesArray, NEW A, NEW strings,
         MeaningAt(b) = FormOrError(b, name, A, strings),
         NEW fewer \in BOOLEAN, fewer <=> Len(A) < LeastArgs(name),
         NEW end \in 0..Len(text), NextInstruction(end) = FirstFrom(LineEndAt(b)),
         NEW least, least = LeastStrings(name), NEW kind, kind = TooFew(name),
         NEW other, other = FormOf(name),
         Exec(strings, least, fewer, kind, other, end)
  PROVE  IInv'
<1>1. PICK array \in BOOLEAN : array <=> strings # NoArray
  OBVIOUS
<1>2. PICK missing \in BOOLEAN :
        missing <=> IF array THEN strings < LeastStrings(name) ELSE Len(A) < LeastArgs(name)
  OBVIOUS
<1>3. PICK read \in Forms : read = IF array THEN "exec" ELSE FormOf(name)
  <2>1. FormOf(name) \in Forms /\ "exec" \in Forms
    BY FormsAre DEF Forms
  <2>. QED
    BY <2>1
<1>4. PICK m : m = MeaningAt(b)
  OBVIOUS
<1>5. /\ missing => m.kind = kind /\ b \in m.pos
      /\ ~missing => m.kind = "none" /\ m.form = read
  <2>1. m = FormOrError(b, name, A, strings)
    BY <1>4
  <2>2. array <=> name \in TakesArray /\ strings # NoArray
    BY <1>1
  <2>3. /\ missing => m.kind = TooFew(name) /\ b \in m.pos
        /\ ~missing => m.kind = "none" /\ m.form = IF array THEN "exec" ELSE FormOf(name)
    BY <1>2, <2>1, <2>2, FormIs
  <2>. QED
    BY <1>3, <2>3
<1>6. ReturnUnless(missing, kind, read, end)
  <2>1. Missing(strings, least, fewer) <=> missing
    BY <1>1, <1>2 DEF Missing
  <2>2. Form(strings, other) = read
    BY <1>1, <1>3 DEF Form
  <2>. QED
    BY <2>1, <2>2 DEF Exec, ReturnUnless
<1>. QED
  BY <1>4, <1>5, <1>6, Answering

(* What follows the line.                                                   *)
LEMMA EndIs ==
  ASSUME IInv, NEW b, NEW ks, Handling(b, ks), NEW A, NEW o, ArgsAt(b, A, o)
  PROVE  /\ o \in 0..Len(text)
         /\ LineEndAt(o) \in 0..Len(text) /\ LineEndAt(o) = LineEndAt(b)
         /\ NextInstruction(LineEndAt(o)) = FirstFrom(LineEndAt(b))
         /\ o \in InLine(b)
         /\ Len(A) \in Nat /\ Len(WordsAt(o)) = Len(A) /\ (Empty(o) <=> Len(A) = 0)
         /\ A = <<>> <=> Len(A) = 0
         /\ Len(A) = 0 <=> Over(o)
<1>1. text \in Seq(STRING) /\ Len(text) \in Nat
  BY LineIn
<1>2. b \in 0..Len(text) /\ b \in Nat
  BY HandlingIs
<1>3. PICK U : U = WordsAt(o)
  OBVIOUS
<1>4. ArgsKnown(b, A, o, U)
  BY <1>1, <1>2, <1>3, ArgsAre
<1>5. PICK e : e = LineEndAt(b)
  OBVIOUS
<1>6. /\ o \in b..Len(text) /\ On(b, o) /\ o \in 0..Len(text)
      /\ LineEndAt(o) = e /\ o \in b..e
      /\ Len(A) \in Nat /\ Len(A) = Len(U) /\ (Len(A) = 0 <=> Over(o))
  BY <1>4, <1>5 DEF ArgsKnown
<1>7. e \in 0..Len(text)
  <2>1. e \in o..Len(text)
    BY <1>1, <1>2, <1>5, <1>6, OnBefore
  <2>. QED
    BY <1>1, <1>6, <2>1
<1>8. NextInstruction(e) = FirstFrom(e)
  BY <1>1, <1>7, NextIs
<1>9. A \in Seq(SUBSET Nat)
  BY DEF ArgsAt
<1>10. U \in Seq(SUBSET Nat)
  <2>1. PICK c \in 0..Len(text) : c = o
    BY <1>6
  <2>2. /\ Len(U) \in Nat /\ DOMAIN U = 1..Len(U) /\ U \in Seq(SUBSET Nat)
        /\ \A k \in 1..Len(U) :
             /\ U[k] # {} /\ U[k] \in SUBSET Nat /\ U[k] \in SUBSET (0..Len(text))
             /\ \A x \in U[k] : /\ x \in Nat /\ c + x \in c..Len(text) - 1
                                /\ Held(c, c + x) /\ text[c + x + 1] \notin Whitespace
             /\ Min(U[k]) \in U[k] /\ Max(U[k]) \in U[k]
             /\ \A x \in U[k] : Min(U[k]) <= x /\ x <= Max(U[k])
    BY <1>1, <1>3, <2>1, WordsAtIs
  <2>. QED
    BY <2>2
<1>11. (Empty(o) <=> Len(A) = 0) /\ (A = <<>> <=> Len(A) = 0)
  <2>1. Empty(o) <=> U = <<>>
    BY <1>3 DEF Empty
  <2>. QED
    BY <1>6, <1>9, <1>10, <2>1
<1>. QED
  BY <1>3, <1>5, <1>6, <1>7, <1>8, <1>11 DEF InLine

(* A FROM or a NONE stops in front of the newline.                          *)
LEMMA OverNext ==
  ASSUME IInv, NEW b, NEW ks, Handling(b, ks), NEW A, NEW o, ArgsAt(b, A, o), Len(A) = 0
  PROVE  NextInstruction(o) = FirstFrom(LineEndAt(b))
<1>1. text \in Seq(STRING) /\ Len(text) \in Nat
  BY LineIn
<1>2. b \in 0..Len(text) /\ b \in Nat
  BY HandlingIs
<1>3. PICK U : U = WordsAt(o)
  OBVIOUS
<1>4. ArgsKnown(b, A, o, U)
  BY <1>1, <1>2, <1>3, ArgsAre
<1>5. o \in b..Len(text) /\ On(b, o) /\ Over(o) /\ o \in 0..Len(text)
  BY <1>4 DEF ArgsKnown
<1>6. LineEndAt(b) = Newline(text, o)
  <2>1. o = Len(text) \/ At(text, o, {"lf"})
    BY <1>5 DEF Over
  <2>. QED
    BY <1>1, <1>2, <1>5, <2>1, OnOver
<1>7. CASE o = Len(text)
  <2>1. Newline(text, o) = o
    BY <1>1, <1>7 DEF Newline, At
  <2>2. NextInstruction(o) = FirstFrom(o)
    BY <1>1, <1>5, NextIs
  <2>. QED
    BY <1>6, <2>1, <2>2
<1>8. CASE At(text, o, {"lf"})
  <2>1. PICK e : e = o + 1
    OBVIOUS
  <2>2. Newline(text, o) = e /\ e \in 0..Len(text)
    BY <1>1, <1>5, <1>8, <2>1 DEF Newline, At
  <2>3. NextInstruction(o) = NextInstruction(e)
    BY <1>1, <1>5, <1>8, <2>1, NextNewline
  <2>4. NextInstruction(e) = FirstFrom(e)
    BY <1>1, <2>2, NextIs
  <2>. QED
    BY <1>6, <2>2, <2>3, <2>4
<1>. QED
  BY <1>5, <1>7, <1>8 DEF Over

LEMMA OtherMeaning ==
  ASSUME NEW b, NEW name \in ToSet(Keywords), NEW A, NEW strings,
         name \notin {"ONBUILD", "SHELL", "HEALTHCHECK", "FROM"}
  PROVE  MeaningOf(b, name, A, strings) = FormOrError(b, name, A, strings)
<1>1. name # "none"
  BY KeywordsAre
<1>. QED
  BY <1>1 DEF MeaningOf

LEMMA Handled ==
  ASSUME IInv, NEW names, Handles(names)
  PROVE  /\ \E b, ks : Handling(b, ks)
         /\ instruction \in names
BY DEF IInv, AtArguments, Handling, Handles

(* The arguments of an instruction without flags, and with flags.           *)
LEMMA PlainArguments ==
  ASSUME IInv, NEW b, NEW ks, Handling(b, ks), instruction \notin Flagged
  PROVE  \E A : ArgsAt(b, A, s) /\ MeaningAt(b) = MeaningOf(b, instruction, A, Strings(s))
<1>1. PICK A : A = Args(b, instruction, WordsAt(b))
  OBVIOUS
<1>2. PICK o : o = IF instruction \in Flagged THEN PastFlags(s) ELSE s
  OBVIOUS
<1>3. ArgsAt(b, A, o) /\ MeaningAt(b) = MeaningOf(b, instruction, A, Strings(o))
  BY <1>1, <1>2, ArgumentsAre
<1>4. o = s
  BY <1>2
<1>. QED
  BY <1>3, <1>4

LEMMA FlaggedArguments ==
  ASSUME IInv, NEW b, NEW ks, Handling(b, ks), instruction \in Flagged
  PROVE  \E A : /\ ArgsAt(b, A, PastFlags(s))
                /\ MeaningAt(b) = MeaningOf(b, instruction, A, Strings(PastFlags(s)))
<1>1. PICK A : A = Args(b, instruction, WordsAt(b))
  OBVIOUS
<1>2. PICK o : o = IF instruction \in Flagged THEN PastFlags(s) ELSE s
  OBVIOUS
<1>3. ArgsAt(b, A, o) /\ MeaningAt(b) = MeaningOf(b, instruction, A, Strings(o))
  BY <1>1, <1>2, ArgumentsAre
<1>4. o = PastFlags(s)
  BY <1>2
<1>. QED
  BY <1>3, <1>4

(* Either form of the arguments at o, of the instruction name.              *)
LEMMA ArrayOrOther ==
  ASSUME IInv, NEW b, NEW ks, Handling(b, ks), in_onbuild \/ NameAt(b) # "ONBUILD",
         NEW name \in TakesArray, NEW A, NEW o, ArgsAt(b, A, o),
         MeaningAt(b) = FormOrError(b, name, A, Strings(o)),
         NEW fewer \in BOOLEAN, fewer <=> Len(A) < LeastArgs(name),
         NEW least, least = LeastStrings(name), NEW kind, kind = TooFew(name),
         NEW other, other = FormOf(name),
         Exec(Strings(o), least, fewer, kind, other, LineEndAt(o))
  PROVE  IInv'
<1>1. PICK e : e = LineEndAt(o)
  OBVIOUS
<1>2. e \in 0..Len(text) /\ NextInstruction(e) = FirstFrom(LineEndAt(b))
  BY <1>1, EndIs
<1>3. PICK strings : strings = Strings(o)
  OBVIOUS
<1>4. Exec(strings, least, fewer, kind, other, e) /\ MeaningAt(b) = FormOrError(b, name, A, strings)
  BY <1>1, <1>3
<1>. QED
  BY <1>2, <1>4, ExecAnswers

LEMMA OneForm ==
  ASSUME IInv, NEW b, NEW ks, Handling(b, ks), in_onbuild \/ NameAt(b) # "ONBUILD",
         NEW name, name \notin TakesArray, LeastArgs(name) = 1, NEW A, NEW o, ArgsAt(b, A, o),
         NEW strings, MeaningAt(b) = FormOrError(b, name, A, strings),
         NEW kind, kind = TooFew(name), NEW read, read = FormOf(name),
         NEW end \in 0..Len(text), NextInstruction(end) = FirstFrom(LineEndAt(b)),
         ReturnUnless(Empty(o), kind, read, end)
  PROVE  IInv'
<1>1. PICK missing \in BOOLEAN : missing <=> Empty(o)
  OBVIOUS
<1>2. Len(A) \in Nat /\ (Empty(o) <=> Len(A) = 0)
  BY EndIs
<1>3. PICK m : m = MeaningAt(b)
  OBVIOUS
<1>4. missing <=> Len(A) < LeastArgs(name)
  BY <1>1, <1>2
<1>5. /\ missing => m.kind = kind /\ b \in m.pos
      /\ ~missing => m.kind = "none" /\ m.form = read
  <2>1. PICK array \in BOOLEAN : ~array
    OBVIOUS
  <2>2. m = FormOrError(b, name, A, strings)
    BY <1>3
  <2>3. array <=> name \in TakesArray /\ strings # NoArray
    BY <2>1
  <2>4. missing <=> IF array THEN strings < LeastStrings(name) ELSE Len(A) < LeastArgs(name)
    BY <1>4, <2>1
  <2>5. /\ missing => m.kind = TooFew(name) /\ b \in m.pos
        /\ ~missing => m.kind = "none" /\ m.form = IF array THEN "exec" ELSE FormOf(name)
    BY <2>2, <2>3, <2>4, FormIs
  <2>. QED
    BY <2>1, <2>5
<1>6. read \in Forms
  BY FormsAre
<1>7. ReturnUnless(missing, kind, read, end)
  BY <1>1 DEF ReturnUnless
<1>. QED
  BY <1>3, <1>5, <1>6, <1>7, Answering

-----------------------------------------------------------------------------
(* The handlers.                                                            *)
LEMMA OneFormInv ==
  ASSUME IInv, StringArgument \/ StringArgumentOnly \/ Expose
  PROVE  IInv'
<1>1. PICK names : /\ Handles(names)
                   /\ names \subseteq {"ARG", "ENV", "LABEL", "MAINTAINER", "STOPSIGNAL", "USER",
                                       "WORKDIR", "EXPOSE"}
  BY DEF StringArgument, StringArgumentOnly, Expose
<1>2. PICK b, ks : Handling(b, ks)
  BY <1>1, Handled
<1>3. instruction \in names /\ instruction = NameAt(b) /\ instruction \in ToSet(Keywords)
  BY <1>1, <1>2, Handled, HandlingIs
<1>4. PICK name : name = instruction
  OBVIOUS
<1>5. name \notin Flagged /\ name \notin TakesArray /\ LeastArgs(name) = 1
      /\ name \notin {"ONBUILD", "SHELL", "HEALTHCHECK", "FROM"}
  BY <1>1, <1>3, <1>4 DEF Flagged, TakesArray, LeastArgs
<1>6. PICK A : ArgsAt(b, A, s) /\ MeaningAt(b) = MeaningOf(b, instruction, A, Strings(s))
  BY <1>2, <1>4, <1>5, PlainArguments
<1>7. PICK m : m = MeaningAt(b)
  OBVIOUS
<1>8. m = FormOrError(b, name, A, Strings(s))
  <2>1. name \in ToSet(Keywords) /\ m = MeaningOf(b, name, A, Strings(s))
    BY <1>3, <1>4, <1>6, <1>7
  <2>. QED
    BY <1>5, <2>1, OtherMeaning
<1>9. PICK end : end = LineEndAt(s)
  OBVIOUS
<1>10. end \in 0..Len(text) /\ NextInstruction(end) = FirstFrom(LineEndAt(b))
  BY <1>2, <1>6, <1>9, EndIs
<1>11. ReturnUnless(Empty(s), TooFew(name), FormOf(name), end)
  <2>1. CASE StringArgument
    BY <1>4, <1>9, <2>1 DEF StringArgument, Handles, TooFew, FormOf
  <2>2. CASE StringArgumentOnly
    BY <1>4, <1>9, <2>2 DEF StringArgumentOnly, Handles, TooFew, FormOf
  <2>3. CASE Expose
    BY <1>4, <1>9, <2>3 DEF Expose, Handles, TooFew, FormOf
  <2>. QED
    BY <2>1, <2>2, <2>3
<1>12. NameAt(b) # "ONBUILD"
  BY <1>3, <1>4, <1>5
<1>. QED
  BY <1>2, <1>5, <1>6, <1>7, <1>8, <1>10, <1>11, <1>12, OneForm

(* VOLUME, CMD, ENTRYPOINT, RUN, ADD and COPY: the array is tried first.    *)
LEMMA ArrayFormInv ==
  ASSUME IInv, Volume \/ Cmd \/ Entrypoint \/ Run \/ AddOrCopy
  PROVE  IInv'
<1>1. PICK names : /\ Handles(names)
                   /\ names \subseteq {"VOLUME", "CMD", "ENTRYPOINT", "RUN", "ADD", "COPY"}
  BY DEF Volume, Cmd, Entrypoint, Run, AddOrCopy
<1>2. PICK b, ks : Handling(b, ks)
  BY <1>1, Handled
<1>3. instruction \in names /\ instruction = NameAt(b) /\ instruction \in ToSet(Keywords)
  BY <1>1, <1>2, Handled, HandlingIs
<1>4. PICK name \in ToSet(Keywords) : name = instruction
  BY <1>3
<1>5. name \in TakesArray /\ name \notin {"ONBUILD", "SHELL", "HEALTHCHECK", "FROM"}
  BY <1>1, <1>3, <1>4 DEF TakesArray
<1>6. PICK o : o = IF instruction \in Flagged THEN PastFlags(s) ELSE s
  OBVIOUS
<1>7. PICK A : A = Args(b, instruction, WordsAt(b))
  OBVIOUS
<1>8. ArgsAt(b, A, o) /\ MeaningAt(b) = MeaningOf(b, instruction, A, Strings(o))
  BY <1>2, <1>6, <1>7, ArgumentsAre
<1>9. MeaningAt(b) = FormOrError(b, name, A, Strings(o))
  <2>1. MeaningOf(b, name, A, Strings(o)) = FormOrError(b, name, A, Strings(o))
    BY <1>5, OtherMeaning
  <2>. QED
    BY <1>4, <1>8, <2>1
<1>10. NameAt(b) # "ONBUILD"
  BY <1>3, <1>4, <1>5
<1>11. PICK fewer \in BOOLEAN : fewer <=> Len(A) < LeastArgs(name)
  OBVIOUS
<1>12. /\ Len(A) \in Nat /\ Len(WordsAt(o)) = Len(A) /\ (Empty(o) <=> Len(A) = 0)
       /\ o \in 0..Len(text)
  BY <1>2, <1>8, EndIs
<1>13. PICK end : end = LineEndAt(o)
  OBVIOUS
<1>14. Exec(Strings(o), LeastStrings(name), fewer, TooFew(name), FormOf(name), end)
  <2>1. CASE Volume
    <3>1. name = "VOLUME" /\ o = s
      BY <1>4, <1>6, <2>1 DEF Volume, Handles, Flagged
    <3>2. fewer <=> Empty(s)
      BY <1>11, <1>12, <3>1 DEF LeastArgs
    <3>3. Exec(Strings(s), 0, Empty(s), "at least one argument", "words", LineEndAt(s))
      BY <2>1 DEF Volume
    <3>4. LeastStrings(name) = 0 /\ TooFew(name) = "at least one argument" /\ FormOf(name) = "words"
      BY <3>1 DEF LeastStrings, TooFew, FormOf
    <3>. QED
      BY <1>13, <3>1, <3>2, <3>3, <3>4 DEF Exec, Missing, ReturnUnless
  <2>2. CASE Entrypoint
    <3>1. name = "ENTRYPOINT" /\ o = s
      BY <1>4, <1>6, <2>2 DEF Entrypoint, Handles, Flagged
    <3>2. fewer <=> Empty(s)
      BY <1>11, <1>12, <3>1 DEF LeastArgs
    <3>3. Exec(Strings(s), 1, Empty(s), "at least one argument", "shell", LineEndAt(s))
      BY <2>2 DEF Entrypoint
    <3>4. LeastStrings(name) = 1 /\ TooFew(name) = "at least one argument" /\ FormOf(name) = "shell"
      BY <3>1 DEF LeastStrings, TooFew, FormOf
    <3>. QED
      BY <1>13, <3>1, <3>2, <3>3, <3>4 DEF Exec, Missing, ReturnUnless
  <2>3. CASE Run
    <3>1. name = "RUN" /\ o = PastFlags(s)
      BY <1>4, <1>6, <2>3 DEF Run, Handles, Flagged
    <3>2. fewer <=> FALSE
      BY <1>11, <1>12, <3>1 DEF LeastArgs
    <3>3. Exec(Strings(o), 1, FALSE, "at least one argument", "shell", LineEndAt(o))
      BY <2>3, <3>1 DEF Run, RunAt
    <3>4. LeastStrings(name) = 1 /\ TooFew(name) = "at least one argument" /\ FormOf(name) = "shell"
      BY <3>1 DEF LeastStrings, TooFew, FormOf
    <3>. QED
      BY <1>13, <3>2, <3>3, <3>4 DEF Exec, Missing, ReturnUnless
  <2>4. CASE AddOrCopy
    <3>1. name \in {"ADD", "COPY"} /\ o = PastFlags(s)
      BY <1>4, <1>6, <2>4 DEF AddOrCopy, Handles, Flagged
    <3>2. fewer <=> Len(WordsAt(o)) < 2
      BY <1>11, <1>12, <3>1 DEF LeastArgs
    <3>3. Exec(Strings(o), 2, Len(WordsAt(o)) < 2, "at least two arguments", "words", LineEndAt(o))
      BY <2>4, <3>1 DEF AddOrCopy, AddOrCopyAt
    <3>4. LeastStrings(name) = 2 /\ TooFew(name) = "at least two arguments" /\ FormOf(name) = "words"
      BY <3>1 DEF LeastStrings, TooFew, FormOf
    <3>. QED
      BY <1>13, <3>2, <3>3, <3>4 DEF Exec, Missing, ReturnUnless
  <2>5. CASE Cmd
    <3>1. name = "CMD" /\ o = s
      BY <1>4, <1>6, <2>5 DEF Cmd, Handles, Flagged
    <3>2. fewer <=> FALSE
      BY <1>11, <1>12, <3>1 DEF LeastArgs
    <3>3. Return(Form(Strings(s), "shell"), LineEndAt(s))
      BY <2>5 DEF Cmd
    <3>4. LeastStrings(name) = 0 /\ FormOf(name) = "shell"
      BY <3>1 DEF LeastStrings, FormOf
    <3>5. Strings(o) \in Nat
      BY <1>12, LineIn, StringsNat
    <3>6. ~Missing(Strings(o), 0, fewer)
      BY <3>2, <3>5 DEF Missing
    <3>. QED
      BY <1>13, <3>1, <3>3, <3>4, <3>6 DEF Exec, ReturnUnless
  <2>. QED
    BY <2>1, <2>2, <2>3, <2>4, <2>5
<1>15. PICK least : least = LeastStrings(name)
  OBVIOUS
<1>16. PICK kind : kind = TooFew(name)
  OBVIOUS
<1>17. PICK other : other = FormOf(name)
  OBVIOUS
<1>18. Exec(Strings(o), least, fewer, kind, other, LineEndAt(o))
  BY <1>13, <1>14, <1>15, <1>16, <1>17
<1>. QED
  BY <1>2, <1>5, <1>8, <1>9, <1>10, <1>11, <1>15, <1>16, <1>17, <1>18, ArrayOrOther

(* An error, its position in the line.                                      *)
LEMMA Refusing ==
  ASSUME IInv, NEW b, NEW ks, Handling(b, ks), in_onbuild \/ NameAt(b) # "ONBUILD",
         NEW kind, NEW where, NEW pos \in 0..Len(text), pos \in where,
         MeaningAt(b) = Error(kind, where), Fail(kind, pos), s' = s
  PROVE  IInv'
<1>1. Innermost(Line, b)
  BY HandlingIs
<1>2. PICK m : m = MeaningAt(b)
  OBVIOUS
<1>3. m = Meaning(Line, Inner(Line))
  BY <1>1, <1>2 DEF Innermost
<1>4. m.kind = kind /\ pos \in m.pos
  BY <1>2 DEF Error
<1>5. Unchanged /\ pc' = "failed" /\ error' = [kind |-> kind, pos |-> pos]
  BY DEF Fail, Unchanged, IInv, TypesOk
<1>. QED
  BY <1>3, <1>4, <1>5, Failing

LEMMA ShellInv ==
  ASSUME IInv, Shell
  PROVE  IInv'
<1>1. PICK names : Handles(names) /\ names = {"SHELL"}
  BY DEF Shell
<1>2. PICK b, ks : Handling(b, ks)
  BY <1>1, Handled
<1>3. instruction = "SHELL" /\ instruction = NameAt(b) /\ NameAt(b) # "ONBUILD" /\ b \in Nat
  BY <1>1, <1>2, Handled, HandlingIs
<1>4. instruction \notin Flagged
  BY <1>3 DEF Flagged
<1>5. PICK A : ArgsAt(b, A, s) /\ MeaningAt(b) = MeaningOf(b, instruction, A, Strings(s))
  BY <1>2, <1>4, PlainArguments
<1>6. PICK strings : strings = Strings(s)
  OBVIOUS
<1>7. MeaningAt(b) = IF strings = NoArray THEN ShellError(b, A) ELSE FormOrError(b, "SHELL", A, strings)
  BY <1>3, <1>5, <1>6 DEF MeaningOf
<1>8. PICK end : end = LineEndAt(s)
  OBVIOUS
<1>9. /\ s \in 0..Len(text) /\ s \in InLine(b)
      /\ end \in 0..Len(text) /\ NextInstruction(end) = FirstFrom(LineEndAt(b))
      /\ Len(A) \in Nat /\ (A = <<>> <=> Len(A) = 0) /\ (Len(A) = 0 <=> Over(s))
  BY <1>2, <1>5, <1>8, EndIs
<1>10. CASE strings # NoArray
  <2>1. MaybeJson(s)
    BY <1>6, <1>10 DEF Strings
  <2>2. ReturnUnless(strings = 0, "at least one argument", "exec", end)
    BY <1>6, <1>8, <1>10, <2>1 DEF Shell
  <2>3. strings \in Nat
    BY <1>6, <1>9, LineIn, StringsNat
  <2>4. PICK missing \in BOOLEAN : missing <=> strings = 0
    OBVIOUS
  <2>5. PICK m : m = FormOrError(b, "SHELL", A, strings)
    OBVIOUS
  <2>6. "SHELL" \in TakesArray /\ LeastStrings("SHELL") = 1 /\ TooFew("SHELL") = "at least one argument"
    BY DEF TakesArray, LeastStrings, TooFew
  <2>7. m = IF missing THEN Error("at least one argument", {b}) ELSE Ok("exec")
    <3>1. missing <=> strings < 1
      <4>1. strings = 0 <=> strings < 1
        BY <2>3
      <4>. QED
        BY <2>4, <4>1, Zenon
    <3>2. PICK least : least = LeastStrings("SHELL")
      OBVIOUS
    <3>3. least = 1
      BY <2>6, <3>2
    <3>4. missing <=> strings < least
      BY <3>1, <3>3
    <3>. QED
      BY <1>10, <2>5, <2>6, <3>2, <3>4 DEF FormOrError
  <2>8. /\ missing => m.kind = "at least one argument" /\ b \in m.pos
        /\ ~missing => m.kind = "none" /\ m.form = "exec"
    BY <2>7 DEF Error, Ok
  <2>9. m = MeaningAt(b) /\ "exec" \in Forms
    BY <1>7, <1>10, <2>5 DEF Forms
  <2>10. ReturnUnless(missing, "at least one argument", "exec", end)
    BY <2>2, <2>4 DEF ReturnUnless
  <2>. QED
    BY <1>2, <1>3, <1>9, <2>8, <2>9, <2>10, Answering
<1>11. CASE strings = NoArray
  <2>1. MeaningAt(b) = ShellError(b, A)
    BY <1>7, <1>11
  <2>2. Fail(IF MaybeJson(s) THEN "invalid JSON" ELSE "expected JSON array", s) /\ s' = s
    BY <1>6, <1>11 DEF Shell
  <2>3. A # <<>> => b + Min(A[1]) = s
    <3>1. PICK U : U = WordsAt(s)
      OBVIOUS
    <3>2. b \in 0..Len(text) /\ text \in Seq(STRING)
      BY <1>2, LineIn, HandlingIs
    <3>3. ArgsKnown(b, A, s, U)
      BY <1>5, <3>1, <3>2, ArgsAre
    <3>. QED
      BY <1>9, <3>3 DEF ArgsKnown
  <2>4. Over(s) => ~MaybeJson(s)
    BY DEF Over, MaybeJson, At
  <2>5. PICK kind : kind = IF MaybeJson(s) THEN "invalid JSON" ELSE "expected JSON array"
    OBVIOUS
  <2>6. CASE A # <<>>
    <3>1. PICK where : where = {s}
      OBVIOUS
    <3>2. MeaningAt(b) = Error(kind, where)
      BY <2>1, <2>3, <2>5, <2>6, <3>1 DEF ShellError, ShellErrorAt
    <3>. QED
      BY <1>2, <1>3, <1>9, <2>2, <2>5, <3>1, <3>2, Refusing
  <2>7. CASE A = <<>>
    <3>1. kind = "expected JSON array"
      BY <1>9, <2>4, <2>5, <2>7
    <3>2. PICK where : where = InLine(b)
      OBVIOUS
    <3>3. MeaningAt(b) = Error(kind, where)
      BY <2>1, <2>7, <3>1, <3>2 DEF ShellError
    <3>. QED
      BY <1>2, <1>3, <1>9, <2>2, <2>5, <3>2, <3>3, Refusing
  <2>. QED
    BY <2>6, <2>7
<1>. QED
  BY <1>10, <1>11

LEMMA FromImageInv ==
  ASSUME IInv, FromImage
  PROVE  IInv'
<1>1. PICK names : Handles(names) /\ names = {"FROM"}
  BY DEF FromImage
<1>2. PICK b, ks : Handling(b, ks)
  BY <1>1, Handled
<1>3. instruction = "FROM" /\ instruction = NameAt(b) /\ NameAt(b) # "ONBUILD" /\ b \in Nat /\ Start = b
      /\ b \in 0..Len(text)
  BY <1>1, <1>2, Handled, HandlingIs
<1>4. instruction \in Flagged
  BY <1>3 DEF Flagged
<1>5. PICK A : /\ ArgsAt(b, A, PastFlags(s))
               /\ MeaningAt(b) = MeaningOf(b, instruction, A, Strings(PastFlags(s)))
  BY <1>2, <1>4, FlaggedArguments
<1>6. PICK o : o = PastFlags(s)
  OBVIOUS
<1>7. PICK strings : strings = Strings(o)
  OBVIOUS
<1>8. PICK U : U = WordsAt(o)
  OBVIOUS
<1>9. FromImageAt(o, U) /\ ArgsAt(b, A, o) /\ MeaningAt(b) = MeaningOf(b, "FROM", A, strings)
  BY <1>3, <1>5, <1>6, <1>7, <1>8 DEF FromImage, FromImageWords
<1>10. ArgsKnown(b, A, o, U) /\ Len(text) \in Nat /\ text \in Seq(STRING)
  BY <1>2, <1>3, <1>8, <1>9, LineIn, ArgsAre
<1>11. /\ Len(A) \in Nat /\ Len(U) = Len(A) /\ (A = <<>> <=> Len(A) = 0)
       /\ o \in 0..Len(text) /\ (U = <<>> <=> Len(A) = 0)
  BY <1>2, <1>8, <1>9, EndIs DEF Empty
<1>12. MeaningAt(b) = IF Len(A) > 1 THEN Error("expected AS", {b + Min(A[2])})
                      ELSE FormOrError(b, "FROM", A, strings)
  BY <1>9 DEF MeaningOf
<1>13. CASE Len(A) > 1
  <2>1. U # <<>> /\ Len(U) # 1
    BY <1>11, <1>13
  <2>2. PICK pos : pos = o + Min(U[2])
    OBVIOUS
  <2>3. Fail("expected AS", pos) /\ s' = s
    BY <1>9, <2>1, <2>2 DEF FromImageAt
  <2>4. 2 \in 1..Len(A)
    BY <1>11, <1>13
  <2>5. /\ U[2] \in SUBSET Nat /\ U[2] # {} /\ \A x \in U[2] : o + x < Len(text)
        /\ Min(U[2]) \in Nat /\ Min(A[2]) \in Nat /\ b + Min(A[2]) = o + Min(U[2])
    BY <1>10, <2>4 DEF ArgsKnown
  <2>6. pos \in 0..Len(text)
    <3>1. Min(U[2]) \in U[2]
      <4>1. PICK w : w = U[2]
        OBVIOUS
      <4>2. w \in SUBSET Nat /\ w # {}
        BY <2>5, <4>1
      <4>3. Min(w) \in w
        BY <4>2, MinIs
      <4>. QED
        BY <4>1, <4>3
    <3>. QED
      BY <1>10, <1>11, <2>2, <2>5, <3>1
  <2>7. PICK where : where = {pos}
    OBVIOUS
  <2>8. MeaningAt(b) = Error("expected AS", where)
    BY <1>12, <1>13, <2>2, <2>5, <2>7
  <2>. QED
    BY <1>2, <1>3, <2>3, <2>6, <2>7, <2>8, Refusing
<1>14. CASE Len(A) <= 1
  <2>1. MeaningAt(b) = FormOrError(b, "FROM", A, strings)
    <3>1. ~(Len(A) > 1)
      BY <1>11, <1>14
    <3>. QED
      BY <1>12, <3>1, Zenon
  <2>2. /\ "FROM" \notin TakesArray /\ LeastArgs("FROM") = 1
        /\ TooFew("FROM") = "at least one argument" /\ FormOf("FROM") = "words"
    BY DEF TakesArray, LeastArgs, TooFew, FormOf
  <2>3. PICK end : end = IF U = <<>> THEN LineEndAt(o) ELSE Gap(o + Max(U[1]) + 1)
    OBVIOUS
  <2>4. ReturnUnless(Empty(o), "at least one argument", "words", end)
    <3>1. CASE U = <<>>
      <4>1. Fail("at least one argument", Start) /\ s' = s
        <5>1. Len(U) = 0 /\ Len(U) # 1
          BY <1>11, <3>1
        <5>2. FromImageAt(o, U)
          BY <1>9
        <5>. QED
          BY <3>1, <5>1, <5>2 DEF FromImageAt
      <4>. QED
        BY <1>8, <3>1, <4>1 DEF ReturnUnless, Empty
    <3>2. CASE U # <<>>
      <4>1. Len(U) = 1
        BY <1>11, <1>14, <3>2
      <4>2. Return("words", end)
        BY <1>9, <2>3, <3>2, <4>1 DEF FromImageAt
      <4>. QED
        BY <1>8, <3>2, <4>2 DEF ReturnUnless, Empty
    <3>. QED
      BY <3>1, <3>2
  <2>5. end \in 0..Len(text) /\ NextInstruction(end) = FirstFrom(LineEndAt(b))
    <3>1. CASE U = <<>>
      BY <1>2, <1>9, <2>3, <3>1, EndIs
    <3>2. CASE U # <<>>
      <4>1. A # <<>> /\ Len(A) = 1 /\ A \in Seq(SUBSET Nat)
        BY <1>9, <1>11, <1>14, <3>2 DEF ArgsAt
      <4>2. PICK B : B = Tail(A)
        OBVIOUS
      <4>3. end = Gap(o + Max(WordsAt(o)[1]) + 1)
        BY <1>8, <2>3, <3>2
      <4>4. ArgsAt(b, B, end)
        BY <1>3, <1>9, <1>10, <4>1, <4>2, <4>3, ArgsBehind
      <4>5. Len(B) = 0
        BY <4>1, <4>2
      <4>. QED
        BY <1>2, <4>4, <4>5, OverNext, EndIs
    <3>. QED
      BY <3>1, <3>2
  <2>6. PICK kind : kind = TooFew("FROM")
    OBVIOUS
  <2>7. PICK read : read = FormOf("FROM")
    OBVIOUS
  <2>8. ReturnUnless(Empty(o), kind, read, end)
    BY <2>2, <2>4, <2>6, <2>7
  <2>. QED
    BY <1>2, <1>3, <1>9, <2>1, <2>2, <2>5, <2>6, <2>7, <2>8, OneForm
<1>. QED
  BY <1>11, <1>13, <1>14

(* HEALTHCHECK: its first argument is CMD or NONE if these letters are at o.*)
LEMMA HealthcheckIs ==
  ASSUME IInv, Handles({"HEALTHCHECK"})
  PROVE  \E b, ks, A : /\ Handling(b, ks) /\ NameAt(b) # "ONBUILD" /\ b \in 0..Len(text)
                       /\ ArgsAt(b, A, PastFlags(s)) /\ MeaningAt(b) = HealthcheckMeaning(b, A)
<1>1. PICK names : Handles(names) /\ names = {"HEALTHCHECK"}
  OBVIOUS
<1>2. PICK b, ks : Handling(b, ks)
  BY <1>1, Handled
<1>3. instruction = "HEALTHCHECK" /\ instruction = NameAt(b) /\ NameAt(b) # "ONBUILD"
      /\ b \in 0..Len(text)
  BY <1>1, <1>2, Handled, HandlingIs
<1>4. instruction \in Flagged
  BY <1>3 DEF Flagged
<1>5. PICK A : /\ ArgsAt(b, A, PastFlags(s))
               /\ MeaningAt(b) = MeaningOf(b, instruction, A, Strings(PastFlags(s)))
  BY <1>2, <1>4, FlaggedArguments
<1>6. MeaningAt(b) = HealthcheckMeaning(b, A)
  BY <1>3, <1>5 DEF MeaningOf
<1>. QED
  BY <1>2, <1>3, <1>5, <1>6

ArgumentIs(b, A, o, name, e) ==
  /\ e # NoToken <=> A # <<>> /\ IsPrefix(Letters[name], Spelled(b, A[1]))
  /\ A # <<>> => (Is(b, A[1], name) => e # NoToken)
  /\ e # NoToken => /\ e \in 0..Len(text) /\ e \in InLine(b)
                    /\ Gap(e) \in 0..Len(text) /\ Gap(e) \in InLine(b)
                    /\ Separated(e) <=> Is(b, A[1], name)
                    /\ Separated(e) => ArgsAt(b, Tail(A), Gap(e))
                    /\ ~Separated(e) => Gap(e) < Len(text) /\ ~At(text, Gap(e), {"lf"})

LEMMA ArgumentSpells ==
  ASSUME IInv, NEW b, NEW ks, Handling(b, ks), NEW A, NEW o, ArgsAt(b, A, o),
         NEW name \in Names19, NEW e, e = TokenAt(o, name)
  PROVE  ArgumentIs(b, A, o, name, e)
<1>1. text \in Inputs /\ text \in Seq(STRING) /\ Len(text) \in Nat
  BY LineIn
<1>2. b \in 0..Len(text) /\ b \in Nat
  BY HandlingIs
<1>3. PICK U : U = WordsAt(o)
  OBVIOUS
<1>4. ArgsKnown(b, A, o, U) /\ Clean(o)
  BY <1>1, <1>2, <1>3, ArgsAre DEF ArgsAt
<1>5. /\ o \in b..Len(text) /\ On(b, o) /\ o \in 0..Len(text) /\ LineEndAt(o) = LineEndAt(b)
      /\ Len(A) \in Nat /\ Len(A) = Len(U) /\ (Len(A) = 0 <=> Over(o))
  BY <1>4 DEF ArgsKnown
<1>6. A = <<>> <=> Len(A) = 0
  BY EndIs
<1>7. CASE A = <<>>
  <2>1. e = NoToken
    BY <1>1, <1>5, <1>6, <1>7, NoTokenOver
  <2>. QED
    BY <1>7, <2>1 DEF ArgumentIs
<1>8. CASE A # <<>>
  <2>1. Len(A) >= 1 /\ 1 \in 1..Len(A)
    BY <1>5, <1>6, <1>8
  <2>2. PICK w : w = U[1]
    OBVIOUS
  <2>3. PICK v : v = A[1]
    OBVIOUS
  <2>4. /\ FirstWord(o, w) /\ v = Shift(w, o - b) /\ w \in SUBSET Nat
        /\ \A x \in w : o + x < Len(text)
    BY <1>4, <2>1, <2>2, <2>3 DEF ArgsKnown
  <2>5. Spelled(b, v) = Spelled(o, w)
    BY <1>1, <1>2, <1>5, <2>4, SpelledShift
  <2>6. TokenOf(o, name, w, e)
    BY <1>1, <1>4, <1>5, <2>4, TokenIs
  <2>7. PICK u : u = Spelled(o, w)
    OBVIOUS
  <2>8. (u = Letters[name] => IsPrefix(Letters[name], u)) /\ (Is(o, w, name) <=> u = Letters[name])
    BY <1>1, <1>5, <2>4, <2>7, SpelledOnce
  <2>9. Is(b, v, name) <=> u = Letters[name]
    BY <2>5, <2>7 DEF Is
  <2>10. e # NoToken <=> IsPrefix(Letters[name], Spelled(b, v))
    BY <2>5, <2>6 DEF TokenOf
  <2>11. Is(b, v, name) => e # NoToken
    BY <2>5, <2>7, <2>8, <2>9, <2>10
  <2>12. ASSUME e # NoToken
         PROVE  /\ e \in 0..Len(text) /\ e \in InLine(b)
                /\ Gap(e) \in 0..Len(text) /\ Gap(e) \in InLine(b)
                /\ Separated(e) <=> Is(b, v, name)
                /\ Separated(e) => ArgsAt(b, Tail(A), Gap(e))
                /\ ~Separated(e) => Gap(e) < Len(text) /\ ~At(text, Gap(e), {"lf"})
    <3>1. /\ e \in o + 1..Len(text) /\ On(o, e)
          /\ Separated(e) <=> Is(o, w, name)
          /\ Separated(e) => e = o + Max(w) + 1
          /\ ~Separated(e) => Gap(e) < Len(text) /\ ~At(text, Gap(e), {"lf"})
      BY <2>6, <2>12 DEF TokenOf
    <3>2. e \in o..Len(text)
      BY <1>1, <1>5, <3>1
    <3>3. PICK g : g = Gap(e)
      OBVIOUS
    <3>4. g \in e..Len(text) /\ On(o, g)
      BY <1>1, <1>5, <3>1, <3>2, <3>3, GapEnds
    <3>5. g \in o..Len(text)
      BY <1>1, <1>5, <3>2, <3>4
    <3>6. e \in o..LineEndAt(o) /\ LineEndAt(o) \in e..Len(text)
      BY <1>1, <1>5, <3>1, <3>2, OnBefore
    <3>7. g \in o..LineEndAt(o)
      BY <1>1, <1>5, <3>4, <3>5, OnBefore
    <3>8. e \in InLine(b) /\ g \in InLine(b) /\ e \in 0..Len(text) /\ g \in 0..Len(text)
      BY <1>1, <1>2, <1>5, <3>2, <3>5, <3>6, <3>7 DEF InLine
    <3>9. Separated(e) => ArgsAt(b, Tail(A), g)
      <4>1. SUFFICES ASSUME Separated(e)
                     PROVE  ArgsAt(b, Tail(A), g)
        OBVIOUS
      <4>2. PICK B : B = Tail(A)
        OBVIOUS
      <4>3. g = Gap(o + Max(WordsAt(o)[1]) + 1)
        BY <1>3, <2>2, <3>1, <3>3, <4>1
      <4>4. ArgsAt(b, B, g)
        BY <1>1, <1>2, <1>8, <4>2, <4>3, ArgsBehind
      <4>. QED
        BY <4>2, <4>4
    <3>. QED
      BY <2>8, <2>9, <3>1, <3>3, <3>8, <3>9
  <2>. QED
    BY <1>8, <2>3, <2>10, <2>11, <2>12 DEF ArgumentIs
<1>. QED
  BY <1>7, <1>8

LEMMA HealthcheckCmdInv ==
  ASSUME IInv, HealthcheckCmd
  PROVE  IInv'
<1>1. PICK b, ks, A : /\ Handling(b, ks) /\ NameAt(b) # "ONBUILD" /\ b \in 0..Len(text)
                      /\ ArgsAt(b, A, PastFlags(s)) /\ MeaningAt(b) = HealthcheckMeaning(b, A)
  BY HealthcheckIs DEF HealthcheckCmd
<1>2. PICK o : o = PastFlags(s)
  OBVIOUS
<1>3. PICK name \in Names19 : name = "CMD"
  BY DEF Names19
<1>4. PICK after : after = TokenAt(o, name)
  OBVIOUS
<1>5. after # NoToken /\ Separated(after) /\ CmdAt(Gap(after))
  BY <1>2, <1>3, <1>4 DEF HealthcheckCmd
<1>6. ArgsAt(b, A, o)
  BY <1>1, <1>2
<1>7. ArgumentIs(b, A, o, name, after)
  BY <1>1, <1>4, <1>6, ArgumentSpells
<1>8. PICK g : g = Gap(after)
  OBVIOUS
<1>9. PICK B : B = Tail(A)
  OBVIOUS
<1>10. A # <<>> /\ Is(b, A[1], "CMD") /\ ArgsAt(b, B, g)
  BY <1>3, <1>5, <1>7, <1>8, <1>9 DEF ArgumentIs
<1>11. text \in Inputs
  BY LineIn
<1>12. Strings(g) = ArrayFrom(b, B)
  BY <1>1, <1>10, <1>11, StringsIs
<1>13. PICK run : run = "RUN"
  OBVIOUS
<1>14. MeaningAt(b) = FormOrError(b, run, B, Strings(g))
  BY <1>1, <1>9, <1>10, <1>12, <1>13 DEF HealthcheckMeaning
<1>15. /\ run \in TakesArray /\ LeastStrings(run) = 1 /\ TooFew(run) = "at least one argument"
       /\ FormOf(run) = "shell" /\ LeastArgs(run) = 0
  BY <1>13 DEF TakesArray, LeastStrings, TooFew, FormOf, LeastArgs
<1>16. PICK fewer \in BOOLEAN : ~fewer
  OBVIOUS
<1>17. fewer <=> Len(B) < LeastArgs(run)
  <2>1. Len(B) \in Nat
    BY <1>10 DEF ArgsAt
  <2>2. ~(Len(B) < LeastArgs(run))
    <3>1. LeastArgs(run) = 0
      BY <1>15
    <3>2. ~(Len(B) < 0)
      BY <2>1
    <3>. QED
      BY <3>1, <3>2
  <2>. QED
    BY <1>16, <2>2, Zenon
<1>18. PICK least : least = LeastStrings(run)
  OBVIOUS
<1>19. PICK kind : kind = TooFew(run)
  OBVIOUS
<1>20. PICK other : other = FormOf(run)
  OBVIOUS
<1>21. Exec(Strings(g), least, fewer, kind, other, LineEndAt(g))
  <2>1. Exec(Strings(g), 1, FALSE, "at least one argument", "shell", LineEndAt(g))
    BY <1>5, <1>8 DEF CmdAt
  <2>. QED
    BY <1>15, <1>16, <1>18, <1>19, <1>20, <2>1 DEF Exec, Missing, ReturnUnless
<1>. QED
  BY <1>1, <1>10, <1>14, <1>15, <1>17, <1>18, <1>19, <1>20, <1>21, ArrayOrOther

(* What follows NONE is where the reader is past it.                        *)
LEMMA PastNoneIs ==
  ASSUME text \in Inputs, NEW b \in 0..Len(text), NEW A, A # <<>>, NEW o, ArgsAt(b, A, o),
         NEW e, e = TokenAt(o, "NONE"), e # NoToken, ~Over(Gap(e))
  PROVE  PastNone(b, A) = Gap(e)
<1>1. text \in Seq(STRING) /\ Len(text) \in Nat
  BY TextIs
<1>2. PICK U : U = WordsAt(o)
  OBVIOUS
<1>3. ArgsKnown(b, A, o, U) /\ Clean(o) /\ A \in Seq(SUBSET Nat)
  BY <1>1, <1>2, ArgsAre DEF ArgsAt
<1>4. o \in b..Len(text) /\ o \in 0..Len(text) /\ Len(A) \in Nat
  BY <1>3 DEF ArgsKnown
<1>5. 1 \in 1..Len(A) /\ Len(A) >= 1
  BY <1>4, EndIs
<1>6. PICK w : w = U[1]
  OBVIOUS
<1>7. PICK v : v = A[1]
  OBVIOUS
<1>8. /\ FirstWord(o, w) /\ v = Shift(w, o - b) /\ w \in SUBSET Nat
      /\ \A x \in w : o + x < Len(text)
  BY <1>3, <1>5, <1>6, <1>7 DEF ArgsKnown
<1>9. PICK p : p = Ordered(w, MaxLen)
  OBVIOUS
<1>10. PICK q : q = Ordered(v, MaxLen)
  OBVIOUS
<1>11. Len(q) = Len(p) /\ \A k \in 1..Len(p) : b + q[k] = o + p[k]
  BY <1>4, <1>8, <1>9, <1>10, SpelledShift
<1>12. PICK name \in Names19 : name = "NONE"
  BY DEF Names19
<1>13. Len(Letters[name]) = 4 /\ Letters[name] \in Seq(Letter)
  BY <1>12, LettersAre DEF Letters
<1>14. TokenOf(o, name, w, e)
  BY <1>3, <1>4, <1>8, <1>12, TokenIs
<1>15. PastNone(b, A) = IF Len(q) > 4 THEN b + q[5] ELSE b + Min(A[2])
  BY <1>7, <1>10 DEF PastNone
<1>16. CASE ~Separated(e)
  <2>1. Behind(o, w, 4, PastContinuations(e)) /\ Gap(e) = PastContinuations(e)
    BY <1>13, <1>14, <1>16 DEF TokenOf
  <2>2. PICK five : five = 5
    OBVIOUS
  <2>3. five \in 1..Len(p) /\ Gap(e) = o + p[five]
    BY <1>9, <2>1, <2>2 DEF Behind
  <2>4. p \in Seq(Nat)
    BY <1>4, <1>8, <1>9, <1>13, SpelledIs
  <2>5. Len(q) > 4 /\ b + q[five] = o + p[five]
    BY <1>11, <2>2, <2>3, <2>4
  <2>. QED
    BY <1>15, <2>2, <2>3, <2>5
<1>17. CASE Separated(e)
  <2>1. Is(o, w, name) /\ e = o + Max(w) + 1
    BY <1>14, <1>17 DEF TokenOf
  <2>2. Len(p) = 4
    <3>1. Spelled(o, w) = Letters[name]
      BY <2>1 DEF Is
    <3>. QED
      BY <1>4, <1>8, <1>9, <1>13, <3>1, SpelledIs
  <2>3. PastNone(b, A) = b + Min(A[2])
    BY <1>11, <1>15, <2>2
  <2>4. PICK g : g = Gap(e)
    OBVIOUS
  <2>5. PICK B : B = Tail(A)
    OBVIOUS
  <2>6. g = Gap(o + Max(WordsAt(o)[1]) + 1)
    BY <1>2, <1>6, <2>1, <2>4
  <2>7. ArgsAt(b, B, g)
    BY <1>1, <2>5, <2>6, ArgsBehind
  <2>8. PICK V : V = WordsAt(g)
    OBVIOUS
  <2>9. ArgsKnown(b, B, g, V)
    BY <1>1, <2>7, <2>8, ArgsAre
  <2>10. Len(B) \in Nat /\ Len(B) # 0 /\ (Len(B) >= 1 => b + Min(B[1]) = g)
    BY <2>4, <2>9 DEF ArgsKnown
  <2>11. B[1] = A[2]
    <3>1. \A k \in 1..Len(A) - 1 : Tail(A)[k] = A[k + 1]
      BY <1>3, <1>5
    <3>2. Len(B) = Len(A) - 1
      BY <1>3, <1>5, <2>5
    <3>3. PICK one \in Nat : one = 1 /\ one \in 1..Len(A) - 1 /\ one + 1 = 2
      BY <1>4, <2>10, <3>2
    <3>. QED
      BY <2>5, <3>1, <3>3
  <2>. QED
    BY <2>3, <2>4, <2>10, <2>11
<1>. QED
  BY <1>16, <1>17

LEMMA HealthcheckNoneInv ==
  ASSUME IInv, HealthcheckNone
  PROVE  IInv'
<1>1. PICK b, ks, A : /\ Handling(b, ks) /\ NameAt(b) # "ONBUILD" /\ b \in 0..Len(text)
                      /\ ArgsAt(b, A, PastFlags(s)) /\ MeaningAt(b) = HealthcheckMeaning(b, A)
  BY HealthcheckIs DEF HealthcheckNone
<1>2. PICK o : o = PastFlags(s)
  OBVIOUS
<1>3. PICK none \in Names19 : none = "NONE"
  BY DEF Names19
<1>4. PICK after : after = TokenAt(o, none)
  OBVIOUS
<1>5. PICK g : g = Gap(after)
  OBVIOUS
<1>6. after # NoToken /\ NoneAt(g)
  BY <1>2, <1>3, <1>4, <1>5 DEF HealthcheckNone
<1>7. ArgsAt(b, A, o)
  BY <1>1, <1>2
<1>8. ArgumentIs(b, A, o, none, after)
  BY <1>1, <1>4, <1>7, ArgumentSpells
<1>9. /\ A # <<>> /\ IsPrefix(Letters["NONE"], Spelled(b, A[1]))
      /\ g \in 0..Len(text) /\ g \in InLine(b)
      /\ Separated(after) <=> Is(b, A[1], "NONE")
      /\ Separated(after) => ArgsAt(b, Tail(A), g)
      /\ ~Separated(after) => g < Len(text) /\ ~At(text, g, {"lf"})
  BY <1>3, <1>5, <1>6, <1>8 DEF ArgumentIs
<1>10. text \in Inputs /\ text \in Seq(STRING) /\ Len(text) \in Nat
  BY LineIn
<1>11. A \in Seq(SUBSET Nat) /\ Len(A) \in Nat /\ Len(A) >= 1
  BY <1>7, <1>9 DEF ArgsAt
<1>12. ~Is(b, A[1], "CMD")
  <2>1. PICK cmd \in Names19 : cmd = "CMD"
    BY DEF Names19
  <2>2. PICK U : U = WordsAt(o)
    OBVIOUS
  <2>3. ArgsKnown(b, A, o, U)
    BY <1>1, <1>7, <1>10, <2>2, ArgsAre
  <2>4. PICK w : w = U[1]
    OBVIOUS
  <2>5. PICK v : v = A[1]
    OBVIOUS
  <2>6. 1 \in 1..Len(A)
    BY <1>11
  <2>7. /\ o \in b..Len(text) /\ o \in 0..Len(text)
        /\ FirstWord(o, w) /\ v = Shift(w, o - b) /\ w \in SUBSET Nat
        /\ \A x \in w : o + x < Len(text)
    BY <1>11, <2>3, <2>4, <2>5, <2>6 DEF ArgsKnown
  <2>8. Spelled(b, v) = Spelled(o, w)
    BY <1>1, <1>10, <2>7, SpelledShift
  <2>9. PICK u : u = Spelled(o, w)
    OBVIOUS
  <2>10. /\ IsPrefix(Letters[cmd], u) /\ IsPrefix(Letters[none], u) => cmd = none
         /\ u = Letters[cmd] => IsPrefix(Letters[cmd], u)
         /\ Is(o, w, cmd) <=> u = Letters[cmd]
    BY <1>10, <2>7, <2>9, SpelledOnce
  <2>11. IsPrefix(Letters[none], u)
    BY <1>3, <1>9, <2>5, <2>8, <2>9
  <2>12. cmd # none
    BY <1>3, <2>1
  <2>13. u # Letters[cmd]
    BY <2>10, <2>11, <2>12
  <2>. QED
    BY <2>1, <2>5, <2>8, <2>9, <2>13 DEF Is
<1>13. MeaningAt(b) = IF Len(A) = 1 /\ Is(b, A[1], "NONE") THEN Ok("none")
                      ELSE Error("NONE accepts no arguments", {PastNone(b, A)})
  BY <1>1, <1>9, <1>12 DEF HealthcheckMeaning
<1>14. CASE Over(g)
  <2>1. ~(g < Len(text) /\ ~At(text, g, {"lf"}))
    BY <1>10, <1>14 DEF Over
  <2>2. Return("none", g)
    BY <1>6, <2>1 DEF NoneAt
  <2>3. PICK B : B = Tail(A)
    OBVIOUS
  <2>4. ArgsAt(b, B, g) /\ Is(b, A[1], "NONE")
    BY <1>9, <2>1, <2>3
  <2>5. Len(B) = 0 /\ Len(B) = Len(A) - 1
    <3>1. Len(B) = 0
      BY <1>1, <1>14, <2>4, EndIs
    <3>2. Len(B) = Len(A) - 1
      BY <1>11, <2>3
    <3>. QED
      BY <3>1, <3>2
  <2>6. PICK m : m = MeaningAt(b)
    OBVIOUS
  <2>7. Len(A) = 1
    BY <1>11, <2>5
  <2>8. m.kind = "none" /\ m.form = "none"
    BY <1>13, <2>4, <2>6, <2>7 DEF Ok
  <2>9. NextInstruction(g) = FirstFrom(LineEndAt(b))
    BY <1>1, <2>4, <2>5, OverNext
  <2>10. "none" \in Forms
    BY DEF Forms
  <2>. QED
    BY <1>1, <1>9, <2>2, <2>6, <2>8, <2>9, <2>10, Returning
<1>15. CASE ~Over(g)
  <2>1. g < Len(text) /\ ~At(text, g, {"lf"})
    BY <1>9, <1>10, <1>15 DEF Over
  <2>2. Fail("NONE accepts no arguments", g) /\ s' = s
    BY <1>6, <2>1 DEF NoneAt
  <2>3. ~(Len(A) = 1 /\ Is(b, A[1], "NONE"))
    <3>1. SUFFICES ASSUME Is(b, A[1], "NONE"), Len(A) = 1
                   PROVE  FALSE
      OBVIOUS
    <3>2. PICK B : B = Tail(A)
      OBVIOUS
    <3>3. ArgsAt(b, B, g) /\ Len(B) = 0
      BY <1>9, <1>11, <3>1, <3>2
    <3>4. Over(g)
      BY <1>1, <3>3, EndIs
    <3>. QED
      BY <1>15, <3>4
  <2>4. PICK where : where = {g}
    OBVIOUS
  <2>5. PastNone(b, A) = g
    BY <1>1, <1>3, <1>4, <1>5, <1>6, <1>7, <1>9, <1>10, <1>15, PastNoneIs
  <2>6. MeaningAt(b) = Error("NONE accepts no arguments", where)
    BY <1>13, <2>3, <2>4, <2>5
  <2>. QED
    BY <1>1, <1>9, <2>2, <2>4, <2>6, Refusing
<1>. QED
  BY <1>14, <1>15

(* Neither of them: where the reader is when it sees that.                  *)
NeitherPos(o, c) ==
  IF c # NoToken THEN PastContinuations(c)
  ELSE IF StartsLike(o, "CMD") \/ StartsLike(o, "NONE") THEN o + 1
  ELSE o

LEMMA NeitherPosIs ==
  ASSUME text \in Inputs, NEW b \in 0..Len(text), NEW A, A # <<>>, NEW o, ArgsAt(b, A, o),
         NEW c, c = TokenAt(o, "CMD"), c # NoToken => ~Separated(c)
  PROVE  NotCmdOrNone(b, A[1]) = NeitherPos(o, c) /\ NeitherPos(o, c) \in 0..Len(text)
<1>1. text \in Seq(STRING) /\ Len(text) \in Nat
  BY TextIs
<1>2. PICK U : U = WordsAt(o)
  OBVIOUS
<1>3. ArgsKnown(b, A, o, U) /\ Clean(o)
  BY <1>1, <1>2, ArgsAre DEF ArgsAt
<1>4. o \in b..Len(text) /\ o \in 0..Len(text) /\ Len(A) \in Nat
  BY <1>3 DEF ArgsKnown
<1>5. 1 \in 1..Len(A) /\ Len(A) >= 1
  BY <1>4, EndIs
<1>6. PICK w : w = U[1]
  OBVIOUS
<1>7. PICK v : v = A[1]
  OBVIOUS
<1>8. /\ FirstWord(o, w) /\ v = Shift(w, o - b) /\ w \in SUBSET Nat
      /\ \A x \in w : o + x < Len(text)
  BY <1>3, <1>5, <1>6, <1>7 DEF ArgsKnown
<1>9. PICK p : p = Ordered(w, MaxLen)
  OBVIOUS
<1>10. PICK q : q = Ordered(v, MaxLen)
  OBVIOUS
<1>11. Spelled(b, v) = Spelled(o, w) /\ \A k \in 1..Len(p) : b + q[k] = o + p[k]
  BY <1>4, <1>8, <1>9, <1>10, SpelledShift
<1>12. PICK name \in Names19 : name = "CMD"
  BY DEF Names19
<1>13. Letters[name] = <<"C", "M", "D">> /\ Len(Letters[name]) = 3
  BY <1>12 DEF Letters
<1>14. TokenOf(o, name, w, c)
  BY <1>3, <1>4, <1>8, <1>12, TokenIs
<1>15. c # NoToken <=> IsPrefix(Letters["CMD"], Spelled(b, v))
  BY <1>11, <1>12, <1>14 DEF TokenOf
<1>16. NotCmdOrNone(b, v) = IF c # NoToken THEN b + q[4]
                            ELSE IF Upper(text[b + q[1] + 1]) \in {"C", "N"} THEN b + q[1] + 1
                            ELSE b + q[1]
  BY <1>10, <1>15 DEF NotCmdOrNone
<1>17. CASE c # NoToken
  <2>1. Behind(o, w, 3, PastContinuations(c))
    BY <1>13, <1>14, <1>17 DEF TokenOf
  <2>2. PICK four : four = 4
    OBVIOUS
  <2>3. /\ four \in 1..Len(p) /\ PastContinuations(c) \in 0..Len(text)
        /\ PastContinuations(c) = o + p[four]
    BY <1>9, <2>1, <2>2 DEF Behind
  <2>4. b + q[four] = o + p[four]
    BY <1>11, <2>3
  <2>. QED
    BY <1>7, <1>16, <1>17, <2>2, <2>3, <2>4 DEF NeitherPos
<1>18. CASE c = NoToken
  <2>1. p \in Seq(Nat) /\ Spells(p, w)
    BY <1>4, <1>8, <1>9, <1>12, LettersAre, SpelledIs
  <2>2. Len(p) >= 1 /\ Len(p) \in Nat /\ p[1] = 0 /\ o < Len(text)
    BY <1>1, <1>3, <1>4, <1>8, <2>1, ReadingStarts
  <2>3. b + q[1] = o
    <3>1. 1 \in 1..Len(p) /\ o + p[1] = o
      BY <1>4, <2>2
    <3>. QED
      BY <1>11, <3>1
  <2>4. StartsLike(o, "CMD") \/ StartsLike(o, "NONE") <=> Upper(text[o + 1]) \in {"C", "N"}
    BY <2>2 DEF StartsLike, Letters
  <2>5. NeitherPos(o, c) = IF Upper(text[o + 1]) \in {"C", "N"} THEN o + 1 ELSE o
    BY <1>18, <2>4 DEF NeitherPos
  <2>6. NotCmdOrNone(b, v) = NeitherPos(o, c)
    BY <1>16, <1>18, <2>3, <2>5
  <2>7. o + 1 \in 0..Len(text)
    BY <1>1, <1>4, <2>2
  <2>. QED
    BY <1>4, <1>7, <2>5, <2>6, <2>7
<1>. QED
  BY <1>17, <1>18

LEMMA HealthcheckNeitherInv ==
  ASSUME IInv, HealthcheckNeither
  PROVE  IInv'
<1>1. PICK b, ks, A : /\ Handling(b, ks) /\ NameAt(b) # "ONBUILD" /\ b \in 0..Len(text)
                      /\ ArgsAt(b, A, PastFlags(s)) /\ MeaningAt(b) = HealthcheckMeaning(b, A)
  BY HealthcheckIs DEF HealthcheckNeither
<1>2. PICK o : o = PastFlags(s)
  OBVIOUS
<1>3. PICK none \in Names19 : none = "NONE"
  BY DEF Names19
<1>4. PICK cmd \in Names19 : cmd = "CMD"
  BY DEF Names19
<1>5. PICK n : n = TokenAt(o, none)
  OBVIOUS
<1>6. PICK c : c = TokenAt(o, cmd)
  OBVIOUS
<1>7. PICK pos : pos = NeitherPos(o, c)
  OBVIOUS
<1>8. /\ n = NoToken /\ (c # NoToken => ~Separated(c))
      /\ Fail("expected CMD or NONE", pos) /\ s' = s
  BY <1>2, <1>3, <1>4, <1>5, <1>6, <1>7
     DEF HealthcheckNeither, NeitherAt, ExpectedCmdOrNone, NeitherPos
<1>9. ArgsAt(b, A, o)
  BY <1>1, <1>2
<1>10. ArgumentIs(b, A, o, none, n) /\ ArgumentIs(b, A, o, cmd, c)
  BY <1>1, <1>5, <1>6, <1>9, ArgumentSpells
<1>11. /\ A # <<>> => ~Is(b, A[1], cmd) /\ ~IsPrefix(Letters[none], Spelled(b, A[1]))
       /\ A = <<>> => c = NoToken
  BY <1>8, <1>10 DEF ArgumentIs
<1>12. text \in Inputs /\ text \in Seq(STRING) /\ Len(text) \in Nat
  BY LineIn
<1>13. CASE A = <<>>
  <2>1. PICK where : where = InLine(b)
    OBVIOUS
  <2>2. MeaningAt(b) = Error("expected CMD or NONE", where)
    BY <1>1, <1>13, <2>1 DEF HealthcheckMeaning
  <2>3. o \in 0..Len(text) /\ o \in InLine(b)
    BY <1>1, <1>9, EndIs
  <2>4. PICK U : U = WordsAt(o)
    OBVIOUS
  <2>5. ArgsKnown(b, A, o, U)
    BY <1>1, <1>9, <1>12, <2>4, ArgsAre
  <2>6. Len(A) = 0
    BY <1>13
  <2>7. Over(o)
    BY <2>5, <2>6 DEF ArgsKnown
  <2>8. ~StartsLike(o, cmd) /\ ~StartsLike(o, none)
    BY <1>12, <2>3, <2>7, NoTokenOver
  <2>9. pos = o
    BY <1>3, <1>4, <1>7, <1>11, <1>13, <2>8 DEF NeitherPos
  <2>. QED
    BY <1>1, <1>8, <2>1, <2>2, <2>3, <2>9, Refusing
<1>14. CASE A # <<>>
  <2>1. NotCmdOrNone(b, A[1]) = pos /\ pos \in 0..Len(text)
    BY <1>1, <1>4, <1>6, <1>7, <1>8, <1>9, <1>12, <1>14, NeitherPosIs
  <2>2. PICK where : where = {pos}
    OBVIOUS
  <2>3. MeaningAt(b) = Error("expected CMD or NONE", where)
    BY <1>1, <1>3, <1>4, <1>11, <1>14, <2>1, <2>2 DEF HealthcheckMeaning
  <2>. QED
    BY <1>1, <1>8, <2>1, <2>2, <2>3, Refusing
<1>. QED
  BY <1>13, <1>14

-----------------------------------------------------------------------------
(* ONBUILD.                                                                 *)
LEMMA OnbuildTwiceInv ==
  ASSUME IInv, OnbuildTwice
  PROVE  IInv'
<1>1. PICK names : Handles(names) /\ names = {"ONBUILD"}
  BY DEF OnbuildTwice
<1>2. PICK b, ks : Handling(b, ks)
  BY <1>1, Handled
<1>3. instruction = "ONBUILD" /\ instruction = NameAt(b) /\ Start = b /\ b \in 0..Len(text)
  BY <1>1, <1>2, Handled, HandlingIs
<1>4. PICK where : where = {b}
  OBVIOUS
<1>5. MeaningAt(b) = Error("ONBUILD ONBUILD", where)
  BY <1>3, <1>4 DEF MeaningAt, MeaningOfLine, MeaningOfArgs, MeaningOf
<1>6. in_onbuild /\ Fail("ONBUILD ONBUILD", b) /\ s' = s
  BY <1>3 DEF OnbuildTwice
<1>. QED
  BY <1>2, <1>3, <1>4, <1>5, <1>6, Refusing

(* The keyword of ONBUILD is that of the line.                              *)
LEMMA OnbuildIs ==
  ASSUME IInv, Handles({"ONBUILD"}), ~in_onbuild
  PROVE  /\ keywords = <<Line>> /\ Start = Line /\ NameAt(Line) = "ONBUILD" /\ Line < Len(text)
         /\ Inner(Line) = s /\ s \in Line + 1..Len(text)
<1>1. PICK names : Handles(names) /\ names = {"ONBUILD"}
  OBVIOUS
<1>2. PICK b, ks : Handling(b, ks)
  BY <1>1, Handled
<1>3. /\ instruction = "ONBUILD" /\ instruction = NameAt(b) /\ Start = b /\ b \in 0..Len(text)
      /\ Clean(b) /\ Len(WordsAt(b)) >= 1
  BY <1>1, <1>2, Handled, HandlingIs
<1>4. b = Line /\ ks = <<>> /\ keywords = Append(ks, b) /\ Read(b, instruction, s) /\ Line < Len(text)
  BY <1>2 DEF Handling, Sought
<1>5. keywords = <<b>>
  BY <1>4
<1>6. text \in Inputs
  BY LineIn
<1>7. PICK W : W = WordsAt(b)
  OBVIOUS
<1>8. PICK g : g = s
  OBVIOUS
<1>9. g = Gap(b + Max(W[1]) + 1) /\ Len(W) >= 1
  BY <1>3, <1>4, <1>7, <1>8 DEF Read
<1>10. g \in b + 1..Len(text) /\ Inner(b) = g
  BY <1>3, <1>6, <1>7, <1>9, InnerIs
<1>. QED
  BY <1>3, <1>4, <1>5, <1>8, <1>10

LEMMA Keeping ==
  ASSUME IInv, Unchanged
  PROVE  /\ TypesOk' /\ LinesAre' /\ LineIs' /\ Line' = Line /\ text' = text
         /\ instructions' = instructions
<1>1. text' = text /\ instructions' = instructions
  BY DEF Unchanged
<1>2. Line' = Line /\ (LinesAre' <=> LinesAre) /\ (LineIs' <=> LineIs)
  BY <1>1, StartKept
<1>3. TypesOk'
  BY <1>1 DEF IInv, TypesOk, Unchanged
<1>. QED
  BY <1>1, <1>2, <1>3 DEF IInv

LEMMA OnbuildInv ==
  ASSUME IInv, Onbuild
  PROVE  IInv'
<1>1. /\ keywords = <<Line>> /\ NameAt(Line) = "ONBUILD" /\ Line < Len(text)
      /\ Inner(Line) = s /\ s \in Line + 1..Len(text)
  BY OnbuildIs DEF Onbuild
<1>2. /\ s < Len(text) /\ in_onbuild' = TRUE /\ pc' = "instruction" /\ s' = s
      /\ text' = text /\ instructions' = instructions /\ keywords' = keywords
      /\ instruction' = instruction /\ form' = form
  BY DEF Onbuild, never
<1>3. Unchanged
  BY <1>2 DEF Unchanged, IInv, TypesOk
<1>4. TypesOk' /\ LinesAre' /\ LineIs' /\ Line' = Line
  BY <1>3, Keeping
<1>5. Line \in Nat /\ Len(text) \in Nat
  BY LineIn
<1>6. PICK i : i = Line
  OBVIOUS
<1>7. PICK onb \in BOOLEAN : onb
  OBVIOUS
<1>8. Sought(i, s, keywords, onb)
  BY <1>1, <1>2, <1>5, <1>6, <1>7 DEF Sought
<1>9. PICK b : b = s
  OBVIOUS
<1>10. PICK ks : ks = keywords
  OBVIOUS
<1>11. Sought(i, b, ks, onb)'
  <2>1. Sought(i, b, ks, onb)' <=> Sought(i, b, ks, onb)
    BY <1>2, StartKept
  <2>. QED
    BY <1>8, <1>9, <1>10, <2>1
<1>12. in_onbuild' = onb
  BY <1>2, <1>7
<1>13. AtInstruction'
  <2>1. Line' = i /\ s' = b /\ keywords' = ks
    BY <1>2, <1>4, <1>6, <1>9, <1>10
  <2>. QED
    BY <1>1, <1>2, <1>6, <1>11, <1>12, <2>1 DEF AtInstruction
<1>. QED
  BY <1>2, <1>4, <1>13 DEF IInv

LEMMA OnbuildNothingInv ==
  ASSUME IInv, OnbuildNothing
  PROVE  IInv'
<1>1. /\ Start = Line /\ Inner(Line) = s
  BY OnbuildIs DEF OnbuildNothing
<1>2. /\ s = Len(text) /\ in_onbuild' = TRUE /\ pc' = "failed" /\ s' = s
      /\ text' = text /\ instructions' = instructions /\ keywords' = keywords
      /\ instruction' = instruction /\ form' = form
      /\ error' = [kind |-> "expected instruction", pos |-> Start]
  BY DEF OnbuildNothing
<1>3. Unchanged
  BY <1>2 DEF Unchanged, IInv, TypesOk
<1>4. Line \in 0..Len(text)
  BY LineIn
<1>5. PICK m : m = Meaning(Line, Inner(Line))
  OBVIOUS
<1>6. m = Error("expected instruction", {Line})
  BY <1>1, <1>2, <1>5 DEF Meaning
<1>7. m.kind = "expected instruction" /\ Line \in m.pos
  BY <1>6 DEF Error
<1>8. PICK kind : kind = "expected instruction"
  OBVIOUS
<1>9. error' = [kind |-> kind, pos |-> Line] /\ m.kind = kind
  BY <1>1, <1>2, <1>7, <1>8
<1>. QED
  BY <1>2, <1>3, <1>4, <1>5, <1>7, <1>9, Failing

-----------------------------------------------------------------------------
(* The keyword.                                                             *)
LEMMA LoopInv ==
  ASSUME IInv, Loop
  PROVE  IInv'
<1>1. /\ pc = "loop" /\ pc' = (IF s = Len(text) THEN "end" ELSE "instruction") /\ keywords' = <<>>
      /\ text' = text /\ instructions' = instructions /\ s' = s /\ in_onbuild' = in_onbuild
      /\ instruction' = instruction /\ form' = form
  BY DEF Loop, never
<1>2. Unchanged
  BY <1>1 DEF Unchanged, IInv, TypesOk
<1>3. TypesOk' /\ LinesAre' /\ LineIs' /\ Line' = Line
  BY <1>2, Keeping
<1>4. s = Line /\ ~in_onbuild
  BY <1>1 DEF IInv, AtLoop
<1>5. Line \in Nat /\ Len(text) \in Nat /\ Line \in 0..Len(text)
  BY LineIn
<1>6. CASE s = Len(text)
  BY <1>1, <1>3, <1>4, <1>6 DEF IInv
<1>7. CASE s # Len(text)
  <2>1. PICK i : i = Line
    OBVIOUS
  <2>2. PICK ks : ks = <<>>
    OBVIOUS
  <2>3. PICK onb \in BOOLEAN : ~onb
    OBVIOUS
  <2>4. Sought(i, i, ks, onb)
    BY <1>4, <1>5, <1>7, <2>1, <2>2, <2>3 DEF Sought
  <2>5. Sought(i, i, ks, onb)'
    BY <1>1, <2>4, StartKept
  <2>6. s' = i /\ Line' = i /\ keywords' = ks /\ in_onbuild' = onb
    BY <1>1, <1>3, <1>4, <2>1, <2>2, <2>3, LineIn
  <2>7. AtInstruction'
    <3>1. Line < Len(text)
      BY <1>4, <1>5, <1>7
    <3>. QED
      BY <1>1, <2>1, <2>5, <2>6, <3>1 DEF AtInstruction
  <2>. QED
    BY <1>1, <1>3, <1>7, <2>7 DEF IInv
<1>. QED
  BY <1>6, <1>7

LEMMA InstructionIs ==
  ASSUME IInv, pc = "instruction"
  PROVE  /\ s \in 0..Len(text) - 1 /\ s \in 0..Len(text) /\ s \in Nat /\ Clean(s)
         /\ Sought(Line, s, keywords, in_onbuild) /\ Line < Len(text)
         /\ in_onbuild \/ NameAt(s) # "ONBUILD" => Innermost(Line, s)
<1>1. Sought(Line, s, keywords, in_onbuild) /\ Line < Len(text)
  BY DEF IInv, AtInstruction
<1>2. /\ text \in Inputs /\ text \in Seq(STRING) /\ Len(text) \in Nat
      /\ Line \in 0..Len(text) /\ Line \in Nat /\ Clean(Line)
      /\ in_onbuild \in BOOLEAN /\ s \in 0..Len(text)
  BY LineIn
<1>3. PICK i \in 0..Len(text) : i = Line
  BY <1>2
<1>4. PICK onb \in BOOLEAN : onb = in_onbuild
  BY <1>2
<1>5. Sought(i, s, keywords, onb) /\ Clean(i)
  BY <1>1, <1>2, <1>3, <1>4
<1>6. /\ s \in 0..Len(text) - 1 /\ s \in 0..Len(text) /\ s \in Nat
      /\ Clean(s) /\ LineEndAt(s) = LineEndAt(i)
      /\ onb \/ NameAt(s) # "ONBUILD" =>
           Innermost(i, s) /\ Append(keywords, s) = IF Inner(i) = i THEN <<i>> ELSE <<i, Inner(i)>>
  BY <1>2, <1>5, SoughtIs
<1>. QED
  BY <1>1, <1>3, <1>4, <1>6

LEMMA KeywordInv ==
  ASSUME IInv, Keyword
  PROVE  IInv'
<1>1. /\ pc = "instruction" /\ FoundAt(s)
      /\ pc' = "arguments" /\ instruction' = Keywords[Min(KeywordsAt(s))]
      /\ keywords' = Append(keywords, s) /\ s' = Gap(TokenEnd(s, instruction'))
      /\ text' = text /\ instructions' = instructions /\ in_onbuild' = in_onbuild /\ form' = form
  BY DEF Keyword, KeywordIs, Found, FoundAt, never
<1>2. /\ s \in 0..Len(text) - 1 /\ s \in 0..Len(text) /\ s \in Nat /\ Clean(s)
      /\ Sought(Line, s, keywords, in_onbuild) /\ Line < Len(text)
  BY <1>1, InstructionIs
<1>3. text \in Inputs /\ in_onbuild \in BOOLEAN /\ Line \in Nat
  BY LineIn
<1>4. PICK b \in 0..Len(text) : b = s
  BY <1>2
<1>5. PICK keyword : keyword = Keywords[Min(KeywordsAt(b))]
  OBVIOUS
<1>6. PICK W : W = WordsAt(b)
  OBVIOUS
<1>7. /\ NameAt(b) = keyword /\ keyword \in ToSet(Keywords) /\ Len(W) >= 1
      /\ TokenEnd(b, keyword) = b + Max(W[1]) + 1
  BY <1>1, <1>2, <1>3, <1>4, <1>5, <1>6, KeywordIsName
<1>8. PICK g : g = Gap(b + Max(W[1]) + 1)
  OBVIOUS
<1>9. g \in b + 1..Len(text)
  BY <1>2, <1>3, <1>4, <1>6, <1>7, <1>8, InnerIs
<1>10. s' = g /\ instruction' = keyword /\ keywords' = Append(keywords, b)
  BY <1>1, <1>4, <1>5, <1>7, <1>8
<1>11. g \in 0..Len(text)
  BY <1>2, <1>4, <1>9
<1>12. keywords' \in Seq(Nat)
  <2>1. keywords \in Seq(Nat) /\ s \in Nat
    BY <1>2 DEF IInv, TypesOk
  <2>. QED
    BY <1>1, <2>1
<1>13. Unchanged
  BY <1>1, <1>3, <1>7, <1>10, <1>11, <1>12 DEF Unchanged, IInv, TypesOk
<1>14. TypesOk' /\ LinesAre' /\ LineIs' /\ Line' = Line
  BY <1>13, Keeping
<1>15. PICK i : i = Line
  OBVIOUS
<1>16. PICK onb \in BOOLEAN : onb = in_onbuild
  BY <1>3
<1>17. PICK ks : ks = keywords
  OBVIOUS
<1>18. Sought(i, b, ks, onb) /\ ks \in {<<>>, <<i>>}
  BY <1>2, <1>4, <1>15, <1>16, <1>17 DEF Sought
<1>19. Sought(i, b, ks, onb)'
  BY <1>1, <1>18, StartKept
<1>20. Read(b, keyword, g)
  <2>1. W # <<>>
    BY <1>7
  <2>. QED
    BY <1>6, <1>7, <1>8, <2>1 DEF Read
<1>21. Read(b, keyword, g)'
  BY <1>1, <1>20, StartKept
<1>22. AtArguments'
  <2>1. Line' = i /\ s' = g /\ instruction' = keyword /\ in_onbuild' = onb
        /\ keywords' = Append(ks, b) /\ text' = text /\ i < Len(text)
    BY <1>1, <1>2, <1>10, <1>14, <1>15, <1>16, <1>17
  <2>. QED
    BY <1>18, <1>19, <1>21, <2>1 DEF AtArguments
<1>. QED
  BY <1>1, <1>14, <1>22 DEF IInv

LEMMA UnknownInstructionInv ==
  ASSUME IInv, UnknownInstruction
  PROVE  IInv'
<1>1. pc = "instruction" /\ ~FoundAt(s) /\ Fail("unknown instruction", s) /\ s' = s
  BY DEF UnknownInstruction, Found, FoundAt
<1>2. /\ s \in 0..Len(text) /\ Clean(s)
      /\ in_onbuild \/ NameAt(s) # "ONBUILD" => Innermost(Line, s)
  BY <1>1, InstructionIs
<1>3. text \in Inputs
  BY LineIn
<1>4. PICK W : W = WordsAt(s)
  OBVIOUS
<1>5. PICK keyword : keyword = Keywords[Min(KeywordsAt(s))]
  OBVIOUS
<1>6. NameAt(s) = "none"
  BY <1>1, <1>2, <1>3, <1>4, <1>5, KeywordIsName
<1>7. PICK m : m = Meaning(Line, Inner(Line))
  OBVIOUS
<1>8. m = MeaningAt(s)
  BY <1>2, <1>6, <1>7 DEF Innermost
<1>9. m = Error("unknown instruction", {s})
  BY <1>6, <1>8 DEF MeaningAt, MeaningOfLine, MeaningOfArgs, MeaningOf
<1>10. PICK kind : kind = "unknown instruction"
  OBVIOUS
<1>11. m.kind = kind /\ s \in m.pos
  BY <1>9, <1>10 DEF Error
<1>12. Unchanged /\ pc' = "failed" /\ error' = [kind |-> kind, pos |-> s]
  BY <1>1, <1>10 DEF Fail, Unchanged, IInv, TypesOk
<1>. QED
  BY <1>2, <1>7, <1>11, <1>12, Failing

-----------------------------------------------------------------------------
(* The next line.                                                           *)
LEMMA ReturnsInv ==
  ASSUME IInv, Returns
  PROVE  IInv'
<1>1. /\ pc = "return" /\ pc' = "loop"
      /\ in_onbuild' = (in_onbuild /\ Len(keywords) = 1)
      /\ instructions' = Append(instructions, Returned)
      /\ s' = NextInstruction(s)
      /\ text' = text /\ keywords' = keywords /\ instruction' = instruction /\ form' = form
  BY DEF Returns
<1>2. /\ IsLineAt(Returned, Line) /\ Line < Len(text) /\ (in_onbuild => Len(keywords) # 1)
      /\ NextInstruction(s) = FirstFrom(LineEndAt(Line))
  BY <1>1 DEF IInv, AtReturn
<1>3. /\ text \in Inputs /\ text \in Seq(STRING) /\ Len(text) \in Nat /\ Line \in Nat
      /\ in_onbuild \in BOOLEAN /\ s \in 0..Len(text)
  BY LineIn
<1>4. /\ keywords \in Seq(Nat) /\ instruction \in ToSet(Keywords) /\ form \in Forms
      /\ instructions \in Seq(Told)
  BY DEF IInv, TypesOk
<1>5. PICK inst \in Told : inst = Returned
  BY <1>4 DEF Returned, Told
<1>6. PICK n \in Nat : n = Len(instructions)
  BY <1>4
<1>7. PICK r : r = instructions'
  OBVIOUS
<1>8. /\ r \in Seq(Told) /\ Len(r) = n + 1
      /\ \A k \in 1..n : r[k] = instructions[k]
      /\ r[n + 1] = inst
  <2>1. r = Append(instructions, inst)
    BY <1>1, <1>5, <1>7
  <2>2. /\ Append(instructions, inst) \in Seq(Told)
        /\ Append(instructions, inst) # <<>>
        /\ Len(Append(instructions, inst)) = Len(instructions) + 1
        /\ \A k \in 1..Len(instructions) : Append(instructions, inst)[k] = instructions[k]
        /\ Append(instructions, inst)[Len(instructions) + 1] = inst
    BY <1>4, AppendProperties, Zenon
  <2>. QED
    BY <1>6, <2>1, <2>2, Zenon
<1>9. PICK i : i = Line
  OBVIOUS
<1>10. \A x : LineEndAt(x)' = LineEndAt(x) /\ FirstFrom(x)' = FirstFrom(x)
  BY <1>1, RestKept
<1>11. \A k : LineStart(k)' = FirstFrom(IF k = 1 THEN 0 ELSE LineEndAt(r[k - 1].keywords[1]))
  BY <1>7, <1>10 DEF LineStart
<1>12. \A k \in 1..n + 1 : LineStart(k)' = LineStart(k)
  <2>1. SUFFICES ASSUME NEW k \in 1..n + 1
                 PROVE  LineStart(k)' = LineStart(k)
    OBVIOUS
  <2>2. LineStart(k) = FirstFrom(IF k = 1 THEN 0 ELSE LineEndAt(instructions[k - 1].keywords[1]))
    BY DEF LineStart
  <2>3. k # 1 => k - 1 \in 1..n
    BY <1>6
  <2>. QED
    BY <1>8, <1>11, <2>2, <2>3
<1>13. inst.keywords[1] = i
  <2>1. inst.keywords = IF Inner(i) = i THEN <<i>> ELSE <<i, Inner(i)>>
    BY <1>2, <1>5, <1>9 DEF IsLineAt, IsLine, IsOf
  <2>. QED
    BY <2>1
<1>14. PICK f : f = NextInstruction(s)
  OBVIOUS
<1>15. f \in 0..Len(text) /\ Clean(f) /\ (f < Len(text) => ~Over(f))
  <2>1. /\ f \in s..Len(text) /\ Clean(f) /\ (f < Len(text) => ~Over(f))
    BY <1>3, <1>14, NextIs
  <2>. QED
    BY <1>3, <2>1
<1>16. Line' = f
  <2>1. PICK l : l = n + 2
    OBVIOUS
  <2>2. Len(instructions') + 1 = l /\ l # 1 /\ l - 1 = n + 1
    BY <1>7, <1>8, <2>1
  <2>3. LineStart(l)' = FirstFrom(LineEndAt(i))
    BY <1>8, <1>11, <1>13, <2>2
  <2>4. Line' = LineStart(l)'
    BY <2>2 DEF Line
  <2>. QED
    BY <1>2, <1>9, <1>14, <2>3, <2>4
<1>17. LinesAre'
  <2>1. SUFFICES ASSUME NEW k \in 1..n + 1
                 PROVE  IsLineAt(r[k], LineStart(k))
    <3>1. Len(instructions') = n + 1
      BY <1>7, <1>8
    <3>2. \A x, y : IsLineAt(x, y)' <=> IsLineAt(x, y)
      BY <1>1, LineKept
    <3>3. \A k \in 1..n + 1 : IsLineAt(r[k], LineStart(k)')
      BY <1>12, <2>1
    <3>4. \A k \in 1..n + 1 : IsLineAt(instructions[k], LineStart(k))'
      BY <1>7, <3>2, <3>3
    <3>. QED
      BY <3>1, <3>4 DEF LinesAre
  <2>2. CASE k \in 1..n
    <3>1. IsLineAt(instructions[k], LineStart(k))
      BY <1>6, <2>2 DEF IInv, LinesAre
    <3>. QED
      BY <1>8, <2>2, <3>1
  <2>3. CASE k = n + 1
    BY <1>2, <1>5, <1>6, <1>8, <2>3 DEF Line
  <2>. QED
    BY <1>6, <2>1, <2>2, <2>3
<1>18. LineIs'
  <2>1. (Clean(f)' <=> Clean(f)) /\ (Over(f)' <=> Over(f))
    BY <1>1 DEF Clean, Continues, Over
  <2>. QED
    BY <1>1, <1>15, <1>16, <2>1 DEF LineIs
<1>19. in_onbuild' = FALSE
  BY <1>1, <1>2, <1>3
<1>20. TypesOk'
  BY <1>1, <1>3, <1>4, <1>7, <1>8, <1>14, <1>15, <1>19 DEF TypesOk
<1>. QED
  BY <1>1, <1>14, <1>16, <1>17, <1>18, <1>19, <1>20 DEF IInv, AtLoop

LEMMA InitInv ==
  ASSUME Init
  PROVE  IInv
<1>1. text \in Inputs /\ s = NextInstruction(0) /\ pc = "loop" /\ in_onbuild = FALSE
      /\ keywords = <<>> /\ instruction = "ARG" /\ form = "none" /\ instructions = <<>>
  BY DEF Init
<1>2. text \in Seq(STRING) /\ Len(text) \in Nat
  BY <1>1, TextIs
<1>3. PICK zero \in 0..Len(text) : zero = 0
  BY <1>2
<1>4. /\ s = FirstFrom(zero) /\ s \in zero..Len(text) /\ Clean(s) /\ (s < Len(text) => ~Over(s))
  BY <1>1, <1>2, <1>3, NextIs
<1>5. s \in 0..Len(text)
  BY <1>2, <1>3, <1>4
<1>6. Len(instructions) = 0
  BY <1>1
<1>7. Line = s
  <2>1. Line = LineStart(1)
    BY <1>6 DEF Line
  <2>. QED
    BY <1>3, <1>4, <2>1 DEF LineStart
<1>8. instruction \in ToSet(Keywords)
  <2>1. Keywords[1] = "ARG"
    BY DEF Keywords
  <2>. QED
    BY <1>1, <2>1, KeywordsAre
<1>9. TypesOk
  <2>1. <<>> \in Seq(Nat) /\ <<>> \in Seq(Told)
    BY EmptySeq, Zenon
  <2>2. keywords \in Seq(Nat) /\ instructions \in Seq(Told)
    BY <1>1, <2>1, Zenon
  <2>3. form \in Forms /\ in_onbuild \in BOOLEAN
    BY <1>1 DEF Forms
  <2>. QED
    BY <1>1, <1>5, <1>8, <2>2, <2>3 DEF TypesOk
<1>. QED
  BY <1>1, <1>4, <1>6, <1>7, <1>9 DEF IInv, LinesAre, LineIs, AtLoop

LEMMA StutterInv ==
  ASSUME IInv, UNCHANGED vars
  PROVE  IInv'
<1>1. /\ text' = text /\ s' = s /\ pc' = pc /\ in_onbuild' = in_onbuild /\ keywords' = keywords
      /\ instruction' = instruction /\ form' = form /\ instructions' = instructions
      /\ error' = error
  BY DEF vars
<1>2. Unchanged
  BY <1>1 DEF Unchanged, IInv, TypesOk
<1>3. TypesOk' /\ LinesAre' /\ LineIs' /\ Line' = Line
  BY <1>2, Keeping
<1>4. AtLoop' <=> AtLoop
  BY <1>1, <1>3 DEF AtLoop
<1>5. \A i, b, ks, onb : Sought(i, b, ks, onb)' <=> Sought(i, b, ks, onb)
  BY <1>1, StartKept
<1>6. \A b, name, pos : Read(b, name, pos)' <=> Read(b, name, pos)
  BY <1>1, StartKept
<1>7. AtInstruction => AtInstruction'
  BY <1>1, <1>3, <1>5 DEF AtInstruction
<1>8. AtArguments => AtArguments'
  BY <1>1, <1>3, <1>5, <1>6 DEF AtArguments
<1>9. AtReturn => AtReturn'
  <2>1. Returned' = Returned
    BY <1>1 DEF Returned
  <2>2. \A x, i : IsLineAt(x, i)' <=> IsLineAt(x, i)
    BY <1>1, LineKept
  <2>3. \A i : NextInstruction(i)' = NextInstruction(i)
    BY <1>1, LineKept
  <2>4. \A i : LineEndAt(i)' = LineEndAt(i) /\ FirstFrom(i)' = FirstFrom(i)
    BY <1>1, RestKept
  <2>. QED
    BY <1>1, <1>3, <2>1, <2>2, <2>3, <2>4 DEF AtReturn
<1>10. IsErrorOf(Line) => IsErrorOf(Line)'
  <2>1. \A i : Inner(i)' = Inner(i)
    BY <1>1, NameKept
  <2>2. \A i, inner : Meaning(i, inner)' = Meaning(i, inner)
    BY <1>1, MeaningKept
  <2>. QED
    BY <1>1, <1>3, <2>1, <2>2 DEF IsErrorOf, IsError
<1>. QED
  BY <1>1, <1>3, <1>4, <1>7, <1>8, <1>9, <1>10 DEF IInv

-----------------------------------------------------------------------------
LEMMA NextInv ==
  ASSUME IInv, [Next]_vars
  PROVE  IInv'
<1>1. CASE Loop
  BY <1>1, LoopInv
<1>2. CASE Keyword
  BY <1>2, KeywordInv
<1>3. CASE UnknownInstruction
  BY <1>3, UnknownInstructionInv
<1>4. CASE StringArgument \/ StringArgumentOnly \/ Expose
  BY <1>4, OneFormInv
<1>5. CASE Volume \/ AddOrCopy \/ Cmd \/ Entrypoint \/ Run
  BY <1>5, ArrayFormInv
<1>6. CASE Shell
  BY <1>6, ShellInv
<1>7. CASE FromImage
  BY <1>7, FromImageInv
<1>8. CASE HealthcheckCmd
  BY <1>8, HealthcheckCmdInv
<1>9. CASE HealthcheckNone
  BY <1>9, HealthcheckNoneInv
<1>10. CASE HealthcheckNeither
  BY <1>10, HealthcheckNeitherInv
<1>11. CASE OnbuildTwice
  BY <1>11, OnbuildTwiceInv
<1>12. CASE Onbuild
  BY <1>12, OnbuildInv
<1>13. CASE OnbuildNothing
  BY <1>13, OnbuildNothingInv
<1>14. CASE Returns
  BY <1>14, ReturnsInv
<1>15. CASE UNCHANGED vars
  BY <1>15, StutterInv
<1>. QED
  BY <1>1, <1>2, <1>3, <1>4, <1>5, <1>6, <1>7, <1>8, <1>9, <1>10, <1>11, <1>12, <1>13, <1>14,
     <1>15 DEF Next

LEMMA Invariance == Spec => []IInv
<1>1. Init => IInv
  BY InitInv
<1>2. IInv /\ [Next]_vars => IInv'
  BY NextInv
<1>. QED
  BY <1>1, <1>2, PTL DEF Spec

(* The instructions are the logical lines of the text, in order and to the  *)
(* end of it: each is the one that its first word names, after ONBUILD its  *)
(* second, with its arguments in the form in which they are written, as     *)
(* parse_instruction and its handlers tell them apart.                      *)
THEOREM InstructionsCorrect == Spec => []InstructionsOfTheLines
<1>1. ASSUME IInv
      PROVE  InstructionsOfTheLines
  <2>1. DOMAIN instructions = 1..Len(instructions)
    BY <1>1 DEF IInv, TypesOk
  <2>2. \A k \in DOMAIN instructions : IsLineAt(instructions[k], LineStart(k))
    BY <1>1, <2>1 DEF IInv, LinesAre
  <2>3. pc = "end" => LineStart(Len(instructions) + 1) = Len(text)
    BY <1>1 DEF IInv, Line
  <2>. QED
    BY <2>2, <2>3 DEF InstructionsOfTheLines
<1>. QED
  BY <1>1, Invariance, PTL

(* parse() fails at the first line that is wrong, with the error this line  *)
(* has, and its line and column name the keyword or a place in the line.    *)
THEOREM ErrorCorrect == Spec => []ErrorOfTheLine
<1>1. IInv => ErrorOfTheLine
  BY DEF IInv, ErrorOfTheLine, Line
<1>. QED
  BY <1>1, Invariance, PTL
=============================================================================
