---------------------------- MODULE Parsers_proofs ----------------------------
(***************************************************************************)
(* Proofs about both parsers, for every set of names and every bound.       *)
(* First parse(), step by step: the types, that the stages tile the         *)
(* instructions, that the accessors are total and the names exact, and that *)
(* it implements ParseResult.  Then the calls of next(): the types, the     *)
(* order of what is returned, the fuse, and that they implement PullResult. *)
(* Last the two side by side on one text.                                   *)
(***************************************************************************)
EXTENDS Parsers, TLAPS

IsFrom(k) == text[k].kind = "From"

(* The instructions are those of the text up to pos, and none is at fault.  *)
Collected ==
  /\ Len(instructions) = pos
  /\ \A k \in 1..pos : instructions[k] = k /\ ~Faulty(text, k)

(* current_stage is the last FROM so far.                                   *)
Opened ==
  /\ current_stage = NoIndex => \A k \in 1..pos : ~IsFrom(k)
  /\ current_stage # NoIndex => /\ current_stage \in 0..pos-1
                                /\ IsFrom(current_stage + 1)
                                /\ \A k \in current_stage+2..pos : ~IsFrom(k)

Tiled ==
  \A i \in 1..Len(stages) :
    /\ stages[i].end = IF i < Len(stages) THEN stages[i + 1].start ELSE Frontier
    /\ stages[i].start < stages[i].end
    /\ stages[i].end <= pos
    /\ IsFrom(stages[i].start + 1)
    /\ \A k \in stages[i].start+2..stages[i].end : ~IsFrom(k)

Ordered ==
  \A i, j \in 1..Len(stages) : i < j => stages[i].start < stages[j].start

(* Every FROM so far starts a stage: one that is closed, or the open one.   *)
Covered ==
  \A k \in 1..pos : IsFrom(k) =>
    \/ \E i \in 1..Len(stages) : stages[i].start + 1 = k
    \/ pc = "scan" /\ current_stage + 1 = k

Counted ==
  IF pc = "scan"
  THEN /\ current_stage = NoIndex => stages = <<>>
       /\ current_stage # NoIndex => /\ Len(stages) <= current_stage
                                     /\ \A i \in 1..Len(stages) : stages[i].start < current_stage
  ELSE Len(stages) \in 1..pos

NameOf(i) == text[stages[i + 1].start + 1].as_

(* The naming loop: the first "named" stages are indexed, nothing else is.  *)
Indexed ==
  /\ pc = "scan" => named = 0 /\ DOMAIN stages_by_name = {}
  /\ pc # "scan" => named \in 0..Len(stages)
  /\ pc = "ok" => named = Len(stages)
  /\ \A n \in DOMAIN stages_by_name : stages_by_name[n] \in 0..named-1 /\ NameOf(stages_by_name[n]) = n
  /\ \A i \in 0..named-1 : NameOf(i) # NoName =>
       NameOf(i) \in DOMAIN stages_by_name /\ stages_by_name[NameOf(i)] = i

Inv ==
  /\ TypeOK
  /\ pc # "err" => Collected /\ Opened /\ Tiled /\ Ordered /\ Covered /\ Counted /\ Indexed
  /\ pc \in {"names", "ok"} => pos = Len(text)

-----------------------------------------------------------------------------
(* A text is a sequence of outcomes of at most MaxLen calls.                *)
LEMMA TextsAreSequences ==
  ASSUME NEW t \in Texts
  PROVE  /\ t \in Seq(Outcome)
         /\ Len(t) \in 0..MaxLen
         /\ DOMAIN t = 1..Len(t)
         /\ \A i \in 1..Len(t) : t[i] \in Outcome
<1>1. PICK m \in 0..MaxLen : t \in [1..m -> Outcome]
  BY DEF Texts, SeqOf
<1>2. m \in Nat
  BY <1>1, MaxLenAssumption
<1>. QED
  BY <1>1, <1>2

(* An outcome is of one of the four kinds; only a FROM has a name.          *)
LEMMA OutcomeKinds ==
  ASSUME NEW o \in Outcome
  PROVE  /\ o.kind \in {"From", "Arg", "Other", "Error"}
         /\ o.as_ \in Name \cup {NoName}
BY DEF Outcome

LEMMA Basics ==
  ASSUME TypeOK
  PROVE  /\ MaxLen \in Nat
         /\ Len(text) \in 0..MaxLen
         /\ pos \in 0..Len(text)
         /\ DOMAIN text = 1..Len(text)
         /\ \A i \in 1..Len(text) : text[i] \in Outcome
         /\ Len(stages) \in Nat
         /\ \A i \in 1..Len(stages) : stages[i].start \in 0..MaxLen /\ stages[i].end \in 0..MaxLen
<1>1. MaxLen \in Nat /\ text \in Texts /\ pos \in 0..Len(text) /\ stages \in Seq(StageRange)
  BY MaxLenAssumption DEF TypeOK
<1>2. /\ Len(text) \in 0..MaxLen
      /\ DOMAIN text = 1..Len(text)
      /\ \A i \in 1..Len(text) : text[i] \in Outcome
  BY <1>1, TextsAreSequences
<1>3. \A i \in 1..Len(stages) : stages[i] \in StageRange
  BY <1>1
<1>4. \A r \in StageRange : r.start \in 0..MaxLen /\ r.end \in 0..MaxLen
  BY DEF StageRange
<1>5. \A i \in 1..Len(stages) : stages[i].start \in 0..MaxLen /\ stages[i].end \in 0..MaxLen
  BY <1>3, <1>4
<1>. QED
  BY <1>1, <1>2, <1>5

LEMMA InitInv == Init => Inv
<1>. SUFFICES ASSUME Init PROVE Inv
  OBVIOUS
<1>1. Len(text) \in 0..MaxLen /\ MaxLen \in Nat
  BY TextsAreSequences, MaxLenAssumption DEF Init
<1>2. TypeOK
  <2>1. pos \in 0..Len(text) /\ named \in 0..MaxLen
    BY <1>1 DEF Init
  <2>2. instructions \in Seq(1..MaxLen) /\ stages \in Seq(StageRange)
    BY DEF Init
  <2>3. DOMAIN stages_by_name = {}
    BY DEF Init
  <2>. QED
    BY <2>1, <2>2, <2>3 DEF Init, TypeOK
<1>3. Collected /\ Opened /\ Tiled /\ Ordered /\ Covered /\ Counted
  BY DEF Init, Collected, Opened, Tiled, Ordered, Covered, Counted
<1>4. Indexed
  BY DEF Init, Indexed
<1>. QED
  BY <1>2, <1>3, <1>4 DEF Inv, Init

-----------------------------------------------------------------------------
(* One lemma for each group of actions of the scan loop.                    *)

LEMMA FailInv ==
  ASSUME TypeOK, NEW e \in Error, Fail(e), UNCHANGED <<text, pos, current_stage, named>>,
         stages_by_name' = stages_by_name \/ stages_by_name' = <<>>
  PROVE  Inv'
<1>1. instructions' \in Seq(1..MaxLen) /\ stages' \in Seq(StageRange)
  BY DEF Fail
<1>2. /\ DOMAIN stages_by_name' \subseteq Name
      /\ \A n \in DOMAIN stages_by_name' : stages_by_name'[n] \in 0..MaxLen
  <2>1. DOMAIN (<<>>) = {}
    OBVIOUS
  <2>. QED
    BY <2>1 DEF TypeOK
<1>3. pc' = "err" /\ error' \in Error \cup {NotCalled}
  BY DEF Fail
<1>. QED
  BY <1>1, <1>2, <1>3 DEF Inv, TypeOK

(* The error positions are within the bound.                                *)
LEMMA ErrorTypes ==
  ASSUME NEW i \in 0..MaxLen
  PROVE  /\ InstructionError(i) \in Error
         /\ ExpectedFrom(i) \in Error
         /\ DuplicateName(i) \in Error
BY DEF Error, ErrorKind, InstructionError, ExpectedFrom, DuplicateName

(* Pushing an instruction other than FROM leaves the stages alone.          *)
LEMMA PushInv ==
  ASSUME Inv, pc = "scan", pos < Len(text), ~IsFrom(pos + 1), ~Faulty(text, pos + 1),
         Push, pos' = pos + 1,
         UNCHANGED <<text, stages, current_stage, stages_by_name, named, pc, error>>
  PROVE  Inv'
<1>. USE DEF Inv
<1>1. MaxLen \in Nat /\ Len(text) \in 0..MaxLen /\ pos \in 0..Len(text) /\ Len(stages) \in Nat
  BY Basics
<1>2. pos + 1 \in 1..MaxLen /\ pos + 1 \in 0..Len(text)
  BY <1>1
<1>3. TypeOK'
  BY <1>1, <1>2 DEF TypeOK, Push
<1>4. Collected'
  <2>1. \A k \in Nat : Faulty(text, k)' <=> Faulty(text, k)
    BY DEF Faulty, FromBefore
  <2>2. Len(instructions) = pos /\ \A k \in 1..pos : instructions[k] = k /\ ~Faulty(text, k)
    BY DEF Collected
  <2>3. /\ instructions \in Seq(1..MaxLen) /\ instructions' = Append(instructions, pos + 1)
        /\ pos' = pos + 1 /\ pos \in Nat
    BY <1>1 DEF TypeOK, Push
  <2>. HIDE DEF Inv
  <2>4. Len(instructions') = pos' /\ \A k \in 1..pos' : instructions'[k] = k
    BY <2>2, <2>3
  <2>5. \A k \in 1..pos' : k \in Nat /\ (k = pos + 1 \/ k \in 1..pos)
    BY <2>3
  <2>6. \A k \in 1..pos' : ~Faulty(text, k)'
    BY <2>1, <2>2, <2>5
  <2>. QED
    BY <2>4, <2>6 DEF Collected
<1>5. Opened' /\ Covered'
  BY <1>1 DEF Opened, Covered, IsFrom
<1>6. Tiled'
  BY <1>1, Basics DEF Tiled, IsFrom, Frontier
<1>7. Ordered' /\ Counted' /\ Indexed'
  BY <1>1 DEF Ordered, Counted, Indexed, NameOf
<1>. QED
  BY <1>3, <1>4, <1>5, <1>6, <1>7

(* Pushing a FROM closes the stage that was open and opens one.             *)
LEMMA PushFromInv ==
  ASSUME Inv, PushFrom
  PROVE  Inv'
<1>. USE DEF Inv, PushFrom, Scan
<1>1. MaxLen \in Nat /\ Len(text) \in 0..MaxLen /\ pos \in 0..Len(text) /\ Len(stages) \in Nat
  BY Basics
<1>2. pos + 1 \in 1..MaxLen /\ pos + 1 \in 0..Len(text) /\ pos \in 0..MaxLen /\ pos # NoIndex
  BY <1>1, NoIndexAssumption
<1>3. Len(instructions) = pos /\ current_stage' = pos
  BY DEF Collected
<1>4. current_stage # NoIndex => current_stage \in 0..pos-1
  BY DEF Opened
<1>5. CASE current_stage = NoIndex
  <2>1. stages' = stages /\ stages = <<>>
    BY <1>5 DEF Counted
  <2>2. TypeOK'
    BY <1>1, <1>2, <1>3, <2>1 DEF TypeOK, Push
  <2>3. Collected'
    BY <1>1, <1>3 DEF TypeOK, Collected, Push, Faulty, FromBefore
  <2>4. Opened' /\ Covered'
    BY <1>1, <1>2, <1>3, <1>5 DEF Opened, Covered, IsFrom
  <2>5. Tiled' /\ Ordered' /\ Counted'
    BY <1>2, <1>3, <2>1 DEF Tiled, Ordered, Counted
  <2>6. Indexed'
    BY <2>1 DEF Indexed, NameOf
  <2>. QED
    BY <2>2, <2>3, <2>4, <2>5, <2>6
<1>6. CASE current_stage # NoIndex
  <2>. DEFINE r == [start |-> current_stage, end |-> pos]
              n == Len(stages)
  <2>1. stages' = Append(stages, r) /\ r \in StageRange
    BY <1>1, <1>2, <1>3, <1>4, <1>6 DEF StageRange
  <2>2. Len(stages') = n + 1 /\ stages'[n + 1] = r /\ \A i \in 1..n : stages'[i] = stages[i]
    BY <1>1, <2>1 DEF TypeOK
  <2>3. TypeOK'
    <3>1. stages' \in Seq(StageRange) /\ instructions' \in Seq(1..MaxLen)
      BY <1>2, <2>1 DEF TypeOK, Push
    <3>. QED
      BY <1>1, <1>2, <1>3, <3>1 DEF TypeOK
  <2>4. Collected'
    BY <1>1, <1>3 DEF TypeOK, Collected, Push, Faulty, FromBefore
  <2>5. Opened'
    BY <1>1, <1>2, <1>3 DEF Opened, IsFrom
  <2>6. Covered'
    <3>. SUFFICES ASSUME NEW k \in 1..pos+1, IsFrom(k)
                  PROVE  (\E i \in 1..n+1 : stages'[i].start + 1 = k) \/ pos + 1 = k
      BY <1>3, <2>2 DEF Covered, IsFrom
    <3>1. CASE k = pos + 1
      BY <3>1
    <3>2. CASE k # pos + 1 /\ current_stage + 1 = k
      BY <1>1, <2>2, <3>2
    <3>3. CASE k # pos + 1 /\ current_stage + 1 # k
      <4>1. PICK i \in 1..n : stages[i].start + 1 = k
        BY <1>1, <3>3 DEF Covered
      <4>. QED
        BY <1>1, <2>2, <4>1
    <3>. QED
      BY <3>1, <3>2, <3>3
  <2>7. Tiled'
    <3>. SUFFICES ASSUME NEW i \in 1..n+1
                  PROVE  /\ stages'[i].end = IF i < n + 1 THEN stages'[i + 1].start ELSE pos
                         /\ stages'[i].start < stages'[i].end
                         /\ stages'[i].end <= pos + 1
                         /\ IsFrom(stages'[i].start + 1)
                         /\ \A k \in stages'[i].start+2..stages'[i].end : ~IsFrom(k)
      BY SMTT(30), <1>3, <2>2 DEF Tiled, Frontier, IsFrom
    <3>1. CASE i = n + 1
      BY SMTT(30), <1>1, <1>4, <1>6, <2>2, <3>1 DEF Opened
    <3>2. CASE i # n + 1
      <4>1. i \in 1..n /\ stages'[i] = stages[i]
        BY <1>1, <2>2, <3>2
      <4>2. stages[i].start \in Nat /\ stages[i].end \in Nat
        BY <1>1, <4>1, Basics
      <4>3. stages[i].end = stages'[i + 1].start
        <5>1. CASE i < n
          BY <1>1, <2>2, <4>1, <5>1 DEF Tiled
        <5>2. CASE i = n
          BY <1>1, <2>2, <4>1, <5>2 DEF Tiled, Frontier
        <5>. QED
          BY <1>1, <4>1, <5>1, <5>2
      <4>4. stages[i].end <= pos + 1
        BY <1>1, <4>1, <4>2 DEF Tiled
      <4>. QED
        BY <1>1, <4>1, <4>3, <4>4 DEF Tiled
    <3>. QED
      BY <3>1, <3>2
  <2>8. Ordered'
    <3>. SUFFICES ASSUME NEW i \in 1..n+1, NEW j \in 1..n+1, i < j
                  PROVE  stages'[i].start < stages'[j].start
      BY <2>2 DEF Ordered
    <3>1. CASE j = n + 1
      BY <1>1, <1>6, <2>2, <3>1 DEF Counted
    <3>2. CASE j # n + 1
      <4>1. i \in 1..n /\ j \in 1..n
        BY <1>1, <3>2
      <4>2. stages'[i] = stages[i] /\ stages'[j] = stages[j]
        BY <2>2, <4>1
      <4>. QED
        BY <4>1, <4>2 DEF Ordered
    <3>. QED
      BY <3>1, <3>2
  <2>9. Counted'
    <3>1. Len(stages') <= pos
      BY <1>1, <1>4, <1>6, <2>2 DEF Counted
    <3>2. \A i \in 1..n+1 : stages'[i].start < pos
      <4>. TAKE i \in 1..n+1
      <4>1. CASE i = n + 1
        BY <1>1, <1>4, <1>6, <2>2, <4>1
      <4>2. CASE i # n + 1
        <5>1. i \in 1..n
          BY <1>1, <4>2
        <5>2. stages[i].start \in 0..MaxLen
          BY <5>1, Basics
        <5>3. stages[i].start < current_stage
          BY <1>6, <5>1 DEF Counted
        <5>. QED
          BY <1>1, <1>4, <1>6, <2>2, <5>1, <5>2, <5>3
      <4>. QED
        BY <4>1, <4>2
    <3>. QED
      BY <1>2, <1>3, <2>2, <3>1, <3>2 DEF Counted
  <2>10. Indexed'
    BY DEF Indexed, NameOf
  <2>. QED
    BY <2>3, <2>4, <2>5, <2>6, <2>7, <2>8, <2>9, <2>10
<1>. QED
  BY <1>5, <1>6

-----------------------------------------------------------------------------
(* Closing the last stage ends the scan: the stages reach the end.          *)
LEMMA CloseInv ==
  ASSUME Inv, CloseLastStage
  PROVE  Inv'
<1>. USE DEF Inv, CloseLastStage
<1>1. MaxLen \in Nat /\ Len(text) \in 0..MaxLen /\ pos = Len(text) /\ Len(stages) \in Nat
  BY Basics
<1>2. Len(instructions) = pos
  BY DEF Collected
<1>3. current_stage # NoIndex
  BY DEF Counted, Closed
<1>4. current_stage \in 0..pos-1
  BY <1>3 DEF Opened
<1>. DEFINE r == [start |-> current_stage, end |-> pos]
            n == Len(stages)
<1>5. stages' = Append(stages, r) /\ r \in StageRange
  BY <1>1, <1>2, <1>3, <1>4 DEF Closed, StageRange
<1>6. Len(stages') = n + 1 /\ stages'[n + 1] = r /\ \A i \in 1..n : stages'[i] = stages[i]
  BY <1>1, <1>5 DEF TypeOK
<1>7. TypeOK'
  <2>1. stages' \in Seq(StageRange)
    BY <1>5 DEF TypeOK
  <2>. QED
    BY <2>1 DEF TypeOK
<1>8. Collected' /\ Opened'
  BY DEF Collected, Opened, Faulty, FromBefore, IsFrom
<1>9. Covered'
  <2>. SUFFICES ASSUME NEW k \in 1..pos, IsFrom(k)
                PROVE  \E i \in 1..n+1 : stages'[i].start + 1 = k
    BY <1>6 DEF Covered, IsFrom
  <2>1. CASE current_stage + 1 = k
    BY <1>1, <1>6, <2>1
  <2>2. CASE current_stage + 1 # k
    <3>1. PICK i \in 1..n : stages[i].start + 1 = k
      BY <1>1, <2>2 DEF Covered
    <3>. QED
      BY <1>1, <1>6, <3>1
  <2>. QED
    BY <2>1, <2>2
<1>10. Tiled'
  <2>. SUFFICES ASSUME NEW i \in 1..n+1
                PROVE  /\ stages'[i].end = IF i < n + 1 THEN stages'[i + 1].start ELSE pos
                       /\ stages'[i].start < stages'[i].end
                       /\ stages'[i].end <= pos
                       /\ IsFrom(stages'[i].start + 1)
                       /\ \A k \in stages'[i].start+2..stages'[i].end : ~IsFrom(k)
    BY <1>2, <1>6 DEF Tiled, Frontier, IsFrom
  <2>1. CASE i = n + 1
    BY <1>1, <1>3, <1>4, <1>6, <2>1 DEF Opened
  <2>2. CASE i # n + 1
    <3>1. i \in 1..n /\ stages'[i] = stages[i]
      BY <1>1, <1>6, <2>2
    <3>2. stages[i].end = stages'[i + 1].start
      <4>1. CASE i < n
        BY <1>1, <1>6, <3>1, <4>1 DEF Tiled
      <4>2. CASE i = n
        BY <1>1, <1>6, <3>1, <4>2 DEF Tiled, Frontier
      <4>. QED
        BY <1>1, <3>1, <4>1, <4>2
    <3>. QED
      BY <1>1, <3>1, <3>2 DEF Tiled
  <2>. QED
    BY <2>1, <2>2
<1>11. Ordered'
  <2>. SUFFICES ASSUME NEW i \in 1..n+1, NEW j \in 1..n+1, i < j
                PROVE  stages'[i].start < stages'[j].start
    BY <1>6 DEF Ordered
  <2>1. CASE j = n + 1
    BY <1>1, <1>3, <1>6, <2>1 DEF Counted
  <2>2. CASE j # n + 1
    <3>1. i \in 1..n /\ j \in 1..n
      BY <1>1, <2>2
    <3>2. stages'[i] = stages[i] /\ stages'[j] = stages[j]
      BY <1>6, <3>1
    <3>. QED
      BY <3>1, <3>2 DEF Ordered
  <2>. QED
    BY <2>1, <2>2
<1>12. Counted'
  BY <1>1, <1>3, <1>4, <1>6 DEF Counted
<1>13. Indexed'
  <2>1. named' = 0 /\ DOMAIN stages_by_name' = {} /\ named' \in 0..Len(stages') /\ pc' = "names"
    BY <1>1, <1>6 DEF Indexed
  <2>. QED
    BY <2>1 DEF Indexed
<1>. QED
  BY <1>7, <1>8, <1>9, <1>10, <1>11, <1>12, <1>13

(* While stages are being named nothing the scan built changes.             *)
LEMMA ScanKept ==
  ASSUME Inv, pc = "names", pc' \in {"names", "ok"},
         UNCHANGED <<text, pos, instructions, stages, current_stage>>
  PROVE  (Collected /\ Opened /\ Tiled /\ Ordered /\ Covered /\ Counted)'
BY DEF Inv, Collected, Opened, Tiled, Ordered, Covered, Counted, IsFrom, Frontier, Faulty, FromBefore

(* The stage the naming loop looks at.                                      *)
LEMMA StageLookedAt ==
  ASSUME Inv, Naming
  PROVE  /\ named \in 0..Len(stages)-1
         /\ Len(stages) \in 0..MaxLen
         /\ StageName(named) = NameOf(named)
         /\ NameOf(named) \in Name \cup {NoName}
         /\ instructions[stages[named + 1].start + 1] = stages[named + 1].start + 1
         /\ stages[named + 1].start + 1 \in 1..Len(text)
<1>. USE DEF Inv, Naming
<1>1. /\ MaxLen \in Nat /\ Len(text) \in 0..MaxLen /\ pos = Len(text) /\ Len(stages) \in Nat
      /\ named \in 0..Len(stages) /\ named < Len(stages)
  BY Basics DEF Indexed
<1>2. named + 1 \in 1..Len(stages) /\ Len(stages) \in 0..MaxLen
  BY <1>1 DEF Counted
<1>3. stages[named + 1].start \in 0..MaxLen /\ stages[named + 1].end \in 0..MaxLen
  BY <1>2, Basics
<1>4. stages[named + 1].start + 1 \in 1..pos
  BY <1>1, <1>2, <1>3 DEF Tiled
<1>5. instructions[stages[named + 1].start + 1] = stages[named + 1].start + 1
  BY <1>4 DEF Collected
<1>6. text[stages[named + 1].start + 1] \in Outcome
  BY <1>1, <1>4, Basics
<1>. QED
  BY <1>1, <1>2, <1>4, <1>5, <1>6, OutcomeKinds DEF StageName, NameOf

LEMMA SkipUnnamedInv ==
  ASSUME Inv, SkipUnnamed
  PROVE  Inv'
<1>. USE DEF Inv, SkipUnnamed, Naming
<1>1. named \in 0..Len(stages)-1 /\ Len(stages) \in 0..MaxLen /\ MaxLen \in Nat /\ NameOf(named) = NoName
  BY StageLookedAt, MaxLenAssumption
<1>2. TypeOK'
  BY <1>1 DEF TypeOK
<1>3. Indexed'
  BY <1>1 DEF Indexed, NameOf
<1>. QED
  BY <1>2, <1>3, ScanKept

LEMMA IndexNameInv ==
  ASSUME Inv, IndexName
  PROVE  Inv'
<1>. USE DEF Inv, IndexName, Naming
<1>1. /\ named \in 0..Len(stages)-1 /\ Len(stages) \in 0..MaxLen /\ MaxLen \in Nat
      /\ StageName(named) = NameOf(named) /\ NameOf(named) \in Name
  BY StageLookedAt, MaxLenAssumption
<1>2. DOMAIN stages_by_name' = DOMAIN stages_by_name \cup {NameOf(named)}
  BY <1>1
<1>3. \A n \in DOMAIN stages_by_name' :
        stages_by_name'[n] = IF n = NameOf(named) THEN named ELSE stages_by_name[n]
  BY <1>1, <1>2
<1>4. TypeOK'
  <2>1. \A n \in DOMAIN stages_by_name' : stages_by_name'[n] \in 0..MaxLen
    BY <1>1, <1>2, <1>3 DEF TypeOK
  <2>2. DOMAIN stages_by_name' \subseteq Name
    BY <1>1, <1>2 DEF TypeOK
  <2>. QED
    BY <1>1, <2>1, <2>2 DEF TypeOK
<1>5. Indexed'
  <2>1. named' = named + 1 /\ named' \in 0..Len(stages') /\ pc' = "names"
    BY <1>1
  <2>2. \A i : NameOf(i)' = NameOf(i)
    BY DEF NameOf
  <2>3. \A n \in DOMAIN stages_by_name' :
          stages_by_name'[n] \in 0..named /\ NameOf(stages_by_name'[n]) = n
    BY <1>1, <1>2, <1>3 DEF Indexed
  <2>4. \A i \in 0..named : NameOf(i) # NoName =>
          NameOf(i) \in DOMAIN stages_by_name' /\ stages_by_name'[NameOf(i)] = i
    BY <1>1, <1>2, <1>3 DEF Indexed
  <2>. QED
    BY <1>1, <2>1, <2>2, <2>3, <2>4 DEF Indexed
<1>. QED
  BY <1>4, <1>5, ScanKept

LEMMA NextInv == Inv /\ [Next]_vars => Inv'
<1>. SUFFICES ASSUME Inv, [Next]_vars PROVE Inv'
  OBVIOUS
<1>1. /\ TypeOK /\ MaxLen \in Nat /\ Len(text) \in 0..MaxLen /\ pos \in 0..Len(text)
      /\ pos < Len(text) => pos + 1 \in 0..MaxLen
  BY Basics DEF Inv
<1>2. CASE ParseError
  <2>1. InstructionError(pos + 1) \in Error
    BY <1>1, <1>2, ErrorTypes DEF ParseError, Scan
  <2>. QED
    BY <1>1, <1>2, <2>1, FailInv DEF ParseError
<1>3. CASE PushFrom
  BY <1>3, PushFromInv
<1>4. CASE PushArg
  <2>1. pc = "scan" /\ pos < Len(text) /\ text[pos + 1].kind = "Arg"
    BY <1>4 DEF PushArg, Scan
  <2>2. ~IsFrom(pos + 1) /\ ~Faulty(text, pos + 1)
    BY <2>1 DEF IsFrom, Faulty
  <2>. QED
    BY <1>4, <2>1, <2>2, PushInv DEF PushArg
<1>5. CASE PushOther
  <2>1. FromBefore(text, pos + 1)
    <3>1. current_stage \in 0..pos-1 /\ IsFrom(current_stage + 1)
      BY <1>5 DEF PushOther, Scan, Inv, Opened
    <3>. QED
      BY <1>1, <3>1 DEF FromBefore, IsFrom
  <2>2. pc = "scan" /\ pos < Len(text) /\ text[pos + 1].kind = "Other"
    BY <1>5 DEF PushOther, Scan
  <2>3. ~IsFrom(pos + 1) /\ ~Faulty(text, pos + 1)
    BY <2>1, <2>2 DEF IsFrom, Faulty
  <2>. QED
    BY <1>5, <2>2, <2>3, PushInv DEF PushOther
<1>6. CASE MissingFrom
  <2>1. ExpectedFrom(pos + 1) \in Error
    BY <1>1, <1>6, ErrorTypes DEF MissingFrom, Scan
  <2>. QED
    BY <1>1, <1>6, <2>1, FailInv DEF MissingFrom
<1>7. CASE CloseLastStage
  BY <1>7, CloseInv
<1>8. CASE NoStageFound
  <2>1. NoStage \in Error
    BY <1>1 DEF Error, ErrorKind, NoStage
  <2>. QED
    BY <1>1, <1>8, <2>1, FailInv DEF NoStageFound
<1>9. CASE SkipUnnamed
  BY <1>9, SkipUnnamedInv
<1>10. CASE IndexName
  BY <1>10, IndexNameInv
<1>11. CASE NameTwice
  <2>1. instructions[stages[named + 1].start + 1] \in 1..Len(text)
    BY <1>11, StageLookedAt DEF NameTwice
  <2>2. DuplicateName(instructions[stages[named + 1].start + 1]) \in Error
    BY <1>1, <2>1, ErrorTypes
  <2>. QED
    BY <1>1, <1>11, <2>2, FailInv DEF NameTwice
<1>12. CASE Return
  <2>1. TypeOK' /\ Indexed'
    BY <1>12 DEF Return, Inv, TypeOK, Indexed, NameOf
  <2>. QED
    BY <1>12, <2>1, ScanKept DEF Return, Inv
<1>13. CASE UNCHANGED vars
  <2>1. UNCHANGED <<text, pos, instructions, stages, current_stage, stages_by_name, named, pc, error>>
    BY <1>13 DEF vars
  <2>2. TypeOK'
    BY <2>1 DEF Inv, TypeOK
  <2>3. pc # "err" => Collected' /\ Opened' /\ Ordered' /\ Covered' /\ Counted'
    BY <2>1 DEF Inv, Collected, Opened, Ordered, Covered, Counted, IsFrom, Faulty, FromBefore
  <2>4. pc # "err" => Tiled' /\ Indexed'
    BY <2>1 DEF Inv, Tiled, Indexed, NameOf, IsFrom, Frontier
  <2>. QED
    BY <2>1, <2>2, <2>3, <2>4 DEF Inv
<1>. QED
  BY <1>2, <1>3, <1>4, <1>5, <1>6, <1>7, <1>8, <1>9, <1>10, <1>11, <1>12, <1>13 DEF Next

LEMMA Invariance == Spec => []Inv
BY InitInv, NextInv, PTL DEF Spec

-----------------------------------------------------------------------------
(* Every variable of parse() keeps its type, whatever the text.             *)
THEOREM TypeCorrect == Spec => []TypeOK
<1>1. Inv => TypeOK
  BY DEF Inv
<1>. QED
  BY <1>1, Invariance, PTL

(* The stages always tile the instructions from the first FROM on.          *)
THEOREM TileCorrect == Spec => []StagesTile
<1>1. Inv => StagesTile
  <2>. SUFFICES ASSUME Inv, pc # "err", NEW i \in DOMAIN stages
                PROVE  /\ stages[i].end = IF i < Len(stages) THEN stages[i + 1].start ELSE Frontier
                       /\ stages[i].start < stages[i].end
                       /\ KindAt(stages[i].start) = "From"
                       /\ \A k \in stages[i].start + 1 .. stages[i].end - 1 : KindAt(k) # "From"
    BY DEF StagesTile
  <2>1. i \in 1..Len(stages) /\ pos \in Nat
    BY Basics DEF Inv, TypeOK
  <2>2. stages[i].start \in 0..MaxLen /\ stages[i].end \in 0..MaxLen /\ MaxLen \in Nat
    BY <2>1, Basics DEF Inv
  <2>3. /\ stages[i].end = IF i < Len(stages) THEN stages[i + 1].start ELSE Frontier
        /\ stages[i].start < stages[i].end
        /\ stages[i].end <= pos
        /\ IsFrom(stages[i].start + 1)
        /\ \A k \in stages[i].start+2..stages[i].end : ~IsFrom(k)
    BY <2>1 DEF Inv, Tiled
  <2>4. \A k \in stages[i].start .. stages[i].end - 1 : KindAt(k) = text[k + 1].kind
    <3>. TAKE k \in stages[i].start .. stages[i].end - 1
    <3>1. k + 1 \in 1..pos
      BY <2>1, <2>2, <2>3
    <3>2. instructions[k + 1] = k + 1
      BY <3>1 DEF Inv, Collected
    <3>. QED
      BY <3>2 DEF KindAt
  <2>5. KindAt(stages[i].start) = "From"
    <3>1. stages[i].start \in stages[i].start .. stages[i].end - 1
      BY <2>2, <2>3
    <3>. QED
      BY <2>3, <2>4, <3>1 DEF IsFrom
  <2>6. \A k \in stages[i].start + 1 .. stages[i].end - 1 : KindAt(k) # "From"
    <3>. TAKE k \in stages[i].start + 1 .. stages[i].end - 1
    <3>1. k \in stages[i].start .. stages[i].end - 1 /\ k + 1 \in stages[i].start+2..stages[i].end
      BY <2>2
    <3>. QED
      BY <2>3, <2>4, <3>1 DEF IsFrom
  <2>. QED
    BY <2>3, <2>5, <2>6
<1>. QED
  BY <1>1, Invariance, PTL

(* After the scan a stage starts at a FROM, which its position in the text  *)
(* identifies.                                                              *)
LEMMA FinishedStage ==
  ASSUME Inv, pc \in {"names", "ok"}, NEW i \in 0 .. Len(stages) - 1
  PROVE  /\ i + 1 \in 1..Len(stages) /\ Len(stages) \in Nat
         /\ stages[i + 1].start \in Nat
         /\ StageAt(i).from = stages[i + 1].start + 1
         /\ StageAt(i).from \in 1..Len(text)
         /\ text[StageAt(i).from].kind = "From"
         /\ text[StageAt(i).from].as_ = NameOf(i)
<1>1. /\ i + 1 \in 1..Len(stages) /\ Len(stages) \in Nat /\ pos = Len(text)
      /\ MaxLen \in Nat /\ Len(text) \in 0..MaxLen
  BY Basics DEF Inv
<1>2. stages[i + 1].start \in 0..MaxLen /\ stages[i + 1].end \in 0..MaxLen
  BY <1>1, Basics DEF Inv
<1>3. IsFrom(stages[i + 1].start + 1) /\ stages[i + 1].start < stages[i + 1].end /\ stages[i + 1].end <= pos
  BY <1>1 DEF Inv, Tiled
<1>4. stages[i + 1].start + 1 \in 1..pos
  BY <1>1, <1>2, <1>3
<1>5. StageAt(i).from = stages[i + 1].start + 1
  BY <1>4 DEF StageAt, Inv, Collected
<1>. QED
  BY <1>1, <1>2, <1>3, <1>4, <1>5 DEF IsFrom, NameOf

(* No FROM precedes the first stage.                                        *)
LEMMA NothingBeforeFirst ==
  ASSUME Inv, pc = "ok"
  PROVE  /\ 1 \in 1..Len(stages)
         /\ stages[1].start \in 0..Len(text)
         /\ \A k \in 1..stages[1].start : ~IsFrom(k)
<1>1. /\ Len(stages) \in Nat /\ Len(stages) >= 1 /\ pos = Len(text)
      /\ MaxLen \in Nat /\ Len(text) \in 0..MaxLen
  BY Basics DEF Inv, Counted
<1>2. 1 \in 1..Len(stages)
  BY <1>1
<1>3. stages[1].start \in 0..MaxLen /\ stages[1].end \in 0..MaxLen
  BY <1>2, Basics DEF Inv
<1>4. stages[1].start < stages[1].end /\ stages[1].end <= pos
  BY <1>2 DEF Inv, Tiled
<1>5. ASSUME NEW k \in 1..stages[1].start, IsFrom(k) PROVE FALSE
  <2>1. PICK i \in 1..Len(stages) : stages[i].start + 1 = k
    BY <1>1, <1>3, <1>4, <1>5 DEF Inv, Covered
  <2>2. stages[i].start \in 0..MaxLen
    BY <2>1, Basics DEF Inv
  <2>3. i # 1 => stages[1].start < stages[i].start
    BY <1>1, <1>2, <2>1 DEF Inv, Ordered
  <2>. QED
    BY <1>3, <1>5, <2>1, <2>2, <2>3
<1>. QED
  BY <1>1, <1>2, <1>3, <1>4, <1>5

(* No unwrap() or unreachable!() in the methods of Dockerfile can panic.    *)
THEOREM AccessorsCorrect == Spec => []AccessorsTotal
<1>1. Inv => AccessorsTotal
  <2>. SUFFICES ASSUME Inv, pc = "ok" PROVE
         /\ stages # <<>>
         /\ \A k \in DOMAIN global_args : text[global_args[k]].kind = "Arg"
         /\ \A i \in 0 .. Len(stages) - 1 : text[StageAt(i).from].kind = "From"
         /\ \A n \in DOMAIN stages_by_name : stages_by_name[n] < Len(stages)
    BY DEF AccessorsTotal
  <2>. DEFINE e == stages[1].start
  <2>1. /\ 1 \in 1..Len(stages) /\ e \in 0..Len(text) /\ Len(text) \in Nat
        /\ \A k \in 1..e : ~IsFrom(k)
        /\ pos = Len(text) /\ DOMAIN text = 1..Len(text)
        /\ \A i \in 1..Len(text) : text[i] \in Outcome
    BY NothingBeforeFirst, Basics DEF Inv
  <2>2. stages # <<>>
    BY <2>1
  <2>3. ASSUME NEW k \in 1..e PROVE instructions[k] = k /\ text[k].kind = "Arg"
    <3>1. k \in 1..pos /\ ~Faulty(text, k) /\ instructions[k] = k
      BY <2>1 DEF Inv, Collected
    <3>2. ~FromBefore(text, k)
      BY <2>1 DEF FromBefore, IsFrom
    <3>3. text[k].kind \in {"From", "Arg", "Other", "Error"}
      BY <2>1, <3>1, OutcomeKinds
    <3>. QED
      BY <2>1, <3>1, <3>2, <3>3 DEF Faulty, IsFrom
  <2>4. DOMAIN global_args = 1..e /\ \A k \in 1..e : global_args[k] = instructions[k]
    <3>1. instructions \in Seq(1..MaxLen) /\ Len(instructions) = Len(text)
      BY <2>1 DEF Inv, TypeOK, Collected
    <3>. QED
      BY <2>1, <3>1 DEF global_args
  <2>5. \A k \in DOMAIN global_args : text[global_args[k]].kind = "Arg"
    BY <2>3, <2>4
  <2>6. \A i \in 0 .. Len(stages) - 1 : text[StageAt(i).from].kind = "From"
    BY FinishedStage
  <2>7. \A n \in DOMAIN stages_by_name : stages_by_name[n] < Len(stages)
    BY Basics DEF Inv, Indexed
  <2>. QED
    BY <2>2, <2>5, <2>6, <2>7
<1>. QED
  BY <1>1, Invariance, PTL

(* stage(name) finds the one stage of that name, for every named stage.     *)
THEOREM NamesCorrect == Spec => []NamesExact
<1>1. Inv => NamesExact
  <2>. SUFFICES ASSUME Inv, pc = "ok" PROVE
         /\ \A n \in DOMAIN stages_by_name : text[stage(n).from].as_ = n
         /\ \A i \in 0 .. Len(stages) - 1 :
              text[StageAt(i).from].as_ # NoName =>
                /\ text[StageAt(i).from].as_ \in DOMAIN stages_by_name
                /\ stages_by_name[text[StageAt(i).from].as_] = i
    BY DEF NamesExact
  <2>1. named = Len(stages)
    BY DEF Inv, Indexed
  <2>2. \A n \in DOMAIN stages_by_name : text[stage(n).from].as_ = n
    BY <2>1, FinishedStage DEF Inv, Indexed, stage
  <2>3. \A i \in 0 .. Len(stages) - 1 : text[StageAt(i).from].as_ = NameOf(i)
    BY FinishedStage
  <2>. QED
    BY <2>1, <2>2, <2>3 DEF Inv, Indexed
<1>. QED
  BY <1>1, Invariance, PTL

-----------------------------------------------------------------------------
(* What the abstract specification ParseResult is made of, for a text whose *)
(* vocabulary is the instance's.                                            *)
LEMMA SameWords ==
  /\ \A t, i : Promise!FromBefore(t, i) <=> FromBefore(t, i)
  /\ \A t, i : Promise!Faulty(t, i) <=> Faulty(t, i)
  /\ \A t, i : Promise!FirstFault(t, i) <=> FirstFault(t, i)
  /\ \A t, i : Promise!Reused(t, i) <=> Reused(t, i)
  /\ \A t, i : Promise!FirstReuse(t, i) <=> FirstReuse(t, i)
  /\ \A t : Promise!Froms(t) = Froms(t)
  /\ Promise!Texts = Texts
<1>1. /\ \A t, i : Promise!FromBefore(t, i) <=> FromBefore(t, i)
      /\ \A t, i : Promise!Reused(t, i) <=> Reused(t, i)
      /\ \A t : Promise!Froms(t) = Froms(t)
  BY DEF FromBefore, Promise!FromBefore, Reused, Promise!Reused, Froms, Promise!Froms
<1>2. \A t, i : Promise!Faulty(t, i) <=> Faulty(t, i)
  BY <1>1 DEF Faulty, Promise!Faulty
<1>3. /\ \A t, i : Promise!FirstFault(t, i) <=> FirstFault(t, i)
      /\ \A t, i : Promise!FirstReuse(t, i) <=> FirstReuse(t, i)
  BY <1>1, <1>2 DEF FirstFault, Promise!FirstFault, FirstReuse, Promise!FirstReuse
<1>4. Promise!Texts = Texts
  BY DEF Texts, Promise!Texts, SeqOf, Promise!SeqOf, Outcome, Promise!Outcome
<1>. QED
  BY <1>1, <1>2, <1>3, <1>4

(* A fault at the instruction just read is the first, so it decides.        *)
LEMMA FaultDecides ==
  ASSUME Inv, pc = "scan", pos < Len(text), Faulty(text, pos + 1),
         NEW e, e = FaultError(text, pos + 1)
  PROVE  Promise!IsResult(text, [ok |-> FALSE, error |-> e])
<1>1. pos \in 0..Len(text) /\ DOMAIN text = 1..Len(text) /\ Len(text) \in Nat
  BY Basics DEF Inv
<1>2. FirstFault(text, pos + 1)
  BY <1>1 DEF FirstFault, Inv, Collected
<1>3. e = Promise!FaultError(text, pos + 1)
  BY DEF FaultError, Promise!FaultError, InstructionError, Promise!InstructionError,
         ExpectedFrom, Promise!ExpectedFrom
<1>. QED
  BY <1>1, <1>2, <1>3, SameWords DEF Promise!IsResult, Promise!Failed, FirstFault

(* At the end of the scan no instruction was at fault.                      *)
LEMMA NoFaultAtEnd ==
  ASSUME Inv, pc # "err", pos = Len(text)
  PROVE  \A i \in DOMAIN text : ~Promise!Faulty(text, i)
BY SameWords, Basics DEF Inv, Collected

LEMMA NoStageDecides ==
  ASSUME Inv, NoStageFound
  PROVE  Promise!IsResult(text, [ok |-> FALSE, error |-> NoStage])
<1>1. /\ pos = Len(text) /\ pc = "scan" /\ DOMAIN text = 1..Len(text)
      /\ Len(stages) \in Nat /\ stages \in Seq(StageRange)
  BY Basics DEF Inv, NoStageFound, TypeOK
<1>2. current_stage = NoIndex
  BY <1>1 DEF NoStageFound, Closed
<1>3. Froms(text) = {}
  BY <1>1, <1>2 DEF Inv, Opened, IsFrom, Froms
<1>. QED
  BY <1>1, <1>3, SameWords, NoFaultAtEnd DEF Promise!IsResult, Promise!Failed, NoStage, Promise!NoStage

(* After the scan: every FROM of the text starts a stage, and every stage   *)
(* starts at a FROM of the text.                                            *)
LEMMA StagesAreFroms ==
  ASSUME Inv, pc \in {"names", "ok"}
  PROVE  /\ \A k \in Froms(text) : \E i \in 1..Len(stages) : stages[i].start + 1 = k
         /\ \A i \in 1..Len(stages) : /\ stages[i].start \in Nat
                                      /\ stages[i].start + 1 \in Froms(text)
         /\ Len(text) \in Nat /\ Len(stages) \in Nat /\ DOMAIN text = 1..Len(text)
         /\ pos = Len(text)
<1>1. /\ pos = Len(text) /\ DOMAIN text = 1..Len(text) /\ Len(text) \in Nat /\ Len(stages) \in Nat
      /\ MaxLen \in Nat
  BY Basics DEF Inv
<1>2. \A k \in Froms(text) : \E i \in 1..Len(stages) : stages[i].start + 1 = k
  BY <1>1 DEF Inv, Covered, Froms, IsFrom
<1>3. ASSUME NEW i \in 1..Len(stages)
      PROVE  stages[i].start \in Nat /\ stages[i].start + 1 \in Froms(text)
  <2>1. stages[i].start \in 0..MaxLen /\ stages[i].end \in 0..MaxLen
    BY Basics DEF Inv
  <2>2. stages[i].start + 1 \in 1..Len(text) /\ IsFrom(stages[i].start + 1)
    BY <1>1, <2>1 DEF Inv, Tiled
  <2>. QED
    BY <1>1, <2>1, <2>2 DEF Froms, IsFrom
<1>. QED
  BY <1>1, <1>2, <1>3

-----------------------------------------------------------------------------
(* What a Dockerfile was made of.                                           *)
LEMMA ReturnsAll ==
  ASSUME Inv, pc = "ok"
  PROVE  /\ instructions \in Seq(1..MaxLen) /\ Len(instructions) = Len(text)
         /\ \A k \in 1..Len(text) : instructions[k] = k /\ ~Faulty(text, k)
         /\ Froms(text) # {}
<1>1. pos = Len(text) /\ Len(stages) \in Nat /\ Len(text) \in Nat
  BY Basics DEF Inv
<1>2. 1 \in 1..Len(stages)
  BY <1>1 DEF Inv, Counted
<1>3. stages[1].start + 1 \in Froms(text)
  BY <1>2, StagesAreFroms
<1>. QED
  BY <1>1, <1>3 DEF Inv, TypeOK, Collected

(* The error is that of the first fault; only where there is none that of a *)
(* missing stage, and only where there is a stage that of a name.           *)
Blamed ==
  /\ pc # "err" => error = NotCalled
  /\ pc = "err" =>
       \/ \E i \in DOMAIN text : FirstFault(text, i) /\ error = FaultError(text, i)
       \/ /\ \A i \in DOMAIN text : ~Faulty(text, i)
          /\ \/ Froms(text) = {} /\ error = NoStage
             \/ Froms(text) # {} /\ error.kind = "DuplicateName"

LEMMA InitBlamed == Init => Blamed
BY DEF Init, Blamed

LEMMA NextBlamed == Inv /\ Blamed /\ [Next]_vars => Blamed'
<1>. SUFFICES ASSUME Inv, Blamed, [Next]_vars PROVE Blamed'
  OBVIOUS
<1>1. /\ pos \in 0..Len(text) /\ DOMAIN text = 1..Len(text) /\ Len(text) \in Nat
      /\ pc # "err" => \A k \in 1..pos : ~Faulty(text, k)
  BY Basics DEF Inv, Collected
<1>2. ASSUME pc = "scan", pos < Len(text), Faulty(text, pos + 1), text' = text,
             Fail(FaultError(text, pos + 1))
      PROVE  Blamed'
  <2>1. FirstFault(text, pos + 1)
    BY <1>1, <1>2 DEF FirstFault
  <2>2. pc' = "err" /\ error' = FaultError(text, pos + 1)
    BY <1>2 DEF Fail
  <2>. QED
    BY <1>2, <2>1, <2>2 DEF Blamed, FirstFault
<1>3. CASE ParseError
  <2>1. /\ pc = "scan" /\ pos < Len(text) /\ Faulty(text, pos + 1) /\ text' = text
        /\ FaultError(text, pos + 1) = InstructionError(pos + 1)
    BY <1>3 DEF ParseError, Scan, Faulty, FaultError
  <2>. QED
    BY <1>2, <1>3, <2>1 DEF ParseError
<1>4. CASE MissingFrom
  <2>1. ~FromBefore(text, pos + 1)
    BY <1>1, <1>4 DEF MissingFrom, Scan, Inv, Opened, IsFrom, FromBefore
  <2>2. /\ pc = "scan" /\ pos < Len(text) /\ Faulty(text, pos + 1) /\ text' = text
        /\ FaultError(text, pos + 1) = ExpectedFrom(pos + 1)
    BY <1>4, <2>1 DEF MissingFrom, Scan, Faulty, FaultError
  <2>. QED
    BY <1>2, <1>4, <2>2 DEF MissingFrom
<1>5. CASE NoStageFound
  <2>1. /\ pos = Len(text) /\ pc = "scan" /\ pc' = "err" /\ error' = NoStage /\ text' = text
        /\ stages \in Seq(StageRange)
    BY <1>5 DEF NoStageFound, Fail, Inv, TypeOK
  <2>2. current_stage = NoIndex
    BY <1>5, <2>1 DEF NoStageFound, Closed
  <2>3. Froms(text) = {}
    BY <1>1, <2>1, <2>2 DEF Inv, Opened, IsFrom, Froms
  <2>. QED
    BY <1>1, <2>1, <2>3 DEF Blamed
<1>6. CASE NameTwice
  <2>1. pc = "names" /\ pc' = "err" /\ error'.kind = "DuplicateName" /\ text' = text
    BY <1>6 DEF NameTwice, Naming, Fail, DuplicateName
  <2>2. pos = Len(text) /\ Len(stages) \in Nat
    BY <2>1, Basics DEF Inv
  <2>3. 1 \in 1..Len(stages)
    BY <1>1, <2>1, <2>2 DEF Inv, Counted
  <2>4. stages[1].start + 1 \in Froms(text)
    BY <2>1, <2>3, StagesAreFroms
  <2>. QED
    BY <1>1, <2>1, <2>2, <2>4 DEF Blamed
<1>7. CASE PushFrom \/ PushArg \/ PushOther \/ CloseLastStage \/ SkipUnnamed \/ IndexName \/ Return
  <2>1. pc # "err" /\ pc' # "err" /\ error' = error
    BY <1>7 DEF PushFrom, PushArg, PushOther, CloseLastStage, SkipUnnamed, IndexName, Return,
                Scan, Naming
  <2>. QED
    BY <2>1 DEF Blamed
<1>8. CASE UNCHANGED vars
  BY <1>8 DEF vars, Blamed
<1>. QED
  BY <1>3, <1>4, <1>5, <1>6, <1>7, <1>8 DEF Next

(* A range parse() recorded is the one the text determines.                 *)
LEMMA StageEnds ==
  ASSUME Inv, pc \in {"names", "ok"}, NEW i \in 1..Len(stages)
  PROVE  stages[i].end = Promise!StageEnd(text, stages[i].start + 1)
<1>. DEFINE f == stages[i].start + 1
            e == stages[i].end
            Ends(x) == x + 1 \in Froms(text) /\ \A j \in f+1..x : j \notin Froms(text)
<1>1. /\ stages[i].start \in Nat /\ f \in Froms(text) /\ pos = Len(text) /\ Len(text) \in Nat
      /\ Len(stages) \in Nat /\ DOMAIN text = 1..Len(text)
  BY StagesAreFroms
<1>2. e \in 0..MaxLen /\ MaxLen \in Nat
  BY Basics DEF Inv
<1>3. /\ e = IF i < Len(stages) THEN stages[i + 1].start ELSE Frontier
      /\ f <= e /\ e <= Len(text)
      /\ \A k \in f+1..e : k \notin Froms(text)
  <2>1. /\ e = IF i < Len(stages) THEN stages[i + 1].start ELSE Frontier
        /\ stages[i].start < e /\ e <= pos
        /\ \A k \in stages[i].start+2..e : ~IsFrom(k)
    BY DEF Inv, Tiled
  <2>2. f <= e /\ f + 1 = stages[i].start + 2
    BY <1>1, <1>2, <2>1
  <2>3. \A k \in f+1..e : k \notin Froms(text)
    BY <2>1, <2>2 DEF Froms, IsFrom
  <2>. QED
    BY <1>1, <2>1, <2>2, <2>3
<1>4. CASE i < Len(stages)
  <2>1. i + 1 \in 1..Len(stages) /\ e = stages[i + 1].start
    BY <1>1, <1>3, <1>4
  <2>2. e + 1 \in Froms(text) /\ e + 1 > f
    BY <1>1, <1>2, <1>3, <2>1, StagesAreFroms
  <2>3. e \in f..Len(text) /\ Ends(e)
    BY <1>1, <1>2, <1>3, <2>2
  <2>4. ASSUME NEW x \in f..Len(text), Ends(x) PROVE x = e
    <3>1. f \in Nat /\ e \in Nat /\ x \in Nat /\ f <= e /\ f <= x
      BY <1>1, <1>2, <1>3
    <3>2. CASE x < e
      <4>1. x + 1 \in f+1..e
        <5>. HIDE DEF e, f
        <5>. QED
          BY <3>1, <3>2
      <4>. QED
        BY <1>3, <2>4, <4>1
    <3>3. CASE e < x
      <4>1. e + 1 \in f+1..x
        <5>. HIDE DEF e, f
        <5>. QED
          BY <3>1, <3>3
      <4>. QED
        BY <2>2, <2>4, <4>1
    <3>. QED
      BY <3>1, <3>2, <3>3
  <2>5. e = CHOOSE x \in f..Len(text) : Ends(x)
    <3>. HIDE DEF Ends, e, f
    <3>. QED
      BY <2>3, <2>4
  <2>. QED
    BY <2>2, <2>5, SameWords DEF Promise!StageEnd
<1>5. CASE ~(i < Len(stages))
  <2>1. e = Len(text)
    BY <1>1, <1>3, <1>5 DEF Frontier, Inv, Collected
  <2>2. ~ \E j \in Froms(text) : j > f
    BY <1>1, <1>3, <2>1 DEF Froms
  <2>. QED
    BY <2>1, <2>2, SameWords DEF Promise!StageEnd
<1>. QED
  BY <1>4, <1>5

(* A stage the naming loop has left behind does not reuse a name.           *)
LEMMA NoReuseBelow ==
  ASSUME Inv, pc \in {"names", "ok"}, NEW i \in 0..named-1
  PROVE  ~Reused(text, stages[i + 1].start + 1)
<1>. SUFFICES ASSUME Reused(text, stages[i + 1].start + 1) PROVE FALSE
  OBVIOUS
<1>. DEFINE q == stages[i + 1].start + 1
<1>1. named \in 0..Len(stages) /\ Len(stages) \in Nat /\ i + 1 \in 1..Len(stages)
  BY StagesAreFroms DEF Inv, Indexed
<1>2. q \in Froms(text) /\ stages[i + 1].start \in Nat /\ DOMAIN text = 1..Len(text) /\ Len(text) \in Nat
  BY <1>1, StagesAreFroms
<1>3. PICK r \in 1..q-1 : text[r].kind = "From" /\ text[r].as_ = text[q].as_
  BY DEF Reused
<1>4. r \in Froms(text)
  BY <1>2, <1>3 DEF Froms
<1>5. PICK k \in 1..Len(stages) : stages[k].start + 1 = r
  BY <1>4, StagesAreFroms
<1>6. stages[k].start < stages[i + 1].start
  <2>1. stages[k].start \in Nat
    BY <1>5, StagesAreFroms
  <2>. QED
    BY SMTT(30), <1>2, <1>3, <1>5, <2>1
<1>7. k < i + 1
  <2>1. CASE k = i + 1
    BY <1>6, <1>2, <2>1
  <2>2. CASE i + 1 < k
    <3>1. stages[i + 1].start < stages[k].start
      BY <1>1, <1>5, <2>2 DEF Inv, Ordered
    <3>2. stages[k].start \in Nat
      BY <1>5, StagesAreFroms
    <3>. QED
      BY <1>2, <1>6, <3>1, <3>2
  <2>. QED
    BY <1>1, <1>5, <2>1, <2>2
<1>. DEFINE j == k - 1
<1>8. j \in 0..named-1 /\ j < i /\ k = j + 1
  BY <1>1, <1>5, <1>7
<1>9. NameOf(j) = NameOf(i) /\ NameOf(i) # NoName
  BY <1>3, <1>5, <1>8 DEF NameOf, Reused
<1>10. stages_by_name[NameOf(i)] = i /\ stages_by_name[NameOf(j)] = j
  BY <1>8, <1>9 DEF Inv, Indexed
<1>. QED
  BY <1>8, <1>9, <1>10

(* The name that stops the naming loop is the first one used again.         *)
LEMMA ReuseDecides ==
  ASSUME Inv, NameTwice
  PROVE  Promise!IsResult(text, [ok |-> FALSE,
           error |-> DuplicateName(instructions[stages[named + 1].start + 1])])
<1>. DEFINE q == stages[named + 1].start + 1
<1>1. /\ named \in 0..Len(stages)-1 /\ StageName(named) = NameOf(named)
      /\ instructions[q] = q /\ q \in 1..Len(text) /\ pc = "names"
  BY StageLookedAt DEF NameTwice, Naming
<1>2. /\ Len(stages) \in Nat /\ DOMAIN text = 1..Len(text) /\ pos = Len(text) /\ Len(text) \in Nat
      /\ named + 1 \in 1..Len(stages)
  BY <1>1, StagesAreFroms
<1>3. q \in Froms(text) /\ stages[named + 1].start \in Nat
  BY <1>1, <1>2, StagesAreFroms
<1>. DEFINE n == NameOf(named)
            j == stages_by_name[n]
<1>4. n \in DOMAIN stages_by_name /\ n # NoName /\ n = text[q].as_
  BY <1>1, NameAssumption DEF NameTwice, Inv, TypeOK, NameOf
<1>5. j \in 0..named-1 /\ NameOf(j) = n /\ j + 1 \in 1..Len(stages)
  BY <1>1, <1>2, <1>4 DEF Inv, Indexed
<1>6. stages[j + 1].start < stages[named + 1].start
  BY <1>1, <1>2, <1>5 DEF Inv, Ordered
<1>7. Reused(text, q)
  <2>1. stages[j + 1].start + 1 \in Froms(text) /\ stages[j + 1].start \in Nat
    BY <1>1, <1>5, StagesAreFroms
  <2>2. stages[j + 1].start + 1 \in 1..q-1
    BY <1>3, <1>6, <2>1
  <2>3. text[stages[j + 1].start + 1].kind = "From" /\ text[stages[j + 1].start + 1].as_ = text[q].as_
    BY <1>4, <1>5, <2>1 DEF Froms, NameOf
  <2>. QED
    BY <1>3, <1>4, <2>2, <2>3 DEF Reused, Froms
<1>8. ASSUME NEW r \in 1..q-1, Reused(text, r) PROVE FALSE
  <2>1. r \in Froms(text)
    BY <1>1, <1>2, <1>8 DEF Froms, Reused
  <2>2. PICK k \in 1..Len(stages) : stages[k].start + 1 = r
    BY <1>1, <2>1, StagesAreFroms
  <2>3. stages[k].start \in Nat /\ stages[k].start < stages[named + 1].start
    <3>1. stages[k].start \in Nat
      BY <1>1, <2>2, StagesAreFroms
    <3>. QED
      BY <1>3, <1>8, <2>2, <3>1
  <2>4. k < named + 1
    <3>1. CASE k = named + 1
      BY <1>3, <2>3, <3>1
    <3>2. CASE named + 1 < k
      <4>1. stages[named + 1].start < stages[k].start
        BY <1>2, <2>2, <3>2 DEF Inv, Ordered, NameTwice, Naming
      <4>. QED
        BY <1>3, <2>3, <4>1
    <3>. QED
      BY <1>1, <2>2, <3>1, <3>2
  <2>5. k - 1 \in 0..named-1 /\ (k - 1) + 1 = k
    BY <1>1, <2>2, <2>4
  <2>. QED
    BY <1>1, <1>8, <2>2, <2>5, NoReuseBelow
<1>9. FirstReuse(text, q)
  BY <1>1, <1>2, <1>7, <1>8 DEF FirstReuse
<1>10. DuplicateName(instructions[q]) = Promise!DuplicateName(q)
  BY <1>1 DEF DuplicateName, Promise!DuplicateName
<1>11. \A i \in DOMAIN text : ~Promise!Faulty(text, i)
  BY <1>1, <1>2, NoFaultAtEnd
<1>. QED
  BY <1>1, <1>2, <1>9, <1>10, <1>11, SameWords DEF Promise!IsResult, Promise!Failed

(* A completed naming loop leaves the stages and names the text determines. *)
LEMMA ReturnDecides ==
  ASSUME Inv, pc = "names", named = Len(stages)
  PROVE  Promise!IsResult(text,
           [ok |-> TRUE,
            stages |-> {stages[i] : i \in DOMAIN stages},
            names |-> {<<n, stage(n).from - 1>> : n \in DOMAIN stages_by_name}])
<1>1. /\ \A k \in Froms(text) : \E i \in 1..Len(stages) : stages[i].start + 1 = k
      /\ \A i \in 1..Len(stages) : stages[i].start \in Nat /\ stages[i].start + 1 \in Froms(text)
      /\ Len(text) \in Nat /\ Len(stages) \in Nat /\ DOMAIN text = 1..Len(text)
      /\ pos = Len(text)
  BY StagesAreFroms
<1>2. DOMAIN stages = 1..Len(stages) /\ \A i \in 1..Len(stages) : stages[i] \in StageRange
  BY DEF Inv, TypeOK
<1>3. \A i \in 1..Len(stages) :
        stages[i] = [start |-> (stages[i].start + 1) - 1,
                     end |-> Promise!StageEnd(text, stages[i].start + 1)]
  <2>. TAKE i \in 1..Len(stages)
  <2>1. stages[i].end = Promise!StageEnd(text, stages[i].start + 1)
    BY StageEnds
  <2>2. stages[i] = [start |-> stages[i].start, end |-> stages[i].end]
    BY <1>2 DEF StageRange
  <2>3. (stages[i].start + 1) - 1 = stages[i].start
    BY <1>1
  <2>. QED
    BY <2>1, <2>2, <2>3
<1>4. {stages[i] : i \in DOMAIN stages} = Promise!StageSet(text)
  <2>1. ASSUME NEW i \in 1..Len(stages) PROVE stages[i] \in Promise!StageSet(text)
    BY <1>1, <1>3, SameWords DEF Promise!StageSet
  <2>2. ASSUME NEW k \in Froms(text)
        PROVE  [start |-> k - 1, end |-> Promise!StageEnd(text, k)] \in {stages[i] : i \in DOMAIN stages}
    <3>1. PICK i \in 1..Len(stages) : stages[i].start + 1 = k
      BY <1>1
    <3>. QED
      BY <1>2, <1>3, <3>1
  <2>. QED
    BY <1>2, <2>1, <2>2, SameWords DEF Promise!StageSet
<1>5. \A n \in DOMAIN stages_by_name :
        LET k == stages[stages_by_name[n] + 1].start + 1 IN
        k \in Froms(text) /\ text[k].as_ = n /\ n # NoName /\ stage(n).from - 1 = k - 1
  <2>. TAKE n \in DOMAIN stages_by_name
  <2>. DEFINE j == stages_by_name[n]
              k == stages[j + 1].start + 1
  <2>1. j \in 0 .. Len(stages) - 1 /\ NameOf(j) = n /\ n \in Name
    BY <1>1 DEF Inv, Indexed, TypeOK
  <2>2. stage(n).from = k /\ j + 1 \in 1..Len(stages)
    BY <2>1, FinishedStage DEF stage
  <2>. QED
    BY <1>1, <2>1, <2>2, NameAssumption DEF NameOf
<1>6. ASSUME NEW k \in Froms(text), text[k].as_ # NoName
      PROVE  text[k].as_ \in DOMAIN stages_by_name /\ stage(text[k].as_).from - 1 = k - 1
  <2>1. PICK i \in 1..Len(stages) : stages[i].start + 1 = k
    BY <1>1
  <2>. DEFINE j == i - 1
  <2>2. j \in 0..named-1 /\ j \in 0 .. Len(stages) - 1 /\ i = j + 1
    BY <1>1, <2>1
  <2>3. NameOf(j) = text[k].as_
    BY <2>1, <2>2 DEF NameOf
  <2>4. text[k].as_ \in DOMAIN stages_by_name /\ stages_by_name[text[k].as_] = j
    BY <1>6, <2>2, <2>3 DEF Inv, Indexed
  <2>. QED
    BY <2>1, <2>2, <2>4, FinishedStage DEF stage
<1>7. {<<n, stage(n).from - 1>> : n \in DOMAIN stages_by_name} = Promise!NameSet(text)
  <2>1. Promise!NameSet(text) =
          {<<text[k].as_, k - 1>> : k \in {j \in Froms(text) : text[j].as_ # NoName}}
    BY SameWords DEF Promise!NameSet
  <2>2. ASSUME NEW n \in DOMAIN stages_by_name
        PROVE  <<n, stage(n).from - 1>> \in Promise!NameSet(text)
    BY <1>5, <2>1
  <2>3. ASSUME NEW k \in Froms(text), text[k].as_ # NoName
        PROVE  <<text[k].as_, k - 1>> \in {<<n, stage(n).from - 1>> : n \in DOMAIN stages_by_name}
    BY <1>6, <2>3
  <2>. QED
    BY <2>1, <2>2, <2>3
<1>8. Froms(text) # {}
  <2>1. 1 \in 1..Len(stages)
    BY <1>1 DEF Inv, Counted
  <2>. QED
    BY <1>1, <2>1
<1>9. \A i \in DOMAIN text : ~Reused(text, i)
  <2>. SUFFICES ASSUME NEW k \in DOMAIN text, Reused(text, k) PROVE FALSE
    OBVIOUS
  <2>1. k \in Froms(text)
    BY DEF Reused, Froms
  <2>2. PICK i \in 1..Len(stages) : stages[i].start + 1 = k
    BY <1>1, <2>1
  <2>3. i - 1 \in 0..named-1 /\ (i - 1) + 1 = i
    BY <1>1, <2>2
  <2>. QED
    BY <2>2, <2>3, NoReuseBelow
<1>10. \A i \in DOMAIN text : ~Promise!Faulty(text, i)
  BY <1>1, NoFaultAtEnd
<1>. QED
  BY <1>4, <1>7, <1>8, <1>9, <1>10, SameWords DEF Promise!IsResult, Promise!Parsed

LEMMA StepPromises == Inv /\ [Next]_vars => [Promise!Decide]_<<text, Result>>
<1>. SUFFICES ASSUME Inv, Next PROVE Promise!Decide \/ (Result' = Result /\ text' = text)
  BY DEF vars, Result, stage, StageAt
<1>1. text' = text
  BY DEF Next, ParseError, PushFrom, PushArg, PushOther, MissingFrom, CloseLastStage, NoStageFound,
         SkipUnnamed, IndexName, NameTwice, Return
<1>2. pc \in {"scan", "names"} /\ Result = Pending
  BY DEF Next, ParseError, PushFrom, PushArg, PushOther, MissingFrom, CloseLastStage, NoStageFound,
         SkipUnnamed, IndexName, NameTwice, Return, Scan, Naming, Result
<1>3. ASSUME NEW e, Fail(e), Promise!IsResult(text, [ok |-> FALSE, error |-> e])
      PROVE  Promise!Decide
  <2>1. Result' = [ok |-> FALSE, error |-> e]
    BY <1>3 DEF Fail, Result
  <2>. QED
    BY <1>1, <1>2, <1>3, <2>1 DEF Promise!Decide
<1>4. CASE ParseError
  <2>1. /\ pc = "scan" /\ pos < Len(text) /\ Faulty(text, pos + 1)
        /\ FaultError(text, pos + 1) = InstructionError(pos + 1)
    BY <1>4 DEF ParseError, Scan, Faulty, FaultError
  <2>2. Promise!IsResult(text, [ok |-> FALSE, error |-> InstructionError(pos + 1)])
    BY <2>1, FaultDecides
  <2>. QED
    BY <1>3, <1>4, <2>2 DEF ParseError
<1>5. CASE MissingFrom
  <2>1. ~FromBefore(text, pos + 1)
    BY <1>5, Basics DEF MissingFrom, Scan, Inv, Opened, IsFrom, FromBefore
  <2>2. /\ pc = "scan" /\ pos < Len(text) /\ Faulty(text, pos + 1)
        /\ FaultError(text, pos + 1) = ExpectedFrom(pos + 1)
    BY <1>5, <2>1 DEF MissingFrom, Scan, Faulty, FaultError
  <2>3. Promise!IsResult(text, [ok |-> FALSE, error |-> ExpectedFrom(pos + 1)])
    BY <2>2, FaultDecides
  <2>. QED
    BY <1>3, <1>5, <2>3 DEF MissingFrom
<1>6. CASE NoStageFound
  BY <1>3, <1>6, NoStageDecides DEF NoStageFound
<1>7. CASE NameTwice
  BY <1>3, <1>7, ReuseDecides DEF NameTwice
<1>8. CASE Return
  <2>1. Result' = [ok |-> TRUE,
                   stages |-> {stages[i] : i \in DOMAIN stages},
                   names |-> {<<n, stage(n).from - 1>> : n \in DOMAIN stages_by_name}]
    BY <1>8 DEF Return, Result, stage, StageAt
  <2>2. Promise!IsResult(text, Result')
    BY <1>8, <2>1, ReturnDecides DEF Return
  <2>. QED
    BY <1>1, <1>2, <2>2 DEF Promise!Decide
<1>9. CASE PushFrom \/ PushArg \/ PushOther \/ CloseLastStage \/ SkipUnnamed \/ IndexName
  <2>1. pc' \in {"scan", "names"}
    BY <1>9 DEF PushFrom, PushArg, PushOther, CloseLastStage, SkipUnnamed, IndexName, Scan, Naming
  <2>2. Result' = Pending
    BY <2>1 DEF Result
  <2>. QED
    BY <1>1, <1>2, <2>2
<1>. QED
  BY <1>4, <1>5, <1>6, <1>7, <1>8, <1>9 DEF Next

(* parse() implements ParseResult: whatever the text, it comes to the one   *)
(* result the text determines, a first fault, a missing stage, a first      *)
(* reused name, or exactly the stages and the names of the text.            *)
THEOREM PromiseCorrect == Spec => ParsePromise
<1>1. Init => Promise!Init
  <2>. SUFFICES ASSUME Init PROVE text \in Promise!Texts /\ Result = Pending
    BY DEF Promise!Init
  <2>. QED
    BY SameWords DEF Init, Result
<1>. QED
  BY <1>1, StepPromises, Invariance, PTL DEF Spec, ParsePromise, Promise!Spec

-----------------------------------------------------------------------------
(* While no error was reported the calls so far have returned exactly the   *)
(* instructions up to s, and has_stage says whether a FROM is among them;   *)
(* from the first error or None on, the iterator is at the end and fused.   *)
Sound ==
  /\ \A k \in 1..Len(yielded) : yielded[k] = k /\ ~Faulty(text, k)
  /\ reported = <<>> => s = Len(yielded) /\ (has_stage <=> FromBefore(text, s + 1))
  /\ reported # <<>> => s = Len(text) /\ has_stage
  /\ last.kind \in {"NotCalled", "Some"} => reported = <<>> /\ last.at = s
  /\ last.kind \in ErrorKind \cup {"None"} => s = Len(text) /\ has_stage
  /\ Len(yielded) <= Len(text)

IterInv == IterTypeOK /\ Sound

LEMMA IterInitInv == IterInit => IterInv
<1>. SUFFICES ASSUME IterInit PROVE IterInv
  OBVIOUS
<1>1. Len(text) \in 0..MaxLen
  BY TextsAreSequences DEF IterInit
<1>2. IterTypeOK
  <2>1. last \in [kind : ErrorKind \cup {"Some", "None", "NotCalled"}, at : 0..MaxLen]
    BY MaxLenAssumption DEF IterInit, NotCalled
  <2>2. yielded \in Seq(1..MaxLen) /\ reported \in Seq(Error)
    BY DEF IterInit
  <2>3. s \in 0..Len(text)
    BY <1>1, MaxLenAssumption DEF IterInit
  <2>4. text \in Texts /\ has_stage \in BOOLEAN
    BY DEF IterInit
  <2>. QED
    BY <2>1, <2>2, <2>3, <2>4 DEF IterTypeOK
<1>3. Sound
  BY <1>1, MaxLenAssumption DEF IterInit, Sound, NotCalled, ErrorKind, FromBefore
<1>. QED
  BY <1>2, <1>3 DEF IterInv

(* Failing leaves the iterator fused, wherever the error is reported.       *)
LEMMA IterFailInv ==
  ASSUME IterInv, NEW e \in Error, IterFail(e)
  PROVE  IterInv'
<1>1. Len(text) \in 0..MaxLen
  BY TextsAreSequences DEF IterInv, IterTypeOK
<1>2. e.kind \in ErrorKind /\ e.at \in 0..MaxLen
  BY DEF Error
<1>3. IterTypeOK'
  <2>1. e \in [kind : ErrorKind \cup {"Some", "None", "NotCalled"}, at : 0..MaxLen]
    BY DEF Error
  <2>. QED
    BY <1>1, <2>1 DEF IterInv, IterTypeOK, IterFail
<1>4. reported' # <<>>
  BY DEF IterInv, IterTypeOK, IterFail
<1>5. Sound'
  BY <1>1, <1>2, <1>4 DEF IterInv, Sound, IterFail, ErrorKind, Faulty, FromBefore
<1>. QED
  BY <1>3, <1>5 DEF IterInv

(* Returning the instruction at s keeps the invariant, if the instruction   *)
(* may stand where it does and has_stage is brought up to date.             *)
LEMMA YieldInv ==
  ASSUME IterInv, s < Len(text), Yield, ~Faulty(text, s + 1), has_stage' \in BOOLEAN,
         reported = <<>>,
         has_stage' <=> has_stage \/ text[s + 1].kind = "From"
  PROVE  IterInv'
<1>1. Len(text) \in 0..MaxLen /\ MaxLen \in Nat
  BY TextsAreSequences, MaxLenAssumption DEF IterInv, IterTypeOK
<1>2. s \in 0..Len(text) /\ s = Len(yielded) /\ s + 1 \in 1..MaxLen
  BY <1>1 DEF IterInv, IterTypeOK, Sound
<1>3. IterTypeOK'
  BY <1>1, <1>2 DEF IterInv, IterTypeOK, Yield, Some
<1>4. yielded' = Append(yielded, s + 1) /\ Len(yielded') = s + 1
  BY <1>2 DEF Yield, IterInv, IterTypeOK
<1>5. \A k \in 1..Len(yielded') : yielded'[k] = k /\ ~Faulty(text, k)
  BY <1>2, <1>4 DEF IterInv, IterTypeOK, Sound
<1>6. has_stage' <=> FromBefore(text, s + 2)
  BY <1>1, <1>2 DEF IterInv, Sound, FromBefore
<1>7. Sound'
  BY <1>1, <1>2, <1>4, <1>5, <1>6 DEF IterInv, IterTypeOK, Sound, Yield, Some, ErrorKind, Faulty, FromBefore
<1>. QED
  BY <1>3, <1>7 DEF IterInv

(* A call that finds an instruction to look at was not preceded by an error.*)
LEMMA NoErrorYet ==
  ASSUME IterInv, s < Len(text)
  PROVE  reported = <<>> /\ (has_stage <=> FromBefore(text, s + 1))
BY TextsAreSequences, MaxLenAssumption DEF IterInv, IterTypeOK, Sound

LEMMA IterNextInv == IterInv /\ [IterNext]_iterVars => IterInv'
<1>. SUFFICES ASSUME IterInv, [IterNext]_iterVars PROVE IterInv'
  OBVIOUS
<1>1. text \in Texts /\ Len(text) \in 0..MaxLen /\ MaxLen \in Nat /\ s \in 0..Len(text)
  BY TextsAreSequences, MaxLenAssumption DEF IterInv, IterTypeOK
<1>2. ASSUME s < Len(text)
      PROVE  /\ InstructionError(s + 1) \in Error
             /\ ExpectedFrom(s + 1) \in Error
  BY <1>1, <1>2 DEF Error, ErrorKind, InstructionError, ExpectedFrom
<1>3. CASE NextError
  BY <1>2, <1>3, IterFailInv DEF NextError, IterScan
<1>4. CASE NextFrom
  <2>1. ~Faulty(text, s + 1)
    BY <1>4 DEF NextFrom, IterScan, Faulty
  <2>. QED
    BY <1>4, <2>1, NoErrorYet, YieldInv DEF NextFrom, IterScan
<1>5. CASE NextArg
  <2>1. ~Faulty(text, s + 1)
    BY <1>5 DEF NextArg, IterScan, Faulty
  <2>. QED
    BY <1>5, <2>1, NoErrorYet, YieldInv DEF NextArg, IterScan, IterInv, IterTypeOK
<1>6. CASE NextOther
  <2>1. ~Faulty(text, s + 1)
    BY <1>6, NoErrorYet DEF NextOther, IterScan, Faulty
  <2>. QED
    BY <1>6, <2>1, NoErrorYet, YieldInv DEF NextOther, IterScan, IterInv, IterTypeOK
<1>7. CASE NextMissingFrom
  BY <1>2, <1>7, IterFailInv DEF NextMissingFrom, IterScan
<1>8. CASE NextNoStage
  <2>1. NoStage \in Error
    BY <1>1 DEF NoStage, Error, ErrorKind
  <2>. QED
    BY <1>8, <2>1, IterFailInv DEF NextNoStage
<1>9. CASE NextNone
  <2>1. IterTypeOK'
    BY <1>1, <1>9 DEF NextNone, None, IterInv, IterTypeOK
  <2>2. Sound'
    BY <1>1, <1>9 DEF NextNone, None, IterInv, Sound, ErrorKind, Faulty, FromBefore
  <2>. QED
    BY <2>1, <2>2 DEF IterInv
<1>10. CASE UNCHANGED iterVars
  BY <1>10 DEF iterVars, IterInv, IterTypeOK, Sound, Faulty, FromBefore
<1>. QED
  BY <1>3, <1>4, <1>5, <1>6, <1>7, <1>8, <1>9, <1>10 DEF IterNext

LEMMA IterInvariance == IterSpec => []IterInv
BY IterInitInv, IterNextInv, PTL DEF IterSpec

-----------------------------------------------------------------------------
(* Every variable of the iterator keeps its type, whatever the text and     *)
(* however often next() is called.                                          *)
THEOREM IterTypeCorrect == IterSpec => []IterTypeOK
<1>1. IterInv => IterTypeOK
  BY DEF IterInv
<1>. QED
  BY <1>1, IterInvariance, PTL

(* The calls of next() return exactly the instructions before the first     *)
(* fault, none skipped and none twice, in the order of the text.            *)
THEOREM OrderCorrect == IterSpec => []InOrder
<1>1. IterInv => InOrder
  BY DEF IterInv, IterTypeOK, Sound, InOrder
<1>. QED
  BY <1>1, IterInvariance, PTL

(* FusedIterator, and the "avoid error loop" of next(): a call after an     *)
(* error or after None returns None.                                        *)
THEOREM FuseCorrect == IterSpec => Fused
<1>1. IterInv /\ [IterNext]_iterVars => [last.kind \in ErrorKind \cup {"None"} => last' = None]_iterVars
  <2>. SUFFICES ASSUME IterInv, IterNext, last.kind \in ErrorKind \cup {"None"}
                PROVE  last' = None
    BY DEF iterVars
  <2>1. s = Len(text) /\ has_stage /\ Len(text) \in Nat
    BY TextsAreSequences, MaxLenAssumption DEF IterInv, IterTypeOK, Sound
  <2>2. ~(s < Len(text))
    BY <2>1
  <2>. QED
    BY <2>1, <2>2 DEF IterNext, NextError, NextFrom, NextArg, NextOther, NextMissingFrom,
                      NextNoStage, NextNone, IterScan
<1>. QED
  BY <1>1, IterInvariance, PTL DEF IterSpec, Fused

-----------------------------------------------------------------------------
(* What the calls so far returned tells where the next one stands.          *)
LEMMA Standing ==
  ASSUME IterInv
  PROVE  /\ Len(text) \in Nat /\ s \in 0..Len(text) /\ DOMAIN text = 1..Len(text)
         /\ last.kind \in {"NotCalled", "Some"} =>
              last.at = s /\ (has_stage <=> FromBefore(text, s + 1))
         /\ last.kind \notin {"NotCalled", "Some"} => s = Len(text) /\ has_stage
<1>1. last.kind \in ErrorKind \cup {"Some", "None", "NotCalled"}
  BY DEF IterInv, IterTypeOK
<1>2. Len(text) \in Nat /\ s \in 0..Len(text) /\ DOMAIN text = 1..Len(text)
  BY TextsAreSequences, MaxLenAssumption DEF IterInv, IterTypeOK
<1>. QED
  BY <1>1, <1>2 DEF IterInv, Sound

(* An instruction next() returns is one PullResult serves.                  *)
LEMMA YieldServes ==
  ASSUME IterInv, s < Len(text), Yield, ~Faulty(text, s + 1)
  PROVE  Pull!Serve /\ UNCHANGED text
<1>1. last.kind \in {"NotCalled", "Some"} /\ last.at = s
  BY Standing
<1>. QED
  BY <1>1 DEF Yield, Pull!Serve, Pull!Serving, Pull!Some, Some, Faulty, Pull!Faulty,
              FromBefore, Pull!FromBefore

(* An error at an instruction is the one PullResult reports.                *)
LEMMA FailReports ==
  ASSUME IterInv, s < Len(text), Faulty(text, s + 1), IterFail(FaultError(text, s + 1))
  PROVE  Pull!Report /\ UNCHANGED text
<1>1. last.kind \in {"NotCalled", "Some"} /\ last.at = s /\ Len(text) \in Nat
  BY Standing
<1>2. last' = Pull!FaultError(text, s + 1)
  BY DEF IterFail, FaultError, Pull!FaultError, InstructionError, Pull!InstructionError,
         ExpectedFrom, Pull!ExpectedFrom
<1>3. Pull!Faulty(text, s + 1)
  BY DEF Faulty, Pull!Faulty, FromBefore, Pull!FromBefore
<1>. QED
  BY <1>1, <1>2, <1>3 DEF IterFail, Pull!Report, Pull!Serving

LEMMA StepPulls == IterInv /\ [IterNext]_iterVars => [Pull!Next]_<<text, last>>
<1>. SUFFICES ASSUME IterInv, IterNext PROVE Pull!Next
  BY DEF iterVars
<1>1. /\ Len(text) \in Nat /\ s \in 0..Len(text) /\ DOMAIN text = 1..Len(text)
      /\ last.kind \in {"NotCalled", "Some"} =>
           last.at = s /\ (has_stage <=> FromBefore(text, s + 1))
      /\ last.kind \notin {"NotCalled", "Some"} => s = Len(text) /\ has_stage
  BY Standing
<1>2. s = Len(text) => (FromBefore(text, s + 1) <=> Pull!Froms(text) # {})
  BY <1>1 DEF FromBefore, Pull!Froms
<1>3. CASE NextError
  <2>1. Faulty(text, s + 1) /\ FaultError(text, s + 1) = InstructionError(s + 1)
    BY <1>3 DEF NextError, IterScan, Faulty, FaultError
  <2>. QED
    BY <1>3, <2>1, FailReports DEF NextError, IterScan, Pull!Next
<1>4. CASE NextFrom
  BY <1>4, YieldServes DEF NextFrom, IterScan, Faulty, Pull!Next
<1>5. CASE NextArg
  BY <1>5, YieldServes DEF NextArg, IterScan, Faulty, Pull!Next
<1>6. CASE NextOther
  <2>1. ~Faulty(text, s + 1)
    BY <1>6, NoErrorYet DEF NextOther, IterScan, Faulty
  <2>. QED
    BY <1>6, <2>1, YieldServes DEF NextOther, IterScan, Pull!Next
<1>7. CASE NextMissingFrom
  <2>1. Faulty(text, s + 1) /\ FaultError(text, s + 1) = ExpectedFrom(s + 1)
    BY <1>7, NoErrorYet DEF NextMissingFrom, IterScan, Faulty, FaultError
  <2>. QED
    BY <1>7, <2>1, FailReports DEF NextMissingFrom, IterScan, Pull!Next
<1>8. CASE NextNoStage
  <2>1. last.kind \in {"NotCalled", "Some"} /\ last.at = Len(text) /\ Pull!Froms(text) = {}
    BY <1>1, <1>2, <1>8 DEF NextNoStage
  <2>2. last' = Pull!NoStage /\ UNCHANGED text
    BY <1>8 DEF NextNoStage, IterFail, NoStage, Pull!NoStage
  <2>3. ~(last.at < Len(text))
    <3>1. \A n \in Nat : ~(n < n)
      OBVIOUS
    <3>. QED
      BY <1>1, <2>1, <3>1
  <2>4. Pull!Report
    BY <2>1, <2>2, <2>3 DEF Pull!Report, Pull!Serving
  <2>. QED
    BY <2>2, <2>4 DEF Pull!Next
<1>9. CASE NextNone
  <2>1. Pull!Serving => last.at = Len(text) /\ Pull!Froms(text) # {}
    BY <1>1, <1>2, <1>9 DEF NextNone, Pull!Serving
  <2>. QED
    BY <1>9, <2>1 DEF NextNone, None, Pull!None, Pull!Next, Pull!End
<1>. QED
  BY <1>3, <1>4, <1>5, <1>6, <1>7, <1>8, <1>9 DEF IterNext

(* ParseIter implements PullResult: seen from outside, next() returns the   *)
(* instructions before the first fault, then its error if there is one,     *)
(* then None for ever.                                                      *)
THEOREM PullCorrect == IterSpec => PullPromise
<1>1. IterInit => Pull!Init
  BY DEF IterInit, Pull!Init, Texts, Pull!Texts, Outcome, Pull!Outcome, NotCalled, Pull!NotCalled,
         SeqOf, Pull!SeqOf
<1>. QED
  BY <1>1, StepPulls, IterInvariance, PTL DEF IterSpec, PullPromise, Pull!Spec

-----------------------------------------------------------------------------
(* The one error of the iterator is that of the first fault, or, where      *)
(* there is none, that of a missing stage.                                  *)
IterBlamed ==
  reported # <<>> =>
    \/ \E i \in DOMAIN text : FirstFault(text, i) /\ reported = <<FaultError(text, i)>>
    \/ /\ \A i \in DOMAIN text : ~Faulty(text, i)
       /\ Froms(text) = {} /\ reported = <<NoStage>>

LEMMA IterNextBlamed == IterInv /\ IterBlamed /\ [IterNext]_iterVars => IterBlamed'
<1>. SUFFICES ASSUME IterInv, IterBlamed, [IterNext]_iterVars PROVE IterBlamed'
  OBVIOUS
<1>1. /\ DOMAIN text = 1..Len(text) /\ Len(text) \in Nat /\ s \in 0..Len(text)
      /\ \A k \in 1..Len(yielded) : ~Faulty(text, k)
      /\ reported = <<>> => s = Len(yielded) /\ (has_stage <=> FromBefore(text, s + 1))
      /\ reported # <<>> => s = Len(text) /\ has_stage
  BY Standing DEF IterInv, Sound
<1>2. ASSUME s < Len(text), Faulty(text, s + 1), IterFail(FaultError(text, s + 1))
      PROVE  IterBlamed'
  <2>1. reported = <<>>
    BY <1>2, NoErrorYet
  <2>2. FirstFault(text, s + 1)
    BY <1>1, <1>2, <2>1 DEF FirstFault
  <2>3. reported' = <<FaultError(text, s + 1)>> /\ text' = text
    BY <1>2, <2>1 DEF IterFail
  <2>. QED
    BY <2>2, <2>3 DEF IterBlamed, FirstFault
<1>3. CASE NextError
  <2>1. Faulty(text, s + 1) /\ FaultError(text, s + 1) = InstructionError(s + 1)
    BY <1>3 DEF NextError, IterScan, Faulty, FaultError
  <2>. QED
    BY <1>2, <1>3, <2>1 DEF NextError, IterScan
<1>4. CASE NextMissingFrom
  <2>1. Faulty(text, s + 1) /\ FaultError(text, s + 1) = ExpectedFrom(s + 1)
    BY <1>4, NoErrorYet DEF NextMissingFrom, IterScan, Faulty, FaultError
  <2>. QED
    BY <1>2, <1>4, <2>1 DEF NextMissingFrom, IterScan
<1>5. CASE NextNoStage
  <2>1. reported = <<>> /\ s = Len(text) /\ ~has_stage
    BY <1>1, <1>5 DEF NextNoStage
  <2>2. Froms(text) = {} /\ \A i \in DOMAIN text : ~Faulty(text, i)
    BY <1>1, <2>1 DEF Froms, FromBefore
  <2>3. reported' = <<NoStage>> /\ text' = text
    BY <1>5, <2>1 DEF NextNoStage, IterFail
  <2>. QED
    BY <2>2, <2>3 DEF IterBlamed
<1>6. CASE NextFrom \/ NextArg \/ NextOther \/ NextNone \/ UNCHANGED iterVars
  BY <1>6 DEF NextFrom, NextArg, NextOther, NextNone, Yield, iterVars, IterBlamed
<1>. QED
  BY <1>3, <1>4, <1>5, <1>6 DEF IterNext

(* An iterator that ended without an error has returned every instruction.  *)
LEMMA IterReturnsAll ==
  ASSUME IterInv, last = None, reported = <<>>
  PROVE  /\ Len(yielded) = Len(text)
         /\ \A i \in DOMAIN text : ~Faulty(text, i)
         /\ Froms(text) # {}
<1>1. last.kind = "None"
  BY DEF None
<1>2. /\ DOMAIN text = 1..Len(text) /\ Len(text) \in Nat
      /\ s = Len(text) /\ has_stage
  BY <1>1, Standing
<1>3. /\ s = Len(yielded) /\ FromBefore(text, s + 1)
      /\ \A k \in 1..Len(yielded) : ~Faulty(text, k)
  BY <1>2 DEF IterInv, Sound
<1>. QED
  BY <1>2, <1>3 DEF FromBefore, Froms

-----------------------------------------------------------------------------
(* Both parsers on one text: each keeps its own invariant, for what the     *)
(* other changes is none of its variables.                                  *)
BothInv ==
  /\ IterInv /\ IterBlamed
  /\ Inv /\ Blamed

LEMMA BothInitInv == BothInit => BothInv
<1>. SUFFICES ASSUME IterInit, Init PROVE BothInv
  BY DEF BothInit
<1>1. IterInv /\ IterBlamed
  BY IterInitInv DEF IterInit, IterBlamed
<1>2. Inv /\ Blamed
  BY InitInv, InitBlamed
<1>. QED
  BY <1>1, <1>2 DEF BothInv

LEMMA BothNextInv == BothInv /\ [BothNext]_<<vars, iterVars>> => BothInv'
<1>. SUFFICES ASSUME BothInv, [BothNext]_<<vars, iterVars>> PROVE BothInv'
  OBVIOUS
<1>1. [IterNext]_iterVars /\ [Next]_vars
  BY DEF BothNext
<1>2. IterInv' /\ IterBlamed'
  BY <1>1, IterNextInv, IterNextBlamed DEF BothInv
<1>3. Inv' /\ Blamed'
  BY <1>1, NextInv, NextBlamed DEF BothInv
<1>. QED
  BY <1>2, <1>3 DEF BothInv

LEMMA BothInvariance == BothSpec => []BothInv
BY BothInitInv, BothNextInv, PTL DEF BothSpec

(* However the calls of next() interleave with parse(): while parse()       *)
(* succeeds, the iterator never reports an error or returns an instruction  *)
(* that is not the Dockerfile's, and has returned all of them when it ends. *)
THEOREM InstructionsAgree == BothSpec => []SameInstructions
<1>1. ASSUME BothInv, pc = "ok"
      PROVE  /\ reported = <<>>
             /\ IsPrefix(yielded, instructions)
             /\ last = None => yielded = instructions
  <2>1. /\ instructions \in Seq(1..MaxLen) /\ Len(instructions) = Len(text)
        /\ \A k \in 1..Len(text) : instructions[k] = k /\ ~Faulty(text, k)
        /\ Froms(text) # {}
    BY <1>1, ReturnsAll DEF BothInv
  <2>2. /\ yielded \in Seq(1..MaxLen) /\ Len(yielded) \in Nat /\ Len(yielded) <= Len(text)
        /\ \A k \in 1..Len(yielded) : yielded[k] = k
        /\ Len(text) \in Nat /\ DOMAIN text = 1..Len(text)
    BY <1>1, Standing DEF BothInv, IterInv, IterTypeOK, Sound
  <2>3. reported = <<>>
    BY <1>1, <2>1, <2>2 DEF BothInv, IterBlamed, FirstFault
  <2>4. IsPrefix(yielded, instructions)
    BY <2>1, <2>2 DEF IsPrefix
  <2>5. ASSUME last = None
        PROVE  yielded = instructions
    <3>1. Len(yielded) = Len(text)
      BY <1>1, <2>3, <2>5, IterReturnsAll DEF BothInv
    <3>. QED
      BY <2>1, <2>2, <3>1
  <2>. QED
    BY <2>3, <2>4, <2>5
<1>2. BothInv => SameInstructions
  BY <1>1 DEF SameInstructions
<1>. QED
  BY <1>2, BothInvariance, PTL

(* "Unlike parse function, the returned iterator doesn't error on duplicate *)
(* stage names" (doc of parse_iter), and they differ in nothing else: once  *)
(* both have finished, the iterator has reported the error parse() returns, *)
(* and none if parse() returned none or one about a name.                   *)
THEOREM ErrorsAgree == BothSpec => []SameErrors
<1>1. ASSUME BothInv, pc \in {"ok", "err"}, Finished
      PROVE  reported = IF error = NotCalled \/ error.kind = "DuplicateName"
                        THEN <<>> ELSE <<error>>
  <2>1. \A i, j : FirstFault(text, i) /\ FirstFault(text, j) => i = j
    <3>1. Len(text) \in Nat /\ DOMAIN text = 1..Len(text)
      BY <1>1, Standing DEF BothInv
    <3>2. ASSUME NEW i, NEW j, FirstFault(text, i), FirstFault(text, j), i < j
          PROVE  FALSE
      BY <3>1, <3>2 DEF FirstFault
    <3>. QED
      BY <3>1, <3>2 DEF FirstFault
  <2>2. /\ \A i : FaultError(text, i) # NotCalled /\ FaultError(text, i).kind # "DuplicateName"
        /\ NoStage # NotCalled /\ NoStage.kind # "DuplicateName"
    BY DEF FaultError, InstructionError, ExpectedFrom, NoStage, NotCalled
  <2>3. /\ reported # <<>> =>
             \/ \E i \in DOMAIN text : FirstFault(text, i) /\ reported = <<FaultError(text, i)>>
             \/ /\ \A i \in DOMAIN text : ~Faulty(text, i)
                /\ Froms(text) = {} /\ reported = <<NoStage>>
        /\ reported = <<>> => /\ \A i \in DOMAIN text : ~Faulty(text, i)
                              /\ Froms(text) # {}
    BY <1>1, IterReturnsAll DEF BothInv, IterBlamed, Finished
  <2>4. CASE pc = "ok"
    <3>1. error = NotCalled
      BY <1>1, <2>4 DEF BothInv, Blamed, NotCalled
    <3>2. /\ \A k \in 1..Len(text) : ~Faulty(text, k)
          /\ Froms(text) # {}
      BY <1>1, <2>4, ReturnsAll DEF BothInv
    <3>3. DOMAIN text = 1..Len(text)
      BY <1>1, Standing DEF BothInv
    <3>. QED
      BY <2>3, <3>1, <3>2, <3>3 DEF FirstFault
  <2>5. CASE pc = "err"
    <3>1. \/ \E i \in DOMAIN text : FirstFault(text, i) /\ error = FaultError(text, i)
          \/ /\ \A i \in DOMAIN text : ~Faulty(text, i)
             /\ \/ Froms(text) = {} /\ error = NoStage
                \/ Froms(text) # {} /\ error.kind = "DuplicateName"
      BY <1>1, <2>5 DEF BothInv, Blamed
    <3>2. CASE \E i \in DOMAIN text : FirstFault(text, i) /\ error = FaultError(text, i)
      BY <2>1, <2>2, <2>3, <3>2 DEF FirstFault
    <3>3. CASE /\ \A i \in DOMAIN text : ~Faulty(text, i)
               /\ Froms(text) = {} /\ error = NoStage
      BY <2>2, <2>3, <3>3 DEF FirstFault
    <3>4. CASE /\ \A i \in DOMAIN text : ~Faulty(text, i)
               /\ Froms(text) # {} /\ error.kind = "DuplicateName"
      BY <2>3, <3>4 DEF FirstFault
    <3>. QED
      BY <3>1, <3>2, <3>3, <3>4
  <2>. QED
    BY <1>1, <2>4, <2>5
<1>2. BothInv => SameErrors
  BY <1>1 DEF SameErrors
<1>. QED
  BY <1>2, BothInvariance, PTL
=============================================================================
