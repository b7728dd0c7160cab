--------------------------- MODULE Directives_proofs ---------------------------
(***************************************************************************)
(* Proofs about Directives, for texts of any number of lines: types, the    *)
(* escape character in effect, what the directives of a text mean, what is  *)
(* skipped before the first instruction, and that no directive is revised.  *)
(***************************************************************************)
EXTENDS Directives, TLAPS

(* A text is a sequence of at most MaxLines lines.                          *)
LEMMA TextsAreSequences ==
  ASSUME NEW t \in Texts
  PROVE  /\ Len(t) \in 0..MaxLines
         /\ DOMAIN t = 1..Len(t)
         /\ \A i \in 1..Len(t) : t[i] \in Line
<1>1. PICK m \in 0..MaxLines : t \in [1..m -> Line]
  BY DEF Texts, SeqOf
<1>2. m \in Nat
  BY <1>1, MaxLinesAssumption
<1>. QED
  BY <1>1, <1>2

(* What a line can be: only the value of an escape directive varies.        *)
LEMMA LineFields ==
  ASSUME NEW l \in Line
  PROVE  /\ l.name \in Directive \cup {"comment", "blank", "instruction"} \cup EscapeChar
         /\ l.value \in EscapeChar \cup {"other"}
         /\ l.name # "escape" => l.value = "other"
BY DEF Line, Directive, EscapeChar

-----------------------------------------------------------------------------
(* While directives are read, the lines consumed are directives of distinct *)
(* names, each recorded as its line says, and nothing else is recorded.     *)
Reading ==
  pc = "directives" =>
    /\ \A i \in 1..pos : /\ text[i].name \in Directive
                         /\ parser_directives[text[i].name] = [line |-> i, value |-> text[i].value]
                         /\ text[i].name = "escape" => text[i].value # "other"
    /\ \A i, j \in 1..pos : text[i].name = text[j].name => i = j
    /\ \A d \in Directive : parser_directives[d] # NoDirective =>
         \E i \in 1..pos : text[i].name = d

(* From then on everything consumed is a line that is skipped.              *)
Skipped ==
  pc \in {"leading", "ready"} => \A i \in 1..pos : Skippable(text[i])

Inv == TypeOK /\ EscapeConsistent /\ Reading /\ SectionMeaning /\ Skipped /\ LeadingSkipped

LEMMA InitInv == Init => Inv
<1>. SUFFICES ASSUME Init PROVE Inv
  OBVIOUS
<1>1. Len(text) \in 0..MaxLines /\ MaxLines \in Nat
  BY TextsAreSequences, MaxLinesAssumption DEF Init
<1>2. TypeOK
  BY <1>1 DEF Init, TypeOK, NoDirectives, Default, EscapeChar
<1>3. EscapeConsistent
  BY DEF Init, EscapeConsistent, NoDirectives, Directive
<1>4. Reading
  BY DEF Init, Reading, NoDirectives
<1>5. SectionMeaning /\ Skipped /\ LeadingSkipped
  BY DEF Init, SectionMeaning, Skipped, LeadingSkipped
<1>. QED
  BY <1>2, <1>3, <1>4, <1>5 DEF Inv

-----------------------------------------------------------------------------
(* What every step below starts from.                                       *)
LEMMA Bounds ==
  ASSUME TypeOK
  PROVE  /\ MaxLines \in Nat
         /\ Len(text) \in 0..MaxLines
         /\ pos \in 0..Len(text)
         /\ DOMAIN text = 1..Len(text)
         /\ \A i \in 1..Len(text) : text[i] \in Line
BY TextsAreSequences, MaxLinesAssumption DEF TypeOK

(* What is recorded for a line of the text is not Option::None.             *)
LEMMA RecordedIsSomething ==
  ASSUME TypeOK, NEW i \in 1..Len(text)
  PROVE  /\ [line |-> i, value |-> text[i].value] \in Recorded
         /\ [line |-> i, value |-> text[i].value] # NoDirective
BY Bounds, LineFields, NoDirectiveAssumption DEF Recorded

(* What the text means does not change.                                     *)
LEMMA MeaningIsFixed ==
  ASSUME text' = text
  PROVE  \A i : /\ Again(i)' <=> Again(i)
                /\ BadEscape(i)' <=> BadEscape(i)
                /\ Before(i)' <=> Before(i)
                /\ InSection(i)' <=> InSection(i)
<1>1. \A i : InSection(i)' <=> InSection(i)
  BY DEF InSection
<1>2. \A i : Again(i)' <=> Again(i)
  BY <1>1 DEF Again
<1>3. \A i : BadEscape(i)' <=> BadEscape(i)
  BY <1>1, <1>2 DEF BadEscape
<1>4. \A i : Before(i)' <=> Before(i)
  BY <1>2, <1>3 DEF Before
<1>. QED
  BY <1>1, <1>2, <1>3, <1>4

(* Nothing read so far is a repetition or a bad escape.                     *)
LEMMA CleanSoFar ==
  ASSUME Inv, pc = "directives", NEW i \in 1..pos
  PROVE  ~Again(i) /\ ~BadEscape(i)
<1>1. pos \in Nat /\ \A j \in 1..i-1 : j \in 1..pos /\ j # i
  BY Bounds DEF Inv
<1>2. ~Again(i)
  BY <1>1 DEF Inv, Reading, Again
<1>3. ~BadEscape(i)
  BY DEF Inv, Reading, BadEscape
<1>. QED
  BY <1>2, <1>3

(* Recording an unset directive keeps the invariant, if a value of escape   *)
(* is an escape character and comes into effect.                            *)
LEMMA SetInv ==
  ASSUME Inv, NEW d \in Directive, AtDirective(d), Unset(d), Set(d, text[pos + 1].value),
         d # "escape" => escape_byte' = escape_byte,
         d = "escape" => text[pos + 1].value \in EscapeChar /\ escape_byte' = text[pos + 1].value
  PROVE  Inv'
<1>. DEFINE new == [line |-> pos + 1, value |-> text[pos + 1].value]
<1>1. /\ MaxLines \in Nat /\ Len(text) \in 0..MaxLines /\ pos \in 0..Len(text)
      /\ pos < Len(text) /\ pos + 1 \in 1..Len(text) /\ pos + 1 \in 1..MaxLines
      /\ text[pos + 1] \in Line
  BY Bounds DEF Inv, AtDirective
<1>2. new \in Recorded /\ new # NoDirective
  BY <1>1, RecordedIsSomething DEF Inv
<1>3. /\ parser_directives' = [parser_directives EXCEPT ![d] = new]
      /\ parser_directives'[d] = new
      /\ \A e \in Directive \ {d} : parser_directives'[e] = parser_directives[e]
      /\ parser_directives' \in [Directive -> {NoDirective} \cup Recorded]
  BY <1>2 DEF Inv, TypeOK, Set
<1>4. text' = text /\ pc' = pc /\ pc = "directives" /\ pos' = pos + 1 /\ invalid' = invalid
  BY DEF Set, AtDirective
<1>5. TypeOK'
  BY <1>1, <1>3, <1>4 DEF Inv, TypeOK
<1>6. EscapeConsistent'
  BY <1>2, <1>3 DEF Inv, EscapeConsistent, Directive
<1>7. Reading'
  <2>1. ASSUME NEW i \in 1..pos
        PROVE  text[i].name \in Directive \ {d}
    <3>1. [line |-> i, value |-> text[i].value] # NoDirective
      BY <1>1, Bounds, RecordedIsSomething DEF Inv
    <3>. QED
      BY <1>4, <3>1 DEF Inv, Reading, Unset
  <2>2. \A i \in 1..pos' : i \in 1..pos \/ i = pos + 1
    BY <1>1, <1>4
  <2>3. text[pos + 1].name = d
    BY DEF AtDirective
  <2>4. ASSUME NEW i \in 1..pos'
        PROVE  /\ text[i].name \in Directive
               /\ parser_directives'[text[i].name] = [line |-> i, value |-> text[i].value]
               /\ text[i].name = "escape" => text[i].value # "other"
    BY <1>3, <1>4, <2>1, <2>2, <2>3 DEF Inv, Reading, EscapeChar
  <2>5. \A i, j \in 1..pos' : text[i].name = text[j].name => i = j
    BY <1>4, <2>1, <2>2, <2>3 DEF Inv, Reading
  <2>6. ASSUME NEW e \in Directive, parser_directives'[e] # NoDirective
        PROVE  \E i \in 1..pos' : text[i].name = e
    <3>1. CASE e = d
      BY <1>1, <1>4, <2>3, <3>1
    <3>2. CASE e # d
      BY <1>1, <1>3, <1>4, <2>6, <3>2 DEF Inv, Reading
    <3>. QED
      BY <3>1, <3>2
  <2>. QED
    BY <1>4, <2>4, <2>5, <2>6 DEF Reading
<1>8. SectionMeaning' /\ Skipped' /\ LeadingSkipped'
  BY <1>4 DEF SectionMeaning, Skipped, LeadingSkipped
<1>. QED
  BY <1>5, <1>6, <1>7, <1>8 DEF Inv

LEMMA SetPlainInv == ASSUME Inv, NEW d \in {"syntax", "check"}, SetPlain(d) PROVE Inv'
BY SetInv DEF SetPlain, Directive

(* Whatever the text says, the escape byte recorded is the value it says.   *)
LEMMA SetEscapeInv == ASSUME Inv, SetEscape PROVE Inv'
<1>1. escape_byte = Default
  BY DEF Inv, EscapeConsistent, SetEscape, Unset
<1>2. text[pos + 1].value \in EscapeChar /\ escape_byte' = text[pos + 1].value
  BY <1>1 DEF SetEscape, EscapeChar, Default
<1>. QED
  BY <1>2, SetInv DEF SetEscape, Directive

(* A bad escape is an error, and nothing before it was void or bad.         *)
LEMMA InvalidEscapeInv == ASSUME Inv, InvalidEscape PROVE Inv'
<1>1. /\ MaxLines \in Nat /\ Len(text) \in 0..MaxLines /\ pos \in 0..Len(text)
      /\ pos < Len(text) /\ pos + 1 \in 1..Len(text) /\ text[pos + 1] \in Line
      /\ pc = "directives" /\ text[pos + 1].name = "escape"
  BY Bounds DEF Inv, InvalidEscape, AtDirective
<1>2. TypeOK' /\ EscapeConsistent'
  BY <1>1 DEF Inv, TypeOK, EscapeConsistent, InvalidEscape
<1>3. text[pos + 1].value = "other"
  BY <1>1, LineFields DEF InvalidEscape
<1>4. \A i \in 1..pos : text[i].name \in Directive \ {"escape"}
  <2>. SUFFICES ASSUME NEW i \in 1..pos PROVE text[i].name \in Directive \ {"escape"}
    OBVIOUS
  <2>1. [line |-> i, value |-> text[i].value] # NoDirective
    BY <1>1, RecordedIsSomething DEF Inv
  <2>. QED
    BY <1>1, <2>1 DEF Inv, Reading, InvalidEscape, Unset
<1>5. \A i \in 1..pos+1 : i \in 1..pos \/ i = pos + 1
  BY <1>1
<1>6. InSection(pos + 1)
  BY <1>1, <1>4, <1>5 DEF InSection, Directive
<1>7. ~Again(pos + 1)
  BY <1>1, <1>4 DEF Again
<1>8. BadEscape(pos + 1)
  BY <1>1, <1>3, <1>6, <1>7 DEF BadEscape
<1>9. Before(pos + 1)
  BY <1>1, CleanSoFar DEF Before
<1>10. SectionMeaning'
  BY <1>8, <1>9, MeaningIsFixed DEF InvalidEscape, SectionMeaning
<1>. QED
  BY <1>2, <1>10 DEF Inv, InvalidEscape, Reading, Skipped, LeadingSkipped

(* A directive that appears again makes all of them void.                   *)
LEMMA RepeatedInv == ASSUME Inv, NEW d \in Directive, Repeated(d) PROVE Inv'
<1>1. /\ MaxLines \in Nat /\ Len(text) \in 0..MaxLines /\ pos \in 0..Len(text)
      /\ pos < Len(text) /\ pos + 1 \in 1..Len(text) /\ DOMAIN text = 1..Len(text)
      /\ pc = "directives" /\ text[pos + 1].name = d /\ pos' = pos + 1 /\ pc' = "leading"
      /\ text' = text /\ invalid' = invalid
  BY Bounds DEF Inv, Repeated, AtDirective
<1>2. TypeOK'
  BY <1>1 DEF Inv, TypeOK, Repeated, NoDirectives, Default, EscapeChar
<1>3. EscapeConsistent'
  BY DEF Repeated, EscapeConsistent, NoDirectives, Directive
<1>4. \A i \in 1..pos+1 : i \in 1..pos \/ i = pos + 1
  BY <1>1
<1>5. \A i \in 1..pos+1 : text[i].name \in Directive
  BY <1>1, <1>4 DEF Inv, Reading
<1>6. Again(pos + 1)
  <2>1. PICK i \in 1..pos : text[i].name = d
    BY <1>1 DEF Inv, Reading, Repeated, Unset
  <2>. QED
    BY <1>1, <1>5, <2>1 DEF Again, InSection
<1>7. ASSUME NEW i \in DOMAIN text, BadEscape(i)
      PROVE  \E j \in 1..i-1 : Again(j)
  <2>1. i \notin 1..pos
    BY <1>1, <1>7 DEF Inv, Reading, BadEscape
  <2>2. i # pos + 1
    BY <1>6, <1>7 DEF BadEscape
  <2>. QED
    BY <1>1, <1>6, <2>1, <2>2
<1>8. SectionMeaning'
  BY <1>1, <1>6, <1>7, MeaningIsFixed DEF Repeated, SectionMeaning
<1>9. Skipped'
  BY <1>1, <1>5 DEF Skipped, Skippable
<1>. QED
  BY <1>1, <1>2, <1>3, <1>8, <1>9 DEF Inv, Reading, LeadingSkipped

(* If the directives end before the end of the text and without a fault,    *)
(* they are the lines consumed, none of them twice.                         *)
LEMMA EndMeaning ==
  ASSUME Inv, pc = "directives", pos < Len(text) => text[pos + 1].name \notin Directive
  PROVE  /\ \A i \in DOMAIN text : ~Again(i) /\ ~BadEscape(i)
         /\ \A i \in DOMAIN text : InSection(i) =>
               parser_directives[text[i].name] = [line |-> i, value |-> text[i].value]
<1>1. /\ MaxLines \in Nat /\ Len(text) \in 0..MaxLines /\ pos \in 0..Len(text)
      /\ DOMAIN text = 1..Len(text)
  BY Bounds DEF Inv
<1>2. ASSUME NEW i \in DOMAIN text, InSection(i)
      PROVE  i \in 1..pos
  <2>1. SUFFICES ASSUME i > pos PROVE FALSE
    BY <1>1
  <2>2. pos + 1 \in 1..i /\ pos < Len(text)
    BY <1>1, <2>1
  <2>. QED
    BY <1>2, <2>2 DEF InSection
<1>3. \A i \in 1..pos : ~Again(i) /\ ~BadEscape(i)
  BY CleanSoFar
<1>4. \A i \in DOMAIN text : Again(i) \/ BadEscape(i) => InSection(i)
  BY DEF Again, BadEscape
<1>. QED
  BY <1>2, <1>3, <1>4 DEF Inv, Reading

LEMMA CommentEndsInv == ASSUME Inv, CommentEnds PROVE Inv'
<1>1. /\ MaxLines \in Nat /\ Len(text) \in 0..MaxLines /\ pos \in 0..Len(text)
      /\ pos < Len(text) /\ pc = "directives" /\ text[pos + 1].name = "comment"
      /\ pos' = pos + 1 /\ pc' = "leading" /\ text' = text
      /\ parser_directives' = parser_directives /\ escape_byte' = escape_byte
  BY Bounds DEF Inv, CommentEnds, AtDirective
<1>2. TypeOK' /\ EscapeConsistent'
  BY <1>1 DEF Inv, TypeOK, EscapeConsistent, CommentEnds
<1>3. /\ \A i \in DOMAIN text : ~Again(i) /\ ~BadEscape(i)
      /\ \A i \in DOMAIN text : InSection(i) =>
            parser_directives[text[i].name] = [line |-> i, value |-> text[i].value]
  BY <1>1, EndMeaning DEF Directive
<1>4. SectionMeaning'
  BY <1>1, <1>3, MeaningIsFixed DEF SectionMeaning
<1>5. \A i \in 1..pos+1 : i \in 1..pos \/ i = pos + 1
  BY <1>1
<1>6. Skipped'
  BY <1>1, <1>5 DEF Inv, Reading, Skipped, Skippable
<1>. QED
  BY <1>1, <1>2, <1>4, <1>6 DEF Inv, Reading, LeadingSkipped

LEMMA OtherEndsInv == ASSUME Inv, OtherEnds PROVE Inv'
<1>1. pc = "directives" /\ pc' = "leading" /\ UNCHANGED <<text, pos, parser_directives, escape_byte>>
  BY DEF OtherEnds
<1>2. TypeOK' /\ EscapeConsistent'
  BY <1>1 DEF Inv, TypeOK, EscapeConsistent, OtherEnds
<1>3. /\ \A i \in DOMAIN text : ~Again(i) /\ ~BadEscape(i)
      /\ \A i \in DOMAIN text : InSection(i) =>
            parser_directives[text[i].name] = [line |-> i, value |-> text[i].value]
  BY <1>1, EndMeaning DEF OtherEnds
<1>4. SectionMeaning'
  BY <1>1, <1>3, MeaningIsFixed DEF SectionMeaning
<1>5. Skipped'
  BY <1>1 DEF Inv, Reading, Skipped, Skippable
<1>. QED
  BY <1>1, <1>2, <1>4, <1>5 DEF Inv, Reading, LeadingSkipped

LEMMA SkipLeadingInv == ASSUME Inv, SkipLeading PROVE Inv'
<1>1. /\ MaxLines \in Nat /\ Len(text) \in 0..MaxLines /\ pos \in 0..Len(text)
      /\ pos < Len(text) /\ pc = "leading" /\ pos' = pos + 1 /\ Skippable(text[pos + 1])
      /\ UNCHANGED <<text, parser_directives, escape_byte, pc, invalid>>
  BY Bounds DEF Inv, SkipLeading
<1>2. TypeOK' /\ EscapeConsistent'
  BY <1>1 DEF Inv, TypeOK, EscapeConsistent
<1>3. SectionMeaning'
  BY <1>1, MeaningIsFixed DEF Inv, SectionMeaning
<1>4. \A i \in 1..pos+1 : i \in 1..pos \/ i = pos + 1
  BY <1>1
<1>5. Skipped'
  BY <1>1, <1>4 DEF Inv, Skipped, Skippable
<1>. QED
  BY <1>1, <1>2, <1>3, <1>5 DEF Inv, Reading, LeadingSkipped

LEMMA ReadyInv == ASSUME Inv, Ready PROVE Inv'
<1>1. pc = "leading" /\ pc' = "ready"
      /\ UNCHANGED <<text, pos, parser_directives, escape_byte, invalid>>
  BY DEF Ready
<1>2. TypeOK' /\ EscapeConsistent'
  BY <1>1 DEF Inv, TypeOK, EscapeConsistent
<1>3. SectionMeaning' /\ Skipped'
  BY <1>1, MeaningIsFixed DEF Inv, SectionMeaning, Skipped, Skippable
<1>4. LeadingSkipped'
  <2>1. \A i \in 1..pos : text[i].name \in Directive \cup {"comment", "blank", escape_byte}
    BY <1>1 DEF Inv, Skipped, Skippable
  <2>2. ASSUME pos < Len(text)
        PROVE  text[pos + 1].name \in {"instruction"} \cup (EscapeChar \ {escape_byte})
    <3>1. text[pos + 1] \in Line
      BY <2>2, Bounds DEF Inv
    <3>. QED
      BY <2>2, <3>1, LineFields DEF Ready, Skippable
  <2>. QED
    BY <1>1, <2>1, <2>2 DEF LeadingSkipped
<1>. QED
  BY <1>1, <1>2, <1>3, <1>4 DEF Inv, Reading

LEMMA NextInv == Inv /\ [Next]_vars => Inv'
<1>. SUFFICES ASSUME Inv, [Next]_vars PROVE Inv'
  OBVIOUS
<1>1. CASE UNCHANGED vars
  <2>1. TypeOK' /\ EscapeConsistent' /\ Reading'
    BY <1>1 DEF Inv, vars, TypeOK, EscapeConsistent, Reading
  <2>2. SectionMeaning'
    BY <1>1, MeaningIsFixed DEF Inv, vars, SectionMeaning
  <2>3. Skipped' /\ LeadingSkipped'
    BY <1>1 DEF Inv, vars, Skipped, Skippable, LeadingSkipped
  <2>. QED
    BY <2>1, <2>2, <2>3 DEF Inv
<1>. QED
  BY <1>1, SetPlainInv, SetEscapeInv, InvalidEscapeInv, RepeatedInv, CommentEndsInv,
     OtherEndsInv, SkipLeadingInv, ReadyInv DEF Next

LEMMA Invariance == Spec => []Inv
BY InitInv, NextInv, PTL DEF Spec

-----------------------------------------------------------------------------
(* ParseIter::new keeps the types of its variables.                         *)
THEOREM TypeCorrect == Spec => []TypeOK
BY Invariance, PTL DEF Inv

(* parse_parser_directives: escape_byte is always the one recorded, or the  *)
(* default one, also when repeated directives were made void.               *)
THEOREM EscapeCorrect == Spec => []EscapeConsistent
BY Invariance, PTL DEF Inv

(* parse_parser_directives records exactly the leading directives, or none  *)
(* if one is repeated, and refuses an escape only if none was repeated yet. *)
THEOREM SectionCorrect == Spec => []SectionMeaning
BY Invariance, PTL DEF Inv

(* ParseIter::new leaves the text at its first instruction, looked for with *)
(* the escape character in effect.                                          *)
THEOREM LeadingCorrect == Spec => []LeadingSkipped
BY Invariance, PTL DEF Inv

(* No step of ParseIter::new changes a directive already recorded, short of *)
(* making all of them void.                                                 *)
THEOREM NeverRevisedCorrect == Spec => NeverRevised
<1>. DEFINE Kept == \A d \in Directive : parser_directives[d] # NoDirective =>
                      \/ parser_directives'[d] = parser_directives[d]
                      \/ parser_directives' = NoDirectives
<1>1. Inv /\ [Next]_vars => [Kept]_vars
  <2>. SUFFICES ASSUME Inv, Next PROVE Kept
    OBVIOUS
  <2>1. ASSUME NEW d \in Directive, NEW v, Unset(d), Set(d, v)
        PROVE  Kept
    BY <2>1 DEF Unset, Set, Inv, TypeOK
  <2>2. ASSUME NEW d \in {"syntax", "check"}, SetPlain(d) PROVE Kept
    BY <2>1, <2>2 DEF SetPlain, Directive
  <2>3. CASE SetEscape
    BY <2>1, <2>3 DEF SetEscape, Directive
  <2>4. ASSUME NEW d \in Directive, Repeated(d) PROVE Kept
    BY <2>4 DEF Repeated
  <2>5. CASE InvalidEscape \/ CommentEnds \/ OtherEnds \/ SkipLeading \/ Ready
    BY <2>5 DEF InvalidEscape, CommentEnds, OtherEnds, SkipLeading, Ready
  <2>. QED
    BY <2>2, <2>3, <2>4, <2>5 DEF Next
<1>. QED
  BY <1>1, Invariance, PTL DEF Spec, NeverRevised
=============================================================================
