------------------------------ MODULE Directives ------------------------------
(***************************************************************************)
(* ParseIter::new: the parser directives at the head of a text, then the    *)
(* comments, blank lines and continuations before the first instruction.    *)
(* Both parse() and parse_iter() start here.                                *)
(*                                                                          *)
(* The head of a text is a sequence of lines.  A directive line is one      *)
(* whose first byte is # and which reads <name>=<value>; a "comment" is any *)
(* other line whose first byte is #; "blank" is a line of whitespace, or a  *)
(* comment behind some; "backslash" and "backtick" are lines of that one    *)
(* character; an "instruction" is anything else.                            *)
(***************************************************************************)
EXTENDS Naturals, Sequences, SequencesExt

CONSTANTS MaxLines,     \* bound on the lines of a text
          NoDirective   \* Option::None

ASSUME MaxLinesAssumption == MaxLines \in Nat

Directive == {"syntax", "escape", "check"}
EscapeChar == {"backslash", "backtick"}

(* "other" is every value an escape directive may not have.  Only the value *)
(* of escape is ever looked at.                                             *)
Line == [name : {"escape"}, value : EscapeChar \cup {"other"}]
          \cup [name : {"syntax", "check"}, value : {"other"}]
          \cup [name : {"comment", "blank", "instruction"} \cup EscapeChar, value : {"other"}]

Texts == SeqOf(Line, MaxLines)

(* What is recorded of a directive.                                         *)
Recorded == [line : 1..MaxLines, value : EscapeChar \cup {"other"}]

ASSUME NoDirectiveAssumption == NoDirective \notin Recorded

VARIABLES
  text,               \* the input; never changes
  pos,                \* lines consumed: p.s is what follows
  parser_directives,  \* what each directive was set to, and by which line
  escape_byte,        \* the escape character in effect
  pc,                 \* "directives", "leading", then "ready" or "err"
  invalid             \* the line of the escape directive that was refused

vars == <<text, pos, parser_directives, escape_byte, pc, invalid>>

Default == "backslash"
NoDirectives == [d \in Directive |-> NoDirective]

-----------------------------------------------------------------------------
Init ==
  /\ text \in Texts
  /\ pos = 0
  /\ parser_directives = NoDirectives
  /\ escape_byte = Default
  /\ pc = "directives"
  /\ invalid = 0

(* The next line is a directive of the name d.                              *)
AtDirective(d) ==
  /\ pc = "directives"
  /\ pos < Len(text)
  /\ text[pos + 1].name = d

Unset(d) == parser_directives[d] = NoDirective

Set(d, value) ==
  /\ parser_directives' = [parser_directives EXCEPT ![d] = [line |-> pos + 1, value |-> value]]
  /\ pos' = pos + 1
  /\ UNCHANGED <<text, pc, invalid>>

(* Faulty variant of SetPlain: a directive that appears again is replaced.  *)
SetPlainAgain(d) ==
  /\ AtDirective(d)
  /\ Set(d, text[pos + 1].value)
  /\ UNCHANGED escape_byte

SetPlain(d) ==
  /\ AtDirective(d)
  /\ Unset(d)
  /\ Set(d, text[pos + 1].value)
  /\ UNCHANGED escape_byte

(* The value recorded is the escape byte in effect, not that of the text.   *)
SetEscape ==
  /\ AtDirective("escape")
  /\ Unset("escape")
  /\ text[pos + 1].value \in EscapeChar
  /\ escape_byte' = IF text[pos + 1].value = "backtick" THEN "backtick" ELSE escape_byte
  /\ Set("escape", escape_byte')

(* Faulty variant of InvalidEscape: any value becomes the escape character. *)
InvalidEscapeTaken ==
  /\ AtDirective("escape")
  /\ Unset("escape")
  /\ text[pos + 1].value \notin EscapeChar
  /\ escape_byte' = text[pos + 1].value
  /\ Set("escape", escape_byte')

(* Faulty variant of InvalidEscape: the value is looked at first.           *)
InvalidEscapeFirst ==
  /\ AtDirective("escape")
  /\ text[pos + 1].value \notin EscapeChar
  /\ invalid' = pos + 1
  /\ pc' = "err"
  /\ UNCHANGED <<text, pos, parser_directives, escape_byte>>

InvalidEscape ==
  /\ AtDirective("escape")
  /\ Unset("escape")
  /\ text[pos + 1].value \notin EscapeChar
  /\ invalid' = pos + 1
  /\ pc' = "err"
  /\ UNCHANGED <<text, pos, parser_directives, escape_byte>>

(* Faulty variant of Repeated: the escape character stays in effect.        *)
RepeatedKeepsEscape(d) ==
  /\ AtDirective(d)
  /\ ~Unset(d)
  /\ parser_directives' = NoDirectives
  /\ pos' = pos + 1
  /\ pc' = "leading"
  /\ UNCHANGED <<text, escape_byte, invalid>>

(* "Invalid due to appearing twice": all directives so far are void, and    *)
(* no further one is looked for.                                            *)
Repeated(d) ==
  /\ AtDirective(d)
  /\ ~Unset(d)
  /\ parser_directives' = NoDirectives
  /\ escape_byte' = Default
  /\ pos' = pos + 1
  /\ pc' = "leading"
  /\ UNCHANGED <<text, invalid>>

(* A comment ends the directives, and is consumed with them.                *)
CommentEnds ==
  /\ AtDirective("comment")
  /\ pos' = pos + 1
  /\ pc' = "leading"
  /\ UNCHANGED <<text, parser_directives, escape_byte, invalid>>

(* So does any line whose first byte is not #, or the end of the text.      *)
OtherEnds ==
  /\ pc = "directives"
  /\ pos < Len(text) => text[pos + 1].name \notin Directive \cup {"comment"}
  /\ pc' = "leading"
  /\ UNCHANGED <<text, pos, parser_directives, escape_byte, invalid>>

(* Faulty variant of Skippable: the directives are not taken into account.  *)
SkippableByDefault(line) == line.name \in Directive \cup {"comment", "blank", Default}

(* A line consume_comments_and_whitespaces skips.  A directive that comes   *)
(* too late is a comment.                                                   *)
Skippable(line) == line.name \in Directive \cup {"comment", "blank", escape_byte}

SkipLeading ==
  /\ pc = "leading"
  /\ pos < Len(text)
  /\ Skippable(text[pos + 1])
  /\ pos' = pos + 1
  /\ UNCHANGED <<text, parser_directives, escape_byte, pc, invalid>>

Ready ==
  /\ pc = "leading"
  /\ pos < Len(text) => ~Skippable(text[pos + 1])
  /\ pc' = "ready"
  /\ UNCHANGED <<text, pos, parser_directives, escape_byte, invalid>>

Next ==
  \/ SetPlain("syntax")
  \/ SetPlain("check")
  \/ SetEscape
  \/ InvalidEscape
  \/ \E d \in Directive : Repeated(d)
  \/ CommentEnds
  \/ OtherEnds
  \/ SkipLeading
  \/ Ready

Spec == Init /\ [][Next]_vars

-----------------------------------------------------------------------------
TypeOK ==
  /\ text \in Texts
  /\ pos \in 0..Len(text)
  /\ parser_directives \in [Directive -> {NoDirective} \cup Recorded]
  /\ escape_byte \in EscapeChar
  /\ pc \in {"directives", "leading", "ready", "err"}
  /\ invalid \in 0..MaxLines

(* The escape character in effect is the one the caller can read from       *)
(* parser_directives, which is the one the text asks for; it is the default *)
(* when there is none, after a reset as well.                               *)
EscapeConsistent ==
  LET e == parser_directives["escape"] IN
  escape_byte = IF e = NoDirective THEN Default ELSE e.value

(* What the head of a text means, line by line.                             *)
InSection(i) == \A j \in 1..i : text[j].name \in Directive
Again(i) == InSection(i) /\ \E j \in 1..i-1 : text[j].name = text[i].name
BadEscape(i) == InSection(i) /\ text[i].name = "escape" /\ text[i].value = "other" /\ ~Again(i)
Before(i) == \A j \in 1..i-1 : ~Again(j) /\ ~BadEscape(j)

(* The directives are those of the leading directive lines, each as its     *)
(* line says; all are void if one of them appears twice; and a bad escape   *)
(* is an error unless that happened before.                                 *)
SectionMeaning ==
  /\ pc = "err" => BadEscape(invalid) /\ Before(invalid)
  /\ pc \in {"leading", "ready"} =>
       IF \E i \in DOMAIN text : Again(i)
       THEN /\ parser_directives = NoDirectives
            /\ \A i \in DOMAIN text : BadEscape(i) => \E j \in 1..i-1 : Again(j)
       ELSE \A i \in DOMAIN text : InSection(i) =>
              /\ ~BadEscape(i)
              /\ parser_directives[text[i].name] = [line |-> i, value |-> text[i].value]

(* The first instruction is sought with the escape character the directives *)
(* ended up with: nothing it makes a continuation is left, and nothing is   *)
(* skipped that only the other character would make one.                    *)
LeadingSkipped ==
  pc = "ready" =>
    /\ \A i \in 1..pos : text[i].name \in Directive \cup {"comment", "blank", escape_byte}
    /\ pos < Len(text) => text[pos + 1].name \in {"instruction"} \cup (EscapeChar \ {escape_byte})

(* A directive once recorded is never revised: it stays, or all go.         *)
NeverRevised ==
  [][\A d \in Directive : parser_directives[d] # NoDirective =>
       \/ parser_directives'[d] = parser_directives[d]
       \/ parser_directives' = NoDirectives]_vars
=============================================================================
