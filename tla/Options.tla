-------------------------------- MODULE Options ---------------------------------
(***************************************************************************)
(* parse_options: the flags of FROM, RUN, ADD, COPY and HEALTHCHECK, each   *)
(* --name or --name=value, before the arguments.  text is what is left once *)
(* the keyword has been read.                                               *)
(***************************************************************************)
EXTENDS WordScanner

CONSTANT NoValue \* the value of a flag is None

(* pc is "dash", "second", "name", "value", "gap", then "done".             *)
VARIABLES
  s_next,     \* where the second dash is looked for
  flag_start, \* where the flag starts
  name,       \* its name, while its value is read
  options     \* the flags so far

vars == <<scanning, pc, s_next, flag_start, name, options>>

(* The mask of the name.                                                    *)
NameEnd == WordEnd \cup {"eq"}

Flag == [start : 0..MaxLen, name : Word, value : Word \cup {NoValue}]
NoWord == [value |-> <<>>, start |-> 0, end |-> 0]

-----------------------------------------------------------------------------
Init ==
  /\ ScanInit
  /\ pc = "dash"
  /\ s_next = 0
  /\ flag_start = 0
  /\ name = NoWord
  /\ options = <<>>

Dash ==
  /\ pc = "dash"
  /\ IF At(text, s, {"dash"})
     THEN pc' = "second" /\ s_next' = s + 1
     ELSE pc' = "done" /\ UNCHANGED s_next
  /\ UNCHANGED <<scanning, flag_start, name, options>>

(* Faulty variant of SecondDash: the flag starts at its second dash.        *)
SecondDashStarts ==
  /\ pc = "second"
  /\ At(text, s_next, {"dash"})
  /\ flag_start' = s_next
  /\ s' = s_next + 1
  /\ WordStarts
  /\ pc' = "name"
  /\ UNCHANGED <<text, has_space, s_next, name, options>>

SecondDash ==
  /\ pc = "second"
  /\ At(text, s_next, {"dash"})
  /\ flag_start' = s
  /\ s' = s_next + 1
  /\ WordStarts
  /\ pc' = "name"
  /\ UNCHANGED <<text, has_space, s_next, name, options>>

DashContinued ==
  /\ pc = "second"
  /\ Continues(text, s_next)
  /\ s_next' = Continuation(text, s_next)
  /\ UNCHANGED <<scanning, pc, flag_start, name, options>>

(* One dash is no flag; s stays before it.                                  *)
DashAlone ==
  /\ pc = "second"
  /\ ~At(text, s_next, {"dash"}) /\ ~Continues(text, s_next)
  /\ pc' = "done"
  /\ UNCHANGED <<scanning, s_next, flag_start, name, options>>

Collect ==
  /\ \/ pc = "name" /\ WordByte(NameEnd)
     \/ pc = "value" /\ WordByte(WordEnd)
     \/ pc \in {"name", "value"} /\ WordContinued
  /\ UNCHANGED <<pc, s_next, flag_start, name, options>>

(* The name of a flag with a value.                                         *)
NameEnds ==
  /\ pc = "name"
  /\ At(text, s, {"eq"})
  /\ name' = Unescaped
  /\ s' = s + 1
  /\ WordStarts
  /\ pc' = "value"
  /\ UNCHANGED <<text, has_space, s_next, flag_start, options>>

(* push, then consume_whitespaces.                                          *)
Push(flag_name, value) ==
  /\ options' = Append(options, [start |-> flag_start, name |-> flag_name, value |-> value])
  /\ has_space' = FALSE
  /\ pc' = "gap"
  /\ UNCHANGED <<text, s, start, word_start, buf, s_next, flag_start, name>>

PushName ==
  /\ pc = "name"
  /\ WordOver(WordEnd)
  /\ Push(Unescaped, NoValue)

PushValue ==
  /\ pc = "value"
  /\ WordOver(WordEnd)
  /\ Push(name, Unescaped)

Skip ==
  /\ pc = "gap"
  /\ GapBlank \/ GapContinued
  /\ UNCHANGED <<pc, s_next, flag_start, name, options>>

(* Faulty variant of GapEnds: the flags of the next line are taken, too.    *)
GapEndsAnyLine ==
  /\ pc = "gap"
  /\ GapOver
  /\ s' = Newline(text, s)
  /\ pc' = "dash"
  /\ UNCHANGED <<text, has_space, start, word_start, buf, s_next, flag_start, name, options>>

GapEnds ==
  /\ pc = "gap"
  /\ GapOver
  /\ pc' = "dash"
  /\ UNCHANGED <<scanning, s_next, flag_start, name, options>>

Next ==
  \/ Dash
  \/ SecondDash
  \/ DashContinued
  \/ DashAlone
  \/ Collect
  \/ NameEnds
  \/ PushName
  \/ PushValue
  \/ Skip
  \/ GapEnds

-----------------------------------------------------------------------------
(* The parts of a flag's word: its first "=", if any, splits it.            *)
Dashes(word) == {i \in word : Cardinality({k \in word : k < i}) < 2}
Equals(word) == {i \in word : text[i + 1] = "eq"}
NameIn(word) == {i \in word \ Dashes(word) : \A e \in Equals(word) : i < e}
ValueIn(word) == {i \in word : i > Min(Equals(word))}

(* The flags are the leading words of the line that start with two dashes,  *)
(* split at their first "=", even if a continuation runs through the dashes,*)
(* the name or the value; a flag starts where its word does.                *)
FlagsOfTheLine ==
  pc = "done" =>
    LET words == FlagWords(text) IN
    /\ Len(options) = Len(words)
    /\ \A f \in DOMAIN options :
         LET flag == options[f]
             word == words[f]
         IN
         /\ flag.start = Min(word)
         /\ Spells(flag.name.value, NameIn(word))
         /\ IF Equals(word) = {}
            THEN flag.value = NoValue
            ELSE flag.value # NoValue /\ Spells(flag.value.value, ValueIn(word))

(* What is left starts with the first word that is no flag, and nothing of  *)
(* it is lost: a line of flags only leaves its newline, and the next line   *)
(* is never read.                                                           *)
RestIsLeft ==
  pc = "done" =>
    LET rest == LineWords(text) \ ToSet(FlagWords(text))
    IN IF rest = {}
       THEN (s = Len(text) \/ At(text, s, {"lf"})) /\ Newline(text, s) = After(text)
       ELSE s = Min(UNION rest)
=============================================================================
