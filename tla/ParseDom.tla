------------------------------- MODULE ParseDom -------------------------------
(***************************************************************************)
(* parse(): reads every instruction of a text into a Dockerfile, recording  *)
(* the stages as index ranges into the instructions, then indexes the       *)
(* stages by name.  Ranges are 0-based and half open, as in the code, so    *)
(* the instruction at offset k is instructions[k + 1].                      *)
(***************************************************************************)
EXTENDS Instructions

CONSTANTS NoIndex,  \* current_stage while no stage is open
          Pending   \* no result yet

ASSUME NoIndexAssumption == NoIndex \notin Nat

VARIABLES
  pos,              \* outcomes of parse_instruction consumed so far
  instructions,     \* Vec<Instruction>: positions of the instructions parsed
  stages,           \* Vec<Range<usize>>: the stages closed so far
  current_stage,    \* Option<usize>: where the open stage starts
  stages_by_name,   \* HashMap from a stage name to its index in stages
  named,            \* stages the naming loop has visited
  pc,               \* the loop parse() is in
  error             \* the error returned, NotCalled until there is one

vars == <<text, pos, instructions, stages, current_stage, stages_by_name, named, pc, error>>

-----------------------------------------------------------------------------
Init ==
  /\ text \in Texts
  /\ pos = 0
  /\ instructions = <<>>
  /\ stages = <<>>
  /\ current_stage = NoIndex
  /\ stages_by_name = <<>>
  /\ named = 0
  /\ pc = "scan"
  /\ error = NotCalled

(* The inner fn error: frees both vectors, then returns the error.          *)
Fail(e) ==
  /\ instructions' = <<>>
  /\ stages' = <<>>
  /\ error' = e
  /\ pc' = "err"

(* while let Some(..) = s.split_first() { parse_instruction(..) }           *)
Scan(kind) ==
  /\ pc = "scan"
  /\ pos < Len(text)
  /\ text[pos + 1].kind = kind

Push == instructions' = Append(instructions, pos + 1)

ParseError ==
  /\ Scan("Error")
  /\ Fail(InstructionError(pos + 1))
  /\ UNCHANGED <<text, pos, current_stage, stages_by_name, named>>

(* Faulty variant of PushFrom: the closed stage ends after the new FROM.    *)
PushFromLate ==
  /\ Scan("From")
  /\ current_stage' = Len(instructions)
  /\ stages' = IF current_stage = NoIndex THEN stages
               ELSE Append(stages, [start |-> current_stage, end |-> Len(instructions) + 1])
  /\ Push
  /\ pos' = pos + 1
  /\ UNCHANGED <<text, stages_by_name, named, pc, error>>

(* A FROM opens a stage and closes the one that was open.                   *)
PushFrom ==
  /\ Scan("From")
  /\ current_stage' = Len(instructions)
  /\ stages' = IF current_stage = NoIndex THEN stages
               ELSE Append(stages, [start |-> current_stage, end |-> Len(instructions)])
  /\ Push
  /\ pos' = pos + 1
  /\ UNCHANGED <<text, stages_by_name, named, pc, error>>

PushArg ==
  /\ Scan("Arg")
  /\ Push
  /\ pos' = pos + 1
  /\ UNCHANGED <<text, stages, current_stage, stages_by_name, named, pc, error>>

(* Faulty variant of PushOther: no check that a stage is open.              *)
PushOtherAnywhere ==
  /\ Scan("Other")
  /\ Push
  /\ pos' = pos + 1
  /\ UNCHANGED <<text, stages, current_stage, stages_by_name, named, pc, error>>

PushOther ==
  /\ Scan("Other")
  /\ current_stage # NoIndex
  /\ Push
  /\ pos' = pos + 1
  /\ UNCHANGED <<text, stages, current_stage, stages_by_name, named, pc, error>>

(* Faulty variant of MissingFrom: the error points past the instruction.    *)
MissingFromAfter ==
  /\ Scan("Other")
  /\ current_stage = NoIndex
  /\ Fail(ExpectedFrom(pos + 2))
  /\ UNCHANGED <<text, pos, current_stage, stages_by_name, named>>

MissingFrom ==
  /\ Scan("Other")
  /\ current_stage = NoIndex
  /\ Fail(ExpectedFrom(pos + 1))
  /\ UNCHANGED <<text, pos, current_stage, stages_by_name, named>>

(* End of the text: the open stage is closed, and there must be one.        *)
Closed == IF current_stage = NoIndex THEN stages
          ELSE Append(stages, [start |-> current_stage, end |-> Len(instructions)])

CloseLastStage ==
  /\ pc = "scan"
  /\ pos = Len(text)
  /\ Closed # <<>>
  /\ stages' = Closed
  /\ pc' = "names"
  /\ UNCHANGED <<text, pos, instructions, current_stage, stages_by_name, named, error>>

NoStageFound ==
  /\ pc = "scan"
  /\ pos = Len(text)
  /\ Closed = <<>>
  /\ Fail(NoStage)
  /\ UNCHANGED <<text, pos, current_stage, stages_by_name, named>>

-----------------------------------------------------------------------------
(* for (i, stage) in stages.iter().enumerate()                              *)
Naming == pc = "names" /\ named < Len(stages)

StageName(i) == text[instructions[stages[i + 1].start + 1]].as_

(* Faulty variants of SkipUnnamed: the absent name is indexed as if it were *)
(* one; the loop does not move on.                                          *)
IndexUnnamed ==
  /\ Naming
  /\ StageName(named) = NoName
  /\ stages_by_name' = [n \in DOMAIN stages_by_name \cup {NoName} |->
                          IF n = NoName THEN named ELSE stages_by_name[n]]
  /\ named' = named + 1
  /\ UNCHANGED <<text, pos, instructions, stages, current_stage, pc, error>>

SkipUnnamed ==
  /\ Naming
  /\ StageName(named) = NoName
  /\ named' = named + 1
  /\ UNCHANGED <<text, pos, instructions, stages, current_stage, stages_by_name, pc, error>>

(* Faulty variant of IndexName: insert() without get(), the last stage of a *)
(* name wins.                                                               *)
IndexNameAlways ==
  /\ Naming
  /\ StageName(named) # NoName
  /\ stages_by_name' = [n \in DOMAIN stages_by_name \cup {StageName(named)} |->
                          IF n = StageName(named) THEN named ELSE stages_by_name[n]]
  /\ named' = named + 1
  /\ UNCHANGED <<text, pos, instructions, stages, current_stage, pc, error>>

IndexName ==
  /\ Naming
  /\ StageName(named) # NoName
  /\ StageName(named) \notin DOMAIN stages_by_name
  /\ stages_by_name' = [n \in DOMAIN stages_by_name \cup {StageName(named)} |->
                          IF n = StageName(named) THEN named ELSE stages_by_name[n]]
  /\ named' = named + 1
  /\ UNCHANGED <<text, pos, instructions, stages, current_stage, pc, error>>

(* Faulty variant of NameTwice: the error points at the first occurrence.   *)
NameTwiceAtFirst ==
  /\ Naming
  /\ StageName(named) \in DOMAIN stages_by_name
  /\ stages_by_name' = <<>>
  /\ Fail(DuplicateName(instructions[stages[stages_by_name[StageName(named)] + 1].start + 1]))
  /\ UNCHANGED <<text, pos, current_stage, named>>

NameTwice ==
  /\ Naming
  /\ StageName(named) \in DOMAIN stages_by_name
  /\ stages_by_name' = <<>>
  /\ Fail(DuplicateName(instructions[stages[named + 1].start + 1]))
  /\ UNCHANGED <<text, pos, current_stage, named>>

Return ==
  /\ pc = "names"
  /\ named = Len(stages)
  /\ pc' = "ok"
  /\ UNCHANGED <<text, pos, instructions, stages, current_stage, stages_by_name, named, error>>

Next ==
  \/ ParseError
  \/ PushFrom
  \/ PushArg
  \/ PushOther
  \/ MissingFrom
  \/ CloseLastStage
  \/ NoStageFound
  \/ SkipUnnamed
  \/ IndexName
  \/ NameTwice
  \/ Return

Spec == Init /\ [][Next]_vars

-----------------------------------------------------------------------------
(* The methods of the Dockerfile that a successful parse() returns.         *)
global_args == SubSeq(instructions, 1, stages[1].start)

StageAt(i) == [from |-> instructions[stages[i + 1].start + 1],
               instructions |-> SubSeq(instructions, stages[i + 1].start + 2, stages[i + 1].end)]

stage(name) == StageAt(stages_by_name[name])

-----------------------------------------------------------------------------
StageRange == [start : 0..MaxLen, end : 0..MaxLen]

TypeOK ==
  /\ text \in Texts
  /\ pos \in 0..Len(text)
  /\ instructions \in Seq(1..MaxLen)
  /\ stages \in Seq(StageRange)
  /\ current_stage \in 0..MaxLen \cup {NoIndex}
  /\ DOMAIN stages_by_name \subseteq Name
  /\ \A n \in DOMAIN stages_by_name : stages_by_name[n] \in 0..MaxLen
  /\ named \in 0..MaxLen
  /\ pc \in {"scan", "names", "ok", "err"}
  /\ error \in Error \cup {NotCalled}

KindAt(k) == text[instructions[k + 1]].kind

(* Where the stages recorded so far must end.                               *)
Frontier == IF pc = "scan" THEN current_stage ELSE Len(instructions)

(* The stages tile the instructions from the first FROM on: each range      *)
(* starts at a FROM, holds no other, and ends where the next one starts.    *)
(* It is what the index arithmetic of parse() is for; every method of       *)
(* Dockerfile slices instructions with these ranges.                        *)
StagesTile ==
  pc # "err" =>
    \A i \in DOMAIN stages :
      /\ stages[i].end = IF i < Len(stages) THEN stages[i + 1].start ELSE Frontier
      /\ stages[i].start < stages[i].end
      /\ KindAt(stages[i].start) = "From"
      /\ \A k \in stages[i].start + 1 .. stages[i].end - 1 : KindAt(k) # "From"

(* The unwrap() and the unreachable!() of global_args, stage and stages are *)
(* what their comments say: there is a first stage, only ARG precedes it,   *)
(* and every stage, found by position or by name, starts at a FROM.         *)
AccessorsTotal ==
  pc = "ok" =>
    /\ stages # <<>>
    /\ \A k \in DOMAIN global_args : text[global_args[k]].kind = "Arg"
    /\ \A i \in 0 .. Len(stages) - 1 : text[StageAt(i).from].kind = "From"
    /\ \A n \in DOMAIN stages_by_name : stages_by_name[n] < Len(stages)

(* stage(name) finds exactly the stages that have a name, each under its    *)
(* own: no stage is lost to another of the same name.                       *)
NamesExact ==
  pc = "ok" =>
    /\ \A n \in DOMAIN stages_by_name : text[stage(n).from].as_ = n
    /\ \A i \in 0 .. Len(stages) - 1 :
         LET n == text[StageAt(i).from].as_ IN
         n # NoName => n \in DOMAIN stages_by_name /\ stages_by_name[n] = i

(* parse() as the one-step specification ParseResult sees it.               *)
Result ==
  CASE pc = "ok" -> [ok |-> TRUE,
                     stages |-> {stages[i] : i \in DOMAIN stages},
                     names |-> {<<n, stage(n).from - 1>> : n \in DOMAIN stages_by_name}]
    [] pc = "err" -> [ok |-> FALSE, error |-> error]
    [] OTHER -> Pending

Promise == INSTANCE ParseResult WITH result <- Result
ParsePromise == Promise!Spec
=============================================================================
