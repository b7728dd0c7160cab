------------------------------ MODULE ParseIter ------------------------------
(***************************************************************************)
(* parse_iter(): the pull parser.  Every call of next() parses one          *)
(* instruction and returns it, returns an error, or returns None.  Calls    *)
(* are made by the user of the library: at any time, as often as they       *)
(* like, after an error or the end as well.                                 *)
(*                                                                          *)
(* Names ParseDom has as well start with Iter: Parsers extends both.        *)
(***************************************************************************)
EXTENDS Instructions

VARIABLES
  s,                \* outcomes consumed: p.s is what follows
  has_stage,        \* a FROM was returned, or the iterator is finished
  last,             \* what the last call of next() returned
  yielded,          \* history: positions of the instructions returned
  reported          \* history: the errors returned

iterVars == <<text, s, has_stage, last, yielded, reported>>

-----------------------------------------------------------------------------
IterInit ==
  /\ text \in Texts
  /\ s = 0
  /\ has_stage = FALSE
  /\ last = NotCalled
  /\ yielded = <<>>
  /\ reported = <<>>

(* Faulty variant of IterFail: has_stage is left as it was.                 *)
IterFailOnce(e) ==
  /\ last' = e
  /\ s' = Len(text)
  /\ reported' = Append(reported, e)
  /\ UNCHANGED <<text, has_stage, yielded>>

(* The inner fn error of next(): both fields are set so that no later call  *)
(* can return an error again.                                               *)
IterFail(e) ==
  /\ last' = e
  /\ s' = Len(text)
  /\ has_stage' = TRUE
  /\ reported' = Append(reported, e)
  /\ UNCHANGED <<text, yielded>>

(* Faulty variant of Yield: p.s = s is forgotten.                           *)
YieldAgain ==
  /\ yielded' = Append(yielded, s + 1)
  /\ last' = Some(s + 1)
  /\ UNCHANGED <<text, s, reported>>

Yield ==
  /\ yielded' = Append(yielded, s + 1)
  /\ last' = Some(s + 1)
  /\ s' = s + 1
  /\ UNCHANGED <<text, reported>>

IterScan(kind) == s < Len(text) /\ text[s + 1].kind = kind

NextError == IterScan("Error") /\ IterFail(InstructionError(s + 1))

(* Faulty variant of NextFrom: the stage is not noted.                      *)
NextFromUnnoted == IterScan("From") /\ Yield /\ UNCHANGED has_stage

NextFrom == IterScan("From") /\ Yield /\ has_stage' = TRUE

NextArg == IterScan("Arg") /\ Yield /\ UNCHANGED has_stage

(* Faulty variant of NextOther: no check that a FROM came first.            *)
NextOtherAnywhere == IterScan("Other") /\ Yield /\ UNCHANGED has_stage

NextOther == IterScan("Other") /\ has_stage /\ Yield /\ UNCHANGED has_stage

NextMissingFrom == IterScan("Other") /\ ~has_stage /\ IterFail(ExpectedFrom(s + 1))

NextNoStage == s = Len(text) /\ ~has_stage /\ IterFail(NoStage)

NextNone ==
  /\ s = Len(text)
  /\ has_stage
  /\ last' = None
  /\ UNCHANGED <<text, s, has_stage, yielded, reported>>

IterNext ==
  \/ NextError
  \/ NextFrom
  \/ NextArg
  \/ NextOther
  \/ NextMissingFrom
  \/ NextNoStage
  \/ NextNone

IterSpec == IterInit /\ [][IterNext]_iterVars

-----------------------------------------------------------------------------
IterTypeOK ==
  /\ text \in Texts
  /\ s \in 0..Len(text)
  /\ has_stage \in BOOLEAN
  /\ last \in [kind : ErrorKind \cup {"Some", "None", "NotCalled"}, at : 0..MaxLen]
  /\ yielded \in Seq(1..MaxLen)
  /\ reported \in Seq(Error)

(* "When .next() on the returned iterator has returned an Some(Err(..))     *)
(* once, the subsequent .next() calls return None" (doc of parse_iter), and *)
(* None is final as FusedIterator demands: after either, a call changes     *)
(* nothing but the value returned, and returns None.                        *)
Fused ==
  [][last.kind \in ErrorKind \cup {"None"} => last' = None]_iterVars

(* The instructions returned are all of those before the first fault, in    *)
(* the order of the text: next() neither skips nor repeats one, whatever is *)
(* left in p.s by a call that failed.                                       *)
InOrder ==
  /\ \A k \in DOMAIN yielded : yielded[k] = k /\ ~Faulty(text, k)
  /\ reported = <<>> => s = Len(yielded)

(* The calls together implement the pull interface of PullResult.           *)
Pull == INSTANCE PullResult
PullPromise == Pull!Spec
=============================================================================
