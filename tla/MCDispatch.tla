------------------------------ MODULE MCDispatch --------------------------------
(***************************************************************************)
(* Texts of one instruction with few arguments, of all kinds and spellings, *)
(* alone, after ONBUILD and after ONBUILD ONBUILD, and of two instructions. *)
(***************************************************************************)
EXTENDS Dispatch

Broken == <<"esc", "lf">>

(* A keyword as it is, with a lower case letter, broken after its first or  *)
(* second letter, with a letter too few or too many, also on the next line. *)
Cut(w, k) == SubSeq(w, 1, k) \o Broken \o SubSeq(w, k + 1, Len(w))
Lowered(w) ==
  [k \in DOMAIN w |-> IF \E b \in DOMAIN Capital : Capital[b] = w[k]
                      THEN CHOOSE b \in DOMAIN Capital : Capital[b] = w[k] ELSE w[k]]
Spellings(w) ==
  {w, Lowered(w), Cut(w, 1), Cut(w, 1) \o <<"1">>, Cut(Cut(w, 2), 1), Front(w), w \o <<"1">>,
   Cut(w, Len(w)) \o <<"1">>, Cut(w, Len(w)) \o Broken \o <<"1">>}

(* From the keyword to its arguments.                                       *)
Gaps == {<<>>, <<"sp">>, <<"lf">>, <<"lf", "hash", "lf">>,
         Broken, Broken \o <<"sp">>, <<"sp">> \o Broken}

Quoted1 == <<"quote", "1", "quote">>
Array1 == <<"open">> \o Quoted1 \o <<"close">>
Array2 == <<"open">> \o Quoted1 \o <<"comma">> \o Quoted1 \o <<"close">>
(* An escape in an array, whole and broken once or twice in a row.          *)
Breaks == {<<>>, Broken, Broken \o Broken}
Named(breaks) == <<"quote", "esc">> \o breaks \o <<"n", "quote">>
CodeOf(breaks) == <<"quote", "esc", "u", "0">> \o breaks \o <<"0", "A", "1", "quote">>
OneOf(string) == <<"open">> \o string \o <<"close">>
TwoOf(string) == <<"open">> \o string \o <<"comma">> \o Quoted1 \o <<"close">>
Escapes1 ==
  {OneOf(Named(b)) : b \in Breaks} \cup {OneOf(CodeOf(b)) : b \in Breaks} \cup
  {OneOf(<<"quote", "bs">> \o b \o <<"n", "quote">>) : b \in Breaks}
Escapes2 == {TwoOf(Named(b)) : b \in Breaks}
TwiceBroken == OneOf(Named(Broken \o Broken))

Flag1 == <<"dash", "dash", "1", "sp">>
Arguments == {
  <<>>, <<"1">>, <<"1", "sp", "1">>, <<"open", "close">>, Array1, Array2,
  <<"open", "open", "close">>, <<"open", "quote", "1">>, Array1 \o <<"sp", "1">>,
  Flag1, Flag1 \o <<"1">>, Flag1 \o Array1, Flag1 \o Array2, <<"dash", "sp", "1">>}
  \cup Escapes1 \cup Escapes2
HealthcheckArguments ==
  {flags \o word \o more :
     flags \in {<<>>, Flag1}, word \in Spellings(Letters["CMD"]) \cup Spellings(Letters["NONE"]),
     more \in {<<>>, <<"sp", "open", "close">>, <<"sp">> \o Array1, <<"sp", "1">>, <<"lf", "1">>,
              <<"sp">> \o TwiceBroken}}

Words == {Letters[Keywords[k]] : k \in DOMAIN Keywords}
Onbuilds == {<<>>, Letters["ONBUILD"] \o <<"sp">>, Cut(Letters["ONBUILD"], 2) \o Broken \o <<"sp">>,
             Letters["ONBUILD"] \o <<"sp">> \o Letters["ONBUILD"] \o <<"sp">>}

Spelt == {w \o <<"sp">> \o a : w \in UNION {Spellings(w) : w \in Words}, a \in {<<>>, <<"1">>}}
Gapped == {w \o g \o a : w \in Words, g \in Gaps, a \in {<<>>, <<"1">>, Array1}}
Plain == {w \o <<"sp">> \o a : w \in Words, a \in Arguments}
Healthchecks == {Letters["HEALTHCHECK"] \o <<"sp">> \o a : a \in HealthcheckArguments}
One == {o \o t : o \in Onbuilds, t \in Spelt \cup Gapped \cup Plain \cup Healthchecks}

(* One after the other, and what may lie between them.                      *)
Short == {<<"C", "M", "D", "sp", "1">>, <<"V", "O", "L", "U", "M", "E", "sp", "open", "close">>,
          <<"H", "E", "A", "L", "T", "H", "C", "H", "E", "C", "K", "sp", "N", "O", "N", "E">>,
          <<"O", "N", "B", "U", "I", "L", "D", "sp", "R", "U", "N">>,
          <<"F", "R", "O", "M", "sp", "1", "sp">>, <<"U", "S", "E", "R">>}
Between2 == {<<"lf">>, <<"lf", "sp", "hash", "1", "lf">>, <<"lf", "esc", "lf", "hash", "lf">>,
             <<"sp", "cr", "lf", "lf">>, <<"sp", "hash", "lf">>, Broken, <<"sp">> \o Broken}
Two == {i \o b \o j \o e : i \in Short, b \in Between2, j \in Short, e \in {<<>>, <<"lf">>}}

McInputs == One \cup Two \cup {<<>>, <<"lf">>}
=============================================================================
