------------------------------ MODULE MCHereDocs --------------------------------
(***************************************************************************)
(* HereDocs on flags, on one or two delimiters with quotes and backslashes, *)
(* and on here-documents.                                                   *)
(***************************************************************************)
EXTENDS HereDocs

(* The file before text: an other instruction, and the keyword.             *)
McBefore == <<"k", "sp", "a", "a", "a", "a", "lf", "k", "sp">>

Strings(pieces, n) == {FlattenSeq(p) : p \in SeqOf(pieces, n)}

(* Flags: all that fits into five bytes, and longer ones.                   *)
Flags ==
  SeqOf({"a", "dash", "eq", "sp", "lf", "esc"}, 4) \cup
  {<<"dash">> \o t :
     t \in Strings({<<"dash">>, <<"eq">>, <<"a">>, <<"sp">>, <<"lf">>, <<"esc", "lf">>,
                    <<"sp", "dash", "dash", "a", "eq">>}, 4)}

(* Delimiters, on one line with what follows, of both instructions.         *)
Delims ==
  {<<"lt", "lt">> \o t \o <<"sp", "d", "lf", "d">> :
     t \in SeqOf({"d", "dq", "sq", "bs", "sp", "lf"}, 4)}
Delims2 ==
  {<<"lt", "lt">> \o t \o <<"sp", "d", "lf", "d">> :
     t \in SeqOf({"d", "dash", "esc", "dq", "lf"}, 4)}

(* Bodies after one or two delimiters, also with a newline or a carriage    *)
(* return in them.                                                          *)
Body == Strings({<<"d">>, <<"tab">>, <<"lf">>, <<"cr">>}, 5)
Announcements == {
  <<"lt", "lt", "d", "sp", "d", "lf">>,
  <<"lt", "lt", "dash", "d", "sp", "d", "lf">>,
  <<"lt", "lt", "d", "d", "sp", "lt", "lt", "dash", "d", "sp", "d", "lf">>,
  <<"d", "sp", "lt", "lt", "d", "sp", "d", "esc", "lf", "hash", "lf">>,
  <<"lt", "lt", "dash", "dq", "tab", "d", "dq", "sp", "d", "lf">>,
  <<"lt", "lt", "dash", "dq", "d", "lf", "dq", "lf">>,
  <<"lt", "lt", "dq", "d", "cr", "dq", "lf">>}
Docs == {a \o b : a \in Announcements, b \in Body}

Readable(t) == ~At(t, 0, Whitespace) /\ ~Continues(t, 0)
McInputs == {t \in Flags \cup Delims \cup Delims2 \cup Docs : Readable(t)}
=============================================================================
