------------------------------ MODULE MCJsonArray -------------------------------
(***************************************************************************)
(* The texts JsonArray is checked on: an array of any few bytes, one put    *)
(* together from pieces, and one string with hexadecimal escapes in it, the *)
(* backslash being the escape byte or not.                                  *)
(***************************************************************************)
EXTENDS JsonArray

Structure(b) == {<<"quote">>, <<"comma">>, <<"close">>, <<"a">>, <<b>>, <<"esc">>,
                 <<"sp">>, <<"tab">>, <<"lf">>, <<"esc", "lf">>, <<"quote", "comma", "quote">>}
Hex(b) == {<<b, "u">>, <<"D", "8", "3", "C">>, <<"D", "F", "9", "5">>, <<"esc", "lf">>,
           <<"0", "esc", "lf", "0", "A", "n">>, <<"0", "0", "A", "esc", "lf", "D">>}
Rests == {<<>>, <<"quote", "close", "lf", "a">>}

Arrays(b, most) ==
  {<<"open", "quote">> \o FlattenSeq(p) \o e : p \in SeqOf(Structure(b), most), e \in Rests}
Strings(b, most) ==
  {<<"open", "quote">> \o FlattenSeq(p) \o <<"quote", "close">> : p \in SeqOf(Hex(b), most)}

McInputs ==
  {<<"open">> \o t : t \in SeqOf(Char \ (Digit \cup {"bs"}), 3)}
    \cup Arrays("esc", 4) \cup Strings("esc", 5) \cup Arrays("bs", 3) \cup Strings("bs", 4)
=============================================================================
