-------------------------------- MODULE MCFrom ---------------------------------
(***************************************************************************)
(* The texts From is checked on: all of up to four bytes, and longer ones   *)
(* put together from pieces, which start with an image.                     *)
(***************************************************************************)
EXTENDS From

Pieces == {<<"A">>, <<"sp">>, <<"lf">>, <<"esc", "lf">>,
           <<"sp", "A", "S">>, <<"A", "esc", "lf", "S">>}

McInputs == SeqOf(Char, 4) \cup {<<"a">> \o FlattenSeq(p) : p \in SeqOf(Pieces, 5)}
=============================================================================
