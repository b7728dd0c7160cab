-------------------------------- MODULE HereDoc ---------------------------------
(***************************************************************************)
(* collect_here_doc: one here-document, from the line after the instruction *)
(* or after the here-document before it.  HereDocs calls it.                *)
(***************************************************************************)
EXTENDS Scanner

VARIABLES
  text,           \* what the caller leaves to read; never changes
  delim,          \* the bytes of the delimiter; never changes
  strip_tab,      \* its tabs are stripped; never changes
  s,              \* the position reached
  pc,             \* "line", "delim", then "done" or "failed"
  here_doc_start, \* where the here-document starts
  current_start,  \* start of the piece being scanned
  buf,            \* the pieces before it
  doc             \* the here-document: its span and its value

vars == <<text, s, pc, here_doc_start, current_start, buf, doc>>

NoDoc == [start |-> 0, end |-> 0, value |-> <<>>]

-----------------------------------------------------------------------------
(* The call at s.                                                           *)
Starts ==
  /\ pc' = "line"
  /\ here_doc_start' = s' /\ current_start' = s'
  /\ buf' = <<>>
  /\ doc' = NoDoc

(* Trim leading tabs.                                                       *)
LeadingTabs ==
  /\ pc = "line"
  /\ IF strip_tab /\ At(text, s, {"tab"})
     THEN /\ buf' = buf \o Piece(current_start, s)
          /\ s' = SkipWhile(text, s, {"tab"})
          /\ current_start' = s'
     ELSE UNCHANGED <<s, current_start, buf>>
  /\ pc' = "delim"
  /\ UNCHANGED <<text, here_doc_start, doc>>

(* Faulty variant of TooShort: off by one.                                  *)
TooShortByOne == Len(text) - s <= Len(delim)

TooShort == Len(text) - s < Len(delim)

NoEnd ==
  /\ pc = "delim"
  /\ TooShort
  /\ pc' = "failed"
  /\ UNCHANGED <<text, s, here_doc_start, current_start, buf, doc>>

(* starts_with(delim), and nothing but a newline after it.                  *)
DelimEnd == s + Len(delim)
StartsWithDelim == ~TooShort /\ SubSeq(text, s + 1, DelimEnd) = delim

AtTerminator ==
  /\ StartsWithDelim
  /\ DelimEnd = Len(text) \/ Newline(text, DelimEnd) # DelimEnd

Value == IF here_doc_start = current_start
         THEN Piece(current_start, s)
         ELSE buf \o Piece(current_start, s)

Terminator ==
  /\ pc = "delim"
  /\ AtTerminator
  /\ doc' = [start |-> here_doc_start, end |-> s, value |-> Value]
  /\ s' = Newline(text, DelimEnd)
  /\ pc' = "done"
  /\ UNCHANGED <<text, here_doc_start, current_start, buf>>

BodyLine ==
  /\ pc = "delim"
  /\ ~TooShort /\ ~AtTerminator
  /\ s' = NextLine(text, s)
  /\ pc' = "line"
  /\ UNCHANGED <<text, here_doc_start, current_start, buf, doc>>

Next == LeadingTabs \/ NoEnd \/ Terminator \/ BodyLine

-----------------------------------------------------------------------------
(* What a here-document is, line by line.  A line is named by where it      *)
(* starts; its content ends before the newline, which a carriage return may *)
(* be part of.                                                              *)
Lines(from) == {k \in from..Len(text) : k = from \/ text[k] = "lf"}
Tabs(l, strip) == IF strip THEN SkipWhile(text, l, {"tab"}) ELSE l
LineEnd(l) == NextLine(text, l)
ContentEnds == {e \in 0..Len(text) : e = Len(text) \/ Newline(text, e) # e}

(* It ends at the first line that is its delimiter and nothing else, and    *)
(* holds the lines before, tabs stripped if asked for.  A delimiter with a  *)
(* newline in it is more than one line.                                     *)
IsTerminator(l, word, strip) ==
  \E e \in ContentEnds : Tabs(l, strip) <= e /\ SubSeq(text, Tabs(l, strip) + 1, e) = word
Terminators(from, word, strip) == {l \in Lines(from) : IsTerminator(l, word, strip)}
AfterTerminator(l, word, strip) == NextLine(text, Tabs(l, strip) + Len(word))
BodyUpTo(from, last, strip) ==
  UNION {Tabs(l, strip)..LineEnd(l) - 1 : l \in {k \in Lines(from) : k < last}}
=============================================================================
