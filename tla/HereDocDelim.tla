----------------------------- MODULE HereDocDelim ------------------------------
(***************************************************************************)
(* collect_here_doc_delim: what follows the << of a here-document, without  *)
(* its quotes and backslashes.  It is read from a source's word (ADD and    *)
(* COPY) or from the text (RUN); full is either.  "dq" and "sq" are the     *)
(* quotes.  The backslash is the escape character of a delimiter whatever   *)
(* the escape byte of the file is.                                          *)
(***************************************************************************)
EXTENDS Scanner

CONSTANT NoQuote \* quote is None

VARIABLES
  backslash,     \* "esc" if it is the escape byte, or else "bs"; never changes
  full,          \* the bytes read from
  pc,            \* "delim", then "here_doc", "none", "open_escape" or "open_quote"
  s_next,        \* the position reached, in full
  strip_tab,     \* a dash comes first
  delim_start,   \* where the delimiter starts
  current_start, \* start of the piece being scanned
  buf,           \* the pieces before it
  quote,         \* the quote that is open
  expand,        \* no quote was met
  delim          \* the delimiter, as the positions of its bytes

delimVars == <<full, strip_tab, delim_start, quote, expand, delim>>
vars == <<backslash, pc, s_next, current_start, buf, delimVars>>

Quotes == {"dq", "sq"}
DelimEnd == Whitespace \cup PossibleLine

-----------------------------------------------------------------------------
(* The call: bytes from i on, which is after the <<.                        *)
Starts(bytes, i) ==
  /\ full' = bytes
  /\ strip_tab' = At(bytes, i, {"dash"})
  /\ s_next' = IF strip_tab' THEN i + 1 ELSE i
  /\ delim_start' = s_next' /\ current_start' = s_next'
  /\ buf' = <<>> /\ delim' = <<>>
  /\ quote' = NoQuote
  /\ expand' = TRUE
  /\ pc' = "delim"

(* The byte at s_next is left out, and the piece before it is kept.         *)
LeaveOut ==
  /\ buf' = buf \o Piece(current_start, s_next)
  /\ current_start' = s_next + 1

OpenQuote ==
  /\ pc = "delim"
  /\ At(full, s_next, Quotes) /\ quote = NoQuote
  /\ quote' = full[s_next + 1]
  /\ expand' = FALSE
  /\ LeaveOut
  /\ s_next' = s_next + 1
  /\ UNCHANGED <<backslash, full, pc, strip_tab, delim_start, delim>>

(* Faulty variant of CloseQuote: any quote closes.                          *)
CloseAnyQuote ==
  /\ pc = "delim"
  /\ At(full, s_next, Quotes) /\ quote # NoQuote
  /\ quote' = NoQuote
  /\ LeaveOut
  /\ s_next' = s_next + 1
  /\ UNCHANGED <<backslash, full, pc, strip_tab, delim_start, expand, delim>>

CloseQuote ==
  /\ pc = "delim"
  /\ quote # NoQuote /\ At(full, s_next, {quote})
  /\ quote' = NoQuote
  /\ LeaveOut
  /\ s_next' = s_next + 1
  /\ UNCHANGED <<backslash, full, pc, strip_tab, delim_start, expand, delim>>

(* The byte after a backslash is not looked at, and kept.                   *)
Backslash ==
  /\ pc = "delim"
  /\ At(full, s_next, {backslash})
  /\ LeaveOut
  /\ IF s_next + 1 = Len(full)
     THEN pc' = "open_escape" /\ UNCHANGED s_next
     ELSE s_next' = s_next + 2 /\ UNCHANGED pc
  /\ UNCHANGED <<backslash, delimVars>>

Over == s_next = Len(full) \/ (quote = NoQuote /\ At(full, s_next, DelimEnd))

DelimByte ==
  /\ pc = "delim"
  /\ ~Over
  /\ ~At(full, s_next, {backslash}) /\ ~At(full, s_next, IF quote = NoQuote THEN Quotes ELSE {quote})
  /\ s_next' = s_next + 1
  /\ UNCHANGED <<backslash, pc, current_start, buf, delimVars>>

QuoteMissing ==
  /\ pc = "delim"
  /\ Over
  /\ quote # NoQuote
  /\ pc' = "open_quote"
  /\ UNCHANGED <<backslash, s_next, current_start, buf, delimVars>>

(* An empty delimiter is none, quoted or not.                               *)
DelimEnds ==
  /\ pc = "delim"
  /\ Over
  /\ quote = NoQuote
  /\ delim' = IF delim_start = current_start
              THEN Piece(delim_start, s_next)
              ELSE buf \o Piece(current_start, s_next)
  /\ pc' = IF delim' = <<>> THEN "none" ELSE "here_doc"
  /\ UNCHANGED <<backslash, full, s_next, current_start, buf, strip_tab, delim_start, quote, expand>>

Next ==
  \/ OpenQuote
  \/ CloseQuote
  \/ Backslash
  \/ DelimByte
  \/ QuoteMissing
  \/ DelimEnds

-----------------------------------------------------------------------------
(* What quoting means, told by the byte before, of the bytes of t from a    *)
(* position on.  A byte is escaped if an odd number of backslashes comes    *)
(* before it, and Quoted is the quote that is open where it stands.         *)
Escaped(t, from, k) ==
  Cardinality({j \in from..k-1 : \A m \in j..k-1 : t[m + 1] = backslash}) % 2 = 1
Toggles(t, from, q, k) ==
  t[k + 1] \in (IF q = NoQuote THEN Quotes ELSE {q}) /\ ~Escaped(t, from, k)
Quoted(t, from) ==
  LET open[k \in from..Len(t)] ==
        IF k = from THEN NoQuote
        ELSE LET before == open[k - 1] IN
             IF ~Toggles(t, from, before, k - 1) THEN before
             ELSE IF before = NoQuote THEN t[k]
             ELSE NoQuote
  IN open

(* It runs up to the first whitespace that is neither quoted nor escaped.   *)
EndOfDelim(t, from) ==
  LET open == Quoted(t, from) IN
  Min({Len(t)} \cup
      {k \in from..Len(t)-1 :
         t[k + 1] \in DelimEnd /\ open[k] = NoQuote /\ ~Escaped(t, from, k)})

(* What is left of it once the quotes and backslashes are removed.          *)
Unquoted(t, from) ==
  LET open == Quoted(t, from) IN
  {k \in from..EndOfDelim(t, from) - 1 :
     (t[k + 1] = backslash => Escaped(t, from, k)) /\ ~Toggles(t, from, open[k], k)}

(* A quote or an escape at the end of the bytes is left open.               *)
OpenEscape(t, from) ==
  EndOfDelim(t, from) = Len(t) /\ Escaped(t, from, Len(t))
OpenQuoteLeft(t, from) == Quoted(t, from)[EndOfDelim(t, from)] # NoQuote

(* A dash before it is no part of the delimiter.                            *)
StripsTabs(t, from) == At(t, from, {"dash"})
DelimStart(t, from) == IF StripsTabs(t, from) THEN from + 1 ELSE from

(* The delimiter is the bytes of its word but for the quotes that open or   *)
(* close and the backslashes that escape, and expand says whether a quote   *)
(* was among them; a quote or an escape that is left open is an error, and  *)
(* an empty delimiter is no here-document.                                  *)
DelimOfTheWord ==
  pc # "delim" =>
    LET from == delim_start
        open == Quoted(full, from)
    IN /\ pc = "open_escape" <=> OpenEscape(full, from)
       /\ pc = "open_quote" <=> OpenQuoteLeft(full, from) /\ ~OpenEscape(full, from)
       /\ pc \in {"here_doc", "none"} =>
            /\ Spells(delim, Unquoted(full, from))
            /\ s_next = EndOfDelim(full, from)
            /\ expand <=> \A k \in from..s_next-1 : ~Toggles(full, from, open[k], k)
            /\ pc = "none" <=> delim = <<>>
=============================================================================
