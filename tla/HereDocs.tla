------------------------------- MODULE HereDocs ---------------------------------
(***************************************************************************)
(* The instructions that may have here-documents, from their flags to the   *)
(* end of the last here-document: parse_add_or_copy ("COPY") and parse_run  *)
(* ("RUN").  This module only calls; what is called are the modules of      *)
(* parse_options, collect_space_separated_consume_line,                     *)
(* collect_here_doc_delim, consume_current_line and collect_here_doc, which *)
(* share the position and their local variables.                            *)
(*                                                                          *)
(* text is what is left once the keyword has been read; Before is the file  *)
(* up to there.  "[" is no byte of text, and so the exec form, which both   *)
(* try after the flags, is not met here.                                    *)
(***************************************************************************)
EXTENDS WordScanner, Location

CONSTANTS Before,  \* the file before text: its last line is the keyword's
          NoValue, \* the value of a flag is None
          NoQuote  \* no quote is open

ASSUME BeforeAssumption == Before \in Seq(STRING) /\ Before # <<>>
ASSUME NoValueAssumption == NoValue \notin Word

VARIABLES
  kind,  \* "COPY" or "RUN"; never changes
  call,  \* what is called, "sources" between the calls, then "done" or "failed"
  src,   \* the sources of a COPY, or the here-document of a RUN
  error, \* the error and its position in the file
  \* of the calls, as in their modules
  backslash, s_next, flag_start, name, options, res,
  full, strip_tab, delim_start, current_start, quote, expand, delim,
  has_whitespace_only, arguments_start, end, here_doc_start, doc

optVars == <<flag_start, name, options>>
delimVars == <<full, strip_tab, delim_start, quote, expand, delim>>
lineVars == <<has_whitespace_only, arguments_start, end>>
docVars == <<here_doc_start, doc>>
instruction == <<kind, backslash, src, error>>
wordVars == <<has_space, start, word_start>>
vars == <<scanning, call, pc, s_next, current_start, optVars, res, delimVars, lineVars, docVars,
          instruction>>

DelimBytes == [k \in DOMAIN delim |-> full[delim[k] + 1]]

Opt == INSTANCE Options
Wrd == INSTANCE Words
Dlm == INSTANCE HereDocDelim
Cur == INSTANCE CurrentLine
Doc == INSTANCE HereDoc WITH delim <- DelimBytes

(* The position in the file of a position in text, and of the keyword.      *)
InFile(i) == Len(Before) + i
KeywordStart == Max({0} \cup {k \in DOMAIN Before : Before[k] = "lf"})

NoError == [kind |-> "none", pos |-> 0]

-----------------------------------------------------------------------------
Init ==
  /\ Opt!Init
  /\ kind \in {"COPY", "RUN"}
  /\ call = "options"
  /\ src = <<>>
  /\ error = NoError
  /\ backslash = IF "bs" \in ToSet(text) THEN "bs" ELSE "esc"
  /\ res = <<>>
  /\ full = <<>> /\ strip_tab = FALSE /\ delim_start = 0 /\ current_start = 0
  /\ quote = NoQuote /\ expand = FALSE /\ delim = <<>>
  /\ has_whitespace_only = FALSE /\ arguments_start = 0 /\ end = 0
  /\ here_doc_start = 0 /\ doc = Doc!NoDoc

Fail(what, pos) ==
  /\ call' = "failed"
  /\ error' = [kind |-> what, pos |-> pos]

InOptions ==
  /\ call = "options"
  /\ Opt!Next
  /\ UNCHANGED <<call, current_start, res, delimVars, lineVars, docVars, instruction>>

InWords ==
  /\ call = "words"
  /\ Wrd!Next
  /\ UNCHANGED <<call, s_next, current_start, optVars, delimVars, lineVars, docVars, instruction>>

InDelim ==
  /\ call = "delim"
  /\ Dlm!Next
  /\ UNCHANGED <<text, s, wordVars, call, optVars, res, lineVars, docVars, kind, src, error>>

InLine ==
  /\ call = "line"
  /\ Cur!Next
  /\ UNCHANGED <<wordVars, buf, call, s_next, current_start, optVars, res, delimVars, docVars,
                 instruction>>

InDoc ==
  /\ call = "doc"
  /\ Doc!Next
  /\ UNCHANGED <<wordVars, call, s_next, optVars, res, delimVars, lineVars, instruction>>

-----------------------------------------------------------------------------
(* COPY: the words, of which the last is the destination (Store).           *)
OptionsOverCopy ==
  /\ call = "options" /\ pc = "done" /\ kind = "COPY"
  /\ call' = "words"
  /\ pc' = "word"
  /\ UNCHANGED <<text, s, has_space, s_next, current_start, optVars, res, delimVars, lineVars,
                 docVars, instruction>>
  /\ WordStarts

(* Faulty variant of WordsOver: the destination is enough.                  *)
WordsOverAnySource ==
  /\ call = "words" /\ pc \in {"done", "empty"}
  /\ IF res = <<>>
     THEN Fail("at_least_two_arguments", KeywordStart)
     ELSE call' = "sources" /\ UNCHANGED error
  /\ UNCHANGED <<scanning, pc, s_next, current_start, optVars, res, delimVars, lineVars, docVars,
                 kind, backslash, src>>

WordsOver ==
  /\ call = "words" /\ pc \in {"done", "empty"}
  /\ IF Len(res) < 2
     THEN Fail("at_least_two_arguments", KeywordStart)
     ELSE call' = "sources" /\ UNCHANGED error
  /\ UNCHANGED <<scanning, pc, s_next, current_start, optVars, res, delimVars, lineVars, docVars,
                 kind, backslash, src>>

(* The source of the next turn of the loop, as the bytes of its word.       *)
PathValue == res[Len(src) + 1].value
Path == [k \in DOMAIN PathValue |-> text[PathValue[k] + 1]]
AsPath == [delim |-> <<>>, value |-> PathValue]  \* no here-document

Announces(bytes, i) == At(bytes, i, {"lt"}) /\ At(bytes, i + 1, {"lt"})

SourceIsPath ==
  /\ call = "sources" /\ Len(src) < Len(res) - 1
  /\ ~Announces(Path, 0)
  /\ src' = Append(src, AsPath)
  /\ UNCHANGED <<scanning, call, pc, s_next, current_start, optVars, res, delimVars, lineVars,
                 docVars, kind, backslash, error>>

(* The delimiter is read from the word, from which its quotes and           *)
(* backslashes have not been taken, but its continuations have.             *)
SourceIsDelim ==
  /\ call = "sources" /\ Len(src) < Len(res) - 1
  /\ Announces(Path, 0)
  /\ call' = "delim"
  /\ Dlm!Starts(Path, 2)
  /\ UNCHANGED <<text, s, wordVars, optVars, res, lineVars, docVars, instruction>>

(* << and nothing after it is a path.                                       *)
DelimIsNone ==
  /\ call = "delim" /\ pc = "none" /\ kind = "COPY"
  /\ call' = "sources"
  /\ src' = Append(src, AsPath)
  /\ UNCHANGED <<scanning, pc, s_next, current_start, optVars, res, delimVars, lineVars, docVars,
                 kind, backslash, error>>

(* collect_here_doc goes on from s, where the line or the here-document     *)
(* before it ended.                                                         *)
DocStarts ==
  /\ call' = "doc"
  /\ UNCHANGED <<text, s, wordVars, s_next, optVars, res, delimVars, lineVars, instruction>>
  /\ Doc!Starts

DelimOverCopy == call = "delim" /\ pc = "here_doc" /\ kind = "COPY" /\ DocStarts

SourcesOver ==
  /\ call = "sources" /\ Len(src) = Len(res) - 1
  /\ call' = "done"
  /\ UNCHANGED <<scanning, pc, s_next, current_start, optVars, res, delimVars, lineVars, docVars,
                 instruction>>

-----------------------------------------------------------------------------
(* RUN: the delimiter is looked for where the arguments start, in the text. *)
AtDelim == Len(text) - s >= 5 /\ Announces(text, s)

OptionsOverRun ==
  /\ call = "options" /\ pc = "done" /\ kind = "RUN"
  /\ UNCHANGED <<text, s, wordVars, optVars, res, docVars, instruction>>
  /\ IF AtDelim
     THEN /\ call' = "delim"
          /\ Dlm!Starts(text, s + 2)
          /\ UNCHANGED lineVars
     ELSE /\ call' = "line"
          /\ Cur!Starts
          /\ UNCHANGED <<buf, s_next, current_start, delimVars>>

(* The arguments start after the delimiter, or at s if there is none.       *)
DelimOverRun ==
  /\ call = "delim" /\ pc \in {"here_doc", "none"} /\ kind = "RUN"
  /\ call' = "line"
  /\ s' = IF pc = "here_doc" THEN s_next ELSE s
  /\ Cur!Starts
  /\ UNCHANGED <<text, wordVars, buf, s_next, current_start, optVars, res, delimVars, docVars,
                 instruction>>

LineOverDoc ==
  /\ call = "line" /\ pc \in {"done", "empty"}
  /\ delim # <<>>
  /\ DocStarts

LineOver ==
  /\ call = "line" /\ pc \in {"done", "empty"}
  /\ delim = <<>>
  /\ call' = "done"
  /\ UNCHANGED <<scanning, pc, s_next, current_start, optVars, res, delimVars, lineVars, docVars,
                 instruction>>

-----------------------------------------------------------------------------
(* Both.                                                                    *)
DocOver ==
  /\ call = "doc" /\ pc = "done"
  /\ src' = Append(src, [delim |-> DelimBytes, strip_tab |-> strip_tab, start |-> doc.start,
                         end |-> doc.end, value |-> doc.value])
  /\ call' = IF kind = "COPY" THEN "sources" ELSE "done"
  /\ UNCHANGED <<scanning, pc, s_next, current_start, optVars, res, delimVars, lineVars, docVars,
                 kind, backslash, error>>

DocFails ==
  /\ call = "doc" /\ pc = "failed"
  /\ Fail("expected_here_doc_end", InFile(s))
  /\ UNCHANGED <<scanning, pc, s_next, current_start, optVars, res, delimVars, lineVars, docVars,
                 kind, backslash, src>>

(* The position of the error is that of the backslash or the end of what    *)
(* was read, in what was read: for a RUN the file, for a COPY the word.     *)
DelimError == IF kind = "RUN" THEN InFile(s_next) ELSE s_next

DelimFails ==
  /\ call = "delim" /\ pc \in {"open_escape", "open_quote"}
  /\ Fail(pc, DelimError)
  /\ UNCHANGED <<scanning, pc, s_next, current_start, optVars, res, delimVars, lineVars, docVars,
                 kind, backslash, src>>

Next ==
  \/ InOptions
  \/ InWords
  \/ InDelim
  \/ InLine
  \/ InDoc
  \/ OptionsOverCopy
  \/ WordsOver
  \/ SourceIsPath
  \/ SourceIsDelim
  \/ DelimIsNone
  \/ DelimOverCopy
  \/ SourcesOver
  \/ OptionsOverRun
  \/ DelimOverRun
  \/ LineOverDoc
  \/ LineOver
  \/ DocOver
  \/ DocFails
  \/ DelimFails

Spec == Init /\ [][Next]_vars /\ WF_vars(Next)

-----------------------------------------------------------------------------
(* The flags are the leading words of the line that start with two dashes,  *)
(* split at their first "=", even if a continuation runs through them       *)
(* (parse_options).                                                         *)
FlagsOfTheLine == call = "options" => Opt!FlagsOfTheLine

(* After the flags nothing of the line is lost and nothing of the next line *)
(* is read (parse_options).                                                 *)
RestIsLeft == call = "options" => Opt!RestIsLeft

(* The delimiter is its word without the quotes and backslashes that quote, *)
(* and what they leave open is an error (collect_here_doc_delim).           *)
DelimOfTheWord == call = "delim" => Dlm!DelimOfTheWord

(* The arguments: the words after the flags.                                *)
WordsWithout(words, flags) == InOrder(words \ ToSet(flags))
ArgWords == WordsWithout(LineWords(text), FlagWords(text))
BytesAt(bytes, positions) == [k \in DOMAIN positions |-> bytes[positions[k] + 1]]
BytesIn(bytes, positions) == BytesAt(bytes, Ordered(positions, MaxLen))
BytesOf(word) == BytesIn(text, word)

(* The delimiter that bytes announce at i, without its quotes.              *)
Announced(bytes, i) ==
  IF Announces(bytes, i) THEN BytesIn(bytes, Dlm!Unquoted(bytes, Dlm!DelimStart(bytes, i + 2))) ELSE <<>>
EndOfAnnounced(bytes, i) == Dlm!EndOfDelim(bytes, Dlm!DelimStart(bytes, i + 2))

(* A source is as its word says: a path, with all of its bytes, or a        *)
(* here-document with the delimiter the word announces.                     *)
IsOfWord(source, word, bytes) ==
  /\ source.delim = Announced(bytes, 0)
  /\ IF source.delim = <<>>
     THEN Spells(source.value, word)
     ELSE source.strip_tab = Dlm!StripsTabs(bytes, 2)

(* The sources of a COPY are the words after the flags but for the last,    *)
(* each a path or a here-document; with less than two words there are none. *)
SourcesOfCopy(args) ==
  /\ error.kind = "at_least_two_arguments" <=> Len(args) < 2
  /\ \A k \in DOMAIN src : IsOfWord(src[k], args[k], BytesOf(args[k]))
  /\ call = "done" => Len(src) = Len(args) - 1

(* A RUN has a here-document exactly if its arguments start with one, and   *)
(* five bytes at least are left; the other arguments start after it.        *)
DocOfRun(from, wanted) ==
  IF from + 5 > Len(text) \/ wanted = <<>>
  THEN src = <<>>
  ELSE /\ Len(src) = 1 /\ src[1].delim = wanted
       /\ src[1].strip_tab = Dlm!StripsTabs(text, from + 2)
       /\ arguments_start = EndOfAnnounced(text, from)
ArgsStart(args) == IF args = <<>> THEN Len(text) ELSE Min(args[1])
SourcesOfRun(from) == call = "done" => DocOfRun(from, Announced(text, from))

(* The paths and here-documents are those the words of the line announce    *)
(* (parse_add_or_copy, parse_run).                                          *)
SourcesOfTheLine ==
  call \in {"sources", "done", "failed"} =>
    IF kind = "COPY" THEN SourcesOfCopy(ArgWords) ELSE SourcesOfRun(ArgsStart(ArgWords))

(* Where the line ends: a RUN's goes on after its delimiter, which may hold *)
(* newlines if it is quoted.                                                *)
EndOfLine ==
  IF kind = "RUN" /\ delim # <<>>
  THEN arguments_start + After(SubSeq(text, arguments_start + 1, Len(text)))
  ELSE After(text)

(* The line of the terminator of a here-document that starts at from, and   *)
(* where the line after the k-th source is.                                 *)
TerminatorOf(from, source) == Min(Doc!Terminators(from, source.delim, source.strip_tab))
AfterSource(k) ==
  LET docs == {j \in 1..k : src[j].delim # <<>>} IN
  IF docs = {} THEN EndOfLine
  ELSE LET d == src[Max(docs)]
       IN Doc!AfterTerminator(TerminatorOf(d.start, d), d.delim, d.strip_tab)

IsDocFrom(from, source) ==
  LET last == TerminatorOf(from, source) IN
  /\ Doc!Terminators(from, source.delim, source.strip_tab) # {}
  /\ source.start = from
  /\ source.end = Doc!Tabs(last, source.strip_tab)
  /\ Spells(source.value, Doc!BodyUpTo(from, last, source.strip_tab))

(* Each here-document is the lines before the first that is its delimiter   *)
(* and nothing else, tabs stripped if asked for; it starts where the line   *)
(* of the instruction or the terminator of the one before it ends, and so   *)
(* does the next instruction.  It is an error exactly if a terminator is    *)
(* missing.                                                                 *)
DocsOfTheLines ==
  call \in {"sources", "done", "failed"} =>
    /\ \A k \in DOMAIN src :
         src[k].delim # <<>> => IsDocFrom(AfterSource(k - 1), src[k])
    /\ call = "done" => s = AfterSource(Len(src))
    /\ error.kind = "expected_here_doc_end" =>
         Doc!Terminators(AfterSource(Len(src)), DelimBytes, strip_tab) = {}

(* An error is reported on a line of the instruction or of its              *)
(* here-documents, never before it.                                         *)
File == Before \o text
InInstruction(pos) ==
  /\ Names(find_location_from_pos(pos, File), pos, File)
  /\ pos >= KeywordStart

(* ... but for the delimiter of a COPY, see DelimError.                     *)
DelimOfCopy == kind = "COPY" /\ error.kind \in {"open_escape", "open_quote"}
Located == call = "failed" /\ ~DelimOfCopy => InInstruction(error.pos)

(* Error::line, "Returns the line number at which the error was detected":  *)
(* it is a line of the instruction, whatever the error is.                  *)
LineOfTheError ==
  call = "failed" =>
    find_location_from_pos(error.pos, File).line >=
      find_location_from_pos(KeywordStart, File).line

(* parse_run and parse_add_or_copy return on every text: no call goes on    *)
(* for ever.                                                                *)
Terminates == <>(call \in {"done", "failed"})
=============================================================================
