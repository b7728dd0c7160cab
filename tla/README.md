# parse-dockerfile: models and proofs

parse-dockerfile turns a Dockerfile into a syntax tree whose every part carries
its span. It is sequential, keeps nothing between two calls and does no input or
output but in its command-line tool. What is hard in it is elsewhere: some
fifteen hand-written scanners step over the same text, each on a slice of its
own that is advanced, copied, tried and thrown away; a line may be broken
anywhere, in a keyword, between the dashes of a flag, inside of an escape; and
what `parse()` builds is taken for granted, with `unwrap` and `unreachable!`, by
methods that run much later. These modules model the scanners byte by byte and
the two drivers instruction by instruction, check them with TLC against what the
text says line by line, and prove the core of it with TLAPS for texts of any
length.

Paths and line numbers are those of `src/src/lib.rs` unless an other file is
named.

## The system

| Part | State it keeps | Operations | What makes it correct |
| --- | --- | --- | --- |
| `parse()`, `Dockerfile` (124-262) | the slice left, `instructions`, `stages`, `current_stage`, `stages_by_name` | one loop over the instructions, one over the stages; `global_args`, `stage`, `stages` | the first fault decides; stages tile the instructions; every named stage is found; no `unwrap` fails |
| `ParseIter` (992-1072) | `p.s`, `has_stage`, `in_onbuild` | `next()` | instructions in order, one error at most, then `None` for ever; agrees with `parse()` |
| parser directives (1079-1172) | `parser_directives`, `escape_byte`, `p.s` | `ParseIter::new` | those at the head of the text; none if one is repeated; the right escape byte for all that follows |
| continuations and newlines (2698-2803) | a slice | `consume_newline`, `consume_line_continuation`, `followup` | a physical line goes on exactly where the format says |
| string arguments (1383-1393, 2647-2696) | slice, start of the piece, buffer | ARG, ENV, LABEL, MAINTAINER, STOPSIGNAL, USER, WORKDIR | the value is the trimmed logical line; the next instruction starts after it |
| word lists (2582-2645) | the same, and the words | EXPOSE, VOLUME, ADD, COPY | the words of the logical line, no byte of the next one |
| shell form (2805-2828, 2918-2933) | slice, a flag | CMD, ENTRYPOINT, RUN, HEALTHCHECK CMD | the same end of line as the others |
| FROM (1604-1640) | slice, `token_slow`'s copy | image, AS, name | decided by the words of the line |
| flags (2152-2182) | slice, a second slice | `parse_options` | the leading words with two dashes; the rest untouched |
| exec form (2184-2371) | slice and the copy `tmp` | `parse_json_array`, `parse_json_hex_escape`, and the fallback of the callers | taken exactly if the logical line is a JSON array of strings, and no escape in it is broken twice in a row |
| here-documents (2463-2578) | slice, start of the piece, buffer | `collect_here_doc_delim`, `collect_here_doc` | the lines before the line of the delimiter |
| dispatch (1175-1380, 1643-2025) | `in_onbuild` | `parse_instruction` and one function per instruction | the keyword decides; ONBUILD is not nested |
| errors (`src/src/error.rs`) | none | `into_error`, `find_location_from_pos` | the line and column of the position |
| command-line tool (`src/src/main.rs`) | none | read, parse, print | - |

`parse()` and `parse_iter()` both start with `ParseIter::new`, which reads the
directives and skips to the first instruction. Each then calls
`parse_instruction` with the slice left, which matches the keyword and calls the
function of the instruction; that one calls `parse_options`, tries
`parse_json_array` on a copy, and reads the rest of the line with one of the line
readers; here-documents follow. All of them call `consume_line_continuation`.
The interaction is by the slice alone: whoever returns leaves it where the next
one starts, so that "where does this line end" is a contract between all of them
that no type states. Most of the properties below are about that contract.

There is no concurrency, nothing is persisted and nothing times out. The hard
behaviours are long legal sequences that reach a state nobody thought of, state
that is stale when an attempt has failed halfway, two copies of one rule that
come apart, loops that must move on, and off-by-ones at the end of the text.
`PROJECT.json` lists them as hazards, each at its line.

## The modules

### Instruction by instruction

* **Instructions** is what both drivers see: a text is the sequence of what
  `parse_instruction` returns, call after call (`Outcome`: an error, a FROM with
  or without a name, an ARG, any other instruction). It also defines which
  outcome is the first fault, which the promises below need. `text` is declared
  there: it is the one variable the drivers share.
* **ParseDom** is `parse()`, one action for each branch of its two loops, and
  the methods of `Dockerfile` as operators on its result. A position in
  `instructions` is the position of the outcome it came from.
* **ParseIter** is `next()`. The caller is the environment: any number of calls,
  also after an error and after the end.
* **ParseResult** and **PullResult** are the abstract specifications. The first
  is one step from a text to the only result it has; the second knows no more
  than what the last call returned. `ParsePromise` and `PullPromise` say that
  ParseDom and ParseIter implement them.
* **Parsers** extends both, on one text, and interleaves their steps. Where both
  have an operator of one name the iterator's starts with `Iter` (`IterInit`,
  `IterNext`, `IterSpec`).
* **Directives** is `ParseIter::new`, line by line: a line at the head of the
  text is a directive, a comment, blank, a continuation of nothing, or an
  instruction, in the escape byte it is written for.

### Byte by byte

* **Scanner** has the byte classes of `TABLE` and the scanners without state of
  their own. A text is a sequence of bytes and a slice is the position it starts
  at, which is what `text.len() - s.len()` is in the code. The escape byte in
  effect is the byte `"esc"`.
* **LogicalLine** is the reference: what a line means, told with sets of
  physical lines and no scanning at all. `Bytes(t)` are the bytes of the
  instruction's line with its continuations, comments and blank lines removed,
  and `After(t)` is where the next one starts.
* **ArgString**, **Words** and **CurrentLine** are the three line readers, one
  step per turn of a loop of the code. **LineReader** declares what the first and
  the last of them keep, the slice and where the call is; what ArgString has under
  the same name as CurrentLine starts with `Arg` (`ArgInit`, `ArgNext`, `ArgSpec`).
  **WordScanner** is what reads one word
  and the gap after it (`collect_until` and `consume_whitespaces`), with
  **Words**, **From** and **Options** as the loops around it; `pc` is where that
  loop is. What From has under the same name as Words starts with `From`
  (`FromInit`, `FromNext`, `FromSpec`), so that one module can extend both.
  **LogicalWords**
  says what the words of a logical line are, and which of them are flags: the
  set of the maximal sets of its bytes without whitespace between, in the order
  of their first bytes (`InOrder`).
* **JsonArray** reads the exec form on the copy `tmp`, hexadecimal escapes digit
  by digit in 16 bits, and drops or keeps the copy as the callers do.

### Here-documents: an instruction as a whole

* **HereDocDelim** is `collect_here_doc_delim`: quotes, backslashes and the dash,
  on whatever bytes it is given. **HereDoc** is `collect_here_doc`, one
  here-document from where it starts. Neither has a specification of its own:
  each has an operator `Starts`, which is the call, and `Next`.
* **HereDocs** composes them with Options, Words and CurrentLine into
  `parse_add_or_copy` and `parse_run`, from the flags to the end of the last
  here-document. The modules are instantiated on the same variables, so that
  they share `s`, `buf` and the locals as the functions share the slice; `call`
  says which function is running, and the actions of HereDocs are what happens
  between two calls: the least number of words, the destination (`Store`), the
  loop over the sources, where RUN looks for `<<`, and the errors. `Before` is
  the file before the arguments, in which errors must not be.
* **Location** is the arithmetic of `src/src/error.rs` that makes a line and a
  column of a position, and what a line and a column mean.

### Line by line

* **Dispatch** is `parse_instruction` with its eighteen keywords, letter by
  letter, over continuations or not, the loop around it, ONBUILD and
  `in_onbuild`, HEALTHCHECK and SHELL, and for each handler which form it tries
  first, what it does with an empty one and where it leaves off. What the line
  readers return is not scanned again: a handler takes the words of the line, its
  end and its array from LogicalWords and JsonArray, which is what the runs on
  the readers show them to return. So a text of Dispatch can be several
  instructions long. What follows the image of a FROM and here-documents do not
  occur in its texts; these are From's and HereDocs'.

A string in the modules byte by byte is the sequence of the positions of its bytes. So one
variable says both what a value is and where it comes from, and a property can
say "this value is those bytes of the line" without spelling it. In JsonArray a
character is such a position and what it stands for: the byte, the byte named by
an escape, or a code point.

Alternatives named `... Faulty variant of ...` are not part of any
specification. Each is what a plausible slip would make of the definition after
it, and shows that the property it is paired with in `PROJECT.json` notices.

## The runs

| Run | Checked | Bounds |
| --- | --- | --- |
| `dom` | `StagesTile`, `AccessorsTotal`, `NamesExact`, `ParsePromise` | all texts of up to 4 instructions, two names |
| `parsers` | `InOrder`, `Fused`, `PullPromise`, `SameInstructions`, `SameErrors` | all texts of up to 5 instructions, one name, any number of calls |
| `directives` | `EscapeConsistent`, `SectionMeaning`, `LeadingSkipped`, `NeverRevised` | all heads of up to 4 lines |
| `arg_string` | `MeansTheLine`, `ArgEndsWithTheLine`, `SpanHolds` | the texts of LineTexts |
| `words` | `WordsOfTheLine`, `EndsWithTheLine`, `SpansApart` | the same |
| `current_line` | `EndsWithTheLine`, `HoldsTheLine`, `CommentsAreBehind` | the same |
| `from` | `WordsDecide`, `LeavesTheNewline` | all texts of up to 4 bytes, and an image with up to 5 pieces after it |
| `json_array` | `EndsWithTheLine`, `SpansBetweenQuotes`, `ArrayOfTheLine`, `Terminates` | see below |
| `here_docs` | `FlagsOfTheLine`, `RestIsLeft`, `DelimOfTheWord`, `SourcesOfTheLine`, `DocsOfTheLines`, `Located`, `Terminates` | COPY and RUN on all flags of up to 4 bytes, or a dash with up to 4 pieces after it, all delimiters of up to 4 bytes over two alphabets, all bodies of up to 5 bytes after seven announcements, two of them with a newline inside of a RUN's quotes |
| `dispatch` | `InstructionsOfTheLines`, `ErrorOfTheLine` | every keyword in 9 spellings, with 7 gaps and 26 arguments, plain and after ONBUILD; pairs of instructions |
| `delim_error` | `LineOfTheError`, violated | the texts of `here_docs` |
| `arg_span` | `SpanTrimmedWithValue`, violated | the texts of LineTexts |

`dom`, `directives` and `arg_string` also check the type invariant of their
module.

What they show:

* `dom`: on every text `parse()` returns the one result the text determines.
  The stage ranges are disjoint and leave out nothing from the first FROM on, so
  that `global_args()`, `stage()` and `stages()` cannot panic, and a name finds
  its own stage even when there are stages without a name between.
* `parsers`: the iterator skips and repeats nothing and ends once; the two
  drivers, which implement the order of the instructions twice, agree but for
  reused names, which is what the doc of `parse_iter` says.
* `directives`: what is recorded is what the head of the text says; a repeated
  directive voids all, the escape byte included; an invalid escape is an error
  unless the directive has been given before.
* `arg_string`, `words`, `current_line`: the three readers agree with the
  logical line, and so with each other, on what is in it and on where it ends.
  The comment rule `consume_current_line` has of its own never applies.
* `from`: image, name and each of the three errors depend on the words of the
  logical line only, also where a continuation lies in AS. (`FROM x AS` and a
  space, or a carriage return, before the newline gives a stage with an empty
  name; without it is an error. The property says so.)
* `json_array`: a line is an exec form exactly if it is a JSON array of strings
  without its continuations (`IsArray`) and no escape in it has two continuations
  in a row inside of it (`BrokenTwice`), since the code steps over one there; and
  the strings are those JSON says. `IsRead` is the two together, and what
  Dispatch builds on. A tab between strings is whitespace, and in one it is a
  control character, which JSON does not allow.
* `here_docs`: the flags are the leading words that start with two dashes, and
  nothing is read of what follows them. A delimiter is its word without the
  quotes and backslashes that quote. The sources of a COPY are the words between
  the flags and the destination, each a path or a here-document; a RUN has a
  here-document exactly if its arguments start with one. A document is the lines
  before the first one that is its delimiter, and starts where the line of the
  instruction or the one before it ends; it is an error exactly if there is no
  such line, and the error is in the instruction. No text is read for ever.
* `dispatch`: which instruction a line is depends on its first word alone, case
  and continuations aside, and which form its arguments have on whether the rest
  of the logical line is an array that `parse_json_array` reads (`IsRead`): with
  an escape that is broken twice in a row it is a shell form or words, and for
  SHELL an error. The least numbers of arguments are those of the table in
  `src/tests/test.rs:118`, for all gaps and spellings, and inside of ONBUILD. The
  error is that of the first line that has one, and its line and column name the
  keyword, or the word or byte that is not what was expected, on whichever line
  it is (only where something is missing, merely a place in the logical line).
  A second ONBUILD further down is no nested one.
* `arg_span` finds a real flaw. `UnescapedString::trim_end` takes one off the
  end of the span for each byte it takes off the value, as if the two had the
  same bytes between them. For `ARG a \`, a newline, and nothing more, the value
  is `a` and the span ends between the backslash and its newline. `SpanHolds`
  says what does hold.
* `delim_error` finds an other one. For ADD and COPY the delimiter is read from
  the source's word, and the position of an unterminated quote or escape is one
  in the word; `into_error` looks it up in the whole text. For `FROM a`, a
  newline and `COPY <<"a b`, `Error::line` is 1. `Located` says what holds of all
  other errors.

Some things the properties had to say, and a reader may not expect:

* The delimiter of a RUN is read from the text, so that a quote or a backslash
  in it runs over the end of the line, while the one of a COPY ends with its word
  in any case. The line of such a RUN is what follows the delimiter, and its
  terminator is as many lines as the delimiter.
* `RUN <<E` with less than five bytes left is a command (1860); ADD and COPY have
  no such limit.
* `expand` stays true for a delimiter that is quoted by backslashes only.
* `CMD []` and `VOLUME []` are accepted, `ENTRYPOINT []` and `RUN []` are not; the
  test table says so as well.
* `HEALTHCHECK NONEx` is refused for its arguments and not as an unknown word.
* `HEALTHCHECK CMDx` is refused at the `x`, also if continuations lie before it
  and the `x` is on an other line: they have been stepped over in search of
  whitespace (1664). Of any other word the position is behind its first letter if
  that is a C or an N, and else at it.
* ONBUILD and a newline is an unknown instruction, at the newline; ONBUILD and
  the end of the text is a missing one, at the keyword.

### Bounds

The scanners look ahead by a bounded amount but for runs of equal bytes, and
seven bytes hold a word, a continuation, a comment or blank line, and a word
after it, which is every pair of turns of a loop. LineTexts therefore has all
texts of up to 7 bytes over an ordinary byte, a space, a newline, `#` and the
escape byte, and all of up to 6 with the carriage return and the form feed in
place of `#`: a carriage return alone, before a line feed, after an escape byte
and at the end of the text all occur. Flags, FROM and arrays need longer texts,
and these are put together from pieces that include every byte on its own and
the longer ones that matter (` AS`, `A` and `S` with a continuation between, a
whole second flag, `","`, four hexadecimal digits with a continuation between
two of them, both surrogates). In `here_docs` flags, delimiters and bodies are
varied one at a time, each with the others fixed: what one call leaves to the
next is the position and no more. The delimiters include a newline, both quotes
and the backslash as the escape byte or not; two delimiters of which one is a
prefix of the other, tabs stripped and not, a carriage return and a missing last
newline all occur. `dispatch` has each of the eighteen keywords whole, in lower
case, broken after its first and second letter, a letter short and a letter too
long, with none, one or two continuations before the letter that is too many; each gap
that ends, continues or breaks off the line; and as arguments
none, one, two, an empty, a short, a nested and an unclosed array, with and
without a flag, and arrays with an escape of one letter or of four digits that is whole,
broken once or broken twice in a row, the backslash being the escape byte or not. Its pairs are six instructions that leave off in the three ways
there are (before a newline, after it, at the end), with seven things between.
In `json_array` the backslash is the escape byte
or is not, which the code treats as one case and Dockerfiles do not: it is not
exactly in the texts that contain the byte `bs`. Four
instructions hold two stages, a global argument and a fault; with two names a
name is reused, or not. Names and values beyond that are opaque to the code.

`MaxLen` bounds texts in the runs only. The theorems hold for every `MaxLen`.

### Fairness

`Spec` of the byte-level modules has `WF_vars(Next)`: a call is one sequential
computation that nothing waits for or suspends, so that as long as it has a step
to take it takes one. It is needed for `Terminates` (`json_array`, `here_docs`) only. Nothing is assumed of
the callers of `next()`: ParseIter and Parsers have no fairness. A run with
`CHECK_DEADLOCK FALSE` is one whose call has returned; `parsers` never stops,
since `next()` can be called for ever, and checks deadlock.

## What is proved

All theorems hold for every value of the constants: texts of any length, any set
of names, any bytes. Each module `X_proofs` extends the module it is about; its
`IInv` is the inductive invariant, with one conjunct for each phase, proved of
`Init` and then action by action. None of the properties is inductive by itself.

**The drivers** (Parsers_proofs).

* `TypeCorrect`, `TileCorrect`, `AccessorsCorrect`, `NamesCorrect`: that stages
  tile depends on what `current_stage` says about the instructions since, and that
  the accessors are total depends on where the first FROM is. `Inv` says, for each
  phase of `parse()`, how far the text has been read without a fault, that the
  closed stages and the open one are exactly those of the FROMs so far, and that
  the names indexed are those of the stages visited.
* `PromiseCorrect`, `PullCorrect`: the refinements, branch by branch. Every step
  of `parse()` stutters but the five that return.
* `IterTypeCorrect`, `OrderCorrect`, `FuseCorrect`: an iterator that has reported
  an error, or has returned `None`, has no text left and `has_stage` set (`Sound`).
* `InstructionsAgree`, `ErrorsAgree`: the two drivers, in any interleaving. What
  they agree on is the text, so each is tied to it: `Blamed` and `IterBlamed` say
  that an error is that of the first fault, or, if there is none, of a missing
  stage, and for `parse()` only then of a name. Two first faults are the same one.

**The head of the text** (Directives_proofs): `TypeCorrect`, `EscapeCorrect`,
`SectionCorrect`, `NeverRevisedCorrect` (an action property), `LeadingCorrect`. The
strengthening relates what is recorded to the prefix of the head read so far.

**The reference** (LogicalLine_proofs) holds the lemmas that tie scanning to it.
`Walk(t, i)` says that a reader that has arrived at `i` is on a line of the
instruction that counts, not behind its escape character. One byte, or one
continuation with all that `followup` passes over, leads from a walk to a walk;
the bytes in between do not belong to the line; a walk at a newline or at the end
of the text is at the end of the logical line. `Divided(t, q, n)` says that the
spans `q` are those of the words before `n`, and `Scanned` what `collect_until`
has of the word it is in; a word scanned and the gap after it make one span more.
(`Collecting` is the part of it that also holds of a piece of a word, such as the
name or the value of a flag.) `WordsComplete` says that what divides a text up to a gap can be
completed to what divides all of it, and `WordsAre` that those spans are its words.
It needs the order of sets by their first bytes without an induction over the
words: of two different divisions, take the first word they differ in.
`FlagWordsAre` is the same of the flags: spans that are flags, before a word that
is none or the end of the line, are the flags of the text.

**The line readers.**

* LineReaders_proofs, on ArgString: `TypeCorrect`, `MeaningCorrect`, `ArgEndCorrect`, `SpanCorrect`.
  While bytes are collected `IInv` says that the buffer and the piece being scanned
  are, in order, just the bytes of the logical line from the start to where the
  reader is. `SpanCorrect` needs that positions in a value are increasing: between
  the last byte kept and the end of the value there are at most as many bytes as
  between their positions, and so the span is never moved back too far. That is
  also why the subtraction in `trim_end` cannot underflow (`TypeCorrect`).
* WordReaders_proofs, on Words: `TypeCorrect`, `WordsCorrect`, `EndCorrect`,
  `SpansCorrect`. In each phase the list divides the text up to the reader, and it
  is known whether whitespace parts the last word from what follows: without that
  a word could be a piece of one.
* LineReaders_proofs, on CurrentLine: `EndCorrect`, `HoldsCorrect`, `CommentsCorrect`. The last one
  shows that a branch of `consume_current_line` is dead: wherever it tests for a
  `#`, only whitespace lies between there and the start of a line that `followup`
  did not skip, and it skips those that are comments.
* WordReaders_proofs, on From: `DecideCorrect`, `NewlineCorrect`. `FromInv`
  carries, as an existential, the spans of the words before the reader: one behind the image,
  two behind AS, three behind the name. `token_slow` matches a letter, perhaps a
  continuation, and a letter, which is one word of two bytes of the line.
* JsonArray_proofs: `EndCorrect`, `SpansCorrect`, `ScalarCorrect`. That the reader
  is on a walk is not inductive here: the code steps over one continuation inside
  of an escape, and where two follow each other takes the escape byte of the
  second for a byte. `Stuck` is where it is then, before whitespace and a newline,
  which no string holds, so that such a text is not accepted. `ScalarCorrect` says
  that all that hexadecimal escapes are decoded to is a code point and no
  surrogate: the `unwrap` of `char::from_u32` (2368) cannot fail and the `None` of
  the other call (2362) never occurs. `HexInv` bounds the digits read so far, which
  is why no bit is shifted out of 16.
* JsonArray_proofs, `ArrayCorrect`: the line is accepted exactly if, its
  continuations removed, it is a JSON array of strings and no escape in it is
  broken by two continuations in a row, and the strings are those
  JSON says, character by character. The reference knows nothing of a scan: it
  takes the logical line as a sequence, tells an escape from an escaped backslash
  by the parity of the backslashes before it, pairs surrogates by what is six
  bytes on, and looks at the bytes between two quotes as a set. `ParseInv` ties
  the scanner to it: it carries, as an existential, the place `k` in the line that
  the reader is at and the number `j` of the quotes behind it, and says of each
  phase what has been read up to there. Between strings (`GapRead`) that is the bytes
  around them; in one (`StringRead`) that what is collected and what is being scanned are
  together the characters of the bytes since the last quote; in a hexadecimal
  escape (`EscapeRead`, `DigitsRead`) where it starts, that the high half, if
  there is one, is that of a whole escape there, and what the digits so far are.
  Parity and pairs need an invariant of their own, `Clean`: no escape that starts
  before `k` reaches over it, so that the backslash at `k` is not escaped
  (`CleanUnescaped`) and no pair can have started six bytes before (`NoPairBefore`). A
  reader that is `Stuck` is on a line that is lost already (`Doomed`), and so is
  one that rejects: each byte it can stop at is shown to break the array, or to follow
  two continuations in a row. That an array that is accepted is broken so nowhere
  needs the converse, `WholeInv`: of the escapes already read, and of the part already read of
  the one being read, no two bytes have two continuations between them, since the
  one `Continuation` that is called there steps over one marker and no more
  (`WalkContinued`). The last lemmas say that what is
  said of the line stays as it was, because the text never changes.

**Flags and errors** (HereDocs_proofs).

* `LocatedCorrect`. `LocationNames` is about the arithmetic of
  `src/src/error.rs` alone: of any text and any position in it, its end included,
  the line is the number of the newlines before it and one, the column is counted
  from the last of them, and there is no other line and column that name that
  position. `PosInv` is what keeps positions in what they are positions of while
  the calls hand the slice on: `s` in the text, `s_next` in `full`, which is the
  text for RUN and a word for COPY. That is why the errors of an open delimiter of
  COPY are excepted, and the only ones (`delim_error`).
* `FlagsCorrect`, `RestCorrect`. `FlagsInv` carries the spans of the flags read.
  Inside of one (`InFlag`) it knows the second dash, which may be several
  continuations behind the first, and that no "=" has been met since, or which
  was the first; behind one, whether whitespace has parted it from what follows:
  if not, the line is over, and the loop must not take a dash there for a flag.
  At a word that is no flag `DashAlone` needs that the byte it stopped at is the
  next one of the line.

* `DelimCorrect`. `DelimInv` is `Reading` while bytes are read: the quote that is
  open is the one the reference finds open at that position, no backslash
  escapes it, nothing before it ends the delimiter, and the string is the bytes
  kept up to `current_start` while all from there on are to be kept. `Escaped`
  counts the backslashes before a byte; `EscNext` is how one byte changes its
  parity, by the cardinality of the set with one position more. `Quoted` is a
  recursive function: that one exists is shown by the least position up to which
  none does (`OpenExists`). `expand` alone is not inductive, since a quote that is
  closed is none that opens: while one is open `expand` is false.
* `DocsCorrect`, by four invariants of which each rests on the ones before.
  `WordsInv` and `RunInv` say where the line ends. For a COPY it is the walk of
  `Words` resumed where the flags end, with the flags as the first words
  (`ArgsFrom` is what parse_options leaves for it). For a RUN it is the walk of
  `CurrentLine`, behind the delimiter if there is one: that is the walk of the
  rest of the text taken alone, and the `Left` lemmas say that a newline, a
  comment and a continuation are the same there, shifted. `DocInv` is of one
  here-document: no line before the position is the delimiter, and the pieces
  kept are what those lines hold, up to the tabs. That a delimiter may hold
  newlines is why a line ends the document if the delimiter is followed by *a*
  newline, and not by its own. `ChainInv` puts one document behind the other,
  with paths between them.
* `SourcesCorrect`. `ArgsAre` says that the words behind the spans of the flags
  are the arguments, in order: for a COPY those of `WordsInv`, so that the k-th
  source is of the k-th argument, and for a RUN the first starts where the flags
  end, unless the line is over there (`StartsOfArgs`). The bytes of a word are
  those of its value because a set of positions has one increasing enumeration
  (`OrderedIs`). `CopyInv` says of every source read, and of the one being read,
  that it is as its word announces; `RunSourceInv` follows the one of a RUN from
  `AtDelim` to the end. Both rest on what collect_here_doc_delim makes of whatever it is
  given: a delimiter that is empty is none, and a COPY takes that word for a path.

HereDocs has its calls by INSTANCE. `OptScans`, `OptReference` and the like say
that what a module instantiated calls a continuation, a word or a flag is what
HereDocs itself calls one, by expanding both.

**The dispatch** (Dispatch_proofs): `InstructionsCorrect`, `ErrorCorrect`, for
texts of any number of instructions. The invariant is short. `LinesAre` says that
what has been returned is the logical lines before `Line`, where the loop has got
to; `LineIs` that a line starts there, with no whitespace and no continuation in
front, or the text ends; then, phase by phase, `Sought` says which keyword is read, that of the
line or behind ONBUILD the one after it (`Inner`), `Read` that it is the first word
and that the gap after it is passed, and `AtReturn` that what is returned is the
line and that the loop will find the next one from there. The work is in tying the
reference, which tells a line by sets of physical lines, to a scan that
starts anywhere in it:

* The loops are a recursive function with no bound of its own (`Stays`). That one
  exists is proved, and that it stops in every set that it starts in and no step
  leaves (`StaysIs`).
* `On` and `Held` are the reference told in positions of the text instead of the
  line's own; `OnSuffix` says that what is read from a place in a line on is the same
  if the line starts there, so that the words behind a keyword, or behind flags,
  are the other words of the line (`ArgsAt`).
* `TokenIs` is of `token` and `token_slow`: letters with continuations between
  them are matched exactly if the first word spells them, or starts with them. The
  eighteen keywords are told apart by their first three letters, so that the order in
  which they are tried does not matter (`KeywordIsName`).
* `StringsIs` and `NotAnArray`: the array that is tried at the arguments is the
  one of the line, and what `is_maybe_json` turns away is none.
* `NeitherPosIs`: where HEALTHCHECK gives up is the byte of the word that makes it
  neither CMD nor NONE. `TokenOf` says that the continuations stepped over behind CMD end
  at the fourth byte of the word (`Behind`). `PastNoneIs` says the same of what NONE
  does not accept: the fifth byte of its word, or else the next word.
* `NextIs`: the loop starts the next instruction at the first byte behind the line
  that is in no comment and no blank line, whether the handler has left the newline
  (FROM, HEALTHCHECK NONE) or taken it.
* For each handler one lemma, by the form its arguments have and by its errors;
  that the kind, the position and the location are right is part of it.

The assumptions are the named ones of Scanner, Instructions, ParseDom,
Directives and HereDocs: bounds are numbers, inputs are sequences of bytes no
longer than the bound, and a value that stands for "none" is not one of the
others. TLC evaluates them in the runs of the modules that extend these.

### Model-checked only

* Liveness: `Terminates` of JsonArray and HereDocs. The prover does not reason
  about what fairness makes happen. Every other property of the runs that pass is a theorem.
* What is refuted: `LineOfTheError` and `SpanTrimmedWithValue` have counterexamples.

## What is not modelled

* The wording of errors, which reads the keyword back from the text.
* The exec form of ADD, COPY and RUN next to here-documents: HereDocs has no
  bracket among its bytes. An array excludes here-documents in the code, and that
  it is tried before `<<` is looked for is in Dispatch.
* Which character each one-letter escape of JSON is, and the slash: to the
  control of `parse_json_array` they are the same.
* `Cow` and the vectors' capacities: whether a value is borrowed is not told
  apart from what it is.
* The command-line tool, serde's output and the code generator: input and
  output, or generated code.
* UTF-8. Scanners compare bytes with ASCII bytes only, and every other byte is an
  ordinary one to all of them.

## Plan

1. Done: the drivers (ParseDom, ParseIter, Parsers and their promises),
   Directives, the line readers and their reference, FROM, exec form, ADD, COPY
   and RUN with flags and here-documents, the dispatch, locations; and proofs of
   every property of theirs that a run checks but liveness.
2. Parsers over Dispatch in place of Instructions: that the outcomes the drivers
   see are those of the logical lines.
3. Dispatch over the line readers in place of their references, which would make
   one specification of `parse_instruction` down to the byte.
