-------------------------------- MODULE Dispatch --------------------------------
(***************************************************************************)
(* parse_instruction and the loop around it: which instruction a line is,   *)
(* which form its arguments have, when there are too few of them, and       *)
(* ONBUILD, whose argument is an instruction.                               *)
(*                                                                          *)
(* What reads the arguments is taken as a whole here, as the modules of     *)
(* these readers show it to be: a line ends at After, its strings and words *)
(* are those of LogicalWords, and its array is JSON's, unless an escape in  *)
(* it is broken twice in a row (JsonArray).  Here-documents are left to     *)
(* HereDocs, and what follows the image of a FROM to From.                  *)
(*                                                                          *)
(* A letter in upper or lower case is a byte; "1" is any other.  In an      *)
(* array "n" and "u" are the letters of escapes, "0", "1" and "A" to "F"    *)
(* hexadecimal digits.  "bs" is a backslash that is not the escape byte, as *)
(* in JsonArray.                                                            *)
(***************************************************************************)
EXTENDS LogicalWords, Location

VARIABLES
  text,        \* what follows the parser directives; never changes
  s,           \* the position reached
  pc,          \* "loop", "instruction", "arguments", "none" or "return", then "end" or "failed"
  in_onbuild,
  keywords,    \* where the keywords of the instruction start
  instruction, \* the last of them
  form,        \* how its arguments were read
  instructions,
  error

vars == <<text, s, pc, in_onbuild, keywords, instruction, form, instructions, error>>
never == <<text, instructions, error>>

(* In the order in which they are compared.                                 *)
Keywords == <<"ARG", "ADD", "COPY", "CMD", "ENV", "EXPOSE", "ENTRYPOINT", "FROM", "HEALTHCHECK",
              "LABEL", "MAINTAINER", "ONBUILD", "RUN", "SHELL", "STOPSIGNAL", "USER", "VOLUME",
              "WORKDIR">>

Letters == [
  ARG |-> <<"A", "R", "G">>, ADD |-> <<"A", "D", "D">>,
  COPY |-> <<"C", "O", "P", "Y">>, CMD |-> <<"C", "M", "D">>,
  ENV |-> <<"E", "N", "V">>, EXPOSE |-> <<"E", "X", "P", "O", "S", "E">>,
  ENTRYPOINT |-> <<"E", "N", "T", "R", "Y", "P", "O", "I", "N", "T">>,
  FROM |-> <<"F", "R", "O", "M">>,
  HEALTHCHECK |-> <<"H", "E", "A", "L", "T", "H", "C", "H", "E", "C", "K">>,
  LABEL |-> <<"L", "A", "B", "E", "L">>,
  MAINTAINER |-> <<"M", "A", "I", "N", "T", "A", "I", "N", "E", "R">>,
  ONBUILD |-> <<"O", "N", "B", "U", "I", "L", "D">>, RUN |-> <<"R", "U", "N">>,
  SHELL |-> <<"S", "H", "E", "L", "L">>,
  STOPSIGNAL |-> <<"S", "T", "O", "P", "S", "I", "G", "N", "A", "L">>,
  USER |-> <<"U", "S", "E", "R">>, VOLUME |-> <<"V", "O", "L", "U", "M", "E">>,
  WORKDIR |-> <<"W", "O", "R", "K", "D", "I", "R">>,
  NONE |-> <<"N", "O", "N", "E">>]

(* TO_UPPER8; the lower case letters are those texts are made of.           *)
Capital == [g |-> "G", l |-> "L", m |-> "M", n |-> "N", o |-> "O", u |-> "U"]
Upper(b) == IF b \in DOMAIN Capital THEN Capital[b] ELSE b

-----------------------------------------------------------------------------
(* token: the letters of a keyword from i on.                               *)
Token(i, word) ==
  /\ i + Len(word) <= Len(text)
  /\ \A k \in DOMAIN word : Upper(text[i + k]) = word[k]

(* A loop of the scanners: step by step from i on, until one does not move. *)
Stays(step, i) ==
  LET end[j \in 0..Len(text)] == IF step[j] = j THEN j ELSE end[step[j]]
  IN end[i]

PastContinuations(i) == Stays([j \in 0..Len(text) |-> Continuation(text, j)], i)

(* token_slow: the same, continuations between the letters.  It is where    *)
(* the keyword ends, or NoToken.                                            *)
NoToken == Len(text) + 1
TokenSlow(i, word) ==
  LET end[k \in 0..Len(word)] ==
        IF k = 0 THEN i
        ELSE IF end[k - 1] = NoToken THEN NoToken
        ELSE LET here == PastContinuations(end[k - 1]) IN
             IF here < Len(text) /\ Upper(text[here + 1]) = word[k] THEN here + 1 ELSE NoToken
  IN IF Len(text) - i < Len(word) THEN NoToken ELSE end[Len(word)]

(* The keyword at i, of which the first letter has been read, and its end.  *)
TokenEnd(i, name) ==
  LET rest == Tail(Letters[name]) IN
  IF Token(i + 1, rest) THEN i + 1 + Len(rest) ELSE TokenSlow(i + 1, rest)

StartsLike(i, name) == i < Len(text) /\ Upper(text[i + 1]) = Letters[name][1]

(* The keywords that match, in the order in which they do: all are compared *)
(* as they are, and only then letter by letter.                             *)
Candidates(i) == {k \in DOMAIN Keywords : StartsLike(i, Keywords[k])}
Fast(i) == {k \in Candidates(i) : Token(i + 1, Tail(Letters[Keywords[k]]))}
Slow(i) == {k \in Candidates(i) : TokenSlow(i + 1, Tail(Letters[Keywords[k]])) # NoToken}
KeywordsAt(i) == IF Fast(i) # {} THEN Fast(i) ELSE Slow(i)

(* consume_whitespaces and consume_whitespaces_or_is_empty_line: where they *)
(* end, and what the latter returns.                                        *)
Gap(i) ==
  Stays([j \in 0..Len(text) |->
           IF At(text, j, Whitespace) THEN j + 1 ELSE Continuation(text, j)], i)
Separated(i) ==
  LET here == PastContinuations(i) IN
  here = Len(text) \/ At(text, here, Whitespace \cup {"lf"})

(* consume_comments_and_whitespaces                                         *)
NextInstruction(i) ==
  Stays([j \in 0..Len(text) |->
           IF At(text, j, Whitespace \cup PossibleLine) THEN j + 1
           ELSE IF At(text, j, {"hash"}) THEN NextLine(text, j + 1)
           ELSE Continuation(text, j)], i)

-----------------------------------------------------------------------------
(* What is read from s on: the words of the line, and where it ends.        *)
Rest(i) == SubSeq(text, i + 1, Len(text))
WordsAt(i) == InOrder(LineWords(Rest(i)))
LineEndAt(i) == i + After(Rest(i))
Empty(i) == WordsAt(i) = <<>>

(* parse_options: past the flags and the whitespace after them.             *)
PastFlags(i) ==
  LET flags == FlagWords(Rest(i)) IN
  IF flags = <<>> THEN i ELSE Gap(i + Max(Last(flags)) + 1)

(* is_maybe_json and parse_json_array: the number of strings, or NoArray.   *)
Backslash == IF "bs" \in ToSet(text) THEN "bs" ELSE "esc"
Array == INSTANCE JsonArray WITH
  backslash <- Backslash, s <- 0, tmp <- 0, pc <- "end", start <- 0, word_start <- 0,
  buf <- <<>>, res <- <<>>, letter <- 0, digits <- 0, n <- 0, high <- 0
NoArray == MaxLen + 1
MaybeJson(i) == At(text, i, {"open"}) /\ ~At(text, i + 1, {"open"})
StringsOf(line, quotes, markers) ==
  IF Array!IsRead(line, quotes, markers) THEN Len(quotes) \div 2 ELSE NoArray
StringsIn(line, markers) ==
  StringsOf(line, Ordered(Array!Unescaped(line, "quote"), Len(line) + 1), markers)
ArrayOf(i, bytes, markers) ==
  StringsIn([k \in DOMAIN bytes |-> i + bytes[k]], {i + m : m \in markers})
ArrayAt(i) == ArrayOf(i, Ordered(Bytes(Rest(i)), Len(Rest(i))), Markers(Rest(i)))
Strings(i) == IF MaybeJson(i) THEN ArrayAt(i) ELSE NoArray

-----------------------------------------------------------------------------
Init ==
  /\ text \in Inputs
  /\ s = NextInstruction(0)
  /\ pc = "loop"
  /\ in_onbuild = FALSE
  /\ keywords = <<>>
  /\ instruction = "ARG"
  /\ form = "none"
  /\ instructions = <<>>
  /\ error = [kind |-> "none", pos |-> 0]

(* The loop of parse() and of the calls of next().                          *)
Loop ==
  /\ pc = "loop"
  /\ pc' = IF s = Len(text) THEN "end" ELSE "instruction"
  /\ keywords' = <<>>
  /\ UNCHANGED <<never, s, in_onbuild, instruction, form>>

Fail(kind, pos) ==
  /\ pc' = "failed"
  /\ error' = [kind |-> kind, pos |-> pos]
  /\ UNCHANGED <<text, in_onbuild, keywords, instruction, form, instructions>>

(* Once a keyword has matched, no other is looked for.                      *)
Found(matching) ==
  /\ matching # {}
  /\ Separated(TokenEnd(s, Keywords[Min(matching)]))

KeywordIs(matching) ==
  /\ Found(matching)
  /\ instruction' = Keywords[Min(matching)]
  /\ keywords' = Append(keywords, s)
  /\ s' = Gap(TokenEnd(s, instruction'))
  /\ pc' = "arguments"
  /\ UNCHANGED <<never, in_onbuild, form>>
Keyword == pc = "instruction" /\ KeywordIs(KeywordsAt(s))

UnknownInstruction ==
  /\ pc = "instruction"
  /\ ~Found(KeywordsAt(s))
  /\ Fail("unknown instruction", s)
  /\ UNCHANGED s

(* The handler of an instruction returns Ok.                                *)
Return(read, end) ==
  /\ pc' = "return"
  /\ form' = read
  /\ s' = end
  /\ UNCHANGED <<never, in_onbuild, keywords, instruction>>

(* at_least_one_argument and its like: the position is the keyword's.       *)
Start == Last(keywords)
ReturnUnless(missing, kind, read, end) ==
  IF missing THEN Fail(kind, Start) /\ UNCHANGED s ELSE Return(read, end)

(* The array is tried first, and anything else is read in the other form.   *)
Form(strings, other) == IF strings = NoArray THEN other ELSE "exec"
Missing(strings, least, missing) == IF strings = NoArray THEN missing ELSE strings < least
Exec(strings, least, missing, kind, other, end) ==
  ReturnUnless(Missing(strings, least, missing), kind, Form(strings, other), end)

Handles(names) == pc = "arguments" /\ instruction \in names

-----------------------------------------------------------------------------
StringArgument ==
  /\ Handles({"ARG", "ENV", "LABEL"})
  /\ ReturnUnless(Empty(s), "at least one argument", "string", LineEndAt(s))

StringArgumentOnly ==
  /\ Handles({"MAINTAINER", "STOPSIGNAL", "USER", "WORKDIR"})
  /\ ReturnUnless(Empty(s), "exactly one argument", "string", LineEndAt(s))

Expose ==
  /\ Handles({"EXPOSE"})
  /\ ReturnUnless(Empty(s), "at least one argument", "words", LineEndAt(s))

(* An empty array is fine, no argument is not.                              *)
Volume ==
  /\ Handles({"VOLUME"})
  /\ Exec(Strings(s), 0, Empty(s), "at least one argument", "words", LineEndAt(s))

(* Store: the last string or word is the destination.                       *)
AddOrCopyAt(i) ==
  Exec(Strings(i), 2, Len(WordsAt(i)) < 2, "at least two arguments", "words", LineEndAt(i))
AddOrCopy == Handles({"ADD", "COPY"}) /\ AddOrCopyAt(PastFlags(s))

(* CMD accepts everything.                                                  *)
Cmd ==
  /\ Handles({"CMD"})
  /\ Return(Form(Strings(s), "shell"), LineEndAt(s))

Entrypoint ==
  /\ Handles({"ENTRYPOINT"})
  /\ Exec(Strings(s), 1, Empty(s), "at least one argument", "shell", LineEndAt(s))

(* An empty shell form is fine, an empty array is not.                      *)
RunAt(i) == Exec(Strings(i), 1, FALSE, "at least one argument", "shell", LineEndAt(i))

(* Faulty variant of Run: the array is tried before the flags.              *)
RunArrayFirst == Handles({"RUN"}) /\ RunAt(s)

Run == Handles({"RUN"}) /\ RunAt(PastFlags(s))

(* No other form is tried.                                                  *)
Shell ==
  /\ Handles({"SHELL"})
  /\ IF MaybeJson(s) /\ Strings(s) # NoArray
     THEN ReturnUnless(Strings(s) = 0, "at least one argument", "exec", LineEndAt(s))
     ELSE /\ Fail(IF MaybeJson(s) THEN "invalid JSON" ELSE "expected JSON array", s)
          /\ UNCHANGED s

(* The newline is left to NextInstruction.  No second word is AS here.      *)
FromImageAt(i, words) ==
  CASE words = <<>> -> Fail("at least one argument", Start) /\ UNCHANGED s
    [] Len(words) = 1 -> Return("words", Gap(i + Max(words[1]) + 1))
    [] OTHER -> Fail("expected AS", i + Min(words[2])) /\ UNCHANGED s
FromImageWords(i) == FromImageAt(i, WordsAt(i))
FromImage == Handles({"FROM"}) /\ FromImageWords(PastFlags(s))

-----------------------------------------------------------------------------
(* HEALTHCHECK: CMD and its command, or NONE and nothing else.              *)
TokenAt(i, name) == IF StartsLike(i, name) THEN TokenEnd(i, name) ELSE NoToken

CmdAt(i) == Exec(Strings(i), 1, FALSE, "at least one argument", "shell", LineEndAt(i))
HealthcheckCmd ==
  /\ Handles({"HEALTHCHECK"})
  /\ LET after == TokenAt(PastFlags(s), "CMD") IN
     after # NoToken /\ Separated(after) /\ CmdAt(Gap(after))

NoneAt(i) ==
  IF i < Len(text) /\ ~At(text, i, {"lf"})
  THEN Fail("NONE accepts no arguments", i) /\ UNCHANGED s
  ELSE Return("none", i)
HealthcheckNone ==
  /\ Handles({"HEALTHCHECK"})
  /\ LET after == TokenAt(PastFlags(s), "NONE") IN
     after # NoToken /\ NoneAt(Gap(after))

(* The position is past what has matched: the first letter, or all of CMD   *)
(* and the continuations that were looked over for whitespace.              *)
ExpectedCmdOrNone(i, cmd, pos) ==
  /\ TokenAt(i, "NONE") = NoToken
  /\ cmd # NoToken => ~Separated(cmd)
  /\ Fail("expected CMD or NONE",
          IF cmd # NoToken THEN pos
          ELSE IF StartsLike(i, "CMD") \/ StartsLike(i, "NONE") THEN i + 1
          ELSE i)

(* Faulty variant of NeitherAt: the position is the end of CMD.             *)
NeitherAtToken(i, cmd) == ExpectedCmdOrNone(i, cmd, cmd)

NeitherAt(i, cmd) == ExpectedCmdOrNone(i, cmd, PastContinuations(cmd))
HealthcheckNeither ==
  /\ Handles({"HEALTHCHECK"})
  /\ LET i == PastFlags(s) IN NeitherAt(i, TokenAt(i, "CMD"))
  /\ UNCHANGED s

-----------------------------------------------------------------------------
OnbuildTwice ==
  /\ Handles({"ONBUILD"})
  /\ in_onbuild
  /\ Fail("ONBUILD ONBUILD", Start)
  /\ UNCHANGED s

(* parse_instruction is called for what follows.                            *)
Onbuild ==
  /\ Handles({"ONBUILD"})
  /\ ~in_onbuild
  /\ s < Len(text)
  /\ in_onbuild' = TRUE
  /\ pc' = "instruction"
  /\ UNCHANGED <<never, s, keywords, instruction, form>>

OnbuildNothing ==
  /\ Handles({"ONBUILD"})
  /\ ~in_onbuild
  /\ s = Len(text)
  /\ pc' = "failed"
  /\ error' = [kind |-> "expected instruction", pos |-> Start]
  /\ in_onbuild' = TRUE
  /\ UNCHANGED <<text, s, keywords, instruction, form, instructions>>

Returned == [keywords |-> keywords, instruction |-> instruction, form |-> form]

(* Faulty variant of Returns: in_onbuild stays set.                         *)
ReturnsInOnbuild ==
  /\ pc = "return"
  /\ instructions' = Append(instructions, Returned)
  /\ s' = NextInstruction(s)
  /\ pc' = "loop"
  /\ UNCHANGED <<text, in_onbuild, keywords, instruction, form, error>>

(* Back from the handlers, ONBUILD's last, to the loop.                     *)
Returns ==
  /\ pc = "return"
  /\ in_onbuild' = (in_onbuild /\ Len(keywords) = 1)
  /\ instructions' = Append(instructions, Returned)
  /\ s' = NextInstruction(s)
  /\ pc' = "loop"
  /\ UNCHANGED <<text, keywords, instruction, form, error>>

Next ==
  \/ Loop
  \/ Keyword
  \/ UnknownInstruction
  \/ StringArgument
  \/ StringArgumentOnly
  \/ Expose
  \/ Volume
  \/ AddOrCopy
  \/ Cmd
  \/ Entrypoint
  \/ Run
  \/ Shell
  \/ FromImage
  \/ HealthcheckCmd
  \/ HealthcheckNone
  \/ HealthcheckNeither
  \/ OnbuildTwice
  \/ Onbuild
  \/ OnbuildNothing
  \/ Returns

Spec == Init /\ [][Next]_vars /\ WF_vars(Next)

-----------------------------------------------------------------------------
(* What a dockerfile says, told by the words of its logical lines.  A line  *)
(* is named by where its first word starts, in the text.                    *)
FirstFrom(i) ==
  LET t == Rest(i) IN
  Min({Len(text)} \cup
      {i + j : j \in {k \in 0..Len(t) - 1 :
         /\ t[k + 1] \notin Whitespace \cup {"lf"}
         /\ ~Comment(t, LineOf(t, k)) /\ ~Marker(t, LineOf(t, k), k)}})

Spelled(i, word) ==
  LET p == Ordered(word, MaxLen) IN [k \in DOMAIN p |-> Upper(text[i + p[k] + 1])]
Is(i, word, name) == Spelled(i, word) = Letters[name]

(* The arguments: the words after the keyword and its flags, each the set   *)
(* of its bytes.                                                            *)
PlainFrom(i, words) ==
  LET flags == {k \in DOMAIN words : \A j \in 1..k : IsFlag(Rest(i), words[j])}
  IN SubSeq(words, Cardinality(flags) + 1, Len(words))
Args(i, name, words) ==
  IF name \in {"FROM", "RUN", "ADD", "COPY", "HEALTHCHECK"} THEN PlainFrom(i, Tail(words))
  ELSE IF words = <<>> THEN <<>>
  ELSE Tail(words)

(* They are an array of so many strings, or NoArray.                        *)
ArrayFrom(i, args) == IF args = <<>> THEN NoArray ELSE ArrayAt(i + Min(args[1]))

(* The least number of arguments, and of strings in an array (the table of  *)
(* tests/test.rs:118-127).                                                  *)
LeastArgs(name) ==
  IF name \in {"CMD", "RUN"} THEN 0 ELSE IF name \in {"ADD", "COPY"} THEN 2 ELSE 1
LeastStrings(name) ==
  IF name \in {"CMD", "VOLUME"} THEN 0 ELSE IF name \in {"ADD", "COPY"} THEN 2 ELSE 1
TooFew(name) ==
  IF name \in {"ADD", "COPY"} THEN "at least two arguments"
  ELSE IF name \in {"MAINTAINER", "STOPSIGNAL", "USER", "WORKDIR"} THEN "exactly one argument"
  ELSE "at least one argument"

TakesArray == {"ADD", "COPY", "CMD", "ENTRYPOINT", "RUN", "SHELL", "VOLUME"}
FormOf(name) ==
  IF name \in {"ADD", "COPY", "EXPOSE", "FROM", "VOLUME"} THEN "words"
  ELSE IF name \in {"CMD", "ENTRYPOINT", "RUN"} THEN "shell"
  ELSE "string"

Ok(form_of_args) == [kind |-> "none", form |-> form_of_args, pos |-> {0}]
Error(what, where) == [kind |-> what, form |-> "none", pos |-> where]
InLine(i) == i..LineEndAt(i)

(* The form of the arguments of the instruction name at i, or the error.    *)
FormOrError(i, name, args, strings) ==
  IF name \in TakesArray /\ strings # NoArray
  THEN IF strings < LeastStrings(name) THEN Error(TooFew(name), {i}) ELSE Ok("exec")
  ELSE IF Len(args) < LeastArgs(name) THEN Error(TooFew(name), {i}) ELSE Ok(FormOf(name))

ShellErrorAt(pos) ==
  Error(IF MaybeJson(pos) THEN "invalid JSON" ELSE "expected JSON array", {pos})
ShellError(i, args) ==
  IF args = <<>> THEN Error("expected JSON array", InLine(i)) ELSE ShellErrorAt(i + Min(args[1]))

(* A word is seen to be neither CMD nor NONE at its byte after CMD, or else *)
(* past its first letter, or at it.                                         *)
NotCmdOrNone(i, word) ==
  LET p == Ordered(word, MaxLen) IN
  IF IsPrefix(Letters["CMD"], Spelled(i, word)) THEN i + p[4]
  ELSE IF Upper(text[i + p[1] + 1]) \in {"C", "N"} THEN i + p[1] + 1
  ELSE i + p[1]

(* What follows NONE, in its word or in the next.                           *)
PastNone(i, args) ==
  LET p == Ordered(args[1], MaxLen) IN IF Len(p) > 4 THEN i + p[5] ELSE i + Min(args[2])

(* HEALTHCHECK CMD is like a RUN.                                           *)
HealthcheckMeaning(i, args) ==
  IF args = <<>> THEN Error("expected CMD or NONE", InLine(i))
  ELSE IF Is(i, args[1], "CMD") THEN FormOrError(i, "RUN", Tail(args), ArrayFrom(i, Tail(args)))
  ELSE IF ~IsPrefix(Letters["NONE"], Spelled(i, args[1]))
  THEN Error("expected CMD or NONE", {NotCmdOrNone(i, args[1])})
  ELSE IF Len(args) = 1 /\ Is(i, args[1], "NONE") THEN Ok("none")
  ELSE Error("NONE accepts no arguments", {PastNone(i, args)})

MeaningOf(i, name, args, strings) ==
  CASE name = "none" -> Error("unknown instruction", {i})
    [] name = "ONBUILD" -> Error("ONBUILD ONBUILD", {i})
    [] name = "SHELL" /\ strings = NoArray -> ShellError(i, args)
    [] name = "HEALTHCHECK" -> HealthcheckMeaning(i, args)
    [] name = "FROM" /\ Len(args) > 1 -> Error("expected AS", {i + Min(args[2])})
    [] OTHER -> FormOrError(i, name, args, strings)
MeaningOfArgs(i, name, args) == MeaningOf(i, name, args, ArrayFrom(i, args))

NameOf(i, words) ==
  LET names == {name \in ToSet(Keywords) : words # <<>> /\ Is(i, words[1], name)}
  IN IF names = {} THEN "none" ELSE CHOOSE name \in names : TRUE
NameAt(i) == NameOf(i, WordsAt(i))
MeaningOfLine(i, name, words) == MeaningOfArgs(i, name, Args(i, name, words))
MeaningAt(i) == MeaningOfLine(i, NameAt(i), WordsAt(i))

(* Where the innermost instruction of a line starts: after ONBUILD, at the  *)
(* next word, or where the line ends if there is none.                      *)
InnerOf(i, words) ==
  IF NameOf(i, words) # "ONBUILD" THEN i
  ELSE IF Len(words) = 1 THEN Gap(i + Max(words[1]) + 1)
  ELSE i + Min(words[2])
Inner(i) == InnerOf(i, WordsAt(i))
Meaning(i, inner) ==
  IF inner = Len(text) THEN Error("expected instruction", {i}) ELSE MeaningAt(inner)

(* Where the k-th instruction is to be looked for.                          *)
LineStart(k) == FirstFrom(IF k = 1 THEN 0 ELSE LineEndAt(instructions[k - 1].keywords[1]))

IsOf(inst, i, inner, meaning) ==
  /\ inst.keywords = IF inner = i THEN <<i>> ELSE <<i, inner>>
  /\ inst.instruction = NameAt(inner)
  /\ meaning.kind = "none" /\ inst.form = meaning.form
IsLine(inst, i, inner) == IsOf(inst, i, inner, Meaning(i, inner))
IsLineAt(inst, i) == IsLine(inst, i, Inner(i))

(* The instructions are the logical lines of the text, in order and to the  *)
(* end: each is the one its first word names, after ONBUILD its second, and *)
(* has its arguments in the form they are written in (parse_instruction,    *)
(* and the enum Command: exec form if it is an array, and shell form).  An  *)
(* array is what JsonArray shows the code to read: JSON, and no escape that *)
(* is broken by two continuations in a row.                                 *)
InstructionsOfTheLines ==
  pc \in {"loop", "end", "failed"} =>
    /\ \A k \in DOMAIN instructions : IsLineAt(instructions[k], LineStart(k))
    /\ pc = "end" => LineStart(Len(instructions) + 1) = Len(text)

(* An error is that of the first line that has one: an unknown first word,  *)
(* too few arguments, an ONBUILD in an ONBUILD.  Its line and column name   *)
(* the keyword, the word or byte that is not what was expected, or, where   *)
(* nothing is there, a place in the line (the table of tests/test.rs:118).  *)
IsError(meaning) ==
  /\ error.kind = meaning.kind
  /\ error.pos \in meaning.pos
  /\ Names(find_location_from_pos(error.pos, text), error.pos, text)
IsErrorOf(i) == IsError(Meaning(i, Inner(i)))
ErrorOfTheLine ==
  pc = "failed" => IsErrorOf(LineStart(Len(instructions) + 1))
=============================================================================
