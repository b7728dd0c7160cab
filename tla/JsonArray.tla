------------------------------- MODULE JsonArray --------------------------------
(***************************************************************************)
(* parse_json_array, and what its callers make of it: the exec form of CMD, *)
(* ENTRYPOINT, RUN and HEALTHCHECK CMD, and the arrays of ADD, COPY and     *)
(* VOLUME.  They try the array on a copy of s (tmp); if it is none they     *)
(* drop the copy and read the line as words or as a shell form.             *)
(*                                                                          *)
(* text is what is left once the keyword and the options have been read; in *)
(* it "sp" is a space and "tab" a tab, which JSON does not allow in a       *)
(* string.                                                                  *)
(***************************************************************************)
EXTENDS Integers, LogicalLine

VARIABLES
  backslash,  \* "esc" if it is the escape byte, or else "bs"; never changes
  text,       \* the array and all that follows; never changes
  s,          \* where the caller reads on
  tmp,        \* the position reached
  pc,         \* "opened", "string", "hex", "backslash", "u", "closed", "comma",
              \* "end", then "done", "fallback" or "stray"
  start,      \* full_word_start
  word_start, \* start of the piece being scanned
  buf,        \* the characters before it
  res,        \* the strings so far
  letter,     \* where the "u" of the hexadecimal escape is
  digits,     \* how many of its digits have been read
  n,          \* what they are
  high        \* the surrogate before it, or 0

scanning == <<backslash, text, s, tmp, start, word_start, buf, res>>
escape == <<letter, digits, n, high>>
vars == <<scanning, pc, escape>>

Control == {"tab", "lf", "cr", "ff"}
Digits == <<"0", "1", "2", "3", "4", "5", "6", "7", "8", "9", "A", "B", "C", "D", "E", "F">>
Digit == ToSet(Digits)

(* What may follow a backslash: "n" stands for all letters but "u".         *)
Named == {"quote", backslash, "n"}

(* A character is where it comes from and what it is: the byte itself, what *)
(* a backslash and the byte name, or a code point.                          *)
Itself == 1114112
ByName == 1114113
Raw(i, j) == [k \in 1..(j - i) |-> <<i + k - 1, Itself>>]
NoChar == <<>>

-----------------------------------------------------------------------------
(* Past one continuation at i, if there is one.                             *)
Once(i) == Continuation(text, i)

DigitValue(byte) == (CHOOSE v \in DOMAIN Digits : Digits[v] = byte) - 1

High == 55296..56319 \* D800 to DBFF
Low == 56320..57343  \* DC00 to DFFF

-----------------------------------------------------------------------------
(* is_maybe_json holds of the text, and the bracket is consumed. The byte   *)
(* bs stands for a backslash that is not the escape byte.                   *)
Init ==
  /\ text \in Inputs
  /\ backslash = IF "bs" \in ToSet(text) THEN "bs" ELSE "esc"
  /\ At(text, 0, {"open"}) /\ ~At(text, 1, {"open"})
  /\ s = 0
  /\ tmp = 1
  /\ pc = "opened"
  /\ start = 0
  /\ word_start = 0
  /\ buf = NoChar
  /\ res = <<>>
  /\ letter = 0 /\ digits = 0 /\ n = 0 /\ high = 0

(* The array is none: the copy is dropped.                                  *)
Reject ==
  /\ pc' = "fallback"
  /\ UNCHANGED <<scanning, escape>>

(* consume_whitespaces                                                      *)
Skip ==
  /\ pc \in {"opened", "closed", "comma", "end"}
  /\ \/ At(text, tmp, Whitespace) /\ tmp' = tmp + 1
     \/ Continues(text, tmp) /\ tmp' = Continuation(text, tmp)
  /\ UNCHANGED <<backslash, text, s, pc, start, word_start, buf, res, escape>>

NextIs(byte) ==
  /\ ~Continues(text, tmp)
  /\ At(text, tmp, {byte})

Open ==
  /\ pc \in {"opened", "comma"}
  /\ NextIs("quote")
  /\ tmp' = tmp + 1
  /\ pc' = "string"
  /\ start' = tmp' /\ word_start' = tmp' /\ buf' = NoChar
  /\ UNCHANGED <<backslash, text, s, res, escape>>

Comma ==
  /\ pc = "closed"
  /\ NextIs("comma")
  /\ tmp' = tmp + 1
  /\ pc' = "comma"
  /\ UNCHANGED <<backslash, text, s, start, word_start, buf, res, escape>>

Close ==
  /\ pc \in {"opened", "closed"}
  /\ NextIs("close")
  /\ tmp' = tmp + 1
  /\ pc' = "end"
  /\ UNCHANGED <<backslash, text, s, start, word_start, buf, res, escape>>

Allowed == CASE pc = "opened" -> {"quote", "close"}
             [] pc = "closed" -> {"comma", "close"}
             [] pc = "comma" -> {"quote"}

Unexpected ==
  /\ pc \in {"opened", "closed", "comma"}
  /\ ~At(text, tmp, Whitespace) /\ ~Continues(text, tmp)
  /\ ~At(text, tmp, Allowed)
  /\ Reject

-----------------------------------------------------------------------------
StringByte ==
  /\ pc = "string"
  /\ tmp < Len(text)
  /\ ~At(text, tmp, {"quote", backslash} \cup Control) /\ ~Continues(text, tmp)
  /\ tmp' = tmp + 1
  /\ UNCHANGED <<backslash, text, s, pc, start, word_start, buf, res, escape>>

(* Faulty variant of StringContinued: tmp is left where it is.              *)
StringContinuedInPlace ==
  /\ pc = "string"
  /\ Continues(text, tmp)
  /\ UNCHANGED vars

StringContinued ==
  /\ pc = "string"
  /\ Continues(text, tmp)
  /\ buf' = buf \o Raw(word_start, tmp)
  /\ tmp' = Continuation(text, tmp)
  /\ word_start' = tmp'
  /\ UNCHANGED <<backslash, text, s, pc, start, res, escape>>

Escape == pc = "string" /\ At(text, tmp, {backslash}) /\ ~Continues(text, tmp)

StringEscape ==
  /\ Escape
  /\ LET named == Once(tmp + 1) IN
     /\ At(text, named, Named)
     /\ buf' = buf \o Raw(word_start, tmp) \o <<<<named, ByName>>>>
     /\ tmp' = named + 1
     /\ word_start' = tmp'
  /\ UNCHANGED <<backslash, text, s, pc, start, res, escape>>

StringHexEscape ==
  /\ Escape
  /\ At(text, Once(tmp + 1), {"u"})
  /\ buf' = buf \o Raw(word_start, tmp)
  /\ letter' = Once(tmp + 1)
  /\ tmp' = letter' + 1
  /\ pc' = "hex"
  /\ digits' = 0 /\ n' = 0 /\ high' = 0
  /\ UNCHANGED <<backslash, text, s, start, word_start, res>>

BadEscape ==
  /\ Escape
  /\ ~At(text, Once(tmp + 1), Named \cup {"u"})
  /\ Reject

(* decode_hex_escape, digit by digit, in 16 bits.                           *)
AtDigit ==
  /\ pc = "hex"
  /\ digits = 0 => Len(text) - tmp >= 4
  /\ At(text, Once(tmp), Digit)
Bits16 == (n * 16 + DigitValue(text[Once(tmp) + 1])) % 65536

HexDigit ==
  /\ AtDigit
  /\ digits < 3
  /\ digits' = digits + 1
  /\ n' = Bits16
  /\ tmp' = Once(tmp) + 1
  /\ UNCHANGED <<backslash, text, s, pc, start, word_start, buf, res, letter, high>>

(* The escape is over: a code point of its own, or one of two surrogates.   *)
Escaped16(code) ==
  /\ buf' = Append(buf, <<letter, code>>)
  /\ tmp' = Once(tmp) + 1
  /\ word_start' = tmp'
  /\ pc' = "string"
  /\ UNCHANGED <<backslash, text, s, start, res, escape>>

CodeUnit ==
  /\ AtDigit
  /\ digits = 3 /\ high = 0 /\ Bits16 \notin High \cup Low
  /\ Escaped16(Bits16)

HighSurrogate ==
  /\ AtDigit
  /\ digits = 3 /\ high = 0 /\ Bits16 \in High
  /\ high' = Bits16
  /\ tmp' = Once(tmp) + 1
  /\ pc' = "backslash"
  /\ UNCHANGED <<backslash, text, s, start, word_start, buf, res, letter, digits, n>>

(* Faulty variant of LowSurrogate: the offset of the planes is forgotten.   *)
LowSurrogateNoOffset ==
  /\ AtDigit
  /\ digits = 3 /\ high # 0 /\ Bits16 \in Low
  /\ Escaped16((high - 55296) * 1024 + (Bits16 - 56320))

LowSurrogate ==
  /\ AtDigit
  /\ digits = 3 /\ high # 0 /\ Bits16 \in Low
  /\ Escaped16(((high - 55296) * 1024 + (Bits16 - 56320)) + 65536)

LoneSurrogate ==
  /\ AtDigit
  /\ digits = 3
  /\ IF high = 0 THEN Bits16 \in Low ELSE Bits16 \notin Low
  /\ Reject

(* The backslash and the "u" of the second surrogate.                       *)
LowBackslash ==
  /\ pc = "backslash"
  /\ At(text, Once(tmp), {backslash})
  /\ tmp' = Once(tmp) + 1
  /\ pc' = "u"
  /\ UNCHANGED <<backslash, text, s, start, word_start, buf, res, escape>>

LowU ==
  /\ pc = "u"
  /\ At(text, Once(tmp), {"u"})
  /\ tmp' = Once(tmp) + 1
  /\ pc' = "hex"
  /\ digits' = 0 /\ n' = 0
  /\ UNCHANGED <<backslash, text, s, start, word_start, buf, res, letter, high>>

BadHexEscape ==
  /\ \/ pc = "hex" /\ ~AtDigit
     \/ pc = "backslash" /\ ~At(text, Once(tmp), {backslash})
     \/ pc = "u" /\ ~At(text, Once(tmp), {"u"})
  /\ Reject

BadString ==
  /\ pc = "string"
  /\ tmp = Len(text) \/ At(text, tmp, Control)
  /\ Reject

(* Faulty variant of StringEnds: the span includes the quote.               *)
StringEndsPast ==
  /\ pc = "string"
  /\ At(text, tmp, {"quote"})
  /\ res' = Append(res, [start |-> start, end |-> tmp + 1, value |-> buf \o Raw(word_start, tmp)])
  /\ tmp' = tmp + 1
  /\ pc' = "closed"
  /\ UNCHANGED <<backslash, text, s, start, word_start, buf, escape>>

StringEnds ==
  /\ pc = "string"
  /\ At(text, tmp, {"quote"})
  /\ res' = Append(res, [start |-> start, end |-> tmp, value |-> buf \o Raw(word_start, tmp)])
  /\ tmp' = tmp + 1
  /\ pc' = "closed"
  /\ UNCHANGED <<backslash, text, s, start, word_start, buf, escape>>

-----------------------------------------------------------------------------
(* Faulty variant of Accept: the newline is left.                           *)
AcceptNewlineLeft ==
  /\ pc = "end"
  /\ ~At(text, tmp, Whitespace) /\ ~Continues(text, tmp)
  /\ tmp = Len(text) \/ At(text, tmp, {"lf"})
  /\ s' = tmp
  /\ pc' = "done"
  /\ UNCHANGED <<backslash, text, tmp, start, word_start, buf, res, escape>>

(* What follows the array is a newline or nothing: is_line_end, and the     *)
(* caller's debug_assert!.                                                  *)
Accept ==
  /\ pc = "end"
  /\ ~At(text, tmp, Whitespace) /\ ~Continues(text, tmp)
  /\ tmp = Len(text) \/ At(text, tmp, {"lf"})
  /\ s' = Newline(text, tmp)
  /\ pc' = IF s' = tmp /\ tmp < Len(text) THEN "stray" ELSE "done"
  /\ UNCHANGED <<backslash, text, tmp, start, word_start, buf, res, escape>>

Trailing ==
  /\ pc = "end"
  /\ ~At(text, tmp, Whitespace) /\ ~Continues(text, tmp)
  /\ tmp < Len(text) /\ ~At(text, tmp, {"lf"})
  /\ Reject

Next ==
  \/ Skip
  \/ Open
  \/ Comma
  \/ Close
  \/ Unexpected
  \/ StringByte
  \/ StringContinued
  \/ StringEscape
  \/ StringHexEscape
  \/ BadEscape
  \/ HexDigit
  \/ CodeUnit
  \/ HighSurrogate
  \/ LowSurrogate
  \/ LoneSurrogate
  \/ LowBackslash
  \/ LowU
  \/ BadHexEscape
  \/ BadString
  \/ StringEnds
  \/ Accept
  \/ Trailing

Spec == Init /\ [][Next]_vars /\ WF_vars(Next)

-----------------------------------------------------------------------------
(* The next instruction starts where the array's line ends: nothing is left *)
(* behind it, as debug_assert!(consumed) of the callers has it.             *)
EndsWithTheLine ==
  /\ pc # "stray"
  /\ pc = "done" => s = After(text)

(* A string lies between its quotes, and all of it comes from there.        *)
SpansBetweenQuotes ==
  \A i \in DOMAIN res :
    /\ At(text, res[i].start - 1, {"quote"}) /\ At(text, res[i].end, {"quote"})
    /\ \A c \in ToSet(res[i].value) : c[1] \in res[i].start..res[i].end - 1
    /\ i < Len(res) => res[i].end < res[i + 1].start

-----------------------------------------------------------------------------
(* What JSON makes of the logical line, told by its quotes and not by a     *)
(* scan.  line is the sequence of the positions of its bytes.               *)
Byte(line, k) == text[line[k] + 1]

(* An odd number of backslashes before it makes a byte part of an escape.   *)
Escaped(line, k) ==
  Cardinality({j \in 1..k-1 : \A m \in j..k-1 : Byte(line, m) = backslash}) % 2 = 1
Unescaped(line, byte) == {k \in DOMAIN line : Byte(line, k) = byte /\ ~Escaped(line, k)}

(* The 16 bits of the escape at k.                                          *)
IsHex(line, k) ==
  /\ k \in 1..Len(line) - 5
  /\ Byte(line, k) = backslash /\ ~Escaped(line, k)
  /\ Byte(line, k + 1) = "u"
  /\ \A d \in k+2..k+5 : Byte(line, d) \in Digit
Bits(line, k) ==
  LET Val(m) == DigitValue(Byte(line, k + m)) IN Val(2) * 4096 + Val(3) * 256 + Val(4) * 16 + Val(5)
Pairs(line, k) ==
  /\ IsHex(line, k) /\ Bits(line, k) \in High
  /\ IsHex(line, k + 6) /\ Bits(line, k + 6) \in Low
CodePoint(line, k) ==
  IF Pairs(line, k)
  THEN 65536 + (Bits(line, k) % 1024) * 1024 + (Bits(line, k + 6) % 1024)
  ELSE Bits(line, k)

IsEscape(line, k) ==
  \/ Byte(line, k + 1) \in Named
  \/ IsHex(line, k) /\ (Bits(line, k) \in High \cup Low => Pairs(line, k) \/ Pairs(line, k - 6))

(* The bytes between two quotes are a string, and which.                    *)
IsString(line, i, j) ==
  \A k \in i+1..j-1 :
    /\ Byte(line, k) \notin Control
    /\ Byte(line, k) = backslash /\ ~Escaped(line, k) => IsEscape(line, k)

(* The bytes of the escape at k, and the character that starts at k.        *)
Size(line, k) == IF Pairs(line, k) THEN 12 ELSE IF IsHex(line, k) THEN 6 ELSE 2
CharAt(line, k) ==
  IF k \notin Unescaped(line, backslash) THEN <<line[k], Itself>>
  ELSE <<line[k + 1], IF IsHex(line, k) THEN CodePoint(line, k) ELSE ByName>>
Chars(line, i, j) ==
  {CharAt(line, k) : k \in {m \in i+1..j-1 :
     \A e \in Unescaped(line, backslash) : m \notin e+1..e + Size(line, e) - 1}}

(* The bytes around the strings, but for the whitespace.                    *)
Around(line, i, j) == {k \in i+1..j-1 : Byte(line, k) \notin Whitespace}
Only(line, i, j, byte) == \E k \in i+1..j-1 : Byte(line, k) = byte /\ Around(line, i, j) = {k}

IsArray(line, q) ==
  LET end == Len(line) + 1 IN
  IF q = <<>> THEN
    \E k, m \in DOMAIN line :
      k < m /\ Byte(line, k) = "open" /\ Byte(line, m) = "close" /\ Around(line, 0, end) = {k, m}
  ELSE \E m \in 1..Len(q) :
    /\ Len(q) = 2 * m
    /\ Only(line, 0, q[1], "open") /\ Only(line, q[2 * m], end, "close")
    /\ \A i \in 1..m :
         /\ IsString(line, q[2 * i - 1], q[2 * i])
         /\ i < m => Only(line, q[2 * i], q[2 * i + 1], "comma")

(* The code reads past one continuation inside of an escape, not past two   *)
(* in a row.  markers are where the continuations are.                      *)
BrokenTwice(line, markers) ==
  \E k \in Unescaped(line, backslash) :
    \E m \in k..k + Size(line, k) - 2 :
      m < Len(line) /\ Cardinality(markers \cap (line[m]..line[m + 1])) > 1

(* What the code takes for an array.                                        *)
IsRead(line, q, markers) == IsArray(line, q) /\ ~BrokenTwice(line, markers)

(* A line is read as an array exactly if, its continuations removed, it is  *)
(* a JSON array of strings, and no escape of it is broken twice in a row.   *)
(* The strings are those JSON says.                                         *)
ArrayOfTheLine ==
  pc \in {"done", "fallback"} =>
    LET line == Ordered(Bytes(text), Len(text))
        q == Ordered(Unescaped(line, "quote"), Len(line) + 1)
    IN /\ pc = "done" <=> IsRead(line, q, Markers(text))
       /\ pc = "done" =>
            /\ Len(res) * 2 = Len(q)
            /\ \A i \in DOMAIN res :
                 LET value == res[i].value IN
                 /\ ToSet(value) = Chars(line, q[2 * i - 1], q[2 * i])
                 /\ \A j, k \in DOMAIN value : j < k => value[j][1] < value[k][1]

(* Every step of the loops moves on, also one over a continuation.          *)
Terminates == <>(pc \in {"done", "fallback", "stray"})
=============================================================================
