---------------------------- MODULE JsonArray_proofs -----------------------------
(***************************************************************************)
(* Of every text, over any bytes and of any length: an array that is        *)
(* accepted takes all of its logical line and nothing of the next, each of  *)
(* its strings lies between its quotes, and every code point a hexadecimal  *)
(* escape is decoded to is one.  It is accepted exactly if it is an array   *)
(* to JSON in which no escape is broken by two continuations in a row, and  *)
(* its strings are those JSON says.                                         *)
(***************************************************************************)
EXTENDS JsonArray, LogicalLine_proofs

(* Only whitespace and then a newline follow: an escape that is broken by   *)
(* two continuations in a row has taken the escape byte of the second one   *)
(* for a byte of its own.  No quote and no letter can follow, so that the   *)
(* array is none.                                                           *)
Stuck(t, i) ==
  \E e \in i..Len(t) - 1 :
    /\ t[e + 1] = "lf"
    /\ \A b \in i..e - 1 : t[b + 1] \in Whitespace

(* The positions in a string are from i on and before j.                    *)
Within(value, i, j) == \A k \in 1..Len(value) : value[k][1] \in i..j - 1

(* What a character can stand for: a code point that is no surrogate, the   *)
(* byte itself, or what the byte names.                                     *)
Scalar == {c \in Nat : c < 1114112 /\ (c < 55296 \/ 57343 < c)}
Character == Nat \X (Scalar \cup {Itself, ByName})
String == [start : Nat, end : Nat, value : Seq(Character)]

InString == pc \in {"string", "hex", "backslash", "u"}

TypeInv ==
  /\ backslash \in {"esc", "bs"}
  /\ s \in 0..Len(text) /\ tmp \in 0..Len(text)
  /\ pc \in {"opened", "string", "hex", "backslash", "u", "closed", "comma", "end",
             "done", "fallback"}
  /\ start \in Nat /\ word_start \in Nat
  /\ buf \in Seq(Character)
  /\ res \in Seq(String)
  /\ letter \in Nat
  /\ high \in {0} \cup High

(* Four digits fit in 16 bits: none is shifted out.                         *)
HexInv ==
  /\ digits \in 0..3 /\ n \in Nat
  /\ digits = 0 => n = 0
  /\ digits = 1 => n < 16
  /\ digits = 2 => n < 256
  /\ digits = 3 => n < 4096

WalkInv ==
  /\ pc \in {"opened", "closed", "comma", "end", "hex", "backslash"} => Walk(text, tmp)
  /\ pc \in {"string", "u"} => Walk(text, tmp) \/ Stuck(text, tmp)
  /\ pc = "done" => s = After(text)

(* The string being read, behind the quote it was opened with.              *)
StringInv ==
  /\ InString => /\ 1 <= start /\ start <= tmp
                 /\ At(text, start - 1, {"quote"})
                 /\ \A k \in 1..Len(res) : res[k].end < start
  /\ pc = "string" => start <= word_start /\ word_start <= tmp /\ Within(buf, start, word_start)
  /\ InString /\ pc # "string" => Within(buf, start, tmp) /\ letter \in start..tmp - 1

(* The strings read so far.                                                 *)
ResInv ==
  /\ \A k \in 1..Len(res) :
       /\ 1 <= res[k].start
       /\ At(text, res[k].start - 1, {"quote"}) /\ At(text, res[k].end, {"quote"})
       /\ Within(res[k].value, res[k].start, res[k].end)
       /\ res[k].end < tmp
  /\ \A k \in 1..Len(res) - 1 : res[k].end < res[k + 1].start

IInv ==
  /\ text \in Inputs
  /\ TypeInv
  /\ HexInv
  /\ WalkInv
  /\ StringInv
  /\ ResInv

-----------------------------------------------------------------------------
(* Behind the escape byte of a continuation there is whitespace and then a  *)
(* newline.                                                                 *)
LEMMA ContinuesStuck ==
  ASSUME NEW t, Len(t) \in Nat, NEW i \in 0..Len(t), Continues(t, i)
  PROVE  Stuck(t, i + 1)
<1>. DEFINE l == LineOf(t, i)
            e == EndOf(t, l)
<1>1. l \in 0..i /\ l \in 0..Len(t) /\ \A j \in l..i - 1 : t[j + 1] # "lf"
  BY LineOfIs
<1>. HIDE DEF l
<1>2. Marker(t, l, i) /\ e < Len(t)
  BY <1>1, ContinuesIs
<1>3. e \in Nat /\ t[e + 1] = "lf"
  BY <1>1, <1>2, EndOfIs
<1>. HIDE DEF e
<1>4. i \in l..e - 1 /\ RestOf(t, l, i + 1) \subseteq Whitespace
  BY <1>2 DEF Marker, e
<1>5. \A b \in i + 1..e - 1 : t[b + 1] \in Whitespace
  BY <1>4 DEF RestOf, e
<1>6. e \in i + 1..Len(t) - 1
  BY <1>1, <1>2, <1>3, <1>4
<1>. QED
  BY <1>3, <1>5, <1>6 DEF Stuck

(* What is at such a place, and that the next byte does not lead out of it. *)
LEMMA StuckAt ==
  ASSUME NEW t, Len(t) \in Nat, NEW i \in 0..Len(t), Stuck(t, i)
  PROVE  /\ i < Len(t) /\ t[i + 1] \in Whitespace \cup {"lf"}
         /\ t[i + 1] # "lf" => Stuck(t, i + 1)
<1>1. PICK e \in i..Len(t) - 1 : t[e + 1] = "lf" /\ \A b \in i..e - 1 : t[b + 1] \in Whitespace
  BY DEF Stuck
<1>2. i < Len(t) /\ t[i + 1] \in Whitespace \cup {"lf"}
  BY <1>1
<1>3. ASSUME t[i + 1] # "lf"
      PROVE  Stuck(t, i + 1)
  <2>1. e \in i + 1..Len(t) - 1
    BY <1>1, <1>3
  <2>2. \A b \in i + 1..e - 1 : b \in i..e - 1
    OBVIOUS
  <2>. QED
    BY <1>1, <2>1, <2>2 DEF Stuck
<1>. QED
  BY <1>2, <1>3

(* Past a continuation, if there is one.                                    *)
LEMMA WalkOnce ==
  ASSUME NEW t, Len(t) \in Nat, NEW i, Walk(t, i)
  PROVE  /\ Walk(t, Continuation(t, i))
         /\ Continuation(t, i) \in i..Len(t) /\ Continuation(t, i) \in 0..Len(t)
<1>1. i \in 0..Len(t)
  BY DEF Walk
<1>2. Continuation(t, i) \in i..Len(t)
  BY <1>1, ContinuationAdvances
<1>3. Walk(t, Continuation(t, i))
  <2>1. CASE Continues(t, i)
    BY <2>1, WalkContinued
  <2>2. CASE ~Continues(t, i)
    BY <2>2 DEF Continues
  <2>. QED
    BY <2>1, <2>2
<1>. QED
  BY <1>1, <1>2, <1>3

(* Past a byte that is no newline: the reader walks on, unless it was the   *)
(* escape byte of a continuation.                                           *)
LEMMA WalkPast ==
  ASSUME NEW t, Len(t) \in Nat, NEW i, Walk(t, i), i < Len(t), t[i + 1] # "lf"
  PROVE  /\ i + 1 \in 0..Len(t)
         /\ Walk(t, i + 1) \/ Stuck(t, i + 1)
         /\ t[i + 1] # "esc" \/ ~Continues(t, i) => Walk(t, i + 1)
<1>1. i \in 0..Len(t)
  BY DEF Walk
<1>2. Continues(t, i) => Stuck(t, i + 1) /\ t[i + 1] = "esc"
  BY <1>1, ContinuesStuck, ContinuationAdvances DEF At
<1>3. ~Continues(t, i) => Walk(t, i + 1)
  BY WalkByte
<1>. QED
  BY <1>1, <1>2, <1>3

(* Raw bytes are characters that come from where they are.                  *)
LEMMA RawIs ==
  ASSUME NEW i \in Nat, NEW j \in Nat, i <= j
  PROVE  Raw(i, j) \in Seq(Character) /\ Len(Raw(i, j)) = j - i /\ Within(Raw(i, j), i, j)
<1>1. \A k \in 1..j - i : <<i + k - 1, Itself>> \in Character /\ i + k - 1 \in i..j - 1
  BY DEF Character
<1>. HIDE DEF Character
<1>2. Raw(i, j) \in Seq(Character) /\ Len(Raw(i, j)) = j - i
  BY <1>1 DEF Raw
<1>3. \A k \in 1..j - i : Raw(i, j)[k][1] = i + k - 1
  BY DEF Raw
<1>. QED
  BY <1>1, <1>2, <1>3 DEF Within

LEMMA WithinMore ==
  ASSUME NEW i \in Nat, NEW w \in Nat, NEW j \in Nat, i <= w, w <= j,
         NEW value \in Seq(Character), Within(value, i, w)
  PROVE  value \o Raw(w, j) \in Seq(Character) /\ Within(value \o Raw(w, j), i, j)
<1>. DEFINE raw == Raw(w, j)
            r == value \o raw
<1>1. raw \in Seq(Character) /\ \A k \in 1..Len(raw) : raw[k][1] \in w..j - 1
  BY RawIs DEF Within
<1>. HIDE DEF raw
<1>2. /\ r \in Seq(Character) /\ Len(r) = Len(value) + Len(raw)
      /\ \A k \in 1..Len(value) : r[k] = value[k]
      /\ \A k \in Len(value) + 1..Len(r) : r[k] = raw[k - Len(value)]
      /\ Len(value) \in Nat /\ Len(raw) \in Nat
  BY <1>1
<1>. HIDE DEF r
<1>3. ASSUME NEW k \in 1..Len(r)
      PROVE  r[k][1] \in i..j - 1
  <2>1. CASE k \in 1..Len(value)
    <3>1. value[k][1] \in i..w - 1
      BY <2>1 DEF Within
    <3>2. r[k][1] = value[k][1]
      BY <1>2, <2>1
    <3>. QED
      BY <3>1, <3>2
  <2>2. CASE k \in Len(value) + 1..Len(r)
    <3>1. k - Len(value) \in 1..Len(raw)
      BY <1>2, <2>2
    <3>2. raw[k - Len(value)][1] \in w..j - 1
      BY <1>1, <3>1
    <3>3. r[k][1] = raw[k - Len(value)][1]
      BY <1>2, <2>2
    <3>. QED
      BY <3>2, <3>3
  <2>. QED
    BY <1>2, <2>1, <2>2
<1>. QED
  BY <1>2, <1>3 DEF Within, r, raw

LEMMA WithinGrows ==
  ASSUME NEW value, NEW i \in Nat, NEW j \in Nat, NEW m \in Nat, j <= m, Within(value, i, j)
  PROVE  Within(value, i, m)
<1>1. \A b \in i..j - 1 : b \in i..m - 1
  OBVIOUS
<1>. QED
  BY <1>1 DEF Within

LEMMA WithinAppend ==
  ASSUME NEW i \in Nat, NEW j \in Nat, NEW m \in Nat, j <= m,
         NEW value \in Seq(Character), Within(value, i, j),
         NEW at \in i..m - 1, NEW what, <<at, what>> \in Character
  PROVE  /\ Append(value, <<at, what>>) \in Seq(Character)
         /\ Within(Append(value, <<at, what>>), i, m)
<1>. DEFINE c == <<at, what>>
            r == Append(value, c)
<1>1. c[1] = at
  OBVIOUS
<1>2. c \in Character
  OBVIOUS
<1>. HIDE DEF c
<1>3. /\ r \in Seq(Character) /\ Len(value) \in Nat /\ Len(r) = Len(value) + 1
      /\ \A k \in 1..Len(value) : r[k] = value[k]
      /\ r[Len(value) + 1] = c
  BY <1>2
<1>. HIDE DEF r
<1>4. Within(value, i, m)
  BY WithinGrows
<1>5. \A k \in 1..Len(r) : k \in 1..Len(value) \/ k = Len(value) + 1
  BY <1>3
<1>. QED
  BY <1>1, <1>3, <1>4, <1>5 DEF Within, r, c

(* A digit is four bits.                                                    *)
LEMMA DigitIs ==
  ASSUME NEW byte \in Digit
  PROVE  DigitValue(byte) \in 0..15
<1>1. DOMAIN Digits = 1..16
  BY DEF Digits
<1>2. \E v \in DOMAIN Digits : Digits[v] = byte
  BY DEF Digit, ToSet
<1>3. (CHOOSE v \in DOMAIN Digits : Digits[v] = byte) \in DOMAIN Digits
  BY <1>2
<1>. QED
  BY <1>1, <1>3 DEF DigitValue

-----------------------------------------------------------------------------
(* What every step starts from.                                             *)
LEMMA Basics ==
  ASSUME IInv
  PROVE  /\ Len(text) \in Nat /\ tmp \in 0..Len(text) /\ tmp \in Nat
         /\ Len(res) \in Nat /\ res \in Seq(String)
         /\ start \in Nat /\ word_start \in Nat /\ letter \in Nat /\ buf \in Seq(Character)
BY InputsAreSequences DEF IInv, TypeInv

LEMMA Strings ==
  ASSUME IInv, NEW k \in 1..Len(res)
  PROVE  /\ res[k].start \in Nat /\ res[k].end \in Nat /\ res[k].value \in Seq(Character)
         /\ res[k].end < tmp
<1>1. res[k] \in String
  BY Basics
<1>2. res[k].end < tmp
  BY DEF IInv, ResInv
<1>. QED
  BY <1>1, <1>2 DEF String

LEMMA InitInv == Init => IInv
<1>. SUFFICES ASSUME Init PROVE IInv
  OBVIOUS
<1>1. Len(text) \in Nat /\ 0 < Len(text) /\ text[1] = "open"
  BY InputsAreSequences DEF Init, At
<1>2. Walk(text, 1)
  <2>1. Walk(text, 0)
    BY <1>1, WalkStart
  <2>. QED
    BY <1>1, <2>1, WalkPast
<1>3. TypeInv
  <2>1. buf \in Seq(Character) /\ res \in Seq(String)
    BY DEF Init, NoChar
  <2>. QED
    BY <1>1, <2>1 DEF Init, TypeInv
<1>4. HexInv
  BY DEF Init, HexInv
<1>5. WalkInv
  BY <1>2 DEF Init, WalkInv
<1>6. StringInv /\ ResInv
  BY DEF Init, StringInv, ResInv, InString
<1>7. text \in Inputs
  BY DEF Init
<1>. QED
  BY <1>3, <1>4, <1>5, <1>6, <1>7 DEF IInv

(* The strings read so far stay behind, whatever the reader does without    *)
(* adding one.                                                              *)
LEMMA ResKept ==
  ASSUME IInv, UNCHANGED <<text, res>>, tmp' \in 0..Len(text), tmp <= tmp'
  PROVE  ResInv'
<1>1. tmp \in Nat /\ tmp' \in Nat
  BY Basics
<1>2. \A k \in 1..Len(res) : res[k].end \in Nat /\ res[k].end < tmp
  BY Strings
<1>3. \A k \in 1..Len(res) : res[k].end < tmp'
  BY <1>1, <1>2
<1>. QED
  BY <1>3 DEF IInv, ResInv

(* The copy is dropped.                                                     *)
LEMMA RejectInv ==
  ASSUME IInv, Reject
  PROVE  IInv'
BY DEF IInv, Reject, scanning, escape, TypeInv, HexInv, WalkInv, StringInv, ResInv, InString, Within

(* Between the strings.                                                     *)
LEMMA BetweenInv ==
  ASSUME IInv, UNCHANGED <<backslash, text, s, start, word_start, buf, res, escape>>,
         tmp' \in 0..Len(text), tmp <= tmp', Walk(text, tmp'),
         pc' \in {"opened", "closed", "comma", "end"}
  PROVE  IInv'
<1>1. ResInv'
  BY ResKept
<1>2. TypeInv' /\ HexInv'
  BY DEF IInv, TypeInv, HexInv, escape
<1>3. WalkInv' /\ StringInv'
  BY DEF WalkInv, StringInv, InString
<1>. QED
  BY <1>1, <1>2, <1>3 DEF IInv

LEMMA SkipInv ==
  ASSUME IInv, Skip
  PROVE  IInv'
<1>1. Len(text) \in Nat /\ tmp \in 0..Len(text) /\ Walk(text, tmp)
  BY Basics DEF IInv, WalkInv, Skip
<1>2. CASE At(text, tmp, Whitespace) /\ tmp' = tmp + 1
  <2>1. tmp < Len(text) /\ text[tmp + 1] # "lf" /\ text[tmp + 1] # "esc"
    BY <1>2 DEF At, Whitespace
  <2>2. tmp' \in 0..Len(text) /\ tmp <= tmp' /\ Walk(text, tmp')
    BY <1>1, <1>2, <2>1, WalkPast
  <2>. QED
    BY <2>2, BetweenInv DEF Skip
<1>3. CASE tmp' = Continuation(text, tmp)
  <2>1. tmp' \in 0..Len(text) /\ tmp <= tmp' /\ Walk(text, tmp')
    BY <1>1, <1>3, WalkOnce
  <2>. QED
    BY <2>1, BetweenInv DEF Skip
<1>. QED
  BY <1>2, <1>3 DEF Skip

(* The byte that is expected.                                               *)
LEMMA NextIsWalks ==
  ASSUME IInv, NEW byte, NextIs(byte), byte # "lf",
         pc \in {"opened", "closed", "comma"}
  PROVE  tmp + 1 \in 0..Len(text) /\ Walk(text, tmp + 1) /\ At(text, tmp, {byte})
<1>1. Len(text) \in Nat /\ tmp \in 0..Len(text) /\ Walk(text, tmp)
  BY Basics DEF IInv, WalkInv
<1>2. tmp < Len(text) /\ text[tmp + 1] # "lf"
  BY DEF NextIs, At
<1>. QED
  BY <1>1, <1>2, WalkPast DEF NextIs

LEMMA CommaInv ==
  ASSUME IInv, Comma
  PROVE  IInv'
<1>1. tmp + 1 \in 0..Len(text) /\ Walk(text, tmp + 1)
  BY NextIsWalks DEF Comma
<1>2. tmp <= tmp + 1
  BY Basics
<1>. QED
  BY <1>1, <1>2, BetweenInv DEF Comma

LEMMA CloseInv ==
  ASSUME IInv, Close
  PROVE  IInv'
<1>1. tmp + 1 \in 0..Len(text) /\ Walk(text, tmp + 1)
  BY NextIsWalks DEF Close
<1>2. tmp <= tmp + 1
  BY Basics
<1>. QED
  BY <1>1, <1>2, BetweenInv DEF Close

LEMMA OpenInv ==
  ASSUME IInv, Open
  PROVE  IInv'
<1>1. /\ tmp' = tmp + 1 /\ pc' = "string" /\ start' = tmp + 1 /\ word_start' = tmp + 1
      /\ buf' = NoChar /\ UNCHANGED <<backslash, text, s, res, escape>>
  BY DEF Open
<1>2. tmp + 1 \in 0..Len(text) /\ Walk(text, tmp + 1) /\ At(text, tmp, {"quote"})
  BY NextIsWalks DEF Open
<1>3. /\ tmp \in Nat /\ Len(res) \in Nat /\ \A k \in 1..Len(res) : res[k].end \in Nat
      /\ \A k \in 1..Len(res) : res[k].end < tmp
  BY Basics, Strings
<1>4. ResInv'
  BY <1>1, <1>2, <1>3, ResKept
<1>5. TypeInv'
  BY <1>1, <1>2, <1>3 DEF IInv, TypeInv, NoChar, escape
<1>6. HexInv' /\ WalkInv'
  BY <1>1, <1>2 DEF IInv, HexInv, WalkInv, escape
<1>7. StringInv'
  <2>1. (tmp + 1) - 1 = tmp /\ 1 <= tmp + 1
    BY <1>3
  <2>2. \A k \in 1..Len(res) : res[k].end < tmp + 1
    BY <1>3
  <2>. QED
    BY <1>1, <1>2, <1>3, <2>1, <2>2 DEF StringInv, InString, Within, NoChar
<1>. QED
  BY <1>1, <1>4, <1>5, <1>6, <1>7 DEF IInv

-----------------------------------------------------------------------------
(* Within a string.                                                         *)
LEMMA StringFacts ==
  ASSUME IInv, pc = "string"
  PROVE  /\ Within(buf, start, word_start) /\ 1 <= start
         /\ start <= word_start /\ word_start <= tmp /\ start <= tmp
         /\ At(text, start - 1, {"quote"})
         /\ \A k \in 1..Len(res) : res[k].end < start
         /\ Walk(text, tmp) \/ Stuck(text, tmp)
BY DEF IInv, StringInv, WalkInv, InString

LEMMA StringByteInv ==
  ASSUME IInv, StringByte
  PROVE  IInv'
<1>1. /\ pc = "string" /\ tmp < Len(text) /\ tmp' = tmp + 1
      /\ UNCHANGED <<backslash, text, s, pc, start, word_start, buf, res, escape>>
      /\ text[tmp + 1] # "lf" /\ ~Continues(text, tmp)
  BY DEF StringByte, At, Control
<1>2. /\ Len(text) \in Nat /\ tmp \in 0..Len(text) /\ tmp \in Nat
      /\ start \in Nat /\ word_start \in Nat
  BY Basics
<1>3. /\ start <= word_start /\ word_start <= tmp + 1 /\ start <= tmp + 1
      /\ tmp + 1 \in 0..Len(text) /\ tmp <= tmp + 1
      /\ Walk(text, tmp) \/ Stuck(text, tmp)
  BY <1>1, <1>2, StringFacts
<1>4. Walk(text, tmp + 1) \/ Stuck(text, tmp + 1)
  BY <1>1, <1>2, <1>3, WalkPast, StuckAt
<1>5. ResInv'
  BY <1>1, <1>3, ResKept
<1>6. TypeInv' /\ HexInv' /\ WalkInv'
  BY <1>1, <1>3, <1>4 DEF IInv, TypeInv, HexInv, WalkInv, escape
<1>7. StringInv'
  BY <1>1, <1>3, StringFacts DEF StringInv, InString, Within
<1>. QED
  BY <1>1, <1>5, <1>6, <1>7 DEF IInv

LEMMA StringContinuedInv ==
  ASSUME IInv, StringContinued
  PROVE  IInv'
<1>1. /\ pc = "string" /\ Continues(text, tmp) /\ tmp' = Continuation(text, tmp)
      /\ buf' = buf \o Raw(word_start, tmp) /\ word_start' = tmp'
      /\ UNCHANGED <<backslash, text, s, pc, start, res, escape>>
  BY DEF StringContinued
<1>2. /\ Len(text) \in Nat /\ tmp \in 0..Len(text) /\ tmp \in Nat
      /\ start \in Nat /\ word_start \in Nat /\ buf \in Seq(Character)
  BY Basics
<1>3. Walk(text, tmp)
  <2>1. At(text, tmp, {"esc"})
    BY <1>1, <1>2, ContinuationAdvances
  <2>2. text[tmp + 1] \notin Whitespace \cup {"lf"}
    BY <2>1 DEF At, Whitespace
  <2>. QED
    BY <1>1, <1>2, <2>2, StringFacts, StuckAt
<1>4. Walk(text, tmp') /\ tmp' \in 0..Len(text) /\ tmp <= tmp' /\ tmp' \in Nat
  BY <1>1, <1>2, <1>3, WalkOnce
<1>5. buf' \in Seq(Character) /\ Within(buf', start, tmp')
  <2>1. buf' \in Seq(Character) /\ Within(buf', start, tmp)
    BY <1>1, <1>2, StringFacts, WithinMore
  <2>. QED
    BY <1>2, <1>4, <2>1, WithinGrows
<1>6. ResInv'
  BY <1>1, <1>4, ResKept
<1>7. TypeInv' /\ HexInv' /\ WalkInv'
  BY <1>1, <1>4, <1>5 DEF IInv, TypeInv, HexInv, WalkInv, escape
<1>8. start <= tmp'
  BY <1>1, <1>2, <1>4, StringFacts
<1>9. StringInv'
  BY <1>1, <1>4, <1>5, <1>8, StringFacts DEF StringInv, InString, Within
<1>. QED
  BY <1>1, <1>6, <1>7, <1>9 DEF IInv

(* A backslash that starts an escape.                                       *)
LEMMA EscapeWalks ==
  ASSUME IInv, Escape
  PROVE  /\ Walk(text, tmp + 1) /\ tmp + 1 \in 0..Len(text)
         /\ Walk(text, Once(tmp + 1)) /\ Once(tmp + 1) \in tmp + 1..Len(text)
<1>1. /\ pc = "string" /\ tmp < Len(text) /\ text[tmp + 1] = backslash /\ ~Continues(text, tmp)
      /\ backslash \in {"esc", "bs"}
  BY DEF Escape, At, IInv, TypeInv
<1>2. Len(text) \in Nat /\ tmp \in 0..Len(text)
  BY Basics
<1>3. text[tmp + 1] # "lf" /\ text[tmp + 1] \notin Whitespace \cup {"lf"}
  BY <1>1 DEF Whitespace
<1>4. Walk(text, tmp)
  BY <1>1, <1>2, <1>3, StringFacts, StuckAt
<1>5. Walk(text, tmp + 1) /\ tmp + 1 \in 0..Len(text)
  BY <1>1, <1>2, <1>3, <1>4, WalkPast
<1>. QED
  BY <1>2, <1>5, WalkOnce DEF Once

LEMMA StringEscapeInv ==
  ASSUME IInv, StringEscape
  PROVE  IInv'
<1>. DEFINE named == Once(tmp + 1)
            more == buf \o Raw(word_start, tmp)
<1>1. /\ pc = "string" /\ At(text, named, Named)
      /\ buf' = more \o <<<<named, ByName>>>> /\ tmp' = named + 1 /\ word_start' = tmp'
      /\ UNCHANGED <<backslash, text, s, pc, start, res, escape>>
  BY DEF StringEscape, Escape
<1>2. /\ Len(text) \in Nat /\ tmp \in 0..Len(text) /\ tmp \in Nat
      /\ start \in Nat /\ word_start \in Nat /\ buf \in Seq(Character)
  BY Basics
<1>3. Walk(text, named) /\ named \in tmp + 1..Len(text) /\ named \in Nat
  BY <1>2, EscapeWalks DEF StringEscape
<1>4. more \in Seq(Character) /\ Within(more, start, tmp)
  BY <1>1, <1>2, StringFacts, WithinMore
<1>. HIDE DEF named, more
<1>5. named < Len(text) /\ text[named + 1] # "lf"
  <2>1. backslash \in {"esc", "bs"}
    BY DEF IInv, TypeInv
  <2>. QED
    BY <1>1, <2>1 DEF At, Named
<1>6. tmp' \in 0..Len(text) /\ (Walk(text, tmp') \/ Stuck(text, tmp'))
  BY <1>1, <1>2, <1>3, <1>5, WalkPast
<1>7. /\ tmp <= tmp' /\ tmp' \in Nat /\ start <= tmp' /\ named \in start..tmp' - 1
      /\ start <= tmp
  BY <1>1, <1>2, <1>3, StringFacts
<1>8. buf' \in Seq(Character) /\ Within(buf', start, tmp')
  <2>1. <<named, ByName>> \in Character
    BY <1>3 DEF Character
  <2>2. /\ Append(more, <<named, ByName>>) \in Seq(Character)
        /\ Within(Append(more, <<named, ByName>>), start, tmp')
    BY <1>2, <1>4, <1>7, <2>1, WithinAppend
  <2>3. buf' = Append(more, <<named, ByName>>)
    <3>1. \A c : \A q \in Seq(Character) : q \o <<c>> = Append(q, c)
      OBVIOUS
    <3>. QED
      BY <1>1, <1>4, <3>1
  <2>. QED
    BY <2>2, <2>3
<1>9. ResInv'
  BY <1>1, <1>6, <1>7, ResKept
<1>10. TypeInv' /\ HexInv' /\ WalkInv'
  BY <1>1, <1>6, <1>7, <1>8 DEF IInv, TypeInv, HexInv, WalkInv, escape
<1>11. StringInv'
  BY <1>1, <1>7, <1>8, StringFacts DEF StringInv, InString
<1>. QED
  BY <1>1, <1>9, <1>10, <1>11 DEF IInv

LEMMA StringHexEscapeInv ==
  ASSUME IInv, StringHexEscape
  PROVE  IInv'
<1>. DEFINE u == Once(tmp + 1)
<1>1. /\ pc = "string" /\ At(text, u, {"u"})
      /\ buf' = buf \o Raw(word_start, tmp) /\ letter' = u /\ tmp' = u + 1 /\ pc' = "hex"
      /\ digits' = 0 /\ n' = 0 /\ high' = 0
      /\ UNCHANGED <<backslash, text, s, start, word_start, res>>
  BY DEF StringHexEscape, Escape
<1>2. /\ Len(text) \in Nat /\ tmp \in 0..Len(text) /\ tmp \in Nat
      /\ start \in Nat /\ word_start \in Nat /\ buf \in Seq(Character)
  BY Basics
<1>3. Walk(text, u) /\ u \in tmp + 1..Len(text) /\ u \in Nat
  BY <1>2, EscapeWalks DEF StringHexEscape
<1>. HIDE DEF u
<1>4. u < Len(text) /\ text[u + 1] # "lf" /\ text[u + 1] # "esc"
  BY <1>1 DEF At
<1>5. tmp' \in 0..Len(text) /\ Walk(text, tmp')
  BY <1>1, <1>2, <1>3, <1>4, WalkPast
<1>6. /\ tmp <= tmp' /\ tmp' \in Nat /\ start <= tmp' /\ letter' \in start..tmp' - 1
      /\ letter' \in Nat
  BY <1>1, <1>2, <1>3, StringFacts
<1>7. buf' \in Seq(Character) /\ Within(buf', start, tmp')
  <2>1. buf' \in Seq(Character) /\ Within(buf', start, tmp)
    BY <1>1, <1>2, StringFacts, WithinMore
  <2>. QED
    BY <1>2, <1>6, <2>1, WithinGrows
<1>8. ResInv'
  BY <1>1, <1>5, <1>6, ResKept
<1>9. TypeInv' /\ HexInv' /\ WalkInv'
  BY <1>1, <1>5, <1>6, <1>7 DEF IInv, TypeInv, HexInv, WalkInv
<1>10. StringInv'
  BY <1>1, <1>6, <1>7, StringFacts DEF StringInv, InString
<1>. QED
  BY <1>1, <1>8, <1>9, <1>10 DEF IInv

LEMMA StringEndsInv ==
  ASSUME IInv, StringEnds
  PROVE  IInv'
<1>. DEFINE value == buf \o Raw(word_start, tmp)
            string == [start |-> start, end |-> tmp, value |-> value]
<1>1. /\ pc = "string" /\ At(text, tmp, {"quote"})
      /\ res' = Append(res, string) /\ tmp' = tmp + 1 /\ pc' = "closed"
      /\ UNCHANGED <<backslash, text, s, start, word_start, buf, escape>>
  BY DEF StringEnds
<1>2. /\ Len(text) \in Nat /\ tmp \in 0..Len(text) /\ tmp \in Nat
      /\ start \in Nat /\ word_start \in Nat /\ buf \in Seq(Character)
      /\ res \in Seq(String) /\ Len(res) \in Nat
  BY Basics
<1>3. value \in Seq(Character) /\ Within(value, start, tmp)
  BY <1>1, <1>2, StringFacts, WithinMore
<1>4. string \in String
  BY <1>2, <1>3 DEF String
<1>5. tmp < Len(text) /\ text[tmp + 1] \notin Whitespace \cup {"lf", "esc"}
  BY <1>1 DEF At, Whitespace
<1>6. Walk(text, tmp + 1) /\ tmp + 1 \in 0..Len(text)
  <2>1. Walk(text, tmp)
    BY <1>1, <1>2, <1>5, StringFacts, StuckAt
  <2>. QED
    BY <1>2, <1>5, <2>1, WalkPast
<1>7. string.start = start /\ string.end = tmp /\ string.value = value
  OBVIOUS
<1>. HIDE DEF value, string
<1>8. /\ res' \in Seq(String) /\ Len(res') = Len(res) + 1
      /\ \A k \in 1..Len(res) : res'[k] = res[k]
      /\ res'[Len(res) + 1] = string
  BY <1>1, <1>2, <1>4
<1>9. ASSUME NEW k \in 1..Len(res')
      PROVE  /\ 1 <= res'[k].start
             /\ At(text, res'[k].start - 1, {"quote"}) /\ At(text, res'[k].end, {"quote"})
             /\ Within(res'[k].value, res'[k].start, res'[k].end)
             /\ res'[k].end < tmp + 1
  <2>1. CASE k = Len(res) + 1
    BY <1>1, <1>2, <1>3, <1>7, <1>8, <2>1, StringFacts
  <2>2. CASE k \in 1..Len(res)
    <3>1. res[k].end \in Nat /\ res[k].end < tmp
      BY <2>2, Strings
    <3>2. res[k].end < tmp + 1
      BY <1>2, <3>1
    <3>. QED
      BY <1>8, <2>2, <3>2 DEF IInv, ResInv
  <2>. QED
    BY <1>2, <1>8, <2>1, <2>2
<1>10. ASSUME NEW k \in 1..Len(res') - 1
       PROVE  res'[k].end < res'[k + 1].start
  <2>1. k \in 1..Len(res) /\ k + 1 \in 1..Len(res) + 1
    BY <1>2, <1>8
  <2>2. CASE k = Len(res)
    <3>1. res[k].end < start
      BY <1>1, <2>1, StringFacts
    <3>. QED
      BY <1>7, <1>8, <2>1, <2>2, <3>1
  <2>3. CASE k # Len(res)
    <3>1. k \in 1..Len(res) - 1 /\ k + 1 \in 1..Len(res)
      BY <1>2, <2>1, <2>3
    <3>. QED
      BY <1>8, <2>1, <3>1 DEF IInv, ResInv
  <2>. QED
    BY <2>2, <2>3
<1>11. ResInv'
  BY <1>1, <1>9, <1>10 DEF ResInv
<1>12. TypeInv' /\ HexInv' /\ WalkInv' /\ StringInv'
  BY <1>1, <1>6, <1>8 DEF IInv, TypeInv, HexInv, WalkInv, StringInv, InString, escape
<1>. QED
  BY <1>1, <1>11, <1>12 DEF IInv

-----------------------------------------------------------------------------
(* Within a hexadecimal escape, from the byte after its u on.               *)
LEMMA EscapeFacts ==
  ASSUME IInv, pc \in {"hex", "backslash", "u"}
  PROVE  /\ 1 <= start /\ start <= tmp /\ At(text, start - 1, {"quote"})
         /\ \A k \in 1..Len(res) : res[k].end < start
         /\ Within(buf, start, tmp) /\ letter \in start..tmp - 1
BY DEF IInv, StringInv, InString

(* A step within the escape.                                                *)
LEMMA HexInvKept ==
  ASSUME IInv, pc \in {"hex", "backslash", "u"}, pc' \in {"hex", "backslash", "u"},
         UNCHANGED <<backslash, text, s, start, word_start, buf, res, letter>>,
         tmp' \in 0..Len(text), tmp <= tmp',
         Walk(text, tmp') \/ (pc' = "u" /\ Stuck(text, tmp')),
         HexInv', high' \in {0} \cup High
  PROVE  IInv'
<1>1. /\ Len(text) \in Nat /\ tmp \in Nat /\ tmp' \in Nat /\ start \in Nat
  BY Basics
<1>2. ResInv'
  BY ResKept
<1>3. TypeInv' /\ WalkInv'
  BY DEF IInv, TypeInv, WalkInv
<1>4. /\ 1 <= start /\ start <= tmp' /\ At(text, start - 1, {"quote"})
      /\ \A k \in 1..Len(res) : res[k].end < start
      /\ letter \in start..tmp' - 1
  BY <1>1, EscapeFacts
<1>5. Within(buf, start, tmp')
  BY <1>1, EscapeFacts, WithinGrows
<1>6. StringInv'
  BY <1>4, <1>5 DEF StringInv, InString, Within
<1>. QED
  BY <1>2, <1>3, <1>6 DEF IInv

(* A digit, and the bits it makes together with those before it.            *)
LEMMA DigitWalks ==
  ASSUME IInv, AtDigit
  PROVE  /\ Walk(text, Once(tmp) + 1) /\ Once(tmp) + 1 \in 0..Len(text) /\ tmp <= Once(tmp) + 1
         /\ Bits16 \in Nat /\ Bits16 < 65536
         /\ digits = 0 => Bits16 < 16
         /\ digits = 1 => Bits16 < 256
         /\ digits = 2 => Bits16 < 4096
         /\ Bits16 = n * 16 + DigitValue(text[Once(tmp) + 1])
<1>. DEFINE d == Once(tmp)
            v == DigitValue(text[d + 1])
<1>1. /\ pc = "hex" /\ At(text, d, Digit)
      /\ Len(text) \in Nat /\ tmp \in 0..Len(text) /\ tmp \in Nat /\ Walk(text, tmp)
  BY Basics DEF AtDigit, IInv, WalkInv
<1>2. Walk(text, d) /\ d \in tmp..Len(text) /\ d \in 0..Len(text)
  BY <1>1, WalkOnce DEF Once
<1>3. v \in 0..15
  BY <1>1, DigitIs DEF At
<1>4. Bits16 = (n * 16 + v) % 65536
  BY DEF Bits16
<1>. HIDE DEF d, v
<1>5. d < Len(text) /\ text[d + 1] # "lf" /\ text[d + 1] # "esc"
  <2>1. "lf" \notin Digit /\ "esc" \notin Digit
    BY DEF Digit, Digits, ToSet
  <2>. QED
    BY <1>1, <2>1 DEF At
<1>6. Walk(text, d + 1) /\ d + 1 \in 0..Len(text) /\ tmp <= d + 1
  BY <1>1, <1>2, <1>5, WalkPast
<1>7. digits \in 0..3 /\ n \in Nat /\ n < 4096 /\ n * 16 + v \in Nat /\ n * 16 + v < 65536
  BY <1>3 DEF IInv, HexInv
<1>8. Bits16 = n * 16 + v
  <2>1. ASSUME NEW m \in Nat, m < 65536
        PROVE  m % 65536 = m
    BY <2>1
  <2>. QED
    BY <1>4, <1>7, <2>1
<1>9. /\ digits = 0 => Bits16 < 16
      /\ digits = 1 => Bits16 < 256
      /\ digits = 2 => Bits16 < 4096
  BY <1>3, <1>7, <1>8 DEF IInv, HexInv
<1>. QED
  BY <1>6, <1>7, <1>8, <1>9 DEF d, v

LEMMA HexDigitInv ==
  ASSUME IInv, HexDigit
  PROVE  IInv'
<1>1. /\ AtDigit /\ digits < 3 /\ digits' = digits + 1 /\ n' = Bits16 /\ tmp' = Once(tmp) + 1
      /\ UNCHANGED <<backslash, text, s, pc, start, word_start, buf, res, letter, high>>
  BY DEF HexDigit
<1>2. pc = "hex"
  BY <1>1 DEF AtDigit
<1>3. Walk(text, tmp') /\ tmp' \in 0..Len(text) /\ tmp <= tmp'
  BY <1>1, DigitWalks
<1>4. digits \in 0..3
  BY DEF IInv, HexInv
<1>5. HexInv'
  BY <1>1, <1>4, DigitWalks DEF HexInv
<1>6. high' \in {0} \cup High
  BY <1>1 DEF IInv, TypeInv
<1>. QED
  BY <1>1, <1>2, <1>3, <1>5, <1>6, HexInvKept

LEMMA HighSurrogateInv ==
  ASSUME IInv, HighSurrogate
  PROVE  IInv'
<1>1. /\ AtDigit /\ high' = Bits16 /\ Bits16 \in High /\ tmp' = Once(tmp) + 1 /\ pc' = "backslash"
      /\ UNCHANGED <<backslash, text, s, start, word_start, buf, res, letter, digits, n>>
  BY DEF HighSurrogate
<1>2. pc = "hex"
  BY <1>1 DEF AtDigit
<1>3. Walk(text, tmp') /\ tmp' \in 0..Len(text) /\ tmp <= tmp'
  BY <1>1, DigitWalks
<1>4. HexInv'
  BY <1>1 DEF IInv, HexInv
<1>. QED
  BY <1>1, <1>2, <1>3, <1>4, HexInvKept

LEMMA LowBackslashInv ==
  ASSUME IInv, LowBackslash
  PROVE  IInv'
<1>. DEFINE d == Once(tmp)
<1>1. /\ pc = "backslash" /\ At(text, d, {backslash}) /\ tmp' = d + 1 /\ pc' = "u"
      /\ UNCHANGED <<backslash, text, s, start, word_start, buf, res, escape>>
  BY DEF LowBackslash
<1>2. Len(text) \in Nat /\ tmp \in 0..Len(text) /\ tmp \in Nat /\ Walk(text, tmp)
  BY <1>1, Basics DEF IInv, WalkInv
<1>3. Walk(text, d) /\ d \in tmp..Len(text)
  BY <1>2, WalkOnce DEF Once
<1>. HIDE DEF d
<1>4. d < Len(text) /\ text[d + 1] # "lf"
  BY <1>1 DEF At, IInv, TypeInv
<1>5. tmp' \in 0..Len(text) /\ (Walk(text, tmp') \/ Stuck(text, tmp')) /\ tmp <= tmp'
  BY <1>1, <1>2, <1>3, <1>4, WalkPast
<1>6. HexInv' /\ high' \in {0} \cup High /\ letter' = letter
  BY <1>1 DEF IInv, HexInv, TypeInv, escape
<1>. QED
  BY <1>1, <1>5, <1>6, HexInvKept

LEMMA LowUInv ==
  ASSUME IInv, LowU
  PROVE  IInv'
<1>. DEFINE d == Once(tmp)
<1>1. /\ pc = "u" /\ At(text, d, {"u"}) /\ tmp' = d + 1 /\ pc' = "hex" /\ digits' = 0 /\ n' = 0
      /\ UNCHANGED <<backslash, text, s, start, word_start, buf, res, letter, high>>
  BY DEF LowU
<1>2. /\ Len(text) \in Nat /\ tmp \in 0..Len(text) /\ tmp \in Nat
      /\ Walk(text, tmp) \/ Stuck(text, tmp)
  BY <1>1, Basics DEF IInv, WalkInv
<1>3. Walk(text, tmp)
  <2>1. SUFFICES ASSUME Stuck(text, tmp) PROVE FALSE
    BY <1>2
  <2>2. text[tmp + 1] \in Whitespace \cup {"lf"}
    BY <1>2, <2>1, StuckAt
  <2>3. ~At(text, tmp, {"esc"})
    BY <2>2 DEF At, Whitespace
  <2>4. d = tmp
    BY <1>2, <2>3, ContinuationAdvances DEF Once, Continues
  <2>. QED
    BY <1>1, <2>2, <2>4 DEF At, Whitespace
<1>4. Walk(text, d) /\ d \in tmp..Len(text)
  BY <1>2, <1>3, WalkOnce DEF Once
<1>. HIDE DEF d
<1>5. d < Len(text) /\ text[d + 1] # "lf" /\ text[d + 1] # "esc"
  BY <1>1 DEF At
<1>6. tmp' \in 0..Len(text) /\ Walk(text, tmp') /\ tmp <= tmp'
  BY <1>1, <1>2, <1>4, <1>5, WalkPast
<1>7. HexInv' /\ high' \in {0} \cup High
  BY <1>1 DEF IInv, HexInv, TypeInv
<1>. QED
  BY <1>1, <1>6, <1>7, HexInvKept

(* The surrogates, by comparison.                                           *)
LEMMA NoSurrogate ==
  ASSUME NEW c \in Nat, c \notin High \cup Low
  PROVE  c < 55296 \/ 57343 < c
BY SMT DEF High, Low

LEMMA SurrogateIs ==
  /\ \A c \in High : c \in Nat /\ 55296 <= c /\ c < 56320
  /\ \A c \in Low : c \in Nat /\ 56320 <= c /\ c < 57344
BY SMT DEF High, Low

(* Two of them make a code point behind those of one.                       *)
LEMMA PairIsScalar ==
  ASSUME NEW h \in High, NEW l \in Low
  PROVE  ((h - 55296) * 1024 + (l - 56320)) + 65536 \in Scalar
<1>1. PICK a \in Nat : h = a + 55296 /\ a < 1024
  <2>1. h - 55296 \in Nat /\ h = (h - 55296) + 55296 /\ h - 55296 < 1024
    BY SurrogateIs, SMT
  <2>. QED
    BY <2>1
<1>2. PICK b \in Nat : l = b + 56320 /\ b < 1024
  <2>1. l - 56320 \in Nat /\ l = (l - 56320) + 56320 /\ l - 56320 < 1024
    BY SurrogateIs, SMT
  <2>. QED
    BY <2>1
<1>3. h - 55296 = a /\ l - 56320 = b
  BY <1>1, <1>2, SMT
<1>4. a * 1024 + b + 65536 \in Nat /\ 65536 <= a * 1024 + b + 65536 /\ a * 1024 + b + 65536 < 1114112
  BY <1>1, <1>2, SMT
<1>. QED
  BY <1>3, <1>4, SMT DEF Scalar

(* The end of the escape.                                                   *)
LEMMA EscapedInv ==
  ASSUME IInv, AtDigit, \E code \in Scalar : Escaped16(code)
  PROVE  IInv'
<1>. PICK code \in Scalar : Escaped16(code)
  OBVIOUS
<1>1. /\ buf' = Append(buf, <<letter, code>>)
      /\ tmp' = Once(tmp) + 1 /\ word_start' = tmp' /\ pc' = "string"
      /\ UNCHANGED <<backslash, text, s, start, res, escape>>
  BY DEF Escaped16
<1>2. /\ Len(text) \in Nat /\ tmp \in Nat /\ start \in Nat /\ buf \in Seq(Character)
      /\ letter \in Nat /\ pc = "hex"
  BY Basics DEF AtDigit
<1>3. Walk(text, tmp') /\ tmp' \in 0..Len(text) /\ tmp <= tmp' /\ tmp' \in Nat
  BY <1>1, <1>2, DigitWalks
<1>4. letter \in start..tmp' - 1 /\ start <= tmp'
  <2>1. letter \in start..tmp - 1 /\ start <= tmp
    BY <1>2, EscapeFacts
  <2>2. ASSUME NEW a \in Nat, NEW b \in Nat, NEW c \in Nat, NEW d \in Nat,
               a \in b..c - 1, b <= c, c <= d
        PROVE  a \in b..d - 1 /\ b <= d
    BY <2>2
  <2>. QED
    BY <1>2, <1>3, <2>1, <2>2
<1>5. buf' \in Seq(Character) /\ Within(buf', start, tmp')
  <2>1. <<letter, code>> \in Character
    BY <1>2 DEF Character
  <2>. QED
    BY <1>1, <1>2, <1>3, <1>4, <2>1, EscapeFacts, WithinAppend
<1>6. ResInv'
  BY <1>1, <1>3, ResKept
<1>7. TypeInv' /\ HexInv' /\ WalkInv'
  BY <1>1, <1>3, <1>5 DEF IInv, TypeInv, HexInv, WalkInv, escape
<1>8. StringInv'
  <2>1. 1 <= start /\ At(text, start - 1, {"quote"}) /\ \A k \in 1..Len(res) : res[k].end < start
    BY <1>2, EscapeFacts
  <2>2. tmp' <= tmp'
    BY <1>3
  <2>. QED
    BY <1>1, <1>4, <1>5, <2>1, <2>2 DEF StringInv, InString
<1>. QED
  BY <1>1, <1>6, <1>7, <1>8 DEF IInv

LEMMA CodeUnitInv ==
  ASSUME IInv, CodeUnit
  PROVE  IInv'
<1>1. AtDigit /\ Bits16 \notin High \cup Low /\ Escaped16(Bits16)
  BY DEF CodeUnit
<1>2. Bits16 \in Nat /\ Bits16 < 65536
  BY <1>1, DigitWalks
<1>3. Bits16 < 55296 \/ 57343 < Bits16
  BY <1>1, <1>2, NoSurrogate
<1>4. Bits16 \in Scalar
  BY <1>2, <1>3 DEF Scalar
<1>. QED
  BY <1>1, <1>4, EscapedInv

LEMMA LowSurrogateInv ==
  ASSUME IInv, LowSurrogate
  PROVE  IInv'
<1>1. /\ AtDigit /\ high \in High /\ Bits16 \in Low
      /\ Escaped16(((high - 55296) * 1024 + (Bits16 - 56320)) + 65536)
  BY DEF LowSurrogate, IInv, TypeInv
<1>2. ((high - 55296) * 1024 + (Bits16 - 56320)) + 65536 \in Scalar
  BY <1>1, PairIsScalar
<1>. QED
  BY <1>1, <1>2, EscapedInv

-----------------------------------------------------------------------------
(* The array is accepted: its line is over.                                 *)
LEMMA AcceptInv ==
  ASSUME IInv, Accept
  PROVE  IInv'
<1>1. /\ pc = "end" /\ s' = Newline(text, tmp)
      /\ tmp = Len(text) \/ At(text, tmp, {"lf"})
      /\ pc' = IF s' = tmp /\ tmp < Len(text) THEN "stray" ELSE "done"
      /\ UNCHANGED <<backslash, text, tmp, start, word_start, buf, res, escape>>
  BY DEF Accept
<1>2. Len(text) \in Nat /\ tmp \in 0..Len(text) /\ tmp \in Nat /\ Walk(text, tmp)
  BY <1>1, Basics DEF IInv, WalkInv
<1>3. s' = After(text)
  BY <1>1, <1>2, WalkOver
<1>4. s' \in 0..Len(text) /\ pc' = "done"
  <2>1. s' \in tmp..Len(text) /\ (At(text, tmp, {"lf"}) => s' = tmp + 1)
    BY <1>1, <1>2, NewlineAdvances
  <2>. QED
    BY <1>1, <1>2, <2>1
<1>5. ResInv'
  BY <1>1, <1>2, ResKept
<1>6. TypeInv' /\ HexInv' /\ WalkInv' /\ StringInv'
  BY <1>1, <1>3, <1>4 DEF IInv, TypeInv, HexInv, WalkInv, StringInv, InString, escape
<1>. QED
  BY <1>1, <1>5, <1>6 DEF IInv

LEMMA NextInv == IInv /\ [Next]_vars => IInv'
<1>. SUFFICES ASSUME IInv, [Next]_vars PROVE IInv'
  OBVIOUS
<1>1. CASE UNCHANGED vars
  BY <1>1 DEF vars, scanning, escape, IInv, TypeInv, HexInv, WalkInv, StringInv, ResInv, InString,
              Within
<1>2. CASE Unexpected \/ BadEscape \/ LoneSurrogate \/ BadHexEscape \/ BadString \/ Trailing
  BY <1>2, RejectInv DEF Unexpected, BadEscape, LoneSurrogate, BadHexEscape, BadString, Trailing
<1>3. CASE Skip \/ Open \/ Comma \/ Close
  BY <1>3, SkipInv, OpenInv, CommaInv, CloseInv
<1>4. CASE StringByte \/ StringContinued \/ StringEscape \/ StringHexEscape \/ StringEnds
  BY <1>4, StringByteInv, StringContinuedInv, StringEscapeInv, StringHexEscapeInv, StringEndsInv
<1>5. CASE HexDigit \/ CodeUnit \/ HighSurrogate \/ LowSurrogate \/ LowBackslash \/ LowU
  BY <1>5, HexDigitInv, CodeUnitInv, HighSurrogateInv, LowSurrogateInv, LowBackslashInv, LowUInv
<1>6. CASE Accept
  BY <1>6, AcceptInv
<1>. QED
  BY <1>1, <1>2, <1>3, <1>4, <1>5, <1>6 DEF Next

LEMMA Invariance == Spec => []IInv
BY InitInv, NextInv, PTL DEF Spec

-----------------------------------------------------------------------------
(* An array that parse_json_array accepts is followed by the end of its     *)
(* logical line and nothing else: the callers' debug_assert!(consumed)      *)
(* holds, and the next instruction is looked for where the other forms      *)
(* would look for it.                                                       *)
THEOREM EndCorrect == Spec => []EndsWithTheLine
<1>1. IInv => EndsWithTheLine
  BY DEF IInv, TypeInv, WalkInv, EndsWithTheLine
<1>. QED
  BY <1>1, Invariance, PTL

(* Each string's span is what is between its quotes, each of its characters *)
(* comes from within, and the spans are in order and apart.                 *)
THEOREM SpansCorrect == Spec => []SpansBetweenQuotes
<1>1. ASSUME IInv, NEW k \in DOMAIN res
      PROVE  /\ At(text, res[k].start - 1, {"quote"}) /\ At(text, res[k].end, {"quote"})
             /\ \A c \in ToSet(res[k].value) : c[1] \in res[k].start..res[k].end - 1
             /\ k < Len(res) => res[k].end < res[k + 1].start
  <2>1. res \in Seq(String) /\ Len(res) \in Nat /\ k \in 1..Len(res) /\ DOMAIN res = 1..Len(res)
    BY <1>1, Basics
  <2>2. k < Len(res) => k \in 1..Len(res) - 1
    BY <2>1
  <2>3. /\ At(text, res[k].start - 1, {"quote"}) /\ At(text, res[k].end, {"quote"})
        /\ Within(res[k].value, res[k].start, res[k].end)
        /\ k < Len(res) => res[k].end < res[k + 1].start
    BY <1>1, <2>1, <2>2 DEF IInv, ResInv
  <2>4. DOMAIN res[k].value = 1..Len(res[k].value)
    BY <1>1, <2>1, Strings
  <2>. QED
    BY <2>3, <2>4 DEF Within, ToSet
<1>2. IInv => SpansBetweenQuotes
  BY <1>1 DEF SpansBetweenQuotes
<1>. QED
  BY <1>2, Invariance, PTL

(* What the strings are made of: bytes, bytes named by an escape, and code  *)
(* points, none of which is a surrogate or beyond the last.                 *)
ScalarValues ==
  \A k \in DOMAIN res : \A j \in DOMAIN res[k].value :
    res[k].value[j][2] \in Scalar \cup {Itself, ByName}

(* char::from_u32 gives a character for all that decode_hex_escape reads,   *)
(* one escape or two: its unwrap() cannot panic, and InvalidUnicodeCodePoint*)
(* is never returned.  (HexInv also has it that the four digits are put     *)
(* together without a bit lost.)                                            *)
THEOREM ScalarCorrect == Spec => []ScalarValues
<1>1. ASSUME IInv, NEW k \in DOMAIN res, NEW j \in DOMAIN res[k].value
      PROVE  res[k].value[j][2] \in Scalar \cup {Itself, ByName}
  <2>1. k \in 1..Len(res)
    BY <1>1, Basics
  <2>2. res[k].value \in Seq(Character)
    BY <1>1, <2>1, Strings
  <2>3. res[k].value[j] \in Character
    BY <1>1, <2>2
  <2>. QED
    BY <2>3 DEF Character
<1>2. IInv => ScalarValues
  BY <1>1 DEF ScalarValues
<1>. QED
  BY <1>2, Invariance, PTL

-----------------------------------------------------------------------------
(* Every other backslash of a run escapes.                                  *)
Run(line, k) == {j \in 1..k - 1 : \A m \in j..k - 1 : Byte(line, m) = backslash}

LEMMA EscapedFirst ==
  ASSUME NEW line
  PROVE  ~Escaped(line, 1)
<1>1. {j \in 1..1-1 : \A m \in j..1-1 : Byte(line, m) = backslash} = {}
  OBVIOUS
<1>2. Cardinality({}) = 0 /\ 0 % 2 # 1
  BY FS_EmptySet
<1>. QED
  BY <1>1, <1>2 DEF Escaped

LEMMA EscapedNext ==
  ASSUME NEW line, NEW k \in Nat \ {0}
  PROVE  Escaped(line, k + 1) <=> Byte(line, k) = backslash /\ ~Escaped(line, k)
<1>1. IsFiniteSet(Run(line, k)) /\ Cardinality(Run(line, k)) \in Nat
  <2>1. Run(line, k) \subseteq 1..k - 1 /\ IsFiniteSet(1..k - 1)
    BY FS_Interval DEF Run
  <2>. QED
    BY <2>1, FS_Subset, FS_CardinalityType
<1>2. /\ Escaped(line, k) <=> Cardinality(Run(line, k)) % 2 = 1
      /\ Escaped(line, k + 1) <=> Cardinality(Run(line, k + 1)) % 2 = 1
  BY DEF Escaped, Run
<1>3. CASE Byte(line, k) # backslash
  <2>1. Run(line, k + 1) = {}
    <3>1. \A j \in 1..(k + 1) - 1 : k \in j..(k + 1) - 1
      OBVIOUS
    <3>. QED
      BY <1>3, <3>1 DEF Run
  <2>2. Cardinality(Run(line, k + 1)) = 0
    BY <2>1, FS_EmptySet
  <2>. QED
    BY <1>2, <1>3, <2>2
<1>4. CASE Byte(line, k) = backslash
  <2>1. Run(line, k + 1) = Run(line, k) \cup {k}
    <3>1. \A j \in 1..(k + 1) - 1 : j = k \/ j \in 1..k - 1
      OBVIOUS
    <3>2. \A j \in 1..k - 1 : j..(k + 1) - 1 = (j..k - 1) \cup {k}
      OBVIOUS
    <3>3. k \in 1..(k + 1) - 1 /\ k..(k + 1) - 1 = {k} /\ 1..k - 1 \subseteq 1..(k + 1) - 1
      OBVIOUS
    <3>4. \A j \in Run(line, k + 1) : j \in Run(line, k) \cup {k}
      BY <3>1, <3>2 DEF Run
    <3>5. \A j \in Run(line, k) \cup {k} : j \in Run(line, k + 1)
      BY <1>4, <3>2, <3>3 DEF Run
    <3>. QED
      BY <3>4, <3>5
  <2>2. k \notin Run(line, k)
    BY DEF Run
  <2>3. Cardinality(Run(line, k + 1)) = Cardinality(Run(line, k)) + 1
    BY <1>1, <2>1, <2>2, FS_AddElement
  <2>4. \A c \in Nat : (c + 1) % 2 = 1 <=> ~(c % 2 = 1)
    OBVIOUS
  <2>. QED
    BY <1>1, <1>2, <1>4, <2>3, <2>4
<1>. QED
  BY <1>3, <1>4

(* The backslashes that start an escape.                                    *)
Escapes(line) == Unescaped(line, backslash)

LEMMA EscapesAre ==
  ASSUME NEW line, Len(line) \in Nat, DOMAIN line = 1..Len(line), NEW byte
  PROVE  /\ Unescaped(line, byte) \in SUBSET (1..Len(line))
         /\ \A k : k \in Unescaped(line, byte) <=>
                     k \in 1..Len(line) /\ Byte(line, k) = byte /\ ~Escaped(line, k)
BY DEF Unescaped

LEMMA SizeIs ==
  ASSUME NEW line, NEW k
  PROVE  /\ Size(line, k) \in {2, 6, 12}
         /\ Pairs(line, k) => Size(line, k) = 12 /\ IsHex(line, k)
         /\ ~Pairs(line, k) /\ IsHex(line, k) => Size(line, k) = 6
         /\ ~IsHex(line, k) => Size(line, k) = 2
BY DEF Size, Pairs

(* At k no escape is left open.                                             *)
Clean(line, k) == \A e \in Escapes(line) : e < k => e + Size(line, e) <= k

LEMMA CleanUnescaped ==
  ASSUME NEW line, Len(line) \in Nat, DOMAIN line = 1..Len(line), NEW k \in 1..Len(line) + 1,
         Clean(line, k)
  PROVE  ~Escaped(line, k)
<1>1. SUFFICES ASSUME Escaped(line, k) PROVE FALSE
  OBVIOUS
<1>2. k # 1
  BY <1>1, EscapedFirst
<1>3. PICK e \in Nat \ {0} : k = e + 1
  <2>1. k - 1 \in Nat \ {0} /\ k = (k - 1) + 1
    BY <1>2
  <2>. QED
    BY <2>1
<1>4. Byte(line, e) = backslash /\ ~Escaped(line, e)
  BY <1>1, <1>3, EscapedNext
<1>5. e \in 1..Len(line) /\ e < k
  BY <1>3
<1>6. e \in Escapes(line)
  BY <1>4, <1>5, EscapesAre DEF Escapes
<1>7. e + Size(line, e) <= k
  BY <1>5, <1>6 DEF Clean
<1>. QED
  BY <1>3, <1>7, SizeIs

(* No digit and no u is a backslash.                                        *)
LEMMA DigitsAre ==
  ASSUME backslash \in {"esc", "bs"}
  PROVE  /\ backslash \notin Digit /\ "u" \notin Digit /\ "quote" \notin Digit /\ "lf" \notin Digit
         /\ "esc" \notin Digit /\ "bs" \notin Digit
         /\ backslash # "u" /\ "u" \notin Named /\ backslash # "quote"
         /\ Digit \cap Control = {}
BY DEF Digit, Digits, ToSet, Named, Control

(* The bytes of a hexadecimal escape.                                       *)
LEMMA HexIs ==
  ASSUME NEW line, Len(line) \in Nat, NEW k \in Nat, IsHex(line, k)
  PROVE  /\ k \in 1..Len(line) /\ k + 5 <= Len(line)
         /\ Byte(line, k) = backslash /\ ~Escaped(line, k)
         /\ Byte(line, k + 1) = "u"
         /\ \A d \in k + 2..k + 5 : Byte(line, d) \in Digit
BY DEF IsHex

Sound(line) == Len(line) \in Nat /\ DOMAIN line = 1..Len(line)

(* What is behind the first byte of an escape starts none, but for the      *)
(* second surrogate.                                                        *)
LEMMA HexInner ==
  ASSUME backslash \in {"esc", "bs"}, NEW line, Sound(line), NEW k \in Nat, IsHex(line, k)
  PROVE  /\ \A d \in k + 1..k + 5 : /\ d \notin Escapes(line)
                                    /\ Byte(line, d) # backslash
                                    /\ Byte(line, d) \notin Control \cup {"quote"}
         /\ ~Escaped(line, k + 6)
<1>1. /\ Len(line) \in Nat /\ k \in 1..Len(line) /\ Byte(line, k + 1) = "u"
      /\ \A d \in k + 2..k + 5 : Byte(line, d) \in Digit
  BY HexIs DEF Sound
<1>2. \A d \in k + 1..k + 5 : d = k + 1 \/ d \in k + 2..k + 5
  OBVIOUS
<1>3. \A d \in k + 1..k + 5 : Byte(line, d) # backslash /\ Byte(line, d) \notin Control \cup {"quote"}
  BY <1>1, <1>2, DigitsAre DEF Control
<1>4. \A d \in k + 1..k + 5 : d \notin Escapes(line)
  BY <1>3 DEF Escapes, Unescaped
<1>5. ~Escaped(line, k + 6)
  <2>1. PICK d \in Nat \ {0} : d = k + 5
    BY <1>1
  <2>2. d \in k + 1..k + 5 /\ k + 6 = d + 1
    BY <2>1
  <2>. QED
    BY <1>3, <2>2, EscapedNext
<1>. QED
  BY <1>3, <1>4, <1>5

LEMMA PairInner ==
  ASSUME backslash \in {"esc", "bs"}, NEW line, Sound(line), NEW k \in Nat, Pairs(line, k)
  PROVE  /\ k + 6 \in Escapes(line) /\ Size(line, k + 6) = 6 /\ IsHex(line, k + 6)
         /\ IsEscape(line, k + 6)
         /\ \A d \in k + 1..k + 11 : d = k + 6 \/ /\ d \notin Escapes(line)
                                                  /\ Byte(line, d) # backslash
                                                  /\ Byte(line, d) \notin Control \cup {"quote"}
<1>1. /\ IsHex(line, k) /\ Bits(line, k) \in High
      /\ IsHex(line, k + 6) /\ Bits(line, k + 6) \in Low
  BY DEF Pairs
<1>2. PICK e \in Nat : e = k + 6
  OBVIOUS
<1>3. k + 6 \in Escapes(line)
  BY <1>1, <1>2, HexIs, EscapesAre DEF Sound, Escapes
<1>4. ~Pairs(line, k + 6)
  BY <1>1, SurrogateIs DEF Pairs
<1>5. Size(line, k + 6) = 6
  BY <1>1, <1>4, SizeIs
<1>6. IsEscape(line, k + 6)
  <2>1. (k + 6) - 6 = k
    OBVIOUS
  <2>. QED
    BY <1>1, <2>1 DEF IsEscape
<1>7. \A d \in k + 1..k + 11 : d = k + 6 \/ d \in k + 1..k + 5 \/ d \in e + 1..e + 5
  BY <1>2
<1>. QED
  BY <1>1, <1>2, <1>3, <1>5, <1>6, <1>7, HexInner

(* Past a byte that starts no escape, and past an escape.                   *)
LEMMA CleanByte ==
  ASSUME NEW line, Sound(line), NEW k \in 1..Len(line), Clean(line, k), k \notin Escapes(line)
  PROVE  Clean(line, k + 1)
<1>1. ASSUME NEW e \in Escapes(line), e < k + 1
      PROVE  e + Size(line, e) <= k + 1
  <2>1. e \in 1..Len(line) /\ e # k
    BY EscapesAre DEF Sound, Escapes
  <2>2. e < k
    BY <1>1, <2>1 DEF Sound
  <2>3. e + Size(line, e) <= k
    BY <2>2 DEF Clean
  <2>. QED
    BY <2>1, <2>3, SizeIs DEF Sound
<1>. QED
  BY <1>1 DEF Clean

LEMMA EscapeInner ==
  ASSUME backslash \in {"esc", "bs"}, NEW line, Sound(line), NEW k \in 1..Len(line),
         k \in Escapes(line), IsEscape(line, k), NEW d \in k + 1..k + Size(line, k) - 1
  PROVE  /\ d \in Escapes(line) => d + Size(line, d) <= k + Size(line, k)
         /\ Byte(line, d) \notin Control
         /\ Byte(line, d) = backslash /\ ~Escaped(line, d) => IsEscape(line, d)
         /\ d \notin Unescaped(line, "quote")
<1>1. k \in Nat \ {0} /\ Len(line) \in Nat
  BY DEF Sound
<1>2. CASE Pairs(line, k)
  <2>1. Size(line, k) = 12
    BY <1>2, SizeIs
  <2>2. d \in k + 1..k + 11
    BY <1>1, <2>1
  <2>3. CASE d = k + 6
    <3>1. Size(line, d) = 6 /\ IsEscape(line, d) /\ d \in Escapes(line)
      BY <1>1, <1>2, <2>3, PairInner
    <3>2. Byte(line, d) \notin Control /\ d \notin Unescaped(line, "quote")
      BY <3>1, EscapesAre, DigitsAre DEF Sound, Escapes, Control
    <3>. QED
      BY <1>1, <2>1, <2>3, <3>1, <3>2
  <2>4. CASE d # k + 6
    BY <1>1, <1>2, <2>2, <2>4, PairInner DEF Unescaped
  <2>. QED
    BY <2>3, <2>4
<1>3. CASE ~Pairs(line, k) /\ IsHex(line, k)
  <2>1. Size(line, k) = 6
    BY <1>3, SizeIs
  <2>2. d \in k + 1..k + 5
    BY <1>1, <2>1
  <2>. QED
    BY <1>1, <1>3, <2>2, HexInner DEF Unescaped
<1>4. CASE ~IsHex(line, k)
  <2>1. Size(line, k) = 2
    BY <1>4, SizeIs
  <2>2. d = k + 1
    BY <1>1, <2>1
  <2>3. Byte(line, k) = backslash /\ ~Escaped(line, k)
    BY EscapesAre DEF Sound, Escapes
  <2>4. Escaped(line, d)
    BY <1>1, <2>2, <2>3, EscapedNext
  <2>5. d \notin Escapes(line) /\ d \notin Unescaped(line, "quote")
    BY <2>4, EscapesAre DEF Sound, Escapes
  <2>6. Byte(line, d) \in Named
    BY <1>4, <2>2 DEF IsEscape
  <2>7. Named \cap Control = {}
    BY DEF Named, Control
  <2>. QED
    BY <2>4, <2>5, <2>6, <2>7
<1>. QED
  BY <1>2, <1>3, <1>4, SizeIs

LEMMA CleanEscape ==
  ASSUME backslash \in {"esc", "bs"}, NEW line, Sound(line), NEW k \in 1..Len(line), Clean(line, k),
         k \in Escapes(line), IsEscape(line, k), NEW m, m = k + Size(line, k)
  PROVE  Clean(line, m)
<1>1. k \in Nat /\ Size(line, k) \in Nat /\ m \in Nat /\ k < m
  BY SizeIs DEF Sound
<1>2. ASSUME NEW e \in Escapes(line), e < m
      PROVE  e + Size(line, e) <= m
  <2>1. e \in Nat /\ Size(line, e) \in Nat
    BY EscapesAre, SizeIs DEF Sound, Escapes
  <2>2. CASE e < k
    <3>1. e + Size(line, e) <= k
      BY <2>2 DEF Clean
    <3>. QED
      BY <1>1, <2>1, <3>1
  <2>3. CASE e = k
    BY <1>1, <2>3
  <2>4. CASE k < e
    <3>1. e \in k + 1..k + Size(line, k) - 1
      BY <1>1, <1>2, <2>1, <2>4
    <3>. QED
      BY <3>1, EscapeInner
  <2>. QED
    BY <1>1, <2>1, <2>2, <2>3, <2>4
<1>. QED
  BY <1>2 DEF Clean

(* The characters between i and k, and one more.                            *)
Starts(line, k) == \A e \in Escapes(line) : k \notin e + 1..e + Size(line, e) - 1

LEMMA CharsAre ==
  ASSUME NEW line, NEW i, NEW j
  PROVE  \A c : c \in Chars(line, i, j) <=>
                  \E k \in i + 1..j - 1 : Starts(line, k) /\ c = CharAt(line, k)
BY DEF Chars, Starts, Escapes

LEMMA CharsMore ==
  ASSUME NEW line, Sound(line), NEW k \in 1..Len(line), Clean(line, k), NEW i \in Nat, i < k,
         NEW m, k \in Escapes(line) => m = k + Size(line, k),
         k \notin Escapes(line) => m = k + 1
  PROVE  Chars(line, i, m) = Chars(line, i, k) \cup {CharAt(line, k)}
<1>1. k \in Nat /\ Size(line, k) \in Nat /\ m \in Nat /\ k < m
  BY SizeIs DEF Sound
<1>2. Starts(line, k)
  <2>1. ASSUME NEW e \in Escapes(line)
        PROVE  k \notin e + 1..e + Size(line, e) - 1
    <3>1. e \in Nat /\ Size(line, e) \in Nat
      BY EscapesAre, SizeIs DEF Sound, Escapes
    <3>2. e < k => e + Size(line, e) <= k
      BY DEF Clean
    <3>. QED
      BY <1>1, <3>1, <3>2
  <2>. QED
    BY <2>1 DEF Starts
<1>3. ASSUME NEW x \in k + 1..m - 1
      PROVE  ~Starts(line, x)
  <2>1. k \in Escapes(line) /\ x \in k + 1..k + Size(line, k) - 1
    BY <1>1
  <2>. QED
    BY <2>1 DEF Starts
<1>4. \A x \in i + 1..m - 1 : x \in i + 1..k - 1 \/ x = k \/ x \in k + 1..m - 1
  BY <1>1
<1>5. k \in i + 1..m - 1 /\ \A x \in i + 1..k - 1 : x \in i + 1..m - 1
  BY <1>1
<1>6. ASSUME NEW c
      PROVE  c \in Chars(line, i, m) <=> c \in Chars(line, i, k) \cup {CharAt(line, k)}
  <2>1. c \in Chars(line, i, m) => c \in Chars(line, i, k) \cup {CharAt(line, k)}
    BY <1>3, <1>4, CharsAre
  <2>2. c \in Chars(line, i, k) \cup {CharAt(line, k)} => c \in Chars(line, i, m)
    BY <1>2, <1>5, CharsAre
  <2>. QED
    BY <2>1, <2>2
<1>. QED
  BY <1>6

(* The bytes between i and k are those of a string, and so are the next.    *)
LEMMA IsStringByte ==
  ASSUME NEW line, NEW i \in Nat, NEW k \in Nat, i < k, IsString(line, i, k),
         Byte(line, k) \notin Control, Byte(line, k) # backslash
  PROVE  IsString(line, i, k + 1)
<1>1. \A x \in i + 1..(k + 1) - 1 : x \in i + 1..k - 1 \/ x = k
  OBVIOUS
<1>. QED
  BY <1>1 DEF IsString

LEMMA IsStringEscape ==
  ASSUME backslash \in {"esc", "bs"}, NEW line, Sound(line), NEW k \in 1..Len(line),
         k \in Escapes(line), IsEscape(line, k), NEW m, m = k + Size(line, k),
         NEW i \in Nat, i < k, IsString(line, i, k)
  PROVE  IsString(line, i, m)
<1>1. k \in Nat /\ Size(line, k) \in Nat /\ m \in Nat /\ k < m
  BY SizeIs DEF Sound
<1>2. \A x \in i + 1..m - 1 : x \in i + 1..k - 1 \/ x = k \/ x \in k + 1..k + Size(line, k) - 1
  BY <1>1
<1>3. Byte(line, k) \notin Control
  BY EscapesAre DEF Sound, Escapes, Control
<1>4. \A x \in k + 1..k + Size(line, k) - 1 :
         /\ Byte(line, x) \notin Control
         /\ Byte(line, x) = backslash /\ ~Escaped(line, x) => IsEscape(line, x)
  BY EscapeInner
<1>. QED
  BY <1>2, <1>3, <1>4 DEF IsString

-----------------------------------------------------------------------------
(* The logical line and its quotes, as sequences.                           *)
Reads(line, q) ==
  /\ line = Ordered(Bytes(text), Len(text))
  /\ q = Ordered(Unescaped(line, "quote"), Len(line) + 1)

LEMMA LineIs ==
  ASSUME Len(text) \in Nat, NEW line, NEW q, Reads(line, q)
  PROVE  /\ line \in Seq(Nat) /\ Sound(line) /\ Spells(line, Bytes(text))
         /\ \A b : b \in Bytes(text) <=> b \in 0..Len(text) - 1 /\ Belongs(text, b)
         /\ \A k \in 1..Len(line) : line[k] \in 0..Len(text) - 1
         /\ \A j, k \in 1..Len(line) : j < k => line[j] < line[k]
<1>1. \A b : b \in Bytes(text) <=> b \in 0..Len(text) - 1 /\ Belongs(text, b)
  BY DEF Bytes, Belongs
<1>2. Bytes(text) \in SUBSET (0..Len(text) - 1)
  BY <1>1
<1>3. line \in Seq(Nat) /\ Spells(line, Bytes(text))
  BY <1>2, OrderedSpells DEF Reads
<1>4. Sound(line)
  BY <1>3 DEF Sound
<1>. QED
  BY <1>1, <1>3, <1>4 DEF Spells, Sound

LEMMA QuotesAre ==
  ASSUME Len(text) \in Nat, NEW line, NEW q, Reads(line, q)
  PROVE  /\ q \in Seq(Nat) /\ Len(q) \in Nat /\ Spells(q, Unescaped(line, "quote"))
         /\ \A j \in 1..Len(q) : q[j] \in 1..Len(line) /\ q[j] \in Unescaped(line, "quote")
         /\ \A j, k \in 1..Len(q) : j < k => q[j] < q[k]
<1>1. Sound(line)
  BY LineIs
<1>2. Len(line) + 1 \in Nat /\ Unescaped(line, "quote") \in SUBSET (0..(Len(line) + 1) - 1)
  BY <1>1, EscapesAre DEF Sound
<1>3. q \in Seq(Nat) /\ Spells(q, Unescaped(line, "quote"))
  <2>1. PICK m \in Nat : m = Len(line) + 1
    BY <1>2
  <2>2. PICK S : S = Unescaped(line, "quote")
    OBVIOUS
  <2>3. q = Ordered(S, m) /\ S \in SUBSET (0..m - 1)
    BY <1>2, <2>1, <2>2 DEF Reads
  <2>. QED
    BY <2>1, <2>2, <2>3, OrderedSpells
<1>4. Len(q) \in Nat /\ DOMAIN q = 1..Len(q)
  BY <1>3
<1>5. /\ \A j \in 1..Len(q) : q[j] \in Unescaped(line, "quote")
      /\ \A j, k \in 1..Len(q) : j < k => q[j] < q[k]
  BY <1>3, <1>4 DEF Spells
<1>. QED
  BY <1>1, <1>3, <1>4, <1>5, EscapesAre DEF Sound

(* The reader moves on: a byte of the line is read, or others are passed,   *)
(* or there are no more.                                                    *)
LEMMA ReadByte ==
  ASSUME Len(text) \in Nat, NEW line, NEW q, Reads(line, q),
         NEW i, Walk(text, i), i < Len(text), text[i + 1] # "lf", ~Continues(text, i),
         NEW k, Ahead(line, i, k)
  PROVE  /\ k \in 1..Len(line) /\ line[k] = i /\ Byte(line, k) = text[i + 1]
         /\ Ahead(line, i + 1, k + 1)
<1>1. Belongs(text, i) /\ i \in 0..Len(text)
  BY WalkByte DEF Walk
<1>2. i \in Bytes(text) /\ i \in Nat
  BY <1>1, LineIs
<1>3. k \in 1..Len(line) /\ line[k] = i /\ Ahead(line, i + 1, k + 1)
  BY <1>2, LineIs, AheadByte
<1>. QED
  BY <1>3 DEF Byte

LEMMA ReadOver ==
  ASSUME Len(text) \in Nat, NEW line, NEW q, Reads(line, q),
         NEW i, Walk(text, i), NEW k, Ahead(line, i, k)
  PROVE  Ahead(line, Continuation(text, i), k)
<1>1. CASE Continues(text, i)
  <2>1. i \in 0..Len(text) /\ \A b \in i..Continuation(text, i) - 1 : ~Belongs(text, b)
    BY <1>1, WalkContinued DEF Walk
  <2>2. i \in Nat /\ Continuation(text, i) \in Nat /\ i <= Continuation(text, i)
    BY <2>1, ContinuationAdvances
  <2>3. \A b \in i..Continuation(text, i) - 1 : b \notin Bytes(text)
    BY <2>1, LineIs
  <2>. QED
    BY <2>2, <2>3, LineIs, AheadSkip
<1>2. CASE ~Continues(text, i)
  BY <1>2 DEF Continues
<1>. QED
  BY <1>1, <1>2

LEMMA ReadEnd ==
  ASSUME Len(text) \in Nat, NEW line, NEW q, Reads(line, q),
         NEW i, Walk(text, i), i = Len(text) \/ At(text, i, {"lf"}),
         NEW k, Ahead(line, i, k)
  PROVE  k = Len(line) + 1
<1>1. i \in Nat /\ i \in 0..Len(text)
  BY DEF Walk
<1>2. \A b \in i..Len(text) - 1 : ~Belongs(text, b)
  BY WalkOver
<1>3. \A b \in Bytes(text) : b < i
  BY <1>1, <1>2, LineIs
<1>. QED
  BY <1>1, <1>3, LineIs, AheadEnd

(* ... and with it, what of the quotes is ahead.                            *)
LEMMA QuoteRead ==
  ASSUME Len(text) \in Nat, NEW line, NEW q, Reads(line, q), NEW k \in 1..Len(line),
         NEW j, Ahead(q, k, j)
  PROVE  /\ Byte(line, k) = "quote" /\ ~Escaped(line, k) =>
              j \in 1..Len(q) /\ q[j] = k /\ Ahead(q, k + 1, j + 1)
         /\ Byte(line, k) # "quote" => Ahead(q, k + 1, j)
         /\ j \in 1..Len(q) => k <= q[j] /\ (Byte(line, k) # "quote" => k < q[j])
<1>1. Sound(line) /\ k \in Nat
  BY LineIs DEF Sound
<1>2. CASE Byte(line, k) = "quote" /\ ~Escaped(line, k)
  <2>1. k \in Unescaped(line, "quote")
    BY <1>1, <1>2, EscapesAre DEF Sound
  <2>2. j \in 1..Len(q) /\ q[j] = k /\ Ahead(q, k + 1, j + 1)
    BY <1>1, <2>1, QuotesAre, AheadByte
  <2>. QED
    BY <1>1, <1>2, <2>2
<1>3. j \in 1..Len(q) => k <= q[j] /\ (Byte(line, k) # "quote" => k < q[j])
  <2>1. ASSUME j \in 1..Len(q)
        PROVE  k <= q[j] /\ (Byte(line, k) # "quote" => k < q[j])
    <3>1. q[j] \in Nat /\ Byte(line, q[j]) = "quote" /\ Len(q) \in Nat
      BY <1>1, <2>1, QuotesAre, EscapesAre DEF Sound
    <3>2. ~(q[j] < k)
      BY <2>1, <3>1 DEF Ahead
    <3>. QED
      BY <1>1, <3>1, <3>2
  <2>. QED
    BY <2>1
<1>4. CASE Byte(line, k) # "quote"
  <2>1. \A b \in k..(k + 1) - 1 : b = k
    BY <1>1
  <2>2. k \notin Unescaped(line, "quote")
    BY <1>1, <1>4, EscapesAre DEF Sound
  <2>3. PICK m \in Nat : m = k + 1
    BY <1>1
  <2>4. k <= m /\ \A b \in k..m - 1 : b \notin Unescaped(line, "quote")
    BY <1>1, <2>2, <2>3
  <2>5. Ahead(q, m, j)
    BY <1>1, <2>4, QuotesAre, AheadSkip
  <2>. QED
    BY <1>3, <1>4, <2>3, <2>5
<1>5. CASE Byte(line, k) = "quote" /\ Escaped(line, k)
  BY <1>3, <1>5
<1>. QED
  BY <1>2, <1>3, <1>4, <1>5

LEMMA QuotesEnd ==
  ASSUME Len(text) \in Nat, NEW line, NEW q, Reads(line, q),
         NEW j, NEW k, k = Len(line) + 1, Ahead(q, k, j)
  PROVE  j = Len(q) + 1
<1>1. Sound(line)
  BY LineIs
<1>2. k \in Nat /\ \A b \in Unescaped(line, "quote") : b < k
  BY <1>1, EscapesAre DEF Sound
<1>. QED
  BY <1>2, QuotesAre, AheadEnd

-----------------------------------------------------------------------------
(* What an array cannot be.                                                 *)
Doomed(line, q) == ~IsRead(line, q, Markers(text))

OpenClose(line, k) ==
  \E x, y \in 1..k - 1 :
    x < y /\ Byte(line, x) = "open" /\ Byte(line, y) = "close" /\ Around(line, 0, k) = {x, y}

LEMMA ArrayEmpty ==
  ASSUME NEW line, Sound(line), NEW q, q = <<>>, IsArray(line, q)
  PROVE  OpenClose(line, Len(line) + 1)
<1>1. (Len(line) + 1) - 1 = Len(line)
  BY DEF Sound
<1>. QED
  BY <1>1 DEF IsArray, OpenClose, Sound

LEMMA ArrayFirst ==
  ASSUME NEW line, NEW q \in Seq(Nat), q # <<>>, IsArray(line, q)
  PROVE  Only(line, 0, q[1], "open")
BY DEF IsArray

LEMMA ArrayString ==
  ASSUME NEW line, NEW q \in Seq(Nat), IsArray(line, q), NEW m \in Nat,
         NEW j, j = 2 * m + 1, j \in 1..Len(q)
  PROVE  j + 1 \in 1..Len(q) /\ IsString(line, q[j], q[j + 1])
<1>1. Len(q) \in Nat /\ q # <<>> /\ j \in Nat
  OBVIOUS
<1>2. PICK c \in 1..Len(q) : Len(q) = 2 * c /\ \A i \in 1..c : IsString(line, q[2 * i - 1], q[2 * i])
  BY <1>1 DEF IsArray
<1>3. PICK i : i = m + 1
  OBVIOUS
<1>4. i \in 1..c /\ 2 * i - 1 = j /\ 2 * i = j + 1 /\ j + 1 \in 1..Len(q)
  BY <1>1, <1>2, <1>3
<1>. QED
  BY <1>2, <1>4

LEMMA ArrayGap ==
  ASSUME NEW line, NEW q \in Seq(Nat), IsArray(line, q), NEW m \in Nat,
         NEW j, j = 2 * m, j \in 1..Len(q)
  PROVE  /\ j = Len(q) => Only(line, q[j], Len(line) + 1, "close")
         /\ j # Len(q) => j + 1 \in 1..Len(q) /\ Only(line, q[j], q[j + 1], "comma")
<1>1. Len(q) \in Nat /\ q # <<>> /\ j \in Nat
  OBVIOUS
<1>2. PICK c \in 1..Len(q) :
        /\ Len(q) = 2 * c /\ Only(line, q[2 * c], Len(line) + 1, "close")
        /\ \A i \in 1..c : i < c => Only(line, q[2 * i], q[2 * i + 1], "comma")
  BY <1>1 DEF IsArray
<1>3. m \in 1..c /\ (j = Len(q) => j = 2 * c) /\ (j # Len(q) => m < c /\ j + 1 \in 1..Len(q))
  BY <1>1, <1>2
<1>. QED
  BY <1>2, <1>3

(* A string that is not closed, or has in it what JSON does not allow.      *)
LEMMA Unclosed ==
  ASSUME NEW line, NEW q \in Seq(Nat), NEW m \in Nat, NEW j, j = 2 * m + 1, j = Len(q)
  PROVE  Doomed(line, q)
<1>1. SUFFICES ASSUME IsArray(line, q) PROVE FALSE
  BY DEF Doomed, IsRead
<1>2. Len(q) \in Nat /\ j \in 1..Len(q)
  OBVIOUS
<1>3. j + 1 \in 1..Len(q)
  BY <1>1, <1>2, ArrayString
<1>. QED
  BY <1>2, <1>3

LEMMA NotInString ==
  ASSUME Len(text) \in Nat, NEW line, NEW q, Reads(line, q),
         NEW m \in Nat, NEW j, j = 2 * m + 1, j \in 1..Len(q),
         NEW x \in Nat, q[j] < x, j < Len(q) => x < q[j + 1],
         \/ Byte(line, x) \in Control
         \/ Byte(line, x) = backslash /\ ~Escaped(line, x) /\ ~IsEscape(line, x)
  PROVE  Doomed(line, q)
<1>1. SUFFICES ASSUME IsArray(line, q) PROVE FALSE
  BY DEF Doomed, IsRead
<1>2. q \in Seq(Nat) /\ Len(q) \in Nat
  BY QuotesAre
<1>3. j + 1 \in 1..Len(q) /\ IsString(line, q[j], q[j + 1])
  BY <1>1, <1>2, ArrayString
<1>4. q[j] \in Nat /\ q[j + 1] \in Nat /\ j < Len(q)
  BY <1>2, <1>3
<1>5. x \in q[j] + 1..q[j + 1] - 1
  BY <1>4
<1>. QED
  BY <1>3, <1>5 DEF IsString

(* Between strings: something else before the next quote, or the end.       *)
LEMMA AroundGrows ==
  ASSUME NEW line, NEW i \in Nat, NEW k \in Nat, NEW m \in Nat, k <= m
  PROVE  /\ \A x \in Around(line, i, k) : x \in Around(line, i, m)
         /\ i < k /\ k < m /\ Byte(line, k) \notin Whitespace => k \in Around(line, i, m)
         /\ \A x \in Around(line, i, k) : x \in Nat /\ x < k /\ x \in i + 1..k - 1
BY DEF Around

LEMMA OnlyIs ==
  ASSUME NEW line, NEW i, NEW j, NEW byte, Only(line, i, j, byte)
  PROVE  \E y : Around(line, i, j) = {y} /\ Byte(line, y) = byte
BY DEF Only

(* Where the gap before the next quote ends.                                *)
GapEnd(line, q, j) == IF j = Len(q) THEN Len(line) + 1 ELSE q[j + 1]

LEMMA GapEndIs ==
  ASSUME Len(text) \in Nat, NEW line, NEW q, Reads(line, q), NEW k \in 1..Len(line) + 1,
         NEW j \in 0..Len(q), Ahead(q, k, j + 1)
  PROVE  /\ GapEnd(line, q, j) \in Nat /\ k <= GapEnd(line, q, j)
         /\ k \in 1..Len(line) /\ Byte(line, k) # "quote" => k < GapEnd(line, q, j)
         /\ k = Len(line) + 1 => j = Len(q) /\ GapEnd(line, q, j) = k
<1>1. Len(line) \in Nat /\ k \in Nat /\ Len(q) \in Nat /\ j \in Nat
  BY LineIs, QuotesAre DEF Sound
<1>2. CASE k = Len(line) + 1
  <2>1. j + 1 = Len(q) + 1
    BY <1>2, QuotesEnd
  <2>. QED
    BY <1>1, <1>2, <2>1 DEF GapEnd
<1>3. CASE k # Len(line) + 1
  <2>1. k \in 1..Len(line)
    BY <1>1, <1>3
  <2>2. CASE j = Len(q)
    BY <1>1, <2>1, <2>2 DEF GapEnd
  <2>3. CASE j # Len(q)
    <3>1. PICK l : l = j + 1
      OBVIOUS
    <3>2. l \in 1..Len(q) /\ Ahead(q, k, l) /\ GapEnd(line, q, j) = q[l]
      BY <1>1, <2>3, <3>1 DEF GapEnd
    <3>3. q[l] \in 1..Len(line) /\ k <= q[l] /\ (Byte(line, k) # "quote" => k < q[l])
      BY <2>1, <3>2, QuoteRead, QuotesAre
    <3>. QED
      BY <1>1, <1>3, <3>2, <3>3
  <2>. QED
    BY <2>2, <2>3
<1>. QED
  BY <1>2, <1>3

LEMMA GapDoomed ==
  ASSUME Len(text) \in Nat, NEW line, NEW q, Reads(line, q), NEW m \in Nat, NEW j, j = 2 * m,
         j \in 1..Len(q),
         \/ Around(line, q[j], GapEnd(line, q, j)) = {}
         \/ \E x, y \in Around(line, q[j], GapEnd(line, q, j)) : x # y
         \/ \E x \in Around(line, q[j], GapEnd(line, q, j)) :
              Byte(line, x) # (IF j = Len(q) THEN "close" ELSE "comma")
  PROVE  Doomed(line, q)
<1>1. SUFFICES ASSUME IsArray(line, q) PROVE FALSE
  BY DEF Doomed, IsRead
<1>2. q \in Seq(Nat)
  BY QuotesAre
<1>3. CASE j = Len(q)
  <2>1. Only(line, q[j], Len(line) + 1, "close")
    BY <1>1, <1>2, <1>3, ArrayGap
  <2>2. PICK y : Around(line, q[j], Len(line) + 1) = {y} /\ Byte(line, y) = "close"
    BY <2>1, OnlyIs
  <2>. QED
    BY <1>3, <2>2 DEF GapEnd
<1>4. CASE j # Len(q)
  <2>1. Only(line, q[j], q[j + 1], "comma")
    BY <1>1, <1>2, <1>4, ArrayGap
  <2>2. PICK y : Around(line, q[j], q[j + 1]) = {y} /\ Byte(line, y) = "comma"
    BY <2>1, OnlyIs
  <2>. QED
    BY <1>4, <2>2 DEF GapEnd
<1>. QED
  BY <1>3, <1>4

LEMMA StartDoomed ==
  ASSUME Len(text) \in Nat, NEW line, NEW q, Reads(line, q),
         NEW end, end = GapEnd(line, q, 0),
         \/ \E x \in Nat : Around(line, 0, end) = {x} /\ q = <<>>
         \/ \E x, y \in Around(line, 0, end) :
              /\ x < y
              /\ \/ q # <<>>
                 \/ Byte(line, x) = "open" /\ Byte(line, y) # "close"
                 \/ \E z \in Around(line, 0, end) : y < z
  PROVE  Doomed(line, q)
<1>1. SUFFICES ASSUME IsArray(line, q) PROVE FALSE
  BY DEF Doomed, IsRead
<1>2. q \in Seq(Nat) /\ Len(q) \in Nat /\ Sound(line) /\ Len(line) \in Nat
  BY QuotesAre, LineIs DEF Sound
<1>3. CASE q = <<>>
  <2>1. end = Len(line) + 1
    BY <1>3 DEF GapEnd
  <2>2. OpenClose(line, end)
    BY <1>1, <1>2, <1>3, <2>1, ArrayEmpty
  <2>3. PICK a, b \in 1..end - 1 :
          a < b /\ Byte(line, a) = "open" /\ Byte(line, b) = "close" /\ Around(line, 0, end) = {a, b}
    BY <2>2 DEF OpenClose
  <2>4. a \in Nat /\ b \in Nat
    BY <1>2, <2>1
  <2>5. PICK S : S = Around(line, 0, end)
    OBVIOUS
  <2>6. \A w : w \in S <=> w = a \/ w = b
    BY <2>3, <2>5
  <2>7. CASE \E x \in Nat : S = {x}
    BY <2>3, <2>4, <2>6, <2>7
  <2>8. CASE \E x, y \in S : /\ x < y
                             /\ \/ Byte(line, x) = "open" /\ Byte(line, y) # "close"
                                \/ \E z \in S : y < z
    BY <2>3, <2>4, <2>6, <2>8
  <2>. QED
    BY <1>3, <2>5, <2>7, <2>8
<1>4. CASE q # <<>>
  <2>1. Only(line, 0, q[1], "open") /\ end = q[1]
    <3>1. Len(q) # 0 /\ 0 + 1 = 1
      BY <1>2, <1>4
    <3>. QED
      BY <1>1, <1>2, <1>4, <3>1, ArrayFirst DEF GapEnd
  <2>2. PICK y : Around(line, 0, end) = {y}
    <3>1. Only(line, 0, end, "open")
      BY <2>1
    <3>. QED
      BY <3>1 DEF Only
  <2>3. q[1] \in Nat /\ y \in Nat
    <3>1. q[1] \in Nat
      BY <1>2, <1>4
    <3>2. y \in 1..end - 1
      BY <2>2 DEF Around
    <3>. QED
      BY <2>1, <3>1, <3>2
  <2>. QED
    BY <1>4, <2>2, <2>3
<1>. QED
  BY <1>3, <1>4

(* An escape that is broken by two continuations in a row.                  *)
LEMMA MarkerWalk ==
  ASSUME Len(text) \in Nat, NEW i, Walk(text, i), Continues(text, i)
  PROVE  i \in Markers(text)
<1>. DEFINE l == LineOf(text, i)
<1>1. i \in 0..Len(text)
  BY DEF Walk
<1>2. l \in 0..i /\ \A j \in l..i - 1 : text[j + 1] # "lf"
  BY <1>1, LineOfIs
<1>3. i < Len(text)
  BY <1>1, ContinuationAdvances DEF At
<1>4. Marker(text, l, i)
  <2>. HIDE DEF l
  <2>. QED
    BY <1>1, <1>2, ContinuesIs
<1>5. Counts(text, l)
  BY <1>3 DEF Walk, OnLine
<1>. QED
  BY <1>1, <1>3, <1>4, <1>5 DEF Markers

LEMMA TwoAreMore ==
  ASSUME NEW m \in Nat, NEW S \in SUBSET (0..m), NEW x \in S, NEW y \in S, x # y
  PROVE  Cardinality(S) > 1
<1>1. IsFiniteSet(0..m)
  BY FS_Interval
<1>2. IsFiniteSet(S) /\ Cardinality(S) \in Nat
  BY <1>1, FS_Subset, FS_CardinalityType
<1>3. IsFiniteSet({x}) /\ Cardinality({x}) = 1
  BY FS_Singleton
<1>4. IsFiniteSet({x} \cup {y}) /\ Cardinality({x} \cup {y}) = 2
  BY <1>3, FS_AddElement
<1>5. Cardinality({x} \cup {y}) <= Cardinality(S)
  BY <1>2, FS_Subset
<1>. QED
  BY <1>2, <1>4, <1>5

LEMMA Broken ==
  ASSUME Len(text) \in Nat, NEW line, NEW q, Reads(line, q),
         NEW i, Walk(text, i), Continues(text, i),
         NEW p, p = Continuation(text, i), Continues(text, p),
         NEW e \in Escapes(line), NEW k \in Nat, k < Len(line),
         k \in e..e + Size(line, e) - 2,
         Ahead(line, i, k + 1)
  PROVE  Doomed(line, q)
<1>1. i \in 0..Len(text) /\ p \in i + 2..Len(text) /\ Walk(text, p)
  <2>1. i \in 0..Len(text)
    BY DEF Walk
  <2>. QED
    BY <2>1, ContinuationAdvances, WalkContinued
<1>2. i \in Markers(text) /\ p \in Markers(text) /\ i # p
  BY <1>1, MarkerWalk
<1>3. Ahead(line, p, k + 1)
  BY ReadOver
<1>4. /\ Len(line) \in Nat /\ e \in 1..Len(line)
      /\ \A m \in 1..Len(line) : line[m] \in 0..Len(text) - 1
  BY LineIs, EscapesAre DEF Sound, Escapes
<1>5. k \in 1..Len(line) /\ k + 1 \in 1..Len(line)
  BY <1>4
<1>6. line[k] < i /\ ~(line[k + 1] < p)
  BY <1>3, <1>5 DEF Ahead
<1>7. i \in line[k]..line[k + 1] /\ p \in line[k]..line[k + 1]
  BY <1>1, <1>4, <1>5, <1>6
<1>8. Cardinality(Markers(text) \cap (line[k]..line[k + 1])) > 1
  <2>1. PICK S : S = Markers(text) \cap (line[k]..line[k + 1])
    OBVIOUS
  <2>2. S \in SUBSET (0..Len(text)) /\ i \in S /\ p \in S
    BY <1>2, <1>7, <2>1 DEF Markers
  <2>3. Cardinality(S) > 1
    BY <1>2, <2>2, TwoAreMore
  <2>. QED
    BY <2>1, <2>3
<1>. QED
  BY <1>8 DEF Doomed, IsRead, BrokenTwice, Escapes

-----------------------------------------------------------------------------
(* What has been read, by the line and its quotes: j of these, and all      *)
(* before byte k.                                                           *)
Rising(value) == \A x, y \in 1..Len(value) : x < y => value[x][1] < value[y][1]
Of(b, w, i) == ToSet(b) \cup {<<x, Itself>> : x \in w..i - 1}

Gaps(line, q, j) ==
  /\ j >= 1 => Only(line, 0, q[1], "open")
  /\ \A x \in 1..j : 2 * x + 1 <= j => Only(line, q[2 * x], q[2 * x + 1], "comma")

StringsRead(line, q, r) ==
  \A x \in 1..Len(r) :
    /\ IsString(line, q[2 * x - 1], q[2 * x])
    /\ ToSet(r[x].value) = Chars(line, q[2 * x - 1], q[2 * x])
    /\ Rising(r[x].value)

Parsed(line, q, r, j, k) ==
  /\ j \in 0..Len(q) /\ k \in 1..Len(line) + 1
  /\ Ahead(q, k, j + 1)
  /\ Clean(line, k)
  /\ Gaps(line, q, j)
  /\ StringsRead(line, q, r)

(* Between strings, and in one.                                             *)
GapRead(line, q, p, r, j, k) ==
  /\ j = 2 * Len(r) /\ Parsed(line, q, r, j, k)
  /\ p = "opened" => j = 0 /\ Only(line, 0, k, "open")
  /\ p = "closed" => j > 0 /\ Around(line, q[j], k) = {}
  /\ p = "comma" => j > 0 /\ Only(line, q[j], k, "comma")
  /\ p = "end" => IF j = 0 THEN OpenClose(line, k) ELSE Only(line, q[j], k, "close")

StringRead(line, q, i, w, b, r, j, k) ==
  /\ j = 2 * Len(r) + 1 /\ Parsed(line, q, r, j, k)
  /\ q[j] < k /\ IsString(line, q[j], k)
  /\ Of(b, w, i) = Chars(line, q[j], k)
  /\ Rising(b)

(* In an escape at e: what is before it, and where its u is.                *)
EscapeRead(line, q, st, b, r, l, h, j, e) ==
  /\ j = 2 * Len(r) + 1 /\ Parsed(line, q, r, j, e)
  /\ q[j] < e /\ IsString(line, q[j], e)
  /\ ToSet(b) = Chars(line, q[j], e)
  /\ Rising(b) /\ Within(b, st, l)
  /\ e \in Escapes(line) /\ e + 1 <= Len(line)
  /\ Byte(line, e + 1) = "u" /\ line[e + 1] = l
  /\ h # 0 => h \in High /\ IsHex(line, e) /\ Bits(line, e) = h

Value(line, f, d) == DigitValue(Byte(line, f + 1 + d))
DigitsRead(line, f, d, v) ==
  /\ \A x \in 1..d : Byte(line, f + 1 + x) \in Digit
  /\ d = 0 => v = 0
  /\ d = 1 => v = Value(line, f, 1)
  /\ d = 2 => v = Value(line, f, 1) * 16 + Value(line, f, 2)
  /\ d = 3 => v = Value(line, f, 1) * 256 + Value(line, f, 2) * 16 + Value(line, f, 3)

Parses(line, q, p, i, st, w, b, r, l, d, v, h) ==
  /\ p \in {"opened", "closed", "comma", "end"} =>
       \E j, k : GapRead(line, q, p, r, j, k) /\ Ahead(line, i, k)
  /\ p = "string" =>
       \/ Walk(text, i) /\ \E j, k : StringRead(line, q, i, w, b, r, j, k) /\ Ahead(line, i, k)
       \/ Stuck(text, i) /\ Doomed(line, q)
  /\ p = "hex" =>
       \E j, e, f : /\ EscapeRead(line, q, st, b, r, l, h, j, e)
                    /\ f = IF h = 0 THEN e ELSE e + 6
                    /\ f \in Escapes(line) /\ f + 1 <= Len(line) /\ Byte(line, f + 1) = "u"
                    /\ Ahead(line, i, f + 2 + d) /\ DigitsRead(line, f, d, v)
  /\ p = "backslash" =>
       \E j, e : EscapeRead(line, q, st, b, r, l, h, j, e) /\ h # 0 /\ Ahead(line, i, e + 6)
  /\ p = "u" =>
       \/ Walk(text, i) /\ \E j, e : /\ EscapeRead(line, q, st, b, r, l, h, j, e) /\ h # 0
                                     /\ e + 6 \in Escapes(line) /\ Ahead(line, i, e + 7)
       \/ Stuck(text, i) /\ Doomed(line, q)
  /\ p = "done" => IsArray(line, q) /\ Len(r) * 2 = Len(q) /\ StringsRead(line, q, r)
  /\ p = "fallback" => Doomed(line, q)

ParseInv ==
  \E line, q :
    /\ Reads(line, q)
    /\ Parses(line, q, pc, tmp, start, word_start, buf, res, letter, digits, n, high)

-----------------------------------------------------------------------------
(* What has been read grows: by a byte that is neither a quote nor a        *)
(* backslash, by an escape, by a quote.                                     *)
LEMMA ParsedIs ==
  ASSUME Len(text) \in Nat, NEW line, NEW q, Reads(line, q), NEW r, NEW j, NEW k,
         Parsed(line, q, r, j, k)
  PROVE  /\ j \in Nat /\ k \in Nat /\ j \in 0..Len(q) /\ k \in 1..Len(line) + 1
         /\ Sound(line) /\ Len(line) \in Nat /\ Len(q) \in Nat
         /\ Ahead(q, k, j + 1) /\ Clean(line, k) /\ ~Escaped(line, k)
         /\ j > 0 => j \in 1..Len(q) /\ q[j] \in Nat /\ q[j] < k
<1>1. /\ j \in 0..Len(q) /\ k \in 1..Len(line) + 1 /\ Ahead(q, k, j + 1) /\ Clean(line, k)
  BY DEF Parsed
<1>2. Sound(line) /\ Len(line) \in Nat /\ Len(q) \in Nat
  BY LineIs, QuotesAre DEF Sound
<1>3. ~Escaped(line, k)
  BY <1>1, <1>2, CleanUnescaped DEF Sound
<1>4. ASSUME j > 0
      PROVE  j \in 1..Len(q) /\ q[j] \in Nat /\ q[j] < k
  <2>1. j \in 1..Len(q) /\ j < j + 1
    BY <1>1, <1>2, <1>4
  <2>2. q[j] \in 1..Len(line)
    BY <2>1, QuotesAre
  <2>. QED
    BY <1>1, <1>2, <2>1, <2>2 DEF Ahead
<1>. QED
  BY <1>1, <1>2, <1>3, <1>4

LEMMA ParsedByte ==
  ASSUME Len(text) \in Nat, NEW line, NEW q, Reads(line, q), NEW r, NEW j, NEW k,
         Parsed(line, q, r, j, k), k \in 1..Len(line),
         Byte(line, k) # "quote", Byte(line, k) # backslash
  PROVE  Parsed(line, q, r, j, k + 1)
<1>1. PICK l : l = j + 1
  OBVIOUS
<1>2. Ahead(q, k, l) /\ Clean(line, k) /\ Sound(line) /\ k + 1 \in 1..Len(line) + 1
  BY <1>1, ParsedIs
<1>3. k \notin Escapes(line)
  BY DEF Escapes, Unescaped
<1>4. Ahead(q, k + 1, l)
  BY <1>2, QuoteRead
<1>5. Clean(line, k + 1)
  BY <1>2, <1>3, CleanByte
<1>. QED
  BY <1>1, <1>2, <1>4, <1>5 DEF Parsed

LEMMA ParsedEscape ==
  ASSUME Len(text) \in Nat, backslash \in {"esc", "bs"},
         NEW line, NEW q, Reads(line, q), NEW r, NEW j, NEW k,
         Parsed(line, q, r, j, k), k \in Escapes(line), IsEscape(line, k),
         NEW m, m = k + Size(line, k), m <= Len(line) + 1
  PROVE  Parsed(line, q, r, j, m)
<1>1. PICK l : l = j + 1
  OBVIOUS
<1>2. /\ Ahead(q, k, l) /\ Clean(line, k) /\ Sound(line) /\ Len(line) \in Nat
      /\ k \in 1..Len(line) /\ k \in Nat
  BY <1>1, ParsedIs, EscapesAre DEF Sound, Escapes
<1>3. Size(line, k) \in Nat /\ m \in Nat /\ k < m
  BY <1>2, SizeIs
<1>4. Clean(line, m)
  BY <1>2, CleanEscape
<1>5. \A b \in k..m - 1 : b \notin Unescaped(line, "quote")
  <2>1. k \notin Unescaped(line, "quote")
    BY <1>2, EscapesAre, DigitsAre DEF Sound, Escapes
  <2>2. \A b \in k..m - 1 : b = k \/ b \in k + 1..k + Size(line, k) - 1
    BY <1>2, <1>3
  <2>. QED
    BY <1>2, <2>1, <2>2, EscapeInner
<1>6. Ahead(q, m, l)
  <2>1. k <= m
    BY <1>2, <1>3
  <2>. QED
    BY <1>2, <1>3, <1>5, <2>1, QuotesAre, AheadSkip
<1>7. m \in 1..Len(line) + 1
  BY <1>2, <1>3
<1>. QED
  BY <1>1, <1>4, <1>6, <1>7 DEF Parsed

(* A quote that opens a string, and one that closes it.                     *)
LEMMA ParsedQuote ==
  ASSUME Len(text) \in Nat, backslash \in {"esc", "bs"},
         NEW line, NEW q, Reads(line, q), NEW r, NEW j, NEW k,
         Parsed(line, q, r, j, k), k \in 1..Len(line), Byte(line, k) = "quote"
  PROVE  /\ j + 1 \in 1..Len(q) /\ q[j + 1] = k
         /\ Ahead(q, k + 1, (j + 1) + 1) /\ Clean(line, k + 1) /\ k + 1 \in 1..Len(line) + 1
<1>1. PICK l : l = j + 1
  OBVIOUS
<1>2. Ahead(q, k, l) /\ Clean(line, k) /\ Sound(line) /\ k + 1 \in 1..Len(line) + 1 /\ ~Escaped(line, k)
  BY <1>1, ParsedIs
<1>3. k \notin Escapes(line)
  BY DigitsAre DEF Escapes, Unescaped
<1>4. l \in 1..Len(q) /\ q[l] = k /\ Ahead(q, k + 1, l + 1)
  BY <1>2, QuoteRead
<1>5. Clean(line, k + 1)
  BY <1>2, <1>3, CleanByte
<1>. QED
  BY <1>1, <1>2, <1>4, <1>5

(* The bytes around the strings, one more.                                  *)
LEMMA AroundByte ==
  ASSUME NEW line, NEW i \in Nat, NEW k \in Nat, i < k
  PROVE  /\ Byte(line, k) \in Whitespace => Around(line, i, k + 1) = Around(line, i, k)
         /\ Byte(line, k) \notin Whitespace => Around(line, i, k + 1) = Around(line, i, k) \cup {k}
<1>1. \A x : x \in i + 1..(k + 1) - 1 <=> x \in i + 1..k - 1 \/ x = k
  OBVIOUS
<1>. QED
  BY <1>1 DEF Around

LEMMA OnlyMore ==
  ASSUME NEW line, NEW i \in Nat, NEW k \in Nat, i < k, NEW byte
  PROVE  /\ Byte(line, k) \in Whitespace /\ Only(line, i, k, byte) => Only(line, i, k + 1, byte)
         /\ Byte(line, k) = byte /\ byte \notin Whitespace /\ Around(line, i, k) = {} =>
              Only(line, i, k + 1, byte)
<1>1. \A x \in i + 1..k - 1 : x \in i + 1..(k + 1) - 1
  OBVIOUS
<1>2. k \in i + 1..(k + 1) - 1
  OBVIOUS
<1>. QED
  BY <1>1, <1>2, AroundByte DEF Only

LEMMA OpenCloseMore ==
  ASSUME NEW line, NEW k \in Nat, 0 < k
  PROVE  /\ Byte(line, k) \in Whitespace /\ OpenClose(line, k) => OpenClose(line, k + 1)
         /\ Byte(line, k) = "close" /\ Only(line, 0, k, "open") => OpenClose(line, k + 1)
<1>1. \A x \in 1..k - 1 : x \in 1..(k + 1) - 1
  OBVIOUS
<1>2. ASSUME Byte(line, k) \in Whitespace, OpenClose(line, k)
      PROVE  OpenClose(line, k + 1)
  <2>1. Around(line, 0, k + 1) = Around(line, 0, k)
    BY <1>2, AroundByte
  <2>. QED
    BY <1>1, <1>2, <2>1 DEF OpenClose
<1>3. ASSUME Byte(line, k) = "close", Only(line, 0, k, "open")
      PROVE  OpenClose(line, k + 1)
  <2>1. Around(line, 0, k + 1) = Around(line, 0, k) \cup {k}
    BY <1>3, AroundByte DEF Whitespace
  <2>2. PICK x \in 0 + 1..k - 1 : Byte(line, x) = "open" /\ Around(line, 0, k) = {x}
    BY <1>3 DEF Only
  <2>3. x \in 1..(k + 1) - 1 /\ k \in 1..(k + 1) - 1 /\ x < k
    BY <2>2
  <2>4. Around(line, 0, k + 1) = {x, k}
    BY <2>1, <2>2
  <2>. QED
    BY <1>3, <2>2, <2>3, <2>4 DEF OpenClose
<1>. QED
  BY <1>2, <1>3

(* A byte between strings.                                                  *)
LEMMA GapIs ==
  ASSUME Len(text) \in Nat, backslash \in {"esc", "bs"},
         NEW line, NEW q, Reads(line, q), NEW p, NEW r, Len(r) \in Nat, NEW j, NEW k,
         GapRead(line, q, p, r, j, k)
  PROVE  /\ j = 2 * Len(r) /\ j \in Nat /\ k \in Nat /\ 0 < k /\ Parsed(line, q, r, j, k)
         /\ j # 0 => j > 0 /\ j \in 1..Len(q) /\ q[j] \in Nat /\ q[j] < k
<1>1. j = 2 * Len(r) /\ Parsed(line, q, r, j, k)
  BY DEF GapRead
<1>. QED
  BY <1>1, ParsedIs

LEMMA GapSkip ==
  ASSUME Len(text) \in Nat, backslash \in {"esc", "bs"},
         NEW line, NEW q, Reads(line, q), NEW p, NEW r, Len(r) \in Nat, NEW j, NEW k,
         GapRead(line, q, p, r, j, k), k \in 1..Len(line), Byte(line, k) \in Whitespace
  PROVE  GapRead(line, q, p, r, j, k + 1)
<1>1. /\ j = 2 * Len(r) /\ j \in Nat /\ k \in Nat /\ 0 < k
      /\ j # 0 => j > 0 /\ q[j] \in Nat /\ q[j] < k
  BY GapIs
<1>2. Byte(line, k) # "quote" /\ Byte(line, k) # backslash
  BY DEF Whitespace
<1>3. Parsed(line, q, r, j, k + 1)
  BY <1>2, GapIs, ParsedByte
<1>4. /\ p = "opened" => j = 0 /\ Only(line, 0, k + 1, "open")
      /\ p = "end" /\ j = 0 => OpenClose(line, k + 1)
  BY <1>1, OnlyMore, OpenCloseMore DEF GapRead
<1>5. ASSUME j > 0
      PROVE  /\ p = "closed" => Around(line, q[j], k + 1) = {}
             /\ p = "comma" => Only(line, q[j], k + 1, "comma")
             /\ p = "end" => Only(line, q[j], k + 1, "close")
  <2>1. j # 0 /\ q[j] \in Nat /\ q[j] < k
    BY <1>1, <1>5
  <2>. QED
    BY <1>1, <1>5, <2>1, OnlyMore, AroundByte DEF GapRead
<1>. QED
  BY <1>1, <1>3, <1>4, <1>5 DEF GapRead

LEMMA GapComma ==
  ASSUME Len(text) \in Nat, backslash \in {"esc", "bs"},
         NEW line, NEW q, Reads(line, q), NEW r, Len(r) \in Nat, NEW j, NEW k,
         GapRead(line, q, "closed", r, j, k), k \in 1..Len(line), Byte(line, k) = "comma"
  PROVE  GapRead(line, q, "comma", r, j, k + 1)
<1>1. j = 2 * Len(r) /\ j > 0 /\ k \in Nat /\ q[j] \in Nat /\ q[j] < k /\ Around(line, q[j], k) = {}
  <2>1. j > 0 /\ Around(line, q[j], k) = {}
    BY DEF GapRead
  <2>2. j = 2 * Len(r) /\ k \in Nat /\ j \in Nat /\ (j # 0 => q[j] \in Nat /\ q[j] < k)
    BY GapIs
  <2>. QED
    BY <2>1, <2>2
<1>2. Parsed(line, q, r, j, k + 1)
  BY GapIs, ParsedByte
<1>3. Only(line, q[j], k + 1, "comma")
  BY <1>1, OnlyMore DEF Whitespace
<1>. QED
  BY <1>1, <1>2, <1>3 DEF GapRead

LEMMA GapClose ==
  ASSUME Len(text) \in Nat, backslash \in {"esc", "bs"},
         NEW line, NEW q, Reads(line, q), NEW p \in {"opened", "closed"},
         NEW r, Len(r) \in Nat, NEW j, NEW k,
         GapRead(line, q, p, r, j, k), k \in 1..Len(line), Byte(line, k) = "close"
  PROVE  GapRead(line, q, "end", r, j, k + 1)
<1>1. /\ j = 2 * Len(r) /\ j \in Nat /\ k \in Nat /\ 0 < k
      /\ j # 0 => j > 0 /\ q[j] \in Nat /\ q[j] < k
  BY GapIs
<1>2. Parsed(line, q, r, j, k + 1)
  BY GapIs, ParsedByte
<1>3. CASE p = "opened"
  <2>1. j = 0 /\ OpenClose(line, k + 1)
    BY <1>1, <1>3, OpenCloseMore DEF GapRead
  <2>. QED
    BY <1>1, <1>2, <2>1 DEF GapRead
<1>4. CASE p = "closed"
  <2>1. j > 0 /\ Around(line, q[j], k) = {}
    BY <1>4 DEF GapRead
  <2>2. q[j] \in Nat /\ q[j] < k
    BY <1>1, <2>1
  <2>3. Only(line, q[j], k + 1, "close")
    BY <1>1, <2>1, <2>2, OnlyMore DEF Whitespace
  <2>. QED
    BY <1>1, <1>2, <2>1, <2>3 DEF GapRead
<1>. QED
  BY <1>3, <1>4

LEMMA GapOpen ==
  ASSUME Len(text) \in Nat, backslash \in {"esc", "bs"},
         NEW line, NEW q, Reads(line, q), NEW p \in {"opened", "comma"},
         NEW r, Len(r) \in Nat, NEW j, NEW k,
         GapRead(line, q, p, r, j, k), k \in 1..Len(line), Byte(line, k) = "quote",
         NEW i, i \in Nat
  PROVE  StringRead(line, q, i, i, <<>>, r, j + 1, k + 1)
<1>1. /\ j = 2 * Len(r) /\ j \in Nat /\ k \in Nat /\ 0 < k /\ Parsed(line, q, r, j, k)
      /\ j # 0 => j > 0 /\ q[j] \in Nat /\ q[j] < k
  BY GapIs
<1>2. /\ j + 1 \in 1..Len(q) /\ q[j + 1] = k
      /\ Ahead(q, k + 1, (j + 1) + 1) /\ Clean(line, k + 1) /\ k + 1 \in 1..Len(line) + 1
  BY <1>1, ParsedQuote
<1>3. /\ p = "opened" => j = 0 /\ Only(line, 0, k, "open")
      /\ p = "comma" => j > 0 /\ Only(line, q[j], k, "comma")
  BY DEF GapRead
<1>4. Gaps(line, q, j + 1)
  <2>1. Gaps(line, q, j)
    BY <1>1 DEF Parsed
  <2>2. Only(line, 0, q[1], "open")
    <3>1. CASE p = "opened"
      BY <1>2, <1>3, <3>1
    <3>2. CASE p = "comma"
      BY <1>1, <1>3, <2>1, <3>2 DEF Gaps
    <3>. QED
      BY <3>1, <3>2
  <2>3. ASSUME NEW x \in 1..j + 1, 2 * x + 1 <= j + 1
        PROVE  Only(line, q[2 * x], q[2 * x + 1], "comma")
    <3>1. x \in Nat /\ 1 <= x
      BY <1>1
    <3>2. CASE 2 * x = j
      <4>1. p = "comma" /\ 2 * x + 1 = j + 1
        BY <1>1, <1>3, <3>1, <3>2
      <4>. QED
        BY <1>2, <1>3, <3>2, <4>1
    <3>3. CASE 2 * x # j
      <4>1. 2 * x + 1 <= j /\ x \in 1..j
        BY <1>1, <2>3, <3>1, <3>3
      <4>. QED
        BY <2>1, <4>1 DEF Gaps
    <3>. QED
      BY <3>2, <3>3
  <2>. QED
    BY <2>2, <2>3 DEF Gaps
<1>5. Parsed(line, q, r, j + 1, k + 1)
  <2>1. j + 1 \in 0..Len(q)
    BY <1>2
  <2>. QED
    BY <1>1, <1>2, <1>4, <2>1 DEF Parsed
<1>6. q[j + 1] < k + 1 /\ IsString(line, q[j + 1], k + 1)
  BY <1>1, <1>2 DEF IsString
<1>7. Of(<<>>, i, i) = Chars(line, q[j + 1], k + 1)
  <2>1. Of(<<>>, i, i) = {}
    BY DEF Of, ToSet
  <2>2. Chars(line, k, k + 1) = {}
    BY <1>1 DEF Chars
  <2>. QED
    BY <1>2, <2>1, <2>2
<1>8. Rising(<<>>)
  BY DEF Rising
<1>. QED
  BY <1>1, <1>5, <1>6, <1>7, <1>8 DEF StringRead

-----------------------------------------------------------------------------
(* The characters read so far.                                              *)
LEMMA OfMore ==
  ASSUME NEW b, NEW w \in Nat, NEW i \in Nat, w <= i
  PROVE  Of(b, w, i + 1) = Of(b, w, i) \cup {<<i, Itself>>}
<1>1. \A x : x \in w..(i + 1) - 1 <=> x \in w..i - 1 \/ x = i
  OBVIOUS
<1>. QED
  BY <1>1 DEF Of

LEMMA OfNone ==
  ASSUME NEW b, NEW w \in Nat
  PROVE  Of(b, w, w) = ToSet(b)
BY DEF Of

(* A sequence of characters and another, or one more.                       *)
LEMMA JoinIs ==
  ASSUME NEW b \in Seq(Character), NEW r \in Seq(Character)
  PROVE  /\ b \o r \in Seq(Character)
         /\ ToSet(b \o r) = ToSet(b) \cup ToSet(r)
         /\ Rising(b) /\ Rising(r) /\
            (\A x \in 1..Len(b) : \A y \in 1..Len(r) : b[x][1] < r[y][1]) => Rising(b \o r)
<1>. DEFINE v == b \o r
<1>1. /\ v \in Seq(Character) /\ Len(v) = Len(b) + Len(r) /\ Len(b) \in Nat /\ Len(r) \in Nat
      /\ DOMAIN v = 1..Len(v) /\ DOMAIN b = 1..Len(b) /\ DOMAIN r = 1..Len(r)
      /\ \A k \in 1..Len(b) : v[k] = b[k]
      /\ \A k \in Len(b) + 1..Len(v) : v[k] = r[k - Len(b)]
  OBVIOUS
<1>2. \A k \in 1..Len(r) : v[Len(b) + k] = r[k]
  <2>1. ASSUME NEW k \in 1..Len(r)
        PROVE  v[Len(b) + k] = r[k]
    <3>1. PICK m : m = Len(b) + k
      OBVIOUS
    <3>2. m \in Len(b) + 1..Len(v) /\ m - Len(b) = k
      BY <1>1, <3>1
    <3>. QED
      BY <1>1, <3>1, <3>2
  <2>. QED
    BY <2>1
<1>. HIDE DEF v
<1>3. PICK m \in Nat : m = Len(b)
  BY <1>1
<1>4. \A k \in 1..Len(v) : k \in 1..m \/ (k - m \in 1..Len(r) /\ k = m + (k - m))
  BY <1>1, <1>3
<1>5. ToSet(v) = ToSet(b) \cup ToSet(r)
  <2>1. \A k \in 1..m : k \in 1..Len(v)
    BY <1>1, <1>3
  <2>2. \A k \in 1..Len(r) : m + k \in 1..Len(v)
    BY <1>1, <1>3
  <2>3. \A c : c \in ToSet(v) => c \in ToSet(b) \cup ToSet(r)
    BY SMTT(30), <1>1, <1>2, <1>3, <1>4 DEF ToSet
  <2>4. \A c \in ToSet(b) : c \in ToSet(v)
    <3>1. \A k \in 1..m : b[k] = v[k] /\ k \in DOMAIN v
      BY <1>1, <1>3, <2>1
    <3>. QED
      BY <1>1, <1>3, <3>1 DEF ToSet
  <2>5. \A c \in ToSet(r) : c \in ToSet(v)
    <3>1. \A k \in 1..Len(r) : r[k] = v[m + k] /\ m + k \in DOMAIN v
      BY <1>1, <1>2, <1>3, <2>2
    <3>2. \A z \in DOMAIN v : v[z] \in ToSet(v)
      BY DEF ToSet
    <3>3. \A c \in ToSet(r) : \E k \in 1..Len(r) : c = r[k]
      BY <1>1 DEF ToSet
    <3>. QED
      BY <3>1, <3>2, <3>3
  <2>. QED
    BY <2>3, <2>4, <2>5
<1>6. ASSUME Rising(b), Rising(r), \A x \in 1..Len(b) : \A y \in 1..Len(r) : b[x][1] < r[y][1],
             NEW x \in 1..Len(v), NEW y \in 1..Len(v), x < y
      PROVE  v[x][1] < v[y][1]
  <2>1. CASE y \in 1..m
    <3>1. x \in 1..m
      BY <1>1, <1>3, <1>6, <2>1
    <3>. QED
      BY <1>1, <1>3, <1>6, <2>1, <3>1 DEF Rising
  <2>2. CASE y \notin 1..m
    <3>1. PICK z \in 1..Len(r) : y = m + z /\ v[y] = r[z]
      BY <1>2, <1>3, <1>4, <2>2
    <3>2. CASE x \in 1..m
      BY <1>1, <1>3, <1>6, <3>1, <3>2
    <3>3. CASE x \notin 1..m
      <4>1. PICK u \in 1..Len(r) : x = m + u /\ v[x] = r[u]
        BY <1>2, <1>3, <1>4, <3>3
      <4>2. u < z
        BY <1>1, <1>3, <1>6, <3>1, <4>1
      <4>. QED
        BY <1>6, <3>1, <4>1, <4>2 DEF Rising
    <3>. QED
      BY <3>2, <3>3
  <2>. QED
    BY <2>1, <2>2
<1>. QED
  BY <1>1, <1>5, <1>6 DEF Rising, v

LEMMA OneIs ==
  ASSUME NEW c \in Character
  PROVE  /\ <<c>> \in Seq(Character) /\ ToSet(<<c>>) = {c} /\ Rising(<<c>>)
         /\ Len(<<c>>) = 1 /\ <<c>>[1] = c
         /\ \A b \in Seq(Character) : Append(b, c) = b \o <<c>>
BY DEF ToSet, Rising

LEMMA RawSpells ==
  ASSUME NEW i \in Nat, NEW j \in Nat, i <= j
  PROVE  ToSet(Raw(i, j)) = {<<x, Itself>> : x \in i..j - 1} /\ Rising(Raw(i, j))
<1>. DEFINE r == Raw(i, j)
<1>1. Len(r) = j - i /\ DOMAIN r = 1..j - i
  BY RawIs DEF Raw
<1>2. \A k \in 1..j - i : r[k] = <<i + k - 1, Itself>>
  BY DEF Raw
<1>. HIDE DEF r
<1>3. \A k \in 1..j - i : i + k - 1 \in i..j - 1
  OBVIOUS
<1>4. \A x \in i..j - 1 : x - i + 1 \in 1..j - i /\ x = i + (x - i + 1) - 1
  OBVIOUS
<1>5. ToSet(r) = {<<x, Itself>> : x \in i..j - 1}
  <2>1. \A c \in ToSet(r) : c \in {<<x, Itself>> : x \in i..j - 1}
    BY <1>1, <1>2, <1>3 DEF ToSet
  <2>2. ASSUME NEW x \in i..j - 1
        PROVE  <<x, Itself>> \in ToSet(r)
    <3>1. PICK k \in 1..j - i : x = i + k - 1
      BY <1>4
    <3>. QED
      BY <1>1, <1>2, <3>1 DEF ToSet
  <2>. QED
    BY <2>1, <2>2
<1>6. Rising(r)
  <2>1. \A k \in 1..j - i : r[k][1] = i + k - 1
    BY <1>2
  <2>. QED
    BY <1>1, <2>1 DEF Rising
<1>. QED
  BY <1>5, <1>6 DEF r

(* The piece being scanned is added to what there is.                       *)
LEMMA RawMore ==
  ASSUME NEW b \in Seq(Character), Rising(b), NEW st \in Nat, NEW w \in Nat, Within(b, st, w),
         NEW i \in Nat, w <= i
  PROVE  /\ b \o Raw(w, i) \in Seq(Character) /\ Rising(b \o Raw(w, i))
         /\ ToSet(b \o Raw(w, i)) = Of(b, w, i)
<1>1. PICK r : r = Raw(w, i)
  OBVIOUS
<1>2. /\ r \in Seq(Character) /\ Rising(r)
      /\ ToSet(r) = {<<x, Itself>> : x \in w..i - 1} /\ \A k \in 1..Len(r) : r[k][1] \in w..i - 1
  BY <1>1, RawIs, RawSpells DEF Within
<1>3. \A x \in 1..Len(b) : \A y \in 1..Len(r) : b[x][1] < r[y][1]
  <2>1. \A x \in 1..Len(b) : b[x][1] \in st..w - 1
    BY DEF Within
  <2>. QED
    BY <1>2, <2>1
<1>4. b \o r \in Seq(Character) /\ Rising(b \o r) /\ ToSet(b \o r) = ToSet(b) \cup ToSet(r)
  BY <1>2, <1>3, JoinIs
<1>. QED
  BY <1>1, <1>2, <1>4 DEF Of

LEMMA OneMore ==
  ASSUME NEW b \in Seq(Character), Rising(b), NEW st \in Nat, NEW m \in Nat, Within(b, st, m),
         NEW c \in Character, NEW l \in Nat, m <= l, c[1] = l
  PROVE  /\ Append(b, c) = b \o <<c>> /\ Append(b, c) \in Seq(Character)
         /\ Rising(Append(b, c))
         /\ ToSet(Append(b, c)) = ToSet(b) \cup {c}
<1>1. PICK r : r = <<c>>
  OBVIOUS
<1>2. /\ r \in Seq(Character) /\ ToSet(r) = {c} /\ Rising(r) /\ Len(r) = 1 /\ r[1] = c
      /\ Append(b, c) = b \o r
  BY <1>1, OneIs
<1>3. \A x \in 1..Len(b) : \A y \in 1..Len(r) : b[x][1] < r[y][1]
  <2>1. \A x \in 1..Len(b) : b[x][1] \in st..m - 1
    BY DEF Within
  <2>2. \A y \in 1..Len(r) : y = 1
    BY <1>2
  <2>. QED
    BY <1>2, <2>1, <2>2
<1>4. Rising(b \o r) /\ ToSet(b \o r) = ToSet(b) \cup ToSet(r)
  BY <1>2, <1>3, JoinIs
<1>. QED
  BY <1>1, <1>2, <1>4

-----------------------------------------------------------------------------
(* What is parsed, before a step and after it.                              *)
Now(line, q) == Parses(line, q, pc, tmp, start, word_start, buf, res, letter, digits, n, high)
Then(line, q) ==
  Parses(line, q, pc', tmp', start', word_start', buf', res', letter', digits', n', high')

LEMMA Given ==
  ASSUME IInv
  PROVE  /\ Len(text) \in Nat /\ backslash \in {"esc", "bs"} /\ Len(res) \in Nat
         /\ tmp \in 0..Len(text) /\ tmp \in Nat
         /\ ~At(text, tmp, {"esc"}) => ~Continues(text, tmp)
<1>1. Len(text) \in Nat /\ backslash \in {"esc", "bs"} /\ Len(res) \in Nat
  BY Basics DEF IInv, TypeInv
<1>2. tmp \in 0..Len(text) /\ tmp \in Nat
  BY Basics
<1>. QED
  BY <1>1, <1>2, ContinuationAdvances

LEMMA GapNow ==
  ASSUME IInv, NEW line, NEW q, Reads(line, q), Now(line, q),
         pc \in {"opened", "closed", "comma", "end"}
  PROVE  Walk(text, tmp) /\ \E j, k : GapRead(line, q, pc, res, j, k) /\ Ahead(line, tmp, k)
BY DEF Now, Parses, IInv, WalkInv

(* The byte that is next, where it is none of a newline.                    *)
LEMMA NextByte ==
  ASSUME IInv, NEW line, NEW q, Reads(line, q), Walk(text, tmp), ~Continues(text, tmp),
         tmp < Len(text), text[tmp + 1] # "lf", NEW k, Ahead(line, tmp, k)
  PROVE  /\ k \in 1..Len(line) /\ line[k] = tmp /\ Byte(line, k) = text[tmp + 1]
         /\ Ahead(line, tmp + 1, k + 1)
BY Given, ReadByte

LEMMA SkipParse ==
  ASSUME IInv, NEW line, NEW q, Reads(line, q), Now(line, q), Skip
  PROVE  Then(line, q)
<1>1. /\ pc \in {"opened", "closed", "comma", "end"}
      /\ UNCHANGED <<pc, res>>
  BY DEF Skip
<1>2. Walk(text, tmp)
  BY <1>1, GapNow
<1>3. PICK j, k : GapRead(line, q, pc, res, j, k) /\ Ahead(line, tmp, k)
  BY <1>1, GapNow
<1>4. CASE At(text, tmp, Whitespace) /\ tmp' = tmp + 1
  <2>1. tmp < Len(text) /\ text[tmp + 1] \in Whitespace /\ text[tmp + 1] # "lf" /\ ~At(text, tmp, {"esc"})
    BY <1>4 DEF At, Whitespace
  <2>2. k \in 1..Len(line) /\ Byte(line, k) \in Whitespace /\ Ahead(line, tmp + 1, k + 1)
    BY <1>2, <1>3, <2>1, Given, NextByte
  <2>3. GapRead(line, q, pc, res, j, k + 1)
    BY <1>3, <2>2, Given, GapSkip
  <2>. QED
    BY <1>1, <1>4, <2>2, <2>3 DEF Then, Parses
<1>5. CASE tmp' = Continuation(text, tmp)
  <2>1. Ahead(line, tmp', k)
    BY <1>2, <1>3, <1>5, Given, ReadOver
  <2>. QED
    BY <1>1, <1>3, <2>1 DEF Then, Parses
<1>. QED
  BY <1>4, <1>5 DEF Skip

LEMMA CommaParse ==
  ASSUME IInv, NEW line, NEW q, Reads(line, q), Now(line, q), Comma
  PROVE  Then(line, q)
<1>1. /\ pc = "closed" /\ NextIs("comma") /\ tmp' = tmp + 1 /\ pc' = "comma"
      /\ UNCHANGED res
  BY DEF Comma
<1>2. Walk(text, tmp)
  BY <1>1, GapNow
<1>3. PICK j, k : GapRead(line, q, pc, res, j, k) /\ Ahead(line, tmp, k)
  BY <1>1, GapNow
<1>4. tmp < Len(text) /\ text[tmp + 1] = "comma" /\ ~Continues(text, tmp)
  BY <1>1 DEF NextIs, At
<1>5. k \in 1..Len(line) /\ Byte(line, k) = "comma" /\ Ahead(line, tmp + 1, k + 1)
  BY <1>2, <1>3, <1>4, NextByte
<1>6. GapRead(line, q, "comma", res, j, k + 1)
  BY <1>1, <1>3, <1>5, Given, GapComma
<1>. QED
  BY <1>1, <1>5, <1>6 DEF Then, Parses

LEMMA CloseParse ==
  ASSUME IInv, NEW line, NEW q, Reads(line, q), Now(line, q), Close
  PROVE  Then(line, q)
<1>1. /\ pc \in {"opened", "closed"} /\ NextIs("close") /\ tmp' = tmp + 1 /\ pc' = "end"
      /\ UNCHANGED res
  BY DEF Close
<1>2. Walk(text, tmp)
  BY <1>1, GapNow
<1>3. PICK j, k : GapRead(line, q, pc, res, j, k) /\ Ahead(line, tmp, k)
  BY <1>1, GapNow
<1>4. tmp < Len(text) /\ text[tmp + 1] = "close" /\ ~Continues(text, tmp)
  BY <1>1 DEF NextIs, At
<1>5. k \in 1..Len(line) /\ Byte(line, k) = "close" /\ Ahead(line, tmp + 1, k + 1)
  BY <1>2, <1>3, <1>4, NextByte
<1>6. GapRead(line, q, "end", res, j, k + 1)
  BY <1>1, <1>3, <1>5, Given, GapClose
<1>. QED
  BY <1>1, <1>5, <1>6 DEF Then, Parses

LEMMA OpenParse ==
  ASSUME IInv, NEW line, NEW q, Reads(line, q), Now(line, q), Open
  PROVE  Then(line, q)
<1>1. /\ pc \in {"opened", "comma"} /\ NextIs("quote") /\ tmp' = tmp + 1 /\ pc' = "string"
      /\ word_start' = tmp + 1 /\ buf' = <<>> /\ UNCHANGED <<text, res>>
  BY DEF Open, NoChar
<1>2. Walk(text, tmp)
  BY <1>1, GapNow
<1>3. PICK j, k : GapRead(line, q, pc, res, j, k) /\ Ahead(line, tmp, k)
  BY <1>1, GapNow
<1>4. tmp < Len(text) /\ text[tmp + 1] = "quote" /\ ~Continues(text, tmp)
  BY <1>1 DEF NextIs, At
<1>5. k \in 1..Len(line) /\ Byte(line, k) = "quote" /\ Ahead(line, tmp + 1, k + 1)
  BY <1>2, <1>3, <1>4, NextByte
<1>6. tmp + 1 \in Nat
  BY Given
<1>7. StringRead(line, q, tmp + 1, tmp + 1, <<>>, res, j + 1, k + 1)
  BY <1>1, <1>3, <1>5, <1>6, Given, GapOpen
<1>8. Walk(text, tmp + 1)
  <2>1. text[tmp + 1] # "lf"
    BY <1>4
  <2>. QED
    BY <1>2, <1>4, <2>1, Given, WalkByte
<1>. QED
  BY <1>1, <1>5, <1>7, <1>8 DEF Then, Parses

(* Nothing else may be between strings, and nothing behind the array.       *)
LEMMA AroundOnly ==
  ASSUME NEW line, NEW i \in Nat, NEW k \in Nat, NEW m \in Nat, k <= m, NEW byte, Only(line, i, k, byte)
  PROVE  \E x \in Around(line, i, m) : /\ x \in Nat /\ x < k /\ Byte(line, x) = byte
                                       /\ Around(line, i, k) = {x}
<1>1. PICK x \in i + 1..k - 1 : Byte(line, x) = byte /\ Around(line, i, k) = {x}
  BY DEF Only
<1>2. x \in Around(line, i, k)
  BY <1>1
<1>. QED
  BY <1>1, <1>2, AroundGrows

LEMMA UnexpectedDooms ==
  ASSUME Len(text) \in Nat, backslash \in {"esc", "bs"},
         NEW line, NEW q, Reads(line, q), NEW p, NEW r, Len(r) \in Nat, NEW j, NEW k,
         GapRead(line, q, p, r, j, k), p \in {"opened", "closed", "comma", "end"},
         \/ k = Len(line) + 1 /\ p # "end"
         \/ /\ k \in 1..Len(line)
            /\ Byte(line, k) \notin Whitespace
            /\ p = "opened" => Byte(line, k) \notin {"quote", "close"}
            /\ p = "closed" => Byte(line, k) \notin {"comma", "close"}
            /\ p = "comma" => Byte(line, k) # "quote"
  PROVE  Doomed(line, q)
<1>. DEFINE end == GapEnd(line, q, j)
<1>1. /\ j = 2 * Len(r) /\ j \in Nat /\ k \in Nat /\ 0 < k /\ Parsed(line, q, r, j, k)
      /\ j # 0 => j > 0 /\ j \in 1..Len(q) /\ q[j] \in Nat /\ q[j] < k
  BY GapIs
<1>2. j \in 0..Len(q) /\ k \in 1..Len(line) + 1 /\ Ahead(q, k, j + 1) /\ q \in Seq(Nat) /\ Len(line) \in Nat
  BY <1>1, ParsedIs, QuotesAre
<1>3. /\ end \in Nat /\ k <= end
      /\ k \in 1..Len(line) /\ Byte(line, k) # "quote" => k < end
      /\ k = Len(line) + 1 => j = Len(q) /\ end = k
  BY <1>2, GapEndIs
<1>. HIDE DEF end
<1>4. /\ p = "opened" => j = 0 /\ Only(line, 0, k, "open")
      /\ p = "closed" => j > 0 /\ Around(line, q[j], k) = {}
      /\ p = "comma" => j > 0 /\ Only(line, q[j], k, "comma")
      /\ p = "end" => IF j = 0 THEN OpenClose(line, k) ELSE Only(line, q[j], k, "close")
  BY DEF GapRead
<1>5. CASE p = "opened"
  <2>1. j = 0 /\ end = GapEnd(line, q, 0)
    BY <1>4, <1>5 DEF end
  <2>0. Only(line, 0, k, "open") /\ 0 \in Nat /\ k \in Nat /\ end \in Nat /\ k <= end
    BY <1>1, <1>3, <1>4, <1>5
  <2>2. PICK x \in Around(line, 0, end) : x \in Nat /\ x < k /\ Byte(line, x) = "open" /\ Around(line, 0, k) = {x}
    BY <2>0, AroundOnly
  <2>3. CASE k = Len(line) + 1
    <3>1. q = <<>>
      BY <1>2, <1>3, <2>1, <2>3
    <3>2. Around(line, 0, end) = {x}
      BY <1>3, <2>2, <2>3
    <3>. QED
      BY <2>1, <2>2, <3>1, <3>2, StartDoomed
  <2>4. CASE k # Len(line) + 1
    <3>1. k \in 1..Len(line) /\ Byte(line, k) \notin Whitespace \cup {"quote", "close"}
      BY <1>5, <2>4
    <3>2. k \in Around(line, 0, end)
      BY <1>1, <1>3, <3>1, AroundGrows
    <3>3. q # <<>> \/ (Byte(line, x) = "open" /\ Byte(line, k) # "close")
      BY <2>2, <3>1
    <3>. QED
      BY <2>1, <2>2, <3>2, <3>3, StartDoomed
  <2>. QED
    BY <2>3, <2>4
<1>6. CASE p = "closed"
  <2>1. j \in 1..Len(q) /\ q[j] \in Nat /\ q[j] < k /\ Around(line, q[j], k) = {}
    BY <1>1, <1>4, <1>6
  <2>2. CASE k = Len(line) + 1
    <3>1. Around(line, q[j], end) = {}
      BY <1>3, <2>1, <2>2
    <3>. QED
      BY <1>1, <2>1, <3>1, GapDoomed DEF end
  <2>3. CASE k # Len(line) + 1
    <3>1. k \in 1..Len(line) /\ Byte(line, k) \notin Whitespace \cup {"comma", "close"}
      BY <1>6, <2>3
    <3>2. CASE k < end
      <4>1. k \in Around(line, q[j], end)
        BY <1>1, <1>3, <2>1, <3>1, <3>2, AroundGrows
      <4>2. Byte(line, k) # (IF j = Len(q) THEN "close" ELSE "comma")
        BY <3>1
      <4>. QED
        BY <1>1, <2>1, <4>1, <4>2, GapDoomed DEF end
    <3>3. CASE k = end
      <4>1. Around(line, q[j], end) = {}
        BY <2>1, <3>3
      <4>. QED
        BY <1>1, <2>1, <4>1, GapDoomed DEF end
    <3>. QED
      BY <1>1, <1>3, <3>2, <3>3
  <2>. QED
    BY <2>2, <2>3
<1>7. CASE p = "comma" \/ (p = "end" /\ j # 0)
  <2>. DEFINE byte == IF p = "comma" THEN "comma" ELSE "close"
  <2>1. j \in 1..Len(q) /\ q[j] \in Nat /\ q[j] < k /\ Only(line, q[j], k, byte)
    BY <1>1, <1>4, <1>7
  <2>. HIDE DEF byte
  <2>2. PICK x \in Around(line, q[j], end) : x \in Nat /\ x < k /\ Byte(line, x) = byte /\ Around(line, q[j], k) = {x}
    BY SMTT(30), <1>1, <1>3, <2>1, AroundOnly
  <2>3. CASE k = Len(line) + 1
    <3>1. p = "comma" /\ j = Len(q)
      BY <1>3, <1>7, <2>3
    <3>2. Byte(line, x) # (IF j = Len(q) THEN "close" ELSE "comma")
      BY <2>2, <3>1 DEF byte
    <3>. QED
      BY <1>1, <2>1, <2>2, <3>2, GapDoomed DEF end
  <2>4. CASE k # Len(line) + 1 /\ k < end
    <3>1. k \in 1..Len(line) /\ Byte(line, k) \notin Whitespace
      BY <2>4
    <3>2. k \in Around(line, q[j], end)
      <4>1. PICK i \in Nat : i = q[j] /\ i < k
        BY <2>1
      <4>2. k \in Nat /\ end \in Nat /\ k < end
        BY <1>1, <1>3, <2>4
      <4>3. k \in Around(line, i, end)
        BY <3>1, <4>1, <4>2 DEF Around
      <4>. QED
        BY <4>1, <4>3
    <3>3. x # k
      BY <1>1, <2>2
    <3>. QED
      BY <1>1, <2>1, <2>2, <3>2, <3>3, GapDoomed DEF end
  <2>5. CASE k # Len(line) + 1 /\ k = end
    <3>1. p = "end"
      <4>1. k \in 1..Len(line) /\ Byte(line, k) = "quote"
        BY <1>1, <1>3, <2>5
      <4>. QED
        BY <1>7, <2>5, <4>1
    <3>2. j # Len(q)
      BY <2>5 DEF end, GapEnd
    <3>3. Byte(line, x) # (IF j = Len(q) THEN "close" ELSE "comma")
      BY <2>2, <3>1, <3>2 DEF byte
    <3>. QED
      BY <1>1, <2>1, <2>2, <3>3, GapDoomed DEF end
  <2>. QED
    BY <1>1, <1>3, <2>3, <2>4, <2>5
<1>8. CASE p = "end" /\ j = 0
  <2>1. end = GapEnd(line, q, 0)
    BY <1>8 DEF end
  <2>2. PICK x, y \in 1..k - 1 :
          x < y /\ Byte(line, x) = "open" /\ Byte(line, y) = "close" /\ Around(line, 0, k) = {x, y}
    BY <1>4, <1>8 DEF OpenClose
  <2>3. x \in Around(line, 0, end) /\ y \in Around(line, 0, end)
    <3>1. x \in Around(line, 0, k) /\ y \in Around(line, 0, k)
      BY <2>2
    <3>. QED
      BY <1>1, <1>3, <3>1, AroundGrows
  <2>4. k \in 1..Len(line) /\ Byte(line, k) \notin Whitespace
    BY <1>8
  <2>5. CASE q # <<>>
    BY <2>1, <2>2, <2>3, <2>5, StartDoomed
  <2>6. CASE q = <<>>
    <3>1. k < end
      BY <1>2, <1>8, <2>4, <2>6 DEF end, GapEnd
    <3>2. k \in Around(line, 0, end) /\ y < k
      BY <1>1, <1>3, <2>2, <2>4, <3>1, AroundGrows
    <3>. QED
      BY <2>1, <2>2, <2>3, <3>2, StartDoomed
  <2>. QED
    BY <2>5, <2>6
<1>. QED
  BY <1>5, <1>6, <1>7, <1>8

LEMMA RejectParse ==
  ASSUME NEW line, NEW q, Doomed(line, q), Reject
  PROVE  Then(line, q)
BY DEF Reject, Then, Parses

LEMMA UnexpectedParse ==
  ASSUME IInv, NEW line, NEW q, Reads(line, q), Now(line, q), Unexpected
  PROVE  Then(line, q)
<1>1. /\ pc \in {"opened", "closed", "comma"} /\ ~At(text, tmp, Whitespace) /\ ~Continues(text, tmp)
      /\ ~At(text, tmp, Allowed) /\ Reject
  BY DEF Unexpected
<1>2. Walk(text, tmp)
  BY <1>1, GapNow
<1>3. PICK j, k : GapRead(line, q, pc, res, j, k) /\ Ahead(line, tmp, k)
  BY <1>1, GapNow
<1>4. \/ k = Len(line) + 1 /\ pc # "end"
      \/ /\ k \in 1..Len(line)
         /\ Byte(line, k) \notin Whitespace
         /\ pc = "opened" => Byte(line, k) \notin {"quote", "close"}
         /\ pc = "closed" => Byte(line, k) \notin {"comma", "close"}
         /\ pc = "comma" => Byte(line, k) # "quote"
  <2>1. CASE tmp = Len(text) \/ At(text, tmp, {"lf"})
    BY <1>1, <1>2, <1>3, <2>1, Given, ReadEnd
  <2>2. CASE ~(tmp = Len(text) \/ At(text, tmp, {"lf"}))
    <3>1. tmp < Len(text) /\ text[tmp + 1] # "lf"
      BY <2>2, Given DEF At
    <3>2. k \in 1..Len(line) /\ Byte(line, k) = text[tmp + 1]
      BY <1>1, <1>2, <1>3, <3>1, NextByte
    <3>3. Byte(line, k) \notin Whitespace
      BY <1>1, <3>1, <3>2 DEF At
    <3>. QED
      BY <1>1, <3>1, <3>2, <3>3 DEF At, Allowed
  <2>. QED
    BY <2>1, <2>2
<1>5. Doomed(line, q)
  <2>1. pc \in {"opened", "closed", "comma", "end"} /\ Len(res) \in Nat
    BY <1>1, Given
  <2>. QED
    BY <1>3, <1>4, <2>1, Given, UnexpectedDooms
<1>. QED
  BY <1>1, <1>5, RejectParse

LEMMA TrailingParse ==
  ASSUME IInv, NEW line, NEW q, Reads(line, q), Now(line, q), Trailing
  PROVE  Then(line, q)
<1>1. /\ pc = "end" /\ ~At(text, tmp, Whitespace) /\ ~Continues(text, tmp)
      /\ tmp < Len(text) /\ ~At(text, tmp, {"lf"}) /\ Reject
  BY DEF Trailing
<1>2. Walk(text, tmp)
  BY <1>1, GapNow
<1>3. PICK j, k : GapRead(line, q, pc, res, j, k) /\ Ahead(line, tmp, k)
  BY <1>1, GapNow
<1>4. text[tmp + 1] # "lf" /\ text[tmp + 1] \notin Whitespace
  BY <1>1 DEF At
<1>5. k \in 1..Len(line) /\ Byte(line, k) \notin Whitespace
  BY <1>1, <1>2, <1>3, <1>4, NextByte
<1>6. Doomed(line, q)
  <2>1. GapRead(line, q, "end", res, j, k) /\ Len(res) \in Nat
    BY <1>1, <1>3, Given
  <2>. QED
    BY <1>5, <2>1, Given, UnexpectedDooms
<1>. QED
  BY <1>1, <1>6, RejectParse

(* An array that is accepted is one.                                        *)
LEMMA ArrayRead ==
  ASSUME Len(text) \in Nat, backslash \in {"esc", "bs"},
         NEW line, NEW q, Reads(line, q), NEW r, Len(r) \in Nat, NEW j, NEW k,
         GapRead(line, q, "end", r, j, k), k = Len(line) + 1
  PROVE  IsArray(line, q) /\ Len(r) * 2 = Len(q) /\ StringsRead(line, q, r)
<1>1. /\ j = 2 * Len(r) /\ j \in Nat /\ k \in Nat /\ 0 < k /\ Parsed(line, q, r, j, k)
      /\ j # 0 => j > 0 /\ j \in 1..Len(q) /\ q[j] \in Nat /\ q[j] < k
  BY GapIs
<1>2. Ahead(q, k, j + 1) /\ Gaps(line, q, j) /\ StringsRead(line, q, r)
  BY <1>1 DEF Parsed
<1>3. q \in Seq(Nat) /\ Len(q) \in Nat
  BY QuotesAre
<1>4. j = Len(q)
  <2>1. PICK m : m = j + 1
    OBVIOUS
  <2>2. m = Len(q) + 1
    BY <1>2, <2>1, QuotesEnd
  <2>. QED
    BY <1>1, <1>3, <2>1, <2>2
<1>5. CASE j = 0
  <2>1. q = <<>>
    <3>1. Len(q) = 0
      BY <1>4, <1>5
    <3>. QED
      BY <1>3, <3>1
  <2>2. OpenClose(line, k)
    BY <1>5 DEF GapRead
  <2>3. DOMAIN line = 1..Len(line) /\ Len(line) \in Nat
    BY LineIs DEF Sound
  <2>4. \E x, y \in DOMAIN line :
          x < y /\ Byte(line, x) = "open" /\ Byte(line, y) = "close" /\ Around(line, 0, Len(line) + 1) = {x, y}
    <3>1. \A x \in 1..k - 1 : x \in DOMAIN line
      BY <2>3
    <3>. QED
      BY <2>2, <3>1 DEF OpenClose
  <2>5. IsArray(line, q)
    BY <2>1, <2>4 DEF IsArray
  <2>. QED
    BY <1>1, <1>2, <1>4, <2>5
<1>6. CASE j # 0
  <2>1. PICK m \in Nat : m = Len(r)
    OBVIOUS
  <2>2. m \in 1..Len(q) /\ Len(q) = 2 * m
    BY <1>1, <1>3, <1>4, <1>6, <2>1
  <2>3. Only(line, 0, q[1], "open") /\ Only(line, q[2 * m], Len(line) + 1, "close")
    <3>1. Only(line, 0, q[1], "open")
      BY <1>1, <1>2, <1>6 DEF Gaps
    <3>2. Only(line, q[j], k, "close")
      BY <1>6 DEF GapRead
    <3>. QED
      BY <1>4, <2>2, <3>1, <3>2
  <2>4. ASSUME NEW x \in 1..m
        PROVE  /\ IsString(line, q[2 * x - 1], q[2 * x])
               /\ x < m => Only(line, q[2 * x], q[2 * x + 1], "comma")
    <3>1. IsString(line, q[2 * x - 1], q[2 * x])
      BY <1>2, <2>1 DEF StringsRead
    <3>2. x < m => x \in 1..j /\ 2 * x + 1 <= j
      BY <1>4, <2>2
    <3>. QED
      BY <1>2, <3>1, <3>2 DEF Gaps
  <2>5. q # <<>>
    BY <1>3, <1>4, <1>6
  <2>6. IsArray(line, q)
    BY <2>2, <2>3, <2>4, <2>5 DEF IsArray
  <2>. QED
    BY <1>2, <2>1, <2>2, <2>6
<1>. QED
  BY <1>5, <1>6

LEMMA AcceptParse ==
  ASSUME IInv, NEW line, NEW q, Reads(line, q), Now(line, q), Accept
  PROVE  Then(line, q)
<1>1. pc' \in {"stray", "done"} /\ UNCHANGED res
  BY DEF Accept
<1>2. pc = "end" /\ (tmp = Len(text) \/ At(text, tmp, {"lf"}))
  BY DEF Accept
<1>3. Walk(text, tmp)
  BY <1>2, GapNow
<1>4. PICK j, k : GapRead(line, q, pc, res, j, k) /\ Ahead(line, tmp, k)
  BY <1>2, GapNow
<1>5. k = Len(line) + 1
  BY <1>2, <1>3, <1>4, Given, ReadEnd
<1>6. GapRead(line, q, "end", res, j, k) /\ Len(res) \in Nat
  BY <1>2, <1>4, Given
<1>7. IsArray(line, q) /\ Len(res) * 2 = Len(q) /\ StringsRead(line, q, res)
  BY <1>5, <1>6, Given, ArrayRead
<1>. QED
  BY <1>1, <1>7 DEF Then, Parses

-----------------------------------------------------------------------------
(* The steps inside of a string.                                            *)
LEMMA StringIs ==
  ASSUME Len(text) \in Nat, backslash \in {"esc", "bs"},
         NEW line, NEW q, Reads(line, q), NEW i, NEW w, NEW b, NEW r, Len(r) \in Nat, NEW j, NEW k,
         StringRead(line, q, i, w, b, r, j, k)
  PROVE  /\ j = 2 * Len(r) + 1 /\ j \in Nat /\ k \in Nat /\ 0 < k /\ Parsed(line, q, r, j, k)
         /\ j \in 1..Len(q) /\ q[j] \in Nat /\ q[j] < k /\ IsString(line, q[j], k)
         /\ Clean(line, k) /\ ~Escaped(line, k) /\ Ahead(q, k, j + 1)
         /\ Sound(line) /\ Len(line) \in Nat /\ Len(q) \in Nat
         /\ Of(b, w, i) = Chars(line, q[j], k) /\ Rising(b)
<1>1. /\ j = 2 * Len(r) + 1 /\ Parsed(line, q, r, j, k)
      /\ q[j] < k /\ IsString(line, q[j], k)
      /\ Of(b, w, i) = Chars(line, q[j], k) /\ Rising(b)
  BY DEF StringRead
<1>2. j \in Nat /\ j > 0
  BY <1>1
<1>. QED
  BY <1>1, <1>2, ParsedIs

LEMMA StringReadByte ==
  ASSUME Len(text) \in Nat, backslash \in {"esc", "bs"},
         NEW line, NEW q, Reads(line, q), NEW i \in Nat, NEW w \in Nat, w <= i, NEW b,
         NEW r, Len(r) \in Nat, NEW j, NEW k,
         StringRead(line, q, i, w, b, r, j, k), k \in 1..Len(line), line[k] = i,
         Byte(line, k) \notin {"quote", backslash} \cup Control
  PROVE  StringRead(line, q, i + 1, w, b, r, j, k + 1)
<1>1. /\ j = 2 * Len(r) + 1 /\ k \in Nat /\ Parsed(line, q, r, j, k)
      /\ q[j] \in Nat /\ q[j] < k /\ IsString(line, q[j], k) /\ Clean(line, k)
      /\ Sound(line) /\ Of(b, w, i) = Chars(line, q[j], k) /\ Rising(b)
  BY StringIs
<1>2. Byte(line, k) # "quote" /\ Byte(line, k) # backslash /\ Byte(line, k) \notin Control
  OBVIOUS
<1>3. Parsed(line, q, r, j, k + 1)
  BY <1>1, <1>2, ParsedByte
<1>4. PICK a \in Nat : a = q[j] /\ a < k
  BY <1>1
<1>5. IsString(line, a, k + 1)
  BY <1>1, <1>2, <1>4, IsStringByte
<1>6. k \notin Escapes(line)
  BY <1>1, <1>2, EscapesAre DEF Escapes, Sound
<1>7. Chars(line, a, k + 1) = Chars(line, a, k) \cup {CharAt(line, k)}
  <2>1. PICK m : m = k + 1
    OBVIOUS
  <2>2. /\ k \in Escapes(line) => m = k + Size(line, k)
        /\ k \notin Escapes(line) => m = k + 1
    BY <1>6, <2>1
  <2>3. Chars(line, a, m) = Chars(line, a, k) \cup {CharAt(line, k)}
    BY SMTT(30), <1>1, <1>4, <2>2, CharsMore
  <2>. QED
    BY <2>1, <2>3
<1>8. CharAt(line, k) = <<i, Itself>>
  BY <1>6 DEF CharAt, Escapes
<1>9. Of(b, w, i + 1) = Of(b, w, i) \cup {<<i, Itself>>}
  BY OfMore
<1>10. Of(b, w, i + 1) = Chars(line, q[j], k + 1) /\ IsString(line, q[j], k + 1)
  BY <1>1, <1>4, <1>5, <1>7, <1>8, <1>9
<1>11. q[j] < k + 1
  BY <1>1
<1>. QED
  BY <1>1, <1>3, <1>10, <1>11 DEF StringRead

LEMMA StringReadOver ==
  ASSUME NEW line, NEW q, NEW i \in Nat, NEW w \in Nat, w <= i,
         NEW b \in Seq(Character), NEW st \in Nat, Within(b, st, w), NEW r, NEW j, NEW k,
         StringRead(line, q, i, w, b, r, j, k), NEW p \in Nat
  PROVE  StringRead(line, q, p, p, b \o Raw(w, i), r, j, k)
<1>1. Rising(b) /\ Of(b, w, i) = Chars(line, q[j], k)
  BY DEF StringRead
<1>2. PICK v : v = b \o Raw(w, i)
  OBVIOUS
<1>3. Rising(v) /\ ToSet(v) = Of(b, w, i)
  BY <1>1, <1>2, RawMore
<1>4. Of(v, p, p) = Of(b, w, i)
  BY <1>3, OfNone
<1>. QED
  BY <1>1, <1>2, <1>3, <1>4 DEF StringRead

(* ... and the same over an escape.                                         *)
LEMMA EscapeOver ==
  ASSUME Len(text) \in Nat, backslash \in {"esc", "bs"},
         NEW line, NEW q, Reads(line, q), NEW r, Len(r) \in Nat, NEW j, j = 2 * Len(r) + 1, NEW k,
         Parsed(line, q, r, j, k), q[j] < k, IsString(line, q[j], k),
         k \in Escapes(line), IsEscape(line, k), NEW m, m = k + Size(line, k), m <= Len(line) + 1
  PROVE  /\ Parsed(line, q, r, j, m) /\ q[j] < m /\ IsString(line, q[j], m)
         /\ Chars(line, q[j], m) = Chars(line, q[j], k) \cup {CharAt(line, k)}
<1>1. /\ j \in Nat /\ j > 0 /\ k \in Nat /\ q[j] \in Nat /\ Clean(line, k) /\ Sound(line)
  BY ParsedIs
<1>2. k \in 1..Len(line)
  BY <1>1, EscapesAre DEF Escapes, Sound
<1>3. Parsed(line, q, r, j, m)
  BY ParsedEscape
<1>4. PICK a \in Nat : a = q[j] /\ a < k
  BY <1>1
<1>5. IsString(line, a, m)
  BY <1>1, <1>2, <1>4, IsStringEscape
<1>6. Chars(line, a, m) = Chars(line, a, k) \cup {CharAt(line, k)}
  BY <1>1, <1>2, <1>4, CharsMore
<1>7. q[j] < m
  <2>1. Size(line, k) \in {2, 6, 12}
    BY SizeIs
  <2>. QED
    BY <1>1, <2>1
<1>. QED
  BY <1>3, <1>4, <1>5, <1>6, <1>7

LEMMA StringReadEscape ==
  ASSUME NEW line, NEW q, NEW v \in Seq(Character), NEW st \in Nat, NEW i \in Nat,
         Within(v, st, i), NEW r, NEW j, j = 2 * Len(r) + 1, NEW k, NEW m,
         ToSet(v) = Chars(line, q[j], k), Rising(v),
         Parsed(line, q, r, j, m), q[j] < m, IsString(line, q[j], m),
         Chars(line, q[j], m) = Chars(line, q[j], k) \cup {CharAt(line, k)},
         NEW c \in Character, CharAt(line, k) = c, NEW l \in Nat, i <= l, c[1] = l,
         NEW p \in Nat
  PROVE  StringRead(line, q, p, p, Append(v, c), r, j, m)
<1>1. PICK x : x = Append(v, c)
  OBVIOUS
<1>2. Rising(x) /\ ToSet(x) = ToSet(v) \cup {c}
  BY <1>1, OneMore
<1>3. Of(x, p, p) = ToSet(x)
  BY OfNone
<1>4. Of(x, p, p) = Chars(line, q[j], m)
  BY <1>2, <1>3
<1>. QED
  BY <1>1, <1>2, <1>4 DEF StringRead

LEMMA StringNow ==
  ASSUME IInv, NEW line, NEW q, Reads(line, q), Now(line, q), pc = "string"
  PROVE  \/ Walk(text, tmp) /\ \E j, k : /\ StringRead(line, q, tmp, word_start, buf, res, j, k)
                                         /\ Ahead(line, tmp, k)
         \/ Stuck(text, tmp) /\ Doomed(line, q)
BY DEF Now, Parses

LEMMA StringByteParse ==
  ASSUME IInv, NEW line, NEW q, Reads(line, q), Now(line, q), StringByte
  PROVE  Then(line, q)
<1>1. /\ pc = "string" /\ tmp < Len(text) /\ ~Continues(text, tmp) /\ tmp' = tmp + 1
      /\ pc' = "string" /\ UNCHANGED <<word_start, buf, res>>
  BY DEF StringByte
<1>2. text[tmp + 1] \notin {"quote", backslash} \cup Control /\ text[tmp + 1] # "lf"
  BY <1>1 DEF StringByte, At, Control
<1>3. CASE Stuck(text, tmp) /\ Doomed(line, q)
  <2>1. Stuck(text, tmp + 1)
    BY <1>2, <1>3, Given, StuckAt
  <2>. QED
    BY <1>1, <1>3, <2>1 DEF Then, Parses
<1>4. CASE Walk(text, tmp) /\ \E j, k : /\ StringRead(line, q, tmp, word_start, buf, res, j, k)
                                        /\ Ahead(line, tmp, k)
  <2>1. PICK j, k : StringRead(line, q, tmp, word_start, buf, res, j, k) /\ Ahead(line, tmp, k)
    BY <1>4
  <2>2. /\ k \in 1..Len(line) /\ line[k] = tmp /\ Byte(line, k) = text[tmp + 1]
        /\ Ahead(line, tmp + 1, k + 1)
    BY <1>1, <1>2, <1>4, <2>1, NextByte
  <2>3. word_start \in Nat /\ word_start <= tmp
    BY <1>1, Basics, StringFacts
  <2>4. StringRead(line, q, tmp + 1, word_start, buf, res, j, k + 1)
    BY <1>2, <2>1, <2>2, <2>3, Given, StringReadByte
  <2>5. Walk(text, tmp + 1)
    BY <1>1, <1>2, <1>4, Given, WalkByte
  <2>. QED
    BY <1>1, <2>2, <2>4, <2>5 DEF Then, Parses
<1>. QED
  BY <1>1, <1>3, <1>4, StringNow

LEMMA StringContinuedParse ==
  ASSUME IInv, NEW line, NEW q, Reads(line, q), Now(line, q), StringContinued
  PROVE  Then(line, q)
<1>1. /\ pc = "string" /\ pc' = "string" /\ Continues(text, tmp) /\ UNCHANGED res
      /\ tmp' = Continuation(text, tmp) /\ word_start' = tmp' /\ buf' = buf \o Raw(word_start, tmp)
  BY DEF StringContinued
<1>2. ~Stuck(text, tmp)
  <2>1. tmp < Len(text) /\ text[tmp + 1] = "esc"
    BY <1>1, Given, ContinuationAdvances DEF At
  <2>. QED
    BY <2>1, Given, StuckAt DEF Whitespace
<1>3. Walk(text, tmp)
  BY <1>1, <1>2, StringNow
<1>4. PICK j, k : StringRead(line, q, tmp, word_start, buf, res, j, k) /\ Ahead(line, tmp, k)
  BY <1>1, <1>2, StringNow
<1>5. PICK p : p = Continuation(text, tmp)
  OBVIOUS
<1>6. p \in Nat /\ Walk(text, p) /\ Ahead(line, p, k)
  <2>1. Walk(text, p) /\ p \in 0..Len(text)
    BY <1>3, <1>5, Given, WalkOnce
  <2>. QED
    BY <1>3, <1>4, <1>5, <2>1, Given, ReadOver
<1>7. /\ word_start \in Nat /\ word_start <= tmp /\ start \in Nat /\ buf \in Seq(Character)
      /\ Within(buf, start, word_start)
  BY <1>1, Basics, StringFacts
<1>8. StringRead(line, q, p, p, buf \o Raw(word_start, tmp), res, j, k)
  BY <1>4, <1>6, <1>7, Given, StringReadOver
<1>. QED
  BY <1>1, <1>5, <1>6, <1>8 DEF Then, Parses

(* What may not be in a string, and a string that does not end.             *)
LEMMA StringDoomed ==
  ASSUME Len(text) \in Nat, backslash \in {"esc", "bs"},
         NEW line, NEW q, Reads(line, q), NEW r, Len(r) \in Nat, NEW j, j = 2 * Len(r) + 1, NEW k,
         Parsed(line, q, r, j, k), q[j] < k, k \in 1..Len(line), Byte(line, k) # "quote",
         \/ Byte(line, k) \in Control
         \/ Byte(line, k) = backslash /\ ~IsEscape(line, k)
  PROVE  Doomed(line, q)
<1>1. /\ j \in Nat /\ k \in Nat /\ j \in 1..Len(q) /\ Len(q) \in Nat /\ Ahead(q, k, j + 1) /\ ~Escaped(line, k)
  <2>1. j > 0
    OBVIOUS
  <2>. QED
    BY <2>1, ParsedIs
<1>2. j < Len(q) => k < q[j + 1]
  <2>1. PICK x : x = j + 1
    OBVIOUS
  <2>2. x \in 1..Len(q) => k < q[x]
    BY <1>1, <2>1, QuoteRead
  <2>. QED
    BY <1>1, <2>1, <2>2
<1>3. PICK m \in Nat : j = 2 * m + 1
  OBVIOUS
<1>. QED
  BY <1>1, <1>2, <1>3, NotInString

LEMMA StringUnclosed ==
  ASSUME Len(text) \in Nat, backslash \in {"esc", "bs"},
         NEW line, NEW q, Reads(line, q), NEW r, Len(r) \in Nat, NEW j, j = 2 * Len(r) + 1,
         NEW k, k = Len(line) + 1, NEW x, x = j + 1, Ahead(q, k, x)
  PROVE  Doomed(line, q)
<1>1. q \in Seq(Nat) /\ Len(q) \in Nat
  BY QuotesAre
<1>2. x = Len(q) + 1
  BY QuotesEnd
<1>3. PICK m \in Nat : m = Len(r)
  OBVIOUS
<1>4. j = 2 * m + 1 /\ j = Len(q)
  BY <1>1, <1>2, <1>3
<1>. QED
  BY <1>1, <1>4, Unclosed

(* A backslash that starts an escape, and the byte it names.                *)
LEMMA EscapeNow ==
  ASSUME IInv, NEW line, NEW q, Reads(line, q), Now(line, q), Escape
  PROVE  \E j, k, p :
           /\ StringRead(line, q, tmp, word_start, buf, res, j, k)
           /\ k \in Escapes(line) /\ k \in 1..Len(line) /\ line[k] = tmp
           /\ p = Once(tmp + 1) /\ p \in tmp + 1..Len(text) /\ Walk(text, p)
           /\ Ahead(line, p, k + 1) /\ Ahead(q, k + 1, j + 1)
           /\ Continues(text, p) => Doomed(line, q)
<1>1. pc = "string" /\ tmp < Len(text) /\ text[tmp + 1] = backslash /\ ~Continues(text, tmp)
  BY DEF Escape, At
<1>2. text[tmp + 1] # "lf" /\ text[tmp + 1] # "quote"
  BY <1>1, Given
<1>3. ~Stuck(text, tmp)
  <2>1. text[tmp + 1] \notin Whitespace \cup {"lf"}
    BY <1>1, Given DEF Whitespace
  <2>. QED
    BY <2>1, Given, StuckAt
<1>4. Walk(text, tmp)
  BY <1>1, <1>3, StringNow
<1>5. PICK j, k : StringRead(line, q, tmp, word_start, buf, res, j, k) /\ Ahead(line, tmp, k)
  BY <1>1, <1>3, StringNow
<1>6. /\ k \in 1..Len(line) /\ line[k] = tmp /\ Byte(line, k) = backslash
      /\ Ahead(line, tmp + 1, k + 1)
  BY <1>1, <1>2, <1>4, <1>5, NextByte
<1>7. /\ j = 2 * Len(res) + 1 /\ j \in Nat /\ k \in Nat /\ ~Escaped(line, k) /\ Ahead(q, k, j + 1)
      /\ Sound(line)
  BY <1>5, Given, StringIs
<1>8. k \in Escapes(line)
  BY <1>6, <1>7, EscapesAre DEF Escapes, Sound
<1>9. Ahead(q, k + 1, j + 1)
  <2>1. PICK x : x = j + 1
    OBVIOUS
  <2>2. Byte(line, k) # "quote"
    BY <1>6, Given
  <2>. QED
    BY <1>6, <1>7, <2>1, <2>2, Given, QuoteRead
<1>10. PICK i : i = tmp + 1
  OBVIOUS
<1>11. PICK p : p = Once(i)
  OBVIOUS
<1>12. Walk(text, i) /\ Walk(text, p) /\ p \in tmp + 1..Len(text) /\ p = Continuation(text, i)
  BY <1>10, <1>11, EscapeWalks DEF Once
<1>13. Ahead(line, p, k + 1)
  <2>1. PICK x : x = k + 1
    OBVIOUS
  <2>2. Ahead(line, i, x)
    BY <1>6, <1>10, <2>1
  <2>3. Ahead(line, p, x)
    BY <1>12, <2>2, Given, ReadOver
  <2>. QED
    BY <2>1, <2>3
<1>14. ASSUME Continues(text, p)
       PROVE  Doomed(line, q)
  <2>1. Continues(text, i)
    BY <1>12, <1>14 DEF Continues
  <2>2. CASE k < Len(line)
    <3>1. k \in k..k + Size(line, k) - 2
      BY <1>7, SizeIs
    <3>. QED
      BY <1>6, <1>7, <1>8, <1>10, <1>12, <1>14, <2>1, <2>2, <3>1, Given, Broken
  <2>3. CASE ~(k < Len(line))
    <3>1. PICK m, x : m = k + 1 /\ x = j + 1
      OBVIOUS
    <3>2. m = Len(line) + 1 /\ Ahead(q, m, x)
      BY <1>6, <1>7, <1>9, <2>3, <3>1 DEF Sound
    <3>. QED
      BY <1>7, <3>1, <3>2, Given, StringUnclosed
  <2>. QED
    BY <2>2, <2>3
<1>. QED
  BY <1>5, <1>6, <1>8, <1>9, <1>10, <1>11, <1>12, <1>13, <1>14

LEMMA BadEscapeParse ==
  ASSUME IInv, NEW line, NEW q, Reads(line, q), Now(line, q), BadEscape
  PROVE  Then(line, q)
<1>1. Escape /\ ~At(text, Once(tmp + 1), Named \cup {"u"}) /\ Reject
  BY DEF BadEscape
<1>2. PICK j, k, p :
           /\ StringRead(line, q, tmp, word_start, buf, res, j, k)
           /\ k \in Escapes(line) /\ k \in 1..Len(line) /\ line[k] = tmp
           /\ p = Once(tmp + 1) /\ p \in tmp + 1..Len(text) /\ Walk(text, p)
           /\ Ahead(line, p, k + 1) /\ Ahead(q, k + 1, j + 1)
           /\ Continues(text, p) => Doomed(line, q)
  BY <1>1, EscapeNow
<1>3. /\ j = 2 * Len(res) + 1 /\ k \in Nat /\ Parsed(line, q, res, j, k) /\ q[j] < k /\ Sound(line)
  BY <1>2, Given, StringIs
<1>4. PICK m, x : m = k + 1 /\ x = j + 1
  OBVIOUS
<1>5. Ahead(line, p, m) /\ Ahead(q, m, x)
  BY <1>2, <1>4
<1>6. CASE Continues(text, p)
  BY <1>1, <1>2, <1>6, RejectParse
<1>7. CASE p = Len(text) \/ At(text, p, {"lf"})
  <2>1. m = Len(line) + 1
    BY <1>2, <1>5, <1>7, Given, ReadEnd
  <2>2. Doomed(line, q)
    BY <1>3, <1>4, <1>5, <2>1, Given, StringUnclosed
  <2>. QED
    BY <1>1, <2>2, RejectParse
<1>8. CASE ~Continues(text, p) /\ ~(p = Len(text) \/ At(text, p, {"lf"}))
  <2>1. p < Len(text) /\ text[p + 1] # "lf"
    BY <1>2, <1>8, Given DEF At
  <2>2. m \in 1..Len(line) /\ Byte(line, m) = text[p + 1]
    BY <1>2, <1>5, <1>8, <2>1, Given, ReadByte
  <2>3. Byte(line, m) \notin Named \cup {"u"}
    BY <1>1, <1>2, <2>1, <2>2 DEF At
  <2>4. ~IsEscape(line, k)
    BY <1>4, <2>3 DEF IsEscape, IsHex
  <2>5. Byte(line, k) = backslash /\ Byte(line, k) # "quote"
    BY <1>2, <1>3, Given, EscapesAre DEF Escapes, Sound
  <2>6. Doomed(line, q)
    BY <1>2, <1>3, <2>4, <2>5, Given, StringDoomed
  <2>. QED
    BY <1>1, <2>6, RejectParse
<1>. QED
  BY <1>6, <1>7, <1>8

LEMMA StringEscapeParse ==
  ASSUME IInv, NEW line, NEW q, Reads(line, q), Now(line, q), StringEscape
  PROVE  Then(line, q)
<1>1. Escape /\ pc' = "string" /\ UNCHANGED res
  BY DEF StringEscape, Escape
<1>2. PICK j, k, p :
           /\ StringRead(line, q, tmp, word_start, buf, res, j, k)
           /\ k \in Escapes(line) /\ k \in 1..Len(line) /\ line[k] = tmp
           /\ p = Once(tmp + 1) /\ p \in tmp + 1..Len(text) /\ Walk(text, p)
           /\ Ahead(line, p, k + 1) /\ Ahead(q, k + 1, j + 1)
           /\ Continues(text, p) => Doomed(line, q)
  BY <1>1, EscapeNow
<1>3. /\ At(text, p, Named) /\ tmp' = p + 1 /\ word_start' = p + 1
      /\ buf' = buf \o Raw(word_start, tmp) \o <<<<p, ByName>>>>
  BY <1>2 DEF StringEscape
<1>4. p \in Nat /\ p < Len(text) /\ text[p + 1] \in Named /\ p + 1 \in Nat /\ tmp < p
  BY SMTT(30), <1>2, <1>3, Given DEF At
<1>5. CASE Continues(text, p)
  <2>1. Stuck(text, p + 1)
    BY <1>4, <1>5, Given, ContinuesStuck
  <2>. QED
    BY <1>1, <1>2, <1>3, <1>5, <2>1 DEF Then, Parses
<1>6. CASE ~Continues(text, p)
  <2>1. PICK m : m = k + 1
    OBVIOUS
  <2>2. text[p + 1] # "lf" /\ text[p + 1] # "u"
    BY <1>4, Given DEF Named
  <2>3. m \in 1..Len(line) /\ line[m] = p /\ Byte(line, m) = text[p + 1] /\ Ahead(line, p + 1, m + 1)
    BY SMTT(30), <1>2, <1>4, <1>6, <2>1, <2>2, Given, ReadByte
  <2>4. Walk(text, p + 1)
    BY <1>2, <1>4, <1>6, <2>2, Given, WalkByte
  <2>5. /\ j = 2 * Len(res) + 1 /\ k \in Nat /\ Parsed(line, q, res, j, k) /\ q[j] < k
        /\ IsString(line, q[j], k) /\ Of(buf, word_start, tmp) = Chars(line, q[j], k) /\ Rising(buf)
        /\ Len(line) \in Nat
    <3>1. StringRead(line, q, tmp, word_start, buf, res, j, k) /\ Len(res) \in Nat
      BY <1>2, Given
    <3>. QED
      BY <3>1, Given, StringIs
  <2>6. IsEscape(line, k) /\ ~IsHex(line, k)
    BY <1>4, <2>1, <2>2, <2>3 DEF IsEscape, IsHex
  <2>7. Size(line, k) = 2 /\ m + 1 = k + Size(line, k) /\ m + 1 <= Len(line) + 1
    BY <2>1, <2>3, <2>5, <2>6, SizeIs
  <2>8. PICK c : c = <<p, ByName>>
    OBVIOUS
  <2>9. c \in Character /\ c[1] = p /\ CharAt(line, k) = c
    <3>1. c \in Character /\ c[1] = p
      BY <1>4, <2>8 DEF Character
    <3>2. CharAt(line, k) = <<line[k + 1], ByName>>
      BY <1>2, <2>6 DEF CharAt, Escapes
    <3>. QED
      BY <2>1, <2>3, <2>8, <3>1, <3>2
  <2>10. /\ word_start \in Nat /\ word_start <= tmp /\ start \in Nat /\ start <= word_start /\ buf \in Seq(Character)
         /\ Within(buf, start, word_start)
    BY <1>1, Basics, StringFacts DEF Escape
  <2>11. PICK v : v = buf \o Raw(word_start, tmp)
    OBVIOUS
  <2>12. v \in Seq(Character) /\ Within(v, start, tmp)
    BY <2>10, <2>11, Given, WithinMore
  <2>13. Rising(v) /\ ToSet(v) = Chars(line, q[j], k)
    BY <2>5, <2>10, <2>11, Given, RawMore
  <2>14. PICK z : z = m + 1
    OBVIOUS
  <2>15. /\ Parsed(line, q, res, j, z) /\ q[j] < z /\ IsString(line, q[j], z)
         /\ Chars(line, q[j], z) = Chars(line, q[j], k) \cup {CharAt(line, k)}
    <3>1. z = k + Size(line, k) /\ z <= Len(line) + 1 /\ Len(res) \in Nat
      BY <2>7, <2>14, Given
    <3>2. k \in Escapes(line) /\ IsEscape(line, k)
      BY <1>2, <2>6
    <3>. QED
      BY SMTT(30), <2>5, <3>1, <3>2, Given, EscapeOver
  <2>16. PICK i \in Nat : i = p + 1
    BY <1>4
  <2>17. StringRead(line, q, i, i, Append(v, c), res, j, z)
    <3>1. tmp \in Nat /\ tmp <= p
      BY <1>4, Given
    <3>. QED
      BY <1>4, <2>5, <2>9, <2>10, <2>12, <2>13, <2>15, <3>1, StringReadEscape
  <2>18. Append(v, c) = buf'
    BY <1>3, <2>8, <2>9, <2>11, <2>12, OneIs
  <2>. QED
    BY <1>1, <1>3, <2>3, <2>4, <2>14, <2>16, <2>17, <2>18 DEF Then, Parses
<1>. QED
  BY <1>5, <1>6

LEMMA BadStringParse ==
  ASSUME IInv, NEW line, NEW q, Reads(line, q), Now(line, q), BadString
  PROVE  Then(line, q)
<1>1. pc = "string" /\ (tmp = Len(text) \/ At(text, tmp, Control)) /\ Reject
  BY DEF BadString
<1>2. CASE Stuck(text, tmp) /\ Doomed(line, q)
  BY <1>1, <1>2, RejectParse
<1>3. CASE Walk(text, tmp) /\ \E j, k : /\ StringRead(line, q, tmp, word_start, buf, res, j, k)
                                        /\ Ahead(line, tmp, k)
  <2>1. PICK j, k : StringRead(line, q, tmp, word_start, buf, res, j, k) /\ Ahead(line, tmp, k)
    BY <1>3
  <2>2. /\ j = 2 * Len(res) + 1 /\ Parsed(line, q, res, j, k) /\ q[j] < k /\ Ahead(q, k, j + 1)
    BY <2>1, Given, StringIs
  <2>3. CASE tmp = Len(text) \/ At(text, tmp, {"lf"})
    <3>1. k = Len(line) + 1
      BY <1>3, <2>1, <2>3, Given, ReadEnd
    <3>2. PICK x : x = j + 1
      OBVIOUS
    <3>3. Doomed(line, q)
      BY <2>2, <3>1, <3>2, Given, StringUnclosed
    <3>. QED
      BY <1>1, <3>3, RejectParse
  <2>4. CASE ~(tmp = Len(text) \/ At(text, tmp, {"lf"}))
    <3>1. tmp < Len(text) /\ text[tmp + 1] # "lf" /\ text[tmp + 1] \in Control
      BY <1>1, <2>4, Given DEF At
    <3>2. ~Continues(text, tmp)
      BY <3>1, Given DEF At, Control
    <3>3. k \in 1..Len(line) /\ Byte(line, k) = text[tmp + 1]
      BY <1>3, <2>1, <3>1, <3>2, NextByte
    <3>4. Byte(line, k) \in Control /\ Byte(line, k) # "quote"
      BY <3>1, <3>3 DEF Control
    <3>5. Doomed(line, q)
      BY <2>2, <3>3, <3>4, Given, StringDoomed
    <3>. QED
      BY <1>1, <3>5, RejectParse
  <2>. QED
    BY <2>3, <2>4
<1>. QED
  BY <1>1, <1>2, <1>3, StringNow

(* A string is complete.                                                    *)
LEMMA StringClosed ==
  ASSUME Len(text) \in Nat, backslash \in {"esc", "bs"},
         NEW line, NEW q, Reads(line, q), NEW i, NEW w, NEW b, NEW r, Len(r) \in Nat, NEW j, NEW k,
         StringRead(line, q, i, w, b, r, j, k), k \in 1..Len(line), Byte(line, k) = "quote",
         NEW v, ToSet(v) = Of(b, w, i), Rising(v),
         NEW u, Len(u) = Len(r) + 1, \A x \in 1..Len(r) : u[x] = r[x], u[Len(u)].value = v
  PROVE  GapRead(line, q, "closed", u, j + 1, k + 1)
<1>1. /\ j = 2 * Len(r) + 1 /\ j \in Nat /\ k \in Nat /\ Parsed(line, q, r, j, k)
      /\ IsString(line, q[j], k) /\ Of(b, w, i) = Chars(line, q[j], k) /\ q[j] < k
  BY StringIs
<1>2. /\ j + 1 \in 1..Len(q) /\ q[j + 1] = k
      /\ Ahead(q, k + 1, (j + 1) + 1) /\ Clean(line, k + 1) /\ k + 1 \in 1..Len(line) + 1
  BY SMTT(30), <1>1, ParsedQuote
<1>3. Gaps(line, q, j) /\ StringsRead(line, q, r)
  BY <1>1 DEF Parsed
<1>4. Gaps(line, q, j + 1)
  <2>1. Only(line, 0, q[1], "open")
    BY <1>1, <1>3 DEF Gaps
  <2>2. ASSUME NEW x \in 1..j + 1, 2 * x + 1 <= j + 1
        PROVE  Only(line, q[2 * x], q[2 * x + 1], "comma")
    <3>1. x \in 1..j /\ 2 * x + 1 <= j
      BY <1>1, <2>2
    <3>. QED
      BY <1>3, <3>1 DEF Gaps
  <2>. QED
    BY <2>1, <2>2 DEF Gaps
<1>5. StringsRead(line, q, u)
  <2>1. ASSUME NEW x \in 1..Len(u)
        PROVE  /\ IsString(line, q[2 * x - 1], q[2 * x])
               /\ ToSet(u[x].value) = Chars(line, q[2 * x - 1], q[2 * x])
               /\ Rising(u[x].value)
    <3>1. CASE x \in 1..Len(r)
      <4>1. u[x] = r[x]
        BY <3>1
      <4>. QED
        BY <1>3, <3>1, <4>1 DEF StringsRead
    <3>2. CASE x \notin 1..Len(r)
      <4>1. x = Len(u) /\ 2 * x - 1 = j /\ 2 * x = j + 1
        BY <1>1, <3>2
      <4>. QED
        BY <1>1, <1>2, <4>1
    <3>. QED
      BY <3>1, <3>2
  <2>. QED
    BY <2>1 DEF StringsRead
<1>6. Parsed(line, q, u, j + 1, k + 1)
  <2>1. j + 1 \in 0..Len(q)
    BY <1>2
  <2>. QED
    BY <1>2, <1>4, <1>5, <2>1 DEF Parsed
<1>7. j + 1 = 2 * Len(u) /\ j + 1 > 0
  BY <1>1
<1>8. Around(line, q[j + 1], k + 1) = {}
  BY <1>1, <1>2 DEF Around
<1>. QED
  BY <1>6, <1>7, <1>8 DEF GapRead

LEMMA StringEndsParse ==
  ASSUME IInv, NEW line, NEW q, Reads(line, q), Now(line, q), StringEnds
  PROVE  Then(line, q)
<1>1. /\ pc = "string" /\ At(text, tmp, {"quote"}) /\ tmp' = tmp + 1 /\ pc' = "closed"
      /\ res' = Append(res, [start |-> start, end |-> tmp, value |-> buf \o Raw(word_start, tmp)])
  BY DEF StringEnds
<1>2. /\ tmp < Len(text) /\ text[tmp + 1] = "quote" /\ text[tmp + 1] # "lf" /\ ~Continues(text, tmp)
      /\ text[tmp + 1] \notin Whitespace
  BY <1>1, Given DEF At, Whitespace
<1>3. ~Stuck(text, tmp)
  BY <1>2, Given, StuckAt
<1>4. Walk(text, tmp)
  BY <1>1, <1>3, StringNow
<1>5. PICK j, k : StringRead(line, q, tmp, word_start, buf, res, j, k) /\ Ahead(line, tmp, k)
  BY <1>1, <1>3, StringNow
<1>6. k \in 1..Len(line) /\ Byte(line, k) = "quote" /\ Ahead(line, tmp + 1, k + 1)
  BY <1>2, <1>4, <1>5, NextByte
<1>7. /\ word_start \in Nat /\ word_start <= tmp /\ start \in Nat /\ buf \in Seq(Character)
      /\ Within(buf, start, word_start)
  BY <1>1, Basics, StringFacts
<1>8. PICK v : v = buf \o Raw(word_start, tmp)
  OBVIOUS
<1>9. Rising(v) /\ ToSet(v) = Of(buf, word_start, tmp)
  <2>1. Rising(buf)
    BY <1>5, Given, StringIs
  <2>. QED
    BY <1>7, <1>8, <2>1, Given, RawMore
<1>10. PICK z : z = [start |-> start, end |-> tmp, value |-> v]
  OBVIOUS
<1>11. PICK u : u = Append(res, z)
  OBVIOUS
<1>12. res' = u
  BY <1>1, <1>8, <1>10, <1>11
<1>13. Len(u) = Len(res) + 1 /\ (\A x \in 1..Len(res) : u[x] = res[x]) /\ u[Len(u)] = z
  <2>1. res \in Seq(String)
    BY Basics
  <2>. QED
    BY <1>11, <2>1
<1>14. u[Len(u)].value = v
  BY <1>10, <1>13
<1>15. GapRead(line, q, "closed", u, j + 1, k + 1)
  BY <1>5, <1>6, <1>9, <1>13, <1>14, Given, StringClosed
<1>. QED
  BY <1>1, <1>6, <1>12, <1>15 DEF Then, Parses

-----------------------------------------------------------------------------
(* The steps inside of a hexadecimal escape, e, whose first digits or whose *)
(* second half, f, are read.                                                *)
LEMMA NoPairBefore ==
  ASSUME NEW line, Sound(line), NEW e \in Nat, Clean(line, e), NEW x, x = e - 6
  PROVE  ~Pairs(line, x)
<1>. SUFFICES ASSUME Pairs(line, x)
              PROVE  FALSE
  OBVIOUS
<1>1. IsHex(line, x)
  BY DEF Pairs
<1>2. x \in Nat /\ x \in 1..Len(line)
  BY <1>1 DEF IsHex, Sound
<1>3. x \in Escapes(line)
  BY <1>1, <1>2, EscapesAre DEF Escapes, Sound, IsHex
<1>4. Size(line, x) = 12
  BY DEF Size
<1>5. x < e => x + Size(line, x) <= e
  BY <1>3 DEF Clean
<1>. QED
  BY <1>2, <1>4, <1>5

LEMMA EscapeIs ==
  ASSUME Len(text) \in Nat, backslash \in {"esc", "bs"},
         NEW line, NEW q, Reads(line, q), NEW st, NEW b, NEW r, Len(r) \in Nat, NEW l, NEW h,
         NEW j, NEW e, EscapeRead(line, q, st, b, r, l, h, j, e)
  PROVE  /\ j = 2 * Len(r) + 1 /\ j \in Nat /\ Parsed(line, q, r, j, e)
         /\ q[j] \in Nat /\ q[j] < e /\ IsString(line, q[j], e)
         /\ e \in Nat /\ e \in 1..Len(line) /\ e \in Escapes(line) /\ Clean(line, e)
         /\ Byte(line, e) = backslash /\ ~Escaped(line, e) /\ ~Pairs(line, e - 6)
         /\ e + 1 <= Len(line) /\ Byte(line, e + 1) = "u" /\ line[e + 1] = l
         /\ Sound(line) /\ Len(line) \in Nat
<1>1. /\ j = 2 * Len(r) + 1 /\ Parsed(line, q, r, j, e)
      /\ q[j] < e /\ IsString(line, q[j], e)
      /\ e \in Escapes(line) /\ e + 1 <= Len(line)
      /\ Byte(line, e + 1) = "u" /\ line[e + 1] = l
  BY DEF EscapeRead
<1>2. j \in Nat /\ j > 0
  BY <1>1
<1>3. e \in Nat /\ q[j] \in Nat /\ Clean(line, e) /\ Sound(line) /\ Len(line) \in Nat
  BY <1>1, <1>2, ParsedIs
<1>4. e \in 1..Len(line) /\ Byte(line, e) = backslash /\ ~Escaped(line, e)
  BY <1>1, <1>3, EscapesAre DEF Escapes, Sound
<1>5. ~Pairs(line, e - 6)
  <2>1. PICK x : x = e - 6
    OBVIOUS
  <2>. QED
    BY <1>3, <2>1, NoPairBefore
<1>. QED
  BY <1>1, <1>2, <1>3, <1>4, <1>5

LEMMA EscapeDooms ==
  ASSUME Len(text) \in Nat, backslash \in {"esc", "bs"},
         NEW line, NEW q, Reads(line, q), NEW st, NEW b, NEW r, Len(r) \in Nat, NEW l, NEW h,
         NEW j, NEW e, EscapeRead(line, q, st, b, r, l, h, j, e),
         ~IsHex(line, e) \/ (~Pairs(line, e) /\ Bits(line, e) \in High \cup Low)
  PROVE  Doomed(line, q)
<1>1. /\ j = 2 * Len(r) + 1 /\ Parsed(line, q, r, j, e) /\ q[j] < e
      /\ e \in 1..Len(line) /\ Byte(line, e) = backslash /\ ~Pairs(line, e - 6)
      /\ Byte(line, e + 1) = "u"
  BY EscapeIs
<1>2. ~IsEscape(line, e)
  BY <1>1, DigitsAre DEF IsEscape
<1>3. Byte(line, e) # "quote"
  BY <1>1
<1>. QED
  BY <1>1, <1>2, <1>3, StringDoomed

LEMMA HexDooms ==
  ASSUME Len(text) \in Nat, backslash \in {"esc", "bs"},
         NEW line, NEW q, Reads(line, q), NEW st, NEW b, NEW r, Len(r) \in Nat, NEW l, NEW h,
         NEW j, NEW e, EscapeRead(line, q, st, b, r, l, h, j, e),
         NEW f, h = 0 => f = e, h # 0 => f = e + 6,
         ~IsHex(line, f) \/ (h # 0 /\ Bits(line, f) \notin Low)
  PROVE  Doomed(line, q)
<1>1. CASE h = 0
  BY <1>1, EscapeDooms
<1>2. CASE h # 0
  <2>1. h \in High /\ Bits(line, e) = h
    BY <1>2 DEF EscapeRead
  <2>2. ~Pairs(line, e)
    BY <1>2 DEF Pairs
  <2>. QED
    BY <2>1, <2>2, EscapeDooms
<1>. QED
  BY <1>1, <1>2

(* Two continuations in a row in it.                                        *)
LEMMA TwiceDooms ==
  ASSUME Len(text) \in Nat, NEW line, NEW q, Reads(line, q),
         NEW i, Walk(text, i), NEW p, p = Continuation(text, i), Continues(text, p),
         NEW e \in Escapes(line), NEW k \in Nat, k < Len(line),
         k \in e..e + Size(line, e) - 2,
         NEW m, m = k + 1, Ahead(line, i, m)
  PROVE  Doomed(line, q)
<1>1. Continues(text, i)
  BY DEF Continues
<1>. QED
  BY <1>1, Broken

LEMMA StringHexEscapeParse ==
  ASSUME IInv, NEW line, NEW q, Reads(line, q), Now(line, q), StringHexEscape
  PROVE  Then(line, q)
<1>1. Escape /\ pc' = "hex" /\ UNCHANGED <<res, start>> /\ digits' = 0 /\ n' = 0 /\ high' = 0
  BY DEF StringHexEscape, Escape
<1>2. PICK j, k, p :
           /\ StringRead(line, q, tmp, word_start, buf, res, j, k)
           /\ k \in Escapes(line) /\ k \in 1..Len(line) /\ line[k] = tmp
           /\ p = Once(tmp + 1) /\ p \in tmp + 1..Len(text) /\ Walk(text, p)
           /\ Ahead(line, p, k + 1) /\ Ahead(q, k + 1, j + 1)
           /\ Continues(text, p) => Doomed(line, q)
  BY <1>1, EscapeNow
<1>3. /\ At(text, p, {"u"}) /\ tmp' = p + 1 /\ letter' = p
      /\ buf' = buf \o Raw(word_start, tmp)
  BY <1>2 DEF StringHexEscape
<1>4. p \in Nat /\ p < Len(text) /\ text[p + 1] = "u" /\ tmp < p /\ tmp <= p
  BY <1>2, <1>3, Given DEF At
<1>5. ~Continues(text, p) /\ text[p + 1] # "lf"
  <2>1. ~At(text, p, {"esc"}) /\ p \in 0..Len(text)
    BY <1>2, <1>4, Given DEF At
  <2>. QED
    BY <1>4, <2>1, Given, ContinuationAdvances
<1>6. PICK m : m = k + 1
  OBVIOUS
<1>7. m \in 1..Len(line) /\ line[m] = p /\ Byte(line, m) = "u" /\ Ahead(line, p + 1, m + 1)
  BY <1>2, <1>4, <1>5, <1>6, Given, ReadByte
<1>8. /\ j = 2 * Len(res) + 1 /\ k \in Nat /\ Parsed(line, q, res, j, k) /\ q[j] < k
      /\ IsString(line, q[j], k) /\ Of(buf, word_start, tmp) = Chars(line, q[j], k) /\ Rising(buf)
      /\ Len(line) \in Nat
  <2>1. StringRead(line, q, tmp, word_start, buf, res, j, k) /\ Len(res) \in Nat
    BY <1>2, Given
  <2>. QED
    BY <2>1, Given, StringIs
<1>9. /\ word_start \in Nat /\ word_start <= tmp /\ start \in Nat /\ start <= word_start
      /\ buf \in Seq(Character) /\ Within(buf, start, word_start)
  BY <1>1, Basics, StringFacts DEF Escape
<1>10. PICK v : v = buf \o Raw(word_start, tmp)
  OBVIOUS
<1>11. v \in Seq(Character) /\ Within(v, start, tmp)
  BY <1>9, <1>10, Given, WithinMore
<1>12. Within(v, start, p)
  BY <1>4, <1>9, <1>11, Given, WithinGrows
<1>13. Rising(v) /\ ToSet(v) = Chars(line, q[j], k)
  BY <1>8, <1>9, <1>10, Given, RawMore
<1>14. EscapeRead(line, q, start, v, res, p, 0, j, k)
  <2>1. k + 1 <= Len(line) /\ Byte(line, k + 1) = "u" /\ line[k + 1] = p
    BY <1>6, <1>7, <1>8
  <2>. QED
    BY <1>2, <1>8, <1>12, <1>13, <2>1 DEF EscapeRead
<1>15. k + 1 <= Len(line) /\ Byte(line, k + 1) = "u" /\ Ahead(line, p + 1, k + 2 + 0)
  <2>1. m + 1 = k + 2 + 0
    BY <1>6, <1>8
  <2>. QED
    BY <1>6, <1>7, <1>8, <2>1
<1>16. DigitsRead(line, k, 0, 0)
  BY DEF DigitsRead
<1>17. /\ EscapeRead(line, q, start', buf', res', letter', high', j, k)
       /\ k = IF high' = 0 THEN k ELSE k + 6
       /\ Ahead(line, tmp', k + 2 + digits') /\ DigitsRead(line, k, digits', n')
  BY <1>1, <1>3, <1>10, <1>14, <1>15, <1>16
<1>. QED
  BY <1>1, <1>2, <1>15, <1>17 DEF Then, Parses

(* The digits read so far, and one more.                                    *)
LEMMA DigitsMore ==
  ASSUME NEW line, NEW f \in Nat, NEW d \in 0..3, NEW v, DigitsRead(line, f, d, v),
         NEW m, m = f + 2 + d, Byte(line, m) \in Digit, NEW w, w = v * 16 + DigitValue(Byte(line, m))
  PROVE  /\ d < 3 => DigitsRead(line, f, d + 1, w)
         /\ d = 3 => (\A x \in f + 2..f + 5 : Byte(line, x) \in Digit) /\ w = Bits(line, f)
<1>1. \A x \in 1..d : Byte(line, f + 1 + x) \in Digit
  BY DEF DigitsRead
<1>2. m = f + 1 + (d + 1)
  OBVIOUS
<1>3. \A x \in 1..d + 1 : Byte(line, f + 1 + x) \in Digit
  <2>1. \A x \in 1..d + 1 : x \in 1..d \/ x = d + 1
    OBVIOUS
  <2>. QED
    BY <1>1, <1>2, <2>1
<1>4. \A x \in 1..d + 1 : Value(line, f, x) \in 0..15
  BY <1>3, DigitIs DEF Value
<1>5. w = v * 16 + Value(line, f, d + 1)
  BY <1>2 DEF Value
<1>6. /\ d = 0 => v = 0
      /\ d = 1 => v = Value(line, f, 1)
      /\ d = 2 => v = Value(line, f, 1) * 16 + Value(line, f, 2)
      /\ d = 3 => v = Value(line, f, 1) * 256 + Value(line, f, 2) * 16 + Value(line, f, 3)
  BY DEF DigitsRead
<1>7. CASE d = 0
  <2>1. w = Value(line, f, 1)
    BY <1>4, <1>5, <1>6, <1>7
  <2>. QED
    BY <1>3, <1>7, <2>1 DEF DigitsRead
<1>8. CASE d = 1
  <2>1. w = Value(line, f, 1) * 16 + Value(line, f, 2)
    BY <1>4, <1>5, <1>6, <1>8
  <2>. QED
    BY <1>3, <1>8, <2>1 DEF DigitsRead
<1>9. CASE d = 2
  <2>1. Value(line, f, 1) \in Nat /\ Value(line, f, 2) \in Nat /\ Value(line, f, 3) \in Nat
    BY <1>4, <1>9
  <2>2. w = Value(line, f, 1) * 256 + Value(line, f, 2) * 16 + Value(line, f, 3)
    BY <1>5, <1>6, <1>9, <2>1
  <2>. QED
    BY <1>3, <1>9, <2>2 DEF DigitsRead
<1>10. CASE d = 3
  <2>1. \A x \in f + 2..f + 5 : x - (f + 1) \in 1..d + 1 /\ x = f + 1 + (x - (f + 1))
    BY <1>10
  <2>2. \A x \in f + 2..f + 5 : Byte(line, x) \in Digit
    BY <1>3, <2>1
  <2>3. /\ Value(line, f, 1) \in Nat /\ Value(line, f, 2) \in Nat
        /\ Value(line, f, 3) \in Nat /\ Value(line, f, 4) \in Nat
    BY <1>4, <1>10
  <2>4. w = Value(line, f, 1) * 4096 + Value(line, f, 2) * 256 + Value(line, f, 3) * 16 + Value(line, f, 4)
    BY <1>5, <1>6, <1>10, <2>3
  <2>5. f + 1 + 1 = f + 2 /\ f + 1 + 2 = f + 3 /\ f + 1 + 3 = f + 4 /\ f + 1 + 4 = f + 5
    OBVIOUS
  <2>6. /\ Value(line, f, 1) = DigitValue(Byte(line, f + 2))
        /\ Value(line, f, 2) = DigitValue(Byte(line, f + 3))
        /\ Value(line, f, 3) = DigitValue(Byte(line, f + 4))
        /\ Value(line, f, 4) = DigitValue(Byte(line, f + 5))
    BY <2>5 DEF Value
  <2>7. w = Bits(line, f)
    BY <2>4, <2>6 DEF Bits
  <2>. QED
    BY <1>10, <2>2, <2>7
<1>. QED
  BY <1>7, <1>8, <1>9, <1>10

(* The half that is being read: the first one, or the second.               *)
Half(h, e, f) == (h = 0 => f = e) /\ (h # 0 => f = e + 6)

HexRead(line, q, st, b, r, l, h, i, d, v, j, e, f) ==
  /\ EscapeRead(line, q, st, b, r, l, h, j, e)
  /\ Half(h, e, f)
  /\ f \in Escapes(line) /\ f + 1 <= Len(line) /\ Byte(line, f + 1) = "u"
  /\ Ahead(line, i, f + 2 + d) /\ DigitsRead(line, f, d, v)

LEMMA HexNow ==
  ASSUME IInv, NEW line, NEW q, Reads(line, q), Now(line, q), pc = "hex"
  PROVE  /\ Walk(text, tmp) /\ digits \in 0..3
         /\ \E j, e, f :
              HexRead(line, q, start, buf, res, letter, high, tmp, digits, n, j, e, f)
<1>1. Walk(text, tmp) /\ digits \in 0..3
  BY DEF IInv, WalkInv, HexInv
<1>2. PICK j, e, f :
         /\ EscapeRead(line, q, start, buf, res, letter, high, j, e)
         /\ f = IF high = 0 THEN e ELSE e + 6
         /\ f \in Escapes(line) /\ f + 1 <= Len(line) /\ Byte(line, f + 1) = "u"
         /\ Ahead(line, tmp, f + 2 + digits) /\ DigitsRead(line, f, digits, n)
  BY DEF Now, Parses
<1>. QED
  BY <1>1, <1>2 DEF HexRead, Half

LEMMA HalfIs ==
  ASSUME Len(text) \in Nat, backslash \in {"esc", "bs"},
         NEW line, NEW q, Reads(line, q), NEW st, NEW b, NEW r, Len(r) \in Nat, NEW l, NEW h,
         NEW i, NEW d, NEW v, NEW j, NEW e, NEW f,
         HexRead(line, q, st, b, r, l, h, i, d, v, j, e, f)
  PROVE  /\ e \in Nat /\ f \in Nat /\ f \in 1..Len(line) /\ f \in Escapes(line) /\ f + 1 <= Len(line)
         /\ Byte(line, f) = backslash /\ ~Escaped(line, f) /\ Byte(line, f + 1) = "u"
         /\ Sound(line) /\ Len(line) \in Nat
<1>1. e \in Nat /\ Sound(line) /\ Len(line) \in Nat
  BY EscapeIs DEF HexRead
<1>2. f \in Escapes(line) /\ f + 1 <= Len(line) /\ Byte(line, f + 1) = "u" /\ (f = e \/ f = e + 6)
  BY DEF HexRead, Half
<1>3. f \in 1..Len(line) /\ Byte(line, f) = backslash /\ ~Escaped(line, f)
  BY <1>1, <1>2, EscapesAre DEF Escapes, Sound
<1>. QED
  BY <1>1, <1>2, <1>3

(* A digit of it.                                                           *)
LEMMA DigitNow ==
  ASSUME IInv, NEW line, NEW q, Reads(line, q), Now(line, q), AtDigit
  PROVE  \E j, e, f :
           /\ HexRead(line, q, start, buf, res, letter, high, tmp, digits, n, j, e, f)
           /\ f + 2 + digits \in 1..Len(line) /\ Ahead(line, Once(tmp) + 1, f + 3 + digits)
           /\ digits < 3 => DigitsRead(line, f, digits + 1, Bits16)
           /\ digits = 3 => IsHex(line, f) /\ Bits16 = Bits(line, f)
<1>1. pc = "hex"
  BY DEF AtDigit
<1>2. Walk(text, tmp) /\ digits \in 0..3
  BY <1>1, HexNow
<1>3. PICK j, e, f : HexRead(line, q, start, buf, res, letter, high, tmp, digits, n, j, e, f)
  BY <1>1, HexNow
<1>4. /\ f \in Nat /\ f \in 1..Len(line) /\ Len(line) \in Nat
      /\ Byte(line, f) = backslash /\ ~Escaped(line, f) /\ Byte(line, f + 1) = "u"
  BY <1>3, Given, HalfIs
<1>5. PICK p : p = Once(tmp)
  OBVIOUS
<1>6. Walk(text, p) /\ p \in 0..Len(text) /\ p \in Nat
  BY <1>2, <1>5, Given, WalkOnce DEF Once
<1>7. p < Len(text) /\ text[p + 1] \in Digit
  BY <1>5 DEF AtDigit, At
<1>8. ~Continues(text, p) /\ text[p + 1] # "lf"
  <2>1. text[p + 1] # "lf" /\ ~At(text, p, {"esc"})
    BY <1>7, Given, DigitsAre DEF At
  <2>. QED
    BY <1>6, <2>1, Given, ContinuationAdvances
<1>9. PICK m : m = f + 2 + digits
  OBVIOUS
<1>10. Ahead(line, p, m)
  BY <1>2, <1>3, <1>5, <1>9, Given, ReadOver DEF HexRead, Once
<1>11. m \in 1..Len(line) /\ Byte(line, m) = text[p + 1] /\ Ahead(line, p + 1, m + 1)
  BY <1>6, <1>7, <1>8, <1>10, Given, ReadByte
<1>12. PICK w : w = Bits16
  OBVIOUS
<1>13. w = n * 16 + DigitValue(Byte(line, m))
  BY <1>5, <1>11, <1>12, DigitWalks
<1>14. /\ digits < 3 => DigitsRead(line, f, digits + 1, w)
       /\ digits = 3 => (\A x \in f + 2..f + 5 : Byte(line, x) \in Digit) /\ w = Bits(line, f)
  <2>1. DigitsRead(line, f, digits, n) /\ Byte(line, m) \in Digit
    BY <1>3, <1>7, <1>11 DEF HexRead
  <2>. QED
    BY <1>2, <1>4, <1>9, <1>13, <2>1, DigitsMore
<1>15. digits = 3 => IsHex(line, f)
  <2>1. digits = 3 => f \in 1..Len(line) - 5
    BY <1>2, <1>4, <1>9, <1>11
  <2>. QED
    BY <1>4, <1>14, <2>1 DEF IsHex
<1>16. m + 1 = f + 3 + digits
  BY <1>2, <1>4, <1>9
<1>. QED
  BY <1>3, <1>5, <1>9, <1>11, <1>12, <1>14, <1>15, <1>16

LEMMA HexDigitParse ==
  ASSUME IInv, NEW line, NEW q, Reads(line, q), Now(line, q), HexDigit
  PROVE  Then(line, q)
<1>1. /\ AtDigit /\ digits < 3 /\ digits' = digits + 1 /\ n' = Bits16 /\ tmp' = Once(tmp) + 1
      /\ UNCHANGED <<pc, start, buf, res, letter, high>>
  BY DEF HexDigit
<1>2. pc' = "hex" /\ digits \in 0..3
  BY <1>1 DEF AtDigit, IInv, HexInv
<1>3. PICK j, e, f :
         /\ HexRead(line, q, start, buf, res, letter, high, tmp, digits, n, j, e, f)
         /\ Ahead(line, Once(tmp) + 1, f + 3 + digits)
         /\ DigitsRead(line, f, digits + 1, Bits16)
  BY <1>1, DigitNow
<1>4. /\ EscapeRead(line, q, start, buf, res, letter, high, j, e)
      /\ Half(high, e, f)
      /\ f \in Escapes(line) /\ f + 1 <= Len(line) /\ Byte(line, f + 1) = "u"
  BY <1>3 DEF HexRead
<1>5. f = IF high = 0 THEN e ELSE e + 6
  BY <1>4 DEF Half
<1>6. f + 3 + digits = f + 2 + (digits + 1)
  BY SMTT(30), <1>2, <1>3, Given, HalfIs
<1>7. Ahead(line, tmp', f + 2 + digits') /\ DigitsRead(line, f, digits', n')
  BY <1>1, <1>3, <1>6
<1>. QED
  BY <1>1, <1>2, <1>4, <1>5, <1>7 DEF Then, Parses

(* The escape is complete.                                                  *)
LEMMA EscapeComplete ==
  ASSUME IInv, NEW line, NEW q, Reads(line, q), pc = "hex", NEW j, NEW e,
         EscapeRead(line, q, start, buf, res, letter, high, j, e),
         IsHex(line, e), IsEscape(line, e), NEW m, m = e + Size(line, e), m <= Len(line) + 1,
         NEW code \in Scalar, CodePoint(line, e) = code, NEW p \in Nat
  PROVE  StringRead(line, q, p, p, Append(buf, <<letter, code>>), res, j, m)
<1>1. /\ j = 2 * Len(res) + 1 /\ Parsed(line, q, res, j, e) /\ q[j] < e /\ IsString(line, q[j], e)
      /\ e \in Escapes(line) /\ line[e + 1] = letter
      /\ ToSet(buf) = Chars(line, q[j], e) /\ Rising(buf) /\ Within(buf, start, letter)
  BY DEF EscapeRead
<1>2. PICK c : c = <<letter, code>>
  OBVIOUS
<1>3. c \in Character /\ c[1] = letter
  BY <1>2, Basics DEF Character
<1>4. CharAt(line, e) = c
  BY <1>1, <1>2 DEF CharAt, Escapes
<1>5. /\ Parsed(line, q, res, j, m) /\ q[j] < m /\ IsString(line, q[j], m)
      /\ Chars(line, q[j], m) = Chars(line, q[j], e) \cup {CharAt(line, e)}
  <2>1. Len(res) \in Nat /\ Len(text) \in Nat /\ backslash \in {"esc", "bs"}
    BY Given
  <2>. QED
    BY <1>1, <2>1, EscapeOver
<1>6. letter \in Nat /\ letter <= letter /\ buf \in Seq(Character) /\ start \in Nat
  BY Basics
<1>7. StringRead(line, q, p, p, Append(buf, c), res, j, m)
  BY <1>1, <1>3, <1>4, <1>5, <1>6, StringReadEscape
<1>. QED
  BY <1>2, <1>7

LEMMA EscapedParse ==
  ASSUME IInv, NEW line, NEW q, Reads(line, q), AtDigit, NEW j, NEW e,
         EscapeRead(line, q, start, buf, res, letter, high, j, e),
         IsHex(line, e), IsEscape(line, e), NEW m, m = e + Size(line, e), m <= Len(line) + 1,
         Ahead(line, Once(tmp) + 1, m),
         NEW code \in Scalar, CodePoint(line, e) = code, Escaped16(code)
  PROVE  Then(line, q)
<1>1. /\ buf' = Append(buf, <<letter, code>>) /\ tmp' = Once(tmp) + 1 /\ word_start' = Once(tmp) + 1
      /\ pc' = "string" /\ UNCHANGED res
  BY DEF Escaped16
<1>2. pc = "hex"
  BY DEF AtDigit
<1>3. PICK p : p = Once(tmp) + 1
  OBVIOUS
<1>4. Walk(text, p) /\ p \in Nat
  BY <1>3, DigitWalks
<1>5. StringRead(line, q, p, p, Append(buf, <<letter, code>>), res, j, m)
  BY <1>2, <1>4, EscapeComplete
<1>6. /\ StringRead(line, q, tmp', word_start', buf', res', j, m) /\ Ahead(line, tmp', m)
      /\ Walk(text, tmp')
  BY <1>1, <1>3, <1>4, <1>5
<1>. QED
  BY <1>1, <1>6 DEF Then, Parses

LEMMA CodeUnitParse ==
  ASSUME IInv, NEW line, NEW q, Reads(line, q), Now(line, q), CodeUnit
  PROVE  Then(line, q)
<1>1. AtDigit /\ digits = 3 /\ high = 0 /\ Bits16 \notin High \cup Low /\ Escaped16(Bits16)
  BY DEF CodeUnit
<1>2. PICK j, e, f :
         /\ HexRead(line, q, start, buf, res, letter, high, tmp, digits, n, j, e, f)
         /\ f + 2 + digits \in 1..Len(line) /\ Ahead(line, Once(tmp) + 1, f + 3 + digits)
         /\ IsHex(line, f) /\ Bits16 = Bits(line, f)
  BY <1>1, DigitNow
<1>3. f = e /\ EscapeRead(line, q, start, buf, res, letter, high, j, e) /\ e \in Nat /\ Len(line) \in Nat
  <2>1. e \in Nat /\ Len(line) \in Nat
    BY <1>2, Given, HalfIs
  <2>. QED
    BY <1>1, <1>2, <2>1 DEF HexRead, Half
<1>4. ~Pairs(line, e) /\ IsHex(line, e) /\ IsEscape(line, e) /\ CodePoint(line, e) = Bits16
  BY <1>1, <1>2, <1>3 DEF Pairs, IsEscape, CodePoint
<1>5. Size(line, e) = 6
  BY <1>4, SizeIs
<1>6. PICK m : m = e + 6
  OBVIOUS
<1>7. m = e + Size(line, e) /\ m <= Len(line) + 1 /\ f + 3 + digits = m
  BY <1>1, <1>2, <1>3, <1>5, <1>6
<1>8. PICK code : code = Bits16
  OBVIOUS
<1>9. code \in Scalar
  <2>1. code \in Nat /\ code < 65536
    BY <1>1, <1>8, DigitWalks
  <2>2. code < 55296 \/ 57343 < code
    BY <1>1, <1>8, <2>1, NoSurrogate
  <2>. QED
    BY <2>1, <2>2 DEF Scalar
<1>10. Ahead(line, Once(tmp) + 1, m) /\ Escaped16(code) /\ CodePoint(line, e) = code
  BY <1>1, <1>2, <1>4, <1>7, <1>8
<1>. QED
  BY <1>1, <1>3, <1>4, <1>7, <1>9, <1>10, EscapedParse

LEMMA HighSurrogateParse ==
  ASSUME IInv, NEW line, NEW q, Reads(line, q), Now(line, q), HighSurrogate
  PROVE  Then(line, q)
<1>1. /\ AtDigit /\ digits = 3 /\ high = 0 /\ Bits16 \in High /\ high' = Bits16
      /\ tmp' = Once(tmp) + 1 /\ pc' = "backslash" /\ UNCHANGED <<start, buf, res, letter>>
  BY DEF HighSurrogate
<1>2. PICK j, e, f :
         /\ HexRead(line, q, start, buf, res, letter, high, tmp, digits, n, j, e, f)
         /\ f + 2 + digits \in 1..Len(line) /\ Ahead(line, Once(tmp) + 1, f + 3 + digits)
         /\ IsHex(line, f) /\ Bits16 = Bits(line, f)
  BY <1>1, DigitNow
<1>3. f = e /\ EscapeRead(line, q, start, buf, res, letter, high, j, e) /\ e \in Nat
  <2>1. e \in Nat
    BY <1>2, Given, HalfIs
  <2>. QED
    BY <1>1, <1>2, <2>1 DEF HexRead, Half
<1>4. PICK h : h = Bits16
  OBVIOUS
<1>5. h \in High /\ h # 0 /\ IsHex(line, e) /\ Bits(line, e) = h
  BY <1>1, <1>2, <1>3, <1>4, SurrogateIs
<1>6. EscapeRead(line, q, start, buf, res, letter, h, j, e)
  BY <1>3, <1>5 DEF EscapeRead
<1>7. f + 3 + digits = e + 6
  BY <1>1, <1>3
<1>8. /\ EscapeRead(line, q, start', buf', res', letter', high', j, e) /\ high' # 0
      /\ Ahead(line, tmp', e + 6)
  BY <1>1, <1>2, <1>4, <1>5, <1>6, <1>7
<1>. QED
  BY <1>1, <1>8 DEF Then, Parses

LEMMA LowSurrogateParse ==
  ASSUME IInv, NEW line, NEW q, Reads(line, q), Now(line, q), LowSurrogate
  PROVE  Then(line, q)
<1>1. /\ AtDigit /\ digits = 3 /\ high # 0 /\ Bits16 \in Low
      /\ Escaped16(((high - 55296) * 1024 + (Bits16 - 56320)) + 65536)
  BY DEF LowSurrogate
<1>2. PICK j, e, f :
         /\ HexRead(line, q, start, buf, res, letter, high, tmp, digits, n, j, e, f)
         /\ f + 2 + digits \in 1..Len(line) /\ Ahead(line, Once(tmp) + 1, f + 3 + digits)
         /\ IsHex(line, f) /\ Bits16 = Bits(line, f)
  BY <1>1, DigitNow
<1>3. f = e + 6 /\ EscapeRead(line, q, start, buf, res, letter, high, j, e) /\ e \in Nat /\ Len(line) \in Nat
  <2>1. e \in Nat /\ Len(line) \in Nat
    BY <1>2, Given, HalfIs
  <2>. QED
    BY <1>1, <1>2, <2>1 DEF HexRead, Half
<1>4. high \in High /\ IsHex(line, e) /\ Bits(line, e) = high
  BY <1>1, <1>3 DEF EscapeRead
<1>5. Pairs(line, e)
  BY <1>1, <1>2, <1>3, <1>4 DEF Pairs
<1>6. IsEscape(line, e) /\ Size(line, e) = 12
  BY <1>4, <1>5, SizeIs DEF IsEscape
<1>7. PICK m : m = e + 12
  OBVIOUS
<1>8. m = e + Size(line, e) /\ m <= Len(line) + 1 /\ f + 3 + digits = m
  BY <1>1, <1>2, <1>3, <1>6, <1>7
<1>9. PICK low : low = Bits16
  OBVIOUS
<1>10. PICK code : code = ((high - 55296) * 1024 + (low - 56320)) + 65536
  OBVIOUS
<1>11. code \in Scalar
  BY <1>1, <1>4, <1>9, <1>10, PairIsScalar
<1>12. CodePoint(line, e) = code
  <2>1. CodePoint(line, e) = 65536 + (high % 1024) * 1024 + (low % 1024)
    BY <1>2, <1>3, <1>4, <1>5, <1>9 DEF CodePoint
  <2>2. high % 1024 = high - 55296
    BY <1>4 DEF High
  <2>3. low % 1024 = low - 56320
    BY <1>1, <1>9 DEF Low
  <2>. QED
    BY <1>1, <1>4, <1>9, <1>10, <2>1, <2>2, <2>3 DEF High, Low
<1>13. Ahead(line, Once(tmp) + 1, m) /\ Escaped16(code)
  BY <1>1, <1>2, <1>8, <1>9, <1>10
<1>. QED
  BY <1>1, <1>3, <1>4, <1>6, <1>8, <1>11, <1>12, <1>13, EscapedParse

LEMMA LoneSurrogateParse ==
  ASSUME IInv, NEW line, NEW q, Reads(line, q), Now(line, q), LoneSurrogate
  PROVE  Then(line, q)
<1>1. /\ AtDigit /\ digits = 3 /\ Reject
      /\ high = 0 => Bits16 \in Low
      /\ high # 0 => Bits16 \notin Low
  BY DEF LoneSurrogate
<1>2. PICK j, e, f :
         /\ HexRead(line, q, start, buf, res, letter, high, tmp, digits, n, j, e, f)
         /\ IsHex(line, f) /\ Bits16 = Bits(line, f)
  BY <1>1, DigitNow
<1>3. EscapeRead(line, q, start, buf, res, letter, high, j, e) /\ Half(high, e, f)
  BY <1>2 DEF HexRead
<1>4. Doomed(line, q)
  <2>1. CASE high = 0
    <3>1. Bits(line, e) \in Low
      BY <1>1, <1>2, <1>3, <2>1 DEF Half
    <3>2. Bits(line, e) \notin High
      <4>1. PICK x : x = Bits(line, e)
        OBVIOUS
      <4>. QED
        BY <3>1, <4>1, SurrogateIs
    <3>3. ~Pairs(line, e)
      BY <3>2 DEF Pairs
    <3>. QED
      BY <1>3, <3>1, <3>3, Given, EscapeDooms
  <2>2. CASE high # 0
    <3>1. Bits(line, f) \notin Low
      BY <1>1, <1>2, <2>2
    <3>. QED
      BY <1>3, <2>2, <3>1, Given, HexDooms DEF Half
  <2>. QED
    BY <2>1, <2>2
<1>. QED
  BY <1>1, <1>4, RejectParse

(* Between the two surrogates.                                              *)
LEMMA BackslashNow ==
  ASSUME IInv, NEW line, NEW q, Reads(line, q), Now(line, q), pc = "backslash"
  PROVE  Walk(text, tmp) /\ \E j, e : /\ EscapeRead(line, q, start, buf, res, letter, high, j, e)
                                      /\ high # 0 /\ Ahead(line, tmp, e + 6)
BY DEF IInv, WalkInv, Now, Parses

LEMMA UNow ==
  ASSUME IInv, NEW line, NEW q, Reads(line, q), Now(line, q), pc = "u"
  PROVE  \/ Walk(text, tmp) /\ \E j, e : /\ EscapeRead(line, q, start, buf, res, letter, high, j, e)
                                         /\ high # 0 /\ e + 6 \in Escapes(line)
                                         /\ Ahead(line, tmp, e + 7)
         \/ Stuck(text, tmp) /\ Doomed(line, q)
BY DEF Now, Parses

LEMMA FirstHalf ==
  ASSUME Len(text) \in Nat, backslash \in {"esc", "bs"},
         NEW line, NEW q, Reads(line, q), NEW st, NEW b, NEW r, Len(r) \in Nat, NEW l, NEW h, h # 0,
         NEW j, NEW e, EscapeRead(line, q, st, b, r, l, h, j, e)
  PROVE  /\ e \in Nat /\ e \in Escapes(line) /\ IsHex(line, e) /\ e + 5 <= Len(line)
         /\ Len(line) \in Nat /\ Sound(line)
         /\ ~IsHex(line, e + 6) => Doomed(line, q)
<1>1. e \in Nat /\ e \in Escapes(line) /\ Sound(line) /\ Len(line) \in Nat
  BY EscapeIs
<1>2. IsHex(line, e)
  BY DEF EscapeRead
<1>3. e + 5 <= Len(line)
  BY <1>1, <1>2, HexIs
<1>4. PICK f : f = e + 6
  OBVIOUS
<1>5. ~IsHex(line, f) => Doomed(line, q)
  BY <1>4, HexDooms
<1>. QED
  BY <1>1, <1>2, <1>3, <1>4, <1>5

(* Two continuations in a row before the second backslash.                  *)
LEMMA BackslashTwice ==
  ASSUME IInv, NEW line, NEW q, Reads(line, q), Walk(text, tmp), NEW j, NEW e,
         EscapeRead(line, q, start, buf, res, letter, high, j, e), high # 0,
         Ahead(line, tmp, e + 6), NEW p, p = Continuation(text, tmp), Continues(text, p)
  PROVE  Doomed(line, q)
<1>1. /\ e \in Nat /\ e \in Escapes(line) /\ IsHex(line, e) /\ e + 5 <= Len(line)
      /\ Len(line) \in Nat
      /\ ~IsHex(line, e + 6) => Doomed(line, q)
  BY Given, FirstHalf
<1>2. CASE e + 5 < Len(line) /\ Pairs(line, e)
  <2>1. PICK k, m : k = e + 5 /\ m = k + 1
    OBVIOUS
  <2>2. k \in Nat /\ k < Len(line) /\ k \in e..e + Size(line, e) - 2 /\ m = e + 6
    BY <1>1, <1>2, <2>1, SizeIs
  <2>3. Ahead(line, tmp, m)
    BY <2>2
  <2>. QED
    BY <1>1, <2>1, <2>2, <2>3, Given, TwiceDooms
<1>3. CASE ~(e + 5 < Len(line))
  <2>1. ~IsHex(line, e + 6)
    BY <1>1, <1>3 DEF IsHex
  <2>. QED
    BY <1>1, <2>1
<1>4. CASE ~Pairs(line, e)
  <2>1. Bits(line, e) \in High
    BY DEF EscapeRead
  <2>. QED
    BY <1>4, <2>1, Given, EscapeDooms
<1>. QED
  BY <1>2, <1>3, <1>4

LEMMA LowBackslashParse ==
  ASSUME IInv, NEW line, NEW q, Reads(line, q), Now(line, q), LowBackslash
  PROVE  Then(line, q)
<1>1. /\ pc = "backslash" /\ At(text, Once(tmp), {backslash}) /\ tmp' = Once(tmp) + 1 /\ pc' = "u"
      /\ UNCHANGED <<start, buf, res, letter, high>>
  BY DEF LowBackslash, escape
<1>2. Walk(text, tmp)
  BY <1>1, BackslashNow
<1>3. PICK j, e : /\ EscapeRead(line, q, start, buf, res, letter, high, j, e)
                  /\ high # 0 /\ Ahead(line, tmp, e + 6)
  BY <1>1, BackslashNow
<1>4. PICK p : p = Once(tmp)
  OBVIOUS
<1>5. Walk(text, p) /\ p \in 0..Len(text) /\ p = Continuation(text, tmp)
  BY <1>2, <1>4, Given, WalkOnce DEF Once
<1>6. p < Len(text) /\ text[p + 1] = backslash /\ text[p + 1] # "lf"
  BY <1>1, <1>4, Given DEF At
<1>7. CASE Continues(text, p)
  <2>1. Stuck(text, p + 1)
    BY <1>5, <1>7, Given, ContinuesStuck
  <2>2. Doomed(line, q)
    BY <1>2, <1>3, <1>5, <1>7, BackslashTwice
  <2>. QED
    BY <1>1, <1>4, <2>1, <2>2 DEF Then, Parses
<1>8. CASE ~Continues(text, p)
  <2>1. e \in Nat /\ e \in Escapes(line) /\ IsHex(line, e) /\ Len(line) \in Nat /\ Sound(line)
    BY <1>3, Given, FirstHalf
  <2>2. PICK m : m = e + 6
    OBVIOUS
  <2>3. Ahead(line, p, m)
    BY <1>2, <1>3, <1>5, <2>2, Given, ReadOver
  <2>4. m \in 1..Len(line) /\ Byte(line, m) = backslash /\ Ahead(line, p + 1, m + 1)
    BY <1>5, <1>6, <1>8, <2>3, Given, ReadByte
  <2>5. m \in Escapes(line)
    <3>1. ~Escaped(line, e + 6)
      BY <2>1, Given, HexInner
    <3>. QED
      BY <2>1, <2>2, <2>4, <3>1, EscapesAre DEF Escapes, Sound
  <2>6. Walk(text, p + 1)
    BY <1>5, <1>6, <1>8, Given, WalkByte
  <2>7. m + 1 = e + 7
    BY <2>1, <2>2
  <2>8. /\ Walk(text, tmp') /\ EscapeRead(line, q, start', buf', res', letter', high', j, e)
        /\ high' # 0 /\ e + 6 \in Escapes(line) /\ Ahead(line, tmp', e + 7)
    BY <1>1, <1>3, <1>4, <2>2, <2>4, <2>5, <2>6, <2>7
  <2>. QED
    BY <1>1, <2>8 DEF Then, Parses
<1>. QED
  BY <1>7, <1>8

LEMMA LowUParse ==
  ASSUME IInv, NEW line, NEW q, Reads(line, q), Now(line, q), LowU
  PROVE  Then(line, q)
<1>1. /\ pc = "u" /\ At(text, Once(tmp), {"u"}) /\ tmp' = Once(tmp) + 1 /\ pc' = "hex"
      /\ digits' = 0 /\ n' = 0 /\ UNCHANGED <<start, buf, res, letter, high>>
  BY DEF LowU
<1>2. PICK p : p = Once(tmp)
  OBVIOUS
<1>3. p < Len(text) /\ text[p + 1] = "u" /\ text[p + 1] # "lf"
  BY <1>1, <1>2 DEF At
<1>4. ~Stuck(text, tmp)
  <2>. SUFFICES ASSUME Stuck(text, tmp)
                PROVE  FALSE
    OBVIOUS
  <2>1. tmp < Len(text) /\ text[tmp + 1] \in Whitespace \cup {"lf"}
    BY Given, StuckAt
  <2>2. ~At(text, tmp, {"esc"})
    BY <2>1 DEF At, Whitespace
  <2>3. p = tmp
    BY <1>2, <2>2, Given DEF Once, Continues
  <2>. QED
    BY <1>3, <2>1, <2>3 DEF Whitespace
<1>5. Walk(text, tmp)
  BY <1>1, <1>4, UNow
<1>6. PICK j, e : /\ EscapeRead(line, q, start, buf, res, letter, high, j, e)
                  /\ high # 0 /\ e + 6 \in Escapes(line) /\ Ahead(line, tmp, e + 7)
  BY <1>1, <1>4, UNow
<1>7. Walk(text, p) /\ p \in 0..Len(text) /\ p = Continuation(text, tmp)
  BY <1>2, <1>5, Given, WalkOnce DEF Once
<1>8. ~Continues(text, p)
  <2>1. ~At(text, p, {"esc"})
    BY <1>3 DEF At
  <2>. QED
    BY <1>7, <2>1, Given, ContinuationAdvances
<1>9. e \in Nat /\ Len(line) \in Nat
  BY <1>6, Given, FirstHalf
<1>10. PICK m : m = e + 7
  OBVIOUS
<1>11. Ahead(line, p, m)
  BY <1>5, <1>6, <1>7, <1>10, Given, ReadOver
<1>12. m \in 1..Len(line) /\ Byte(line, m) = "u" /\ Ahead(line, p + 1, m + 1)
  BY <1>3, <1>7, <1>8, <1>11, Given, ReadByte
<1>13. PICK f : f = e + 6
  OBVIOUS
<1>14. f + 1 = m /\ m + 1 = f + 2 + 0 /\ f + 1 <= Len(line)
  BY <1>9, <1>10, <1>12, <1>13
<1>15. DigitsRead(line, f, 0, 0)
  BY DEF DigitsRead
<1>16. /\ EscapeRead(line, q, start', buf', res', letter', high', j, e)
       /\ f = IF high' = 0 THEN e ELSE e + 6
       /\ f \in Escapes(line) /\ f + 1 <= Len(line) /\ Byte(line, f + 1) = "u"
       /\ Ahead(line, tmp', f + 2 + digits') /\ DigitsRead(line, f, digits', n')
  BY <1>1, <1>2, <1>6, <1>12, <1>13, <1>14, <1>15
<1>. QED
  BY <1>1, <1>16 DEF Then, Parses

(* An escape that is none.                                                  *)
LEMMA DigitDooms ==
  ASSUME IInv, NEW line, NEW q, Reads(line, q), Walk(text, tmp), digits \in 0..3, NEW j, NEW e, NEW f,
         HexRead(line, q, start, buf, res, letter, high, tmp, digits, n, j, e, f),
         \/ digits = 0 /\ Len(text) - tmp < 4
         \/ ~At(text, Once(tmp), Digit)
  PROVE  Doomed(line, q)
<1>1. /\ e \in Nat /\ f \in Nat /\ f \in 1..Len(line) /\ f \in Escapes(line) /\ f + 1 <= Len(line)
      /\ Sound(line) /\ Len(line) \in Nat
  BY Given, HalfIs
<1>2. EscapeRead(line, q, start, buf, res, letter, high, j, e) /\ Half(high, e, f)
  BY DEF HexRead
<1>3. ~IsHex(line, f) => Doomed(line, q)
  BY <1>2, Given, HexDooms DEF Half
<1>4. PICK m : m = f + 2 + digits
  OBVIOUS
<1>5. Ahead(line, tmp, m) /\ m \in Nat
  BY <1>1, <1>4 DEF HexRead
<1>6. IsHex(line, f) => f + 5 <= Len(line) /\ \A d \in f + 2..f + 5 : Byte(line, d) \in Digit
  BY <1>1, HexIs
<1>7. CASE digits = 0 /\ Len(text) - tmp < 4
  <2>. SUFFICES ASSUME f + 5 <= Len(line)
                PROVE  FALSE
    BY <1>3, <1>6
  <2>1. PICK a, b, c, d : a = f + 2 /\ b = f + 3 /\ c = f + 4 /\ d = f + 5
    OBVIOUS
  <2>2. /\ a \in 1..Len(line) /\ b \in 1..Len(line) /\ c \in 1..Len(line) /\ d \in 1..Len(line)
        /\ a < b /\ b < c /\ c < d /\ a = m
    BY <1>1, <1>4, <1>7, <2>1
  <2>3. /\ line[a] \in 0..Len(text) - 1 /\ line[b] \in 0..Len(text) - 1
        /\ line[c] \in 0..Len(text) - 1 /\ line[d] \in 0..Len(text) - 1
        /\ line[a] < line[b] /\ line[b] < line[c] /\ line[c] < line[d]
    BY <2>2, Given, LineIs
  <2>4. ~(line[a] < tmp)
    BY <1>5, <2>2 DEF Ahead
  <2>5. Len(text) \in Nat /\ tmp \in Nat
    BY Given
  <2>6. PICK x \in Nat : x = line[a]
    BY <2>3, <2>5
  <2>7. PICK y \in Nat : y = line[b]
    BY <2>3, <2>5
  <2>8. PICK z \in Nat : z = line[c]
    BY <2>3, <2>5
  <2>9. PICK w \in Nat : w = line[d]
    BY <2>3, <2>5
  <2>10. x < y /\ y < z /\ z < w /\ w \in 0..Len(text) - 1 /\ ~(x < tmp)
    BY <2>3, <2>4, <2>6, <2>7, <2>8, <2>9
  <2>. QED
    BY <1>7, <2>5, <2>10
<1>8. CASE ~At(text, Once(tmp), Digit)
  <2>1. PICK p : p = Once(tmp)
    OBVIOUS
  <2>2. Walk(text, p) /\ p \in 0..Len(text) /\ p = Continuation(text, tmp)
    BY <2>1, Given, WalkOnce DEF Once
  <2>3. Ahead(line, p, m)
    BY <1>5, <2>2, Given, ReadOver
  <2>4. CASE Continues(text, p)
    <3>. SUFFICES ASSUME IsHex(line, f)
                  PROVE  Doomed(line, q)
      BY <1>3
    <3>1. PICK k : k = f + 1 + digits
      OBVIOUS
    <3>2. k \in Nat /\ k < Len(line) /\ k \in f..f + 4 /\ m = k + 1
      BY <1>1, <1>4, <1>6, <3>1
    <3>3. k \in f..f + Size(line, f) - 2
      BY <1>1, <3>2, SizeIs
    <3>. QED
      BY <1>1, <1>5, <2>2, <2>4, <3>2, <3>3, Given, TwiceDooms
  <2>5. CASE p = Len(text) \/ At(text, p, {"lf"})
    <3>1. m = Len(line) + 1
      BY <2>2, <2>3, <2>5, Given, ReadEnd
    <3>2. ~IsHex(line, f)
      BY <1>1, <1>4, <1>6, <3>1
    <3>. QED
      BY <1>3, <3>2
  <2>6. CASE ~Continues(text, p) /\ ~(p = Len(text) \/ At(text, p, {"lf"}))
    <3>1. p < Len(text) /\ text[p + 1] # "lf"
      BY <2>2, <2>6, Given DEF At
    <3>2. m \in 1..Len(line) /\ Byte(line, m) = text[p + 1]
      BY <2>2, <2>3, <2>6, <3>1, Given, ReadByte
    <3>3. Byte(line, m) \notin Digit
      BY <1>8, <2>1, <3>1, <3>2 DEF At
    <3>4. m \in f + 2..f + 5
      BY <1>1, <1>4
    <3>. QED
      BY <1>3, <1>6, <3>3, <3>4
  <2>. QED
    BY <2>4, <2>5, <2>6
<1>. QED
  BY <1>7, <1>8

LEMMA BackslashDooms ==
  ASSUME IInv, NEW line, NEW q, Reads(line, q), Walk(text, tmp), NEW j, NEW e,
         EscapeRead(line, q, start, buf, res, letter, high, j, e), high # 0,
         Ahead(line, tmp, e + 6), ~At(text, Once(tmp), {backslash})
  PROVE  Doomed(line, q)
<1>1. e \in Nat /\ Len(line) \in Nat /\ (~IsHex(line, e + 6) => Doomed(line, q))
  BY Given, FirstHalf
<1>2. PICK p : p = Once(tmp)
  OBVIOUS
<1>3. Walk(text, p) /\ p \in 0..Len(text) /\ p = Continuation(text, tmp)
  BY <1>2, Given, WalkOnce DEF Once
<1>4. PICK m : m = e + 6
  OBVIOUS
<1>5. Ahead(line, p, m)
  BY <1>3, <1>4, Given, ReadOver
<1>6. IsHex(line, m) => m <= Len(line) /\ Byte(line, m) = backslash
  BY <1>1, <1>4, HexIs
<1>7. CASE Continues(text, p)
  BY <1>3, <1>7, BackslashTwice
<1>8. CASE p = Len(text) \/ At(text, p, {"lf"})
  <2>1. m = Len(line) + 1
    BY <1>3, <1>5, <1>8, Given, ReadEnd
  <2>. QED
    BY <1>1, <1>4, <1>6, <2>1
<1>9. CASE ~Continues(text, p) /\ ~(p = Len(text) \/ At(text, p, {"lf"}))
  <2>1. p < Len(text) /\ text[p + 1] # "lf"
    BY <1>3, <1>9, Given DEF At
  <2>2. Byte(line, m) = text[p + 1]
    BY <1>3, <1>5, <1>9, <2>1, Given, ReadByte
  <2>3. Byte(line, m) # backslash
    BY <1>2, <2>1, <2>2 DEF At
  <2>. QED
    BY <1>1, <1>4, <1>6, <2>3
<1>. QED
  BY <1>7, <1>8, <1>9

LEMMA UDooms ==
  ASSUME IInv, NEW line, NEW q, Reads(line, q), Walk(text, tmp), NEW j, NEW e,
         EscapeRead(line, q, start, buf, res, letter, high, j, e), high # 0,
         e + 6 \in Escapes(line), Ahead(line, tmp, e + 7), ~At(text, Once(tmp), {"u"})
  PROVE  Doomed(line, q)
<1>1. e \in Nat /\ Len(line) \in Nat /\ Sound(line) /\ (~IsHex(line, e + 6) => Doomed(line, q))
  BY Given, FirstHalf
<1>2. PICK p : p = Once(tmp)
  OBVIOUS
<1>3. Walk(text, p) /\ p \in 0..Len(text) /\ p = Continuation(text, tmp)
  BY <1>2, Given, WalkOnce DEF Once
<1>4. PICK f, m : f = e + 6 /\ m = e + 7
  OBVIOUS
<1>5. f \in Nat /\ f \in Escapes(line) /\ f \in 1..Len(line) /\ m = f + 1
  BY <1>1, <1>4, EscapesAre DEF Escapes, Sound
<1>6. Ahead(line, p, m) /\ Ahead(line, tmp, m)
  BY <1>3, <1>4, Given, ReadOver
<1>7. IsHex(line, f) => m <= Len(line) /\ Byte(line, f + 1) = "u"
  <2>1. IsHex(line, f) => f + 5 <= Len(line) /\ Byte(line, f + 1) = "u"
    BY <1>1, <1>5, HexIs
  <2>. QED
    BY <1>1, <1>5, <2>1
<1>8. CASE Continues(text, p)
  <2>1. CASE f < Len(line)
    <3>1. f \in f..f + Size(line, f) - 2
      BY <1>5, SizeIs
    <3>. QED
      BY <1>3, <1>5, <1>6, <1>8, <2>1, <3>1, Given, TwiceDooms
  <2>2. CASE ~(f < Len(line))
    BY <1>1, <1>4, <1>5, <1>7, <2>2
  <2>. QED
    BY <2>1, <2>2
<1>9. CASE p = Len(text) \/ At(text, p, {"lf"})
  <2>1. m = Len(line) + 1
    BY <1>3, <1>6, <1>9, Given, ReadEnd
  <2>. QED
    BY <1>1, <1>4, <1>7, <2>1
<1>10. CASE ~Continues(text, p) /\ ~(p = Len(text) \/ At(text, p, {"lf"}))
  <2>1. p < Len(text) /\ text[p + 1] # "lf"
    BY <1>3, <1>10, Given DEF At
  <2>2. Byte(line, m) = text[p + 1]
    BY <1>3, <1>6, <1>10, <2>1, Given, ReadByte
  <2>3. Byte(line, m) # "u"
    BY <1>2, <2>1, <2>2 DEF At
  <2>. QED
    BY <1>1, <1>4, <1>5, <1>7, <2>3
<1>. QED
  BY <1>8, <1>9, <1>10

LEMMA BadHexEscapeParse ==
  ASSUME IInv, NEW line, NEW q, Reads(line, q), Now(line, q), BadHexEscape
  PROVE  Then(line, q)
<1>1. Reject
  BY DEF BadHexEscape
<1>2. CASE pc = "hex" /\ ~AtDigit
  <2>1. Walk(text, tmp) /\ digits \in 0..3
    BY <1>2, HexNow
  <2>2. PICK j, e, f : HexRead(line, q, start, buf, res, letter, high, tmp, digits, n, j, e, f)
    BY <1>2, HexNow
  <2>3. \/ digits = 0 /\ Len(text) - tmp < 4
        \/ ~At(text, Once(tmp), Digit)
    BY <1>2, Given DEF AtDigit
  <2>4. Doomed(line, q)
    BY <2>1, <2>2, <2>3, DigitDooms
  <2>. QED
    BY <1>1, <2>4, RejectParse
<1>3. CASE pc = "backslash" /\ ~At(text, Once(tmp), {backslash})
  <2>1. Doomed(line, q)
    BY <1>3, BackslashNow, BackslashDooms
  <2>. QED
    BY <1>1, <2>1, RejectParse
<1>4. CASE pc = "u" /\ ~At(text, Once(tmp), {"u"})
  <2>1. Doomed(line, q)
    BY <1>4, UNow, UDooms
  <2>. QED
    BY <1>1, <2>1, RejectParse
<1>. QED
  BY <1>2, <1>3, <1>4 DEF BadHexEscape

-----------------------------------------------------------------------------
(* The text and the escape byte never change, so that what is said of the   *)
(* line by them stays as it was: said of each definition in turn.           *)
Fixed == UNCHANGED <<text, backslash>>

LEMMA ByteKept ==
  ASSUME Fixed
  PROVE  \A line, k : Byte(line, k)' = Byte(line, k)
BY DEF Byte, Fixed

LEMMA EscapedKept ==
  ASSUME Fixed, NEW line, NEW k
  PROVE  Escaped(line, k)' <=> Escaped(line, k)
<1> DEFINE R == {j \in 1..k-1 : \A m \in j..k-1 : Byte(line, m) = backslash}
<1>1. R' = R
  BY ByteKept DEF Fixed
<1>2. Cardinality(R)' = Cardinality(R)
  BY <1>1
<1>. QED
  BY <1>2 DEF Escaped

LEMMA UnescapedKept ==
  ASSUME Fixed
  PROVE  /\ \A line, byte : Unescaped(line, byte)' = Unescaped(line, byte)
         /\ \A line : Escapes(line)' = Escapes(line)
<1>1. \A line, byte : Unescaped(line, byte)' = Unescaped(line, byte)
  BY ByteKept, EscapedKept DEF Unescaped
<1>2. \A line : Escapes(line)' = Escapes(line)
  BY <1>1 DEF Escapes, Fixed
<1>. QED
  BY <1>1, <1>2

LEMMA HexKept ==
  ASSUME Fixed, NEW line, NEW k
  PROVE  /\ IsHex(line, k)' <=> IsHex(line, k)
         /\ Bits(line, k)' = Bits(line, k)
<1>1. IsHex(line, k)' <=> IsHex(line, k)
  BY ByteKept, EscapedKept DEF IsHex, Fixed
<1>2. Bits(line, k)' = Bits(line, k)
  BY ByteKept DEF Bits
<1>. QED
  BY <1>1, <1>2

LEMMA PairsKept ==
  ASSUME Fixed, NEW line, NEW k
  PROVE  /\ Pairs(line, k)' <=> Pairs(line, k)
         /\ CodePoint(line, k)' = CodePoint(line, k)
         /\ Size(line, k)' = Size(line, k)
<1>1. Pairs(line, k)' <=> Pairs(line, k)
  BY HexKept DEF Pairs
<1>2. CodePoint(line, k)' = CodePoint(line, k)
  BY <1>1, HexKept DEF CodePoint
<1>3. Size(line, k)' = Size(line, k)
  BY <1>1, HexKept DEF Size
<1>. QED
  BY <1>1, <1>2, <1>3

LEMMA StringKept ==
  ASSUME Fixed, NEW line
  PROVE  /\ \A k : IsEscape(line, k)' <=> IsEscape(line, k)
         /\ \A i, j : IsString(line, i, j)' <=> IsString(line, i, j)
<1>1. \A k : IsEscape(line, k)' <=> IsEscape(line, k)
  BY ByteKept, HexKept, PairsKept DEF IsEscape, Named, Fixed
<1>2. \A i, j : IsString(line, i, j)' <=> IsString(line, i, j)
  BY <1>1, ByteKept, EscapedKept DEF IsString, Fixed
<1>. QED
  BY <1>1, <1>2

LEMMA CharsKept ==
  ASSUME Fixed, NEW line
  PROVE  \A i, j : Chars(line, i, j)' = Chars(line, i, j)
<1>1. \A k : CharAt(line, k)' = CharAt(line, k)
  BY HexKept, PairsKept, UnescapedKept DEF CharAt, Fixed
<1>2. \A k : Starts(line, k)' <=> Starts(line, k)
  BY PairsKept, UnescapedKept DEF Starts
<1> SUFFICES ASSUME NEW i, NEW j PROVE Chars(line, i, j)' = Chars(line, i, j)
  OBVIOUS
<1> DEFINE M == {m \in i+1..j-1 : \A e \in Unescaped(line, backslash) : m \notin e+1..e + Size(line, e) - 1}
<1>3. M' = M
  BY PairsKept, UnescapedKept DEF Fixed
<1> HIDE DEF M
<1> DEFINE C == {CharAt(line, k) : k \in M}
<1>4. C' = C
  BY <1>1, <1>3
<1>. QED
  BY <1>4 DEF Chars, M

LEMMA AroundKept ==
  ASSUME Fixed, NEW line
  PROVE  /\ \A i, j : Around(line, i, j)' = Around(line, i, j)
         /\ \A i, j, byte : Only(line, i, j, byte)' <=> Only(line, i, j, byte)
         /\ \A k : OpenClose(line, k)' <=> OpenClose(line, k)
<1>1. \A i, j : Around(line, i, j)' = Around(line, i, j)
  BY ByteKept DEF Around
<1>2. \A i, j, byte : Only(line, i, j, byte)' <=> Only(line, i, j, byte)
  BY <1>1, ByteKept DEF Only
<1>3. \A k : OpenClose(line, k)' <=> OpenClose(line, k)
  BY <1>1, ByteKept DEF OpenClose
<1>. QED
  BY <1>1, <1>2, <1>3

LEMMA ArrayKept ==
  ASSUME Fixed, NEW line, NEW q
  PROVE  IsArray(line, q)' <=> IsArray(line, q)
<1>1. /\ \A k : Byte(line, k)' = Byte(line, k)
      /\ \A i, j : Around(line, i, j)' = Around(line, i, j)
      /\ \A i, j, byte : Only(line, i, j, byte)' <=> Only(line, i, j, byte)
      /\ \A i, j : IsString(line, i, j)' <=> IsString(line, i, j)
  BY ByteKept, AroundKept, StringKept
<1>. QED
  BY <1>1 DEF IsArray

LEMMA DoomedKept ==
  ASSUME Fixed, NEW line, NEW q
  PROVE  Doomed(line, q)' <=> Doomed(line, q)
<1>1. Markers(text)' = Markers(text)
  BY DEF Fixed
<1>2. BrokenTwice(line, Markers(text))' <=> BrokenTwice(line, Markers(text))
  BY <1>1, UnescapedKept, PairsKept DEF BrokenTwice, Fixed
<1>. QED
  BY <1>2, ArrayKept DEF Doomed, IsRead

LEMMA ReadsKept ==
  ASSUME Fixed, NEW line, NEW q, Reads(line, q)
  PROVE  Reads(line, q)'
<1>1. line = Ordered(Bytes(text), Len(text))'
  BY DEF Reads, Fixed
<1>2. q = Ordered(Unescaped(line, "quote"), Len(line) + 1)'
  BY UnescapedKept DEF Reads
<1>. QED
  BY <1>1, <1>2 DEF Reads

LEMMA ParsedKept ==
  ASSUME Fixed, NEW line, NEW q
  PROVE  /\ \A r : StringsRead(line, q, r)' <=> StringsRead(line, q, r)
         /\ \A r, j, k : Parsed(line, q, r, j, k)' <=> Parsed(line, q, r, j, k)
<1>1. \A r : StringsRead(line, q, r)' <=> StringsRead(line, q, r)
  BY StringKept, CharsKept DEF StringsRead
<1>2. \A j : Gaps(line, q, j)' <=> Gaps(line, q, j)
  BY AroundKept DEF Gaps
<1>3. \A k : Clean(line, k)' <=> Clean(line, k)
  BY UnescapedKept, PairsKept DEF Clean
<1>4. \A r, j, k : Parsed(line, q, r, j, k)' <=> Parsed(line, q, r, j, k)
  BY <1>1, <1>2, <1>3 DEF Parsed
<1>. QED
  BY <1>1, <1>4

LEMMA ReadKept ==
  ASSUME Fixed, NEW line, NEW q, NEW j, NEW k
  PROVE  /\ \A p, r : GapRead(line, q, p, r, j, k)' <=> GapRead(line, q, p, r, j, k)
         /\ \A i, w, b, r : StringRead(line, q, i, w, b, r, j, k)' <=> StringRead(line, q, i, w, b, r, j, k)
         /\ \A st, b, r, l, h :
              EscapeRead(line, q, st, b, r, l, h, j, k)' <=> EscapeRead(line, q, st, b, r, l, h, j, k)
<1>1. \A p, r : GapRead(line, q, p, r, j, k)' <=> GapRead(line, q, p, r, j, k)
  BY ParsedKept, AroundKept DEF GapRead
<1>2. \A i, w, b, r : StringRead(line, q, i, w, b, r, j, k)' <=> StringRead(line, q, i, w, b, r, j, k)
  BY ParsedKept, StringKept, CharsKept DEF StringRead
<1>3. \A st, b, r, l, h :
        EscapeRead(line, q, st, b, r, l, h, j, k)' <=> EscapeRead(line, q, st, b, r, l, h, j, k)
  BY ParsedKept, StringKept, CharsKept, ByteKept, HexKept, UnescapedKept DEF EscapeRead
<1>. QED
  BY <1>1, <1>2, <1>3

LEMMA DigitsKept ==
  ASSUME Fixed, NEW line
  PROVE  \A f, d, v : DigitsRead(line, f, d, v)' <=> DigitsRead(line, f, d, v)
<1>1. \A f, d : Value(line, f, d)' = Value(line, f, d)
  BY ByteKept DEF Value
<1>. QED
  BY <1>1, ByteKept DEF DigitsRead

LEMMA ParsesKept ==
  ASSUME Fixed, NEW line, NEW q
  PROVE  \A p, i, st, w, b, r, l, d, v, h :
           Parses(line, q, p, i, st, w, b, r, l, d, v, h)' <=> Parses(line, q, p, i, st, w, b, r, l, d, v, h)
<1>1. /\ \A p, r, j, k : GapRead(line, q, p, r, j, k)' <=> GapRead(line, q, p, r, j, k)
      /\ \A i, w, b, r, j, k :
           StringRead(line, q, i, w, b, r, j, k)' <=> StringRead(line, q, i, w, b, r, j, k)
      /\ \A st, b, r, l, h, j, k :
           EscapeRead(line, q, st, b, r, l, h, j, k)' <=> EscapeRead(line, q, st, b, r, l, h, j, k)
  BY ReadKept
<1>2. /\ Doomed(line, q)' <=> Doomed(line, q)
      /\ IsArray(line, q)' <=> IsArray(line, q)
      /\ \A r : StringsRead(line, q, r)' <=> StringsRead(line, q, r)
      /\ \A k : Byte(line, k)' = Byte(line, k)
      /\ Escapes(line)' = Escapes(line)
      /\ \A f, d, v : DigitsRead(line, f, d, v)' <=> DigitsRead(line, f, d, v)
  BY DoomedKept, ArrayKept, ParsedKept, ByteKept, UnescapedKept, DigitsKept
<1>. QED
  BY <1>1, <1>2 DEF Parses, Fixed

LEMMA ParseNext ==
  ASSUME Fixed, NEW line, NEW q, Reads(line, q), Then(line, q)
  PROVE  ParseInv'
<1>1. Reads(line, q)'
  BY ReadsKept
<1>2. Parses(line, q, pc, tmp, start, word_start, buf, res, letter, digits, n, high)'
  BY ParsesKept DEF Then
<1>. QED
  BY <1>1, <1>2 DEF ParseInv

-----------------------------------------------------------------------------
(* The bracket is the first byte of the line, and no quote is before it.    *)
LEMMA InitParse ==
  ASSUME Init
  PROVE  ParseInv
<1>1. /\ Len(text) \in Nat /\ 0 < Len(text) /\ text[1] = "open"
      /\ backslash \in {"esc", "bs"}
  BY InputsAreSequences DEF Init, At
<1>2. PICK line : line = Ordered(Bytes(text), Len(text))
  OBVIOUS
<1>3. PICK q : q = Ordered(Unescaped(line, "quote"), Len(line) + 1)
  OBVIOUS
<1>4. Reads(line, q)
  BY <1>2, <1>3 DEF Reads
<1>5. /\ Sound(line) /\ line \in Seq(Nat) /\ Len(line) \in Nat /\ q \in Seq(Nat) /\ Len(q) \in Nat
      /\ \A m \in 1..Len(line) : 0 <= line[m]
      /\ \A m \in 1..Len(q) : q[m] \in 1..Len(line) /\ q[m] \in Unescaped(line, "quote")
  BY <1>1, <1>4, LineIs, QuotesAre DEF Sound
<1>6. Walk(text, 0) /\ ~Continues(text, 0)
  <2>1. 0 \in 0..Len(text) /\ ~At(text, 0, {"esc"})
    BY <1>1 DEF At
  <2>. QED
    BY <1>1, <2>1, WalkStart, ContinuationAdvances
<1>7. Ahead(line, 0, 1)
  BY <1>5, AheadStart
<1>8. 1 \in 1..Len(line) /\ Byte(line, 1) = "open" /\ Ahead(line, 1, 2)
  <2>1. text[0 + 1] # "lf" /\ text[0 + 1] = "open" /\ 0 < Len(text)
    BY <1>1
  <2>2. 1 \in 1..Len(line) /\ Byte(line, 1) = text[0 + 1] /\ Ahead(line, 0 + 1, 1 + 1)
    BY <1>1, <1>4, <1>6, <1>7, <2>1, ReadByte
  <2>. QED
    BY <2>1, <2>2
<1>9. Clean(line, 2)
  <2>1. 1 \notin Escapes(line)
    BY <1>1, <1>5, <1>8, EscapesAre DEF Escapes, Sound
  <2>2. \A e \in Escapes(line) : e \in 1..Len(line) /\ e # 1
    BY <2>1, <1>5, EscapesAre DEF Escapes, Sound
  <2>. QED
    BY <2>2, <1>5 DEF Clean
<1>10. Ahead(q, 2, 1)
  <2>1. \A m \in 1..Len(q) : q[m] # 1
    BY <1>5, <1>8, EscapesAre DEF Sound
  <2>2. \A m \in 1..Len(q) : 2 <= q[m]
    BY <2>1, <1>5
  <2>. QED
    BY <2>2, <1>5, AheadStart
<1>11. Only(line, 0, 2, "open")
  <2>1. Around(line, 0, 2) = {1}
    BY <1>8 DEF Around, Whitespace
  <2>. QED
    BY <2>1, <1>8 DEF Only
<1>12. GapRead(line, q, "opened", <<>>, 0, 2)
  <2>1. Gaps(line, q, 0)
    BY DEF Gaps
  <2>2. StringsRead(line, q, <<>>)
    BY DEF StringsRead
  <2>3. 0 \in 0..Len(q) /\ 2 \in 1..Len(line) + 1 /\ 0 + 1 = 1 /\ 0 = 2 * Len(<<>>)
    BY <1>5, <1>8
  <2>4. Parsed(line, q, <<>>, 0, 2)
    BY <2>1, <2>2, <2>3, <1>9, <1>10 DEF Parsed
  <2>. QED
    BY <2>3, <2>4, <1>11 DEF GapRead
<1>13. pc = "opened" /\ tmp = 1 /\ res = <<>>
  BY DEF Init
<1>14. Parses(line, q, pc, tmp, start, word_start, buf, res, letter, digits, n, high)
  BY <1>8, <1>12, <1>13 DEF Parses
<1>. QED
  BY <1>4, <1>14 DEF ParseInv

LEMMA NextParse ==
  ASSUME IInv, ParseInv, [Next]_vars
  PROVE  ParseInv'
<1>1. PICK line, q : Reads(line, q) /\ Now(line, q)
  BY DEF ParseInv, Now
<1>2. Fixed
  BY DEF Fixed, Next, vars, scanning, escape, Reject, Escaped16, Skip, Open, Comma, Close,
         Unexpected, StringByte, StringContinued, StringEscape, StringHexEscape, BadEscape,
         HexDigit, CodeUnit, HighSurrogate, LowSurrogate, LoneSurrogate, LowBackslash, LowU,
         BadHexEscape, BadString, StringEnds, Accept, Trailing
<1>3. Then(line, q)
  <2>1. CASE UNCHANGED vars
    BY <2>1, <1>1 DEF vars, scanning, escape, Now, Then
  <2>2. CASE Skip \/ Open \/ Comma \/ Close \/ Unexpected \/ Accept \/ Trailing
    BY <2>2, <1>1, SkipParse, OpenParse, CommaParse, CloseParse, UnexpectedParse, AcceptParse,
       TrailingParse
  <2>3. CASE \/ StringByte \/ StringContinued \/ StringEscape \/ StringHexEscape \/ BadEscape
             \/ BadString \/ StringEnds
    BY <2>3, <1>1, StringByteParse, StringContinuedParse, StringEscapeParse, StringHexEscapeParse,
       BadEscapeParse, BadStringParse, StringEndsParse
  <2>4. CASE HexDigit \/ CodeUnit \/ HighSurrogate \/ LowSurrogate \/ LoneSurrogate
    BY <2>4, <1>1, HexDigitParse, CodeUnitParse, HighSurrogateParse, LowSurrogateParse,
       LoneSurrogateParse
  <2>5. CASE LowBackslash \/ LowU \/ BadHexEscape
    BY <2>5, <1>1, LowBackslashParse, LowUParse, BadHexEscapeParse
  <2>. QED
    BY <2>1, <2>2, <2>3, <2>4, <2>5 DEF Next
<1>. QED
  BY <1>1, <1>2, <1>3, ParseNext

LEMMA ParseInvariance == Spec => [](IInv /\ ParseInv)
<1>1. Init => IInv /\ ParseInv
  BY InitInv, InitParse
<1>2. IInv /\ ParseInv /\ [Next]_vars => (IInv /\ ParseInv)'
  BY NextInv, NextParse
<1>. QED
  BY <1>1, <1>2, PTL DEF Spec

-----------------------------------------------------------------------------
(* That an array with an escape broken twice in a row is not accepted: told *)
(* of what lies between byte m of the line and the next.                    *)
Inside(line, m) ==
  /\ m \in 1..Len(line) - 1
  /\ \E e \in Escapes(line) : m \in e..e + Size(line, e) - 2
Sparse(line, m) == ~(Cardinality(Markers(text) \cap (line[m]..line[m + 1])) > 1)
WholeTo(line, i) == \A m : Inside(line, m) /\ line[m + 1] < i => Sparse(line, m)

LEMMA BrokenIs ==
  ASSUME NEW line, Sound(line)
  PROVE  BrokenTwice(line, Markers(text)) => \E m : Inside(line, m) /\ ~Sparse(line, m)
<1>1. SUFFICES ASSUME NEW e \in Unescaped(line, backslash), NEW m \in e..e + Size(line, e) - 2,
                      m < Len(line), Cardinality(Markers(text) \cap (line[m]..line[m + 1])) > 1
               PROVE  \E x : Inside(line, x) /\ ~Sparse(line, x)
  BY DEF BrokenTwice
<1>2. e \in 1..Len(line) /\ e \in Escapes(line)
  BY EscapesAre DEF Sound, Escapes
<1>3. m \in 1..Len(line) - 1
  <2>1. Size(line, e) \in Nat /\ Len(line) \in Nat
    BY SizeIs DEF Sound
  <2>. QED
    BY <1>1, <1>2, <2>1
<1>. QED
  BY <1>1, <1>2, <1>3 DEF Inside, Sparse

LEMMA FewAre ==
  ASSUME NEW S, NEW i, S \subseteq {i}
  PROVE  ~(Cardinality(S) > 1)
<1>1. S = {} \/ S = {i}
  OBVIOUS
<1>2. Cardinality({}) = 0 /\ Cardinality({i}) = 1
  BY FS_EmptySet, FS_Singleton
<1>3. CASE S = {}
  BY <1>2, <1>3
<1>4. CASE S = {i}
  BY <1>2, <1>4
<1>. QED
  BY <1>1, <1>3, <1>4

(* The reader passes a continuation, which has none of the line's bytes.    *)
LEMMA WholeOver ==
  ASSUME Len(text) \in Nat, NEW line, NEW q, Reads(line, q),
         NEW i, Walk(text, i), WholeTo(line, i)
  PROVE  WholeTo(line, Continuation(text, i))
<1>1. CASE Continues(text, i)
  <2>1. /\ i \in Nat /\ Continuation(text, i) \in Nat
        /\ \A b \in i..Continuation(text, i) - 1 : ~Belongs(text, b)
    <3>1. i \in 0..Len(text)
      BY DEF Walk
    <3>. QED
      BY <1>1, <3>1, WalkContinued, ContinuationAdvances
  <2>2. ASSUME NEW m, Inside(line, m), line[m + 1] < Continuation(text, i)
        PROVE  line[m + 1] < i
    <3>1. m + 1 \in 1..Len(line)
      BY <2>2, LineIs DEF Inside, Sound
    <3>2. line[m + 1] \in 0..Len(text) - 1 /\ Belongs(text, line[m + 1])
      BY <3>1, LineIs DEF Spells, Sound
    <3>. QED
      BY <2>1, <2>2, <3>2
  <2>. QED
    BY <2>2 DEF WholeTo
<1>2. CASE ~Continues(text, i)
  BY <1>2 DEF Continues
<1>. QED
  BY <1>1, <1>2

(* It reads a byte that is in no escape, or starts one.                     *)
LEMMA WholeByte ==
  ASSUME Len(text) \in Nat, NEW line, NEW q, Reads(line, q),
         NEW i \in Nat, WholeTo(line, i), NEW k \in Nat, Ahead(line, i, k), Clean(line, k)
  PROVE  WholeTo(line, i + 1)
<1>1. SUFFICES ASSUME NEW m, Inside(line, m), line[m + 1] < i + 1
               PROVE  Sparse(line, m)
  BY DEF WholeTo
<1>2. PICK x : x = m + 1
  OBVIOUS
<1>3. m \in Nat /\ x \in 1..Len(line) /\ m = x - 1 /\ line[x] \in Nat
  BY <1>1, <1>2, LineIs DEF Inside, Sound
<1>4. CASE line[x] < i
  BY <1>1, <1>2, <1>4 DEF WholeTo
<1>5. CASE ~(line[x] < i)
  <2>1. line[x] = i /\ k <= x /\ k \in 1..Len(line)
    BY SMTT(30), <1>1, <1>2, <1>3, <1>5, LineIs DEF Ahead, Sound
  <2>2. ~(k < x)
    <3>1. k < x => line[k] < line[x]
      BY <1>3, <2>1, LineIs
    <3>. QED
      BY <2>1, <3>1 DEF Ahead
  <2>3. x = k
    BY <1>3, <2>1, <2>2
  <2>4. PICK e \in Escapes(line) : m \in e..e + Size(line, e) - 2
    BY <1>1 DEF Inside
  <2>5. e \in Nat /\ Size(line, e) \in Nat
    BY SMTT(30), <2>4, LineIs, EscapesAre, SizeIs DEF Escapes, Sound
  <2>6. e < k /\ ~(e + Size(line, e) <= k)
    BY <1>3, <2>3, <2>4, <2>5
  <2>. QED
    BY <2>4, <2>6 DEF Clean
<1>. QED
  BY <1>3, <1>4, <1>5

(* It reads a byte of an escape, past at most one continuation.             *)
LEMMA OneMarker ==
  ASSUME Len(text) \in Nat, NEW i \in Nat \ {0}, Walk(text, i), Belongs(text, i - 1),
         NEW p, p = Continuation(text, i), ~Continues(text, p), p < Len(text), text[p + 1] # "lf"
  PROVE  /\ Walk(text, p + 1) /\ Belongs(text, p) /\ p \in i..Len(text) - 1
         /\ \A b \in i..p - 1 : ~Belongs(text, b)
         /\ ~(Cardinality(Markers(text) \cap (i - 1..p)) > 1)
<1>1. Walk(text, p) /\ p \in i..Len(text) - 1
  BY WalkOnce
<1>2. Walk(text, p + 1) /\ Belongs(text, p)
  BY <1>1, WalkByte
<1>3. /\ \A b \in i..p - 1 : ~Belongs(text, b)
      /\ \A b \in i + 1..p - 1 : b \notin Markers(text)
  <2>1. CASE Continues(text, i)
    BY <2>1, WalkContinued
  <2>2. CASE ~Continues(text, i)
    BY <1>1, <2>2 DEF Continues
  <2>. QED
    BY <2>1, <2>2
<1>4. ASSUME NEW b \in 0..Len(text) - 1, Belongs(text, b)
      PROVE  b \notin Markers(text)
  <2>1. LineOf(text, b) \in 0..b
    BY LineOfIs
  <2>. QED
    BY <1>4, <2>1 DEF Belongs, BelongsTo, Markers
<1>5. i - 1 \notin Markers(text) /\ p \notin Markers(text)
  BY <1>1, <1>2, <1>4
<1>6. \A b \in i - 1..p : b = i - 1 \/ b = i \/ b \in i + 1..p - 1 \/ b = p
  BY <1>1
<1>7. Markers(text) \cap (i - 1..p) \subseteq {i}
  BY <1>3, <1>5, <1>6
<1>8. ~(Cardinality(Markers(text) \cap (i - 1..p)) > 1)
  BY <1>7, FewAre
<1>. QED
  BY <1>1, <1>2, <1>3, <1>8

LEMMA WholeInside ==
  ASSUME Len(text) \in Nat, NEW line, NEW q, Reads(line, q), NEW i \in Nat \ {0},
         Walk(text, i), Belongs(text, i - 1), WholeTo(line, i),
         NEW p, p = Continuation(text, i), ~Continues(text, p), p < Len(text), text[p + 1] # "lf"
  PROVE  WholeTo(line, p + 1) /\ Belongs(text, p) /\ p + 1 \in Nat \ {0} /\ (p + 1) - 1 = p
<1>1. /\ Belongs(text, p) /\ p \in i..Len(text) - 1
      /\ \A b \in i..p - 1 : ~Belongs(text, b)
      /\ ~(Cardinality(Markers(text) \cap (i - 1..p)) > 1)
  BY OneMarker
<1>2. ASSUME NEW m, Inside(line, m), line[m + 1] < p + 1
      PROVE  Sparse(line, m)
  <2>1. PICK x : x = m + 1
    OBVIOUS
  <2>2. m \in 1..Len(line) /\ x \in 1..Len(line) /\ m < x
    BY <1>2, <2>1, LineIs DEF Inside, Sound
  <2>3. /\ line[m] \in 0..Len(text) - 1 /\ Belongs(text, line[m])
        /\ line[x] \in 0..Len(text) - 1 /\ Belongs(text, line[x])
        /\ line[m] < line[x]
    BY <2>2, LineIs DEF Spells, Sound
  <2>4. CASE line[x] < i
    BY <1>2, <2>1, <2>4 DEF WholeTo
  <2>5. CASE ~(line[x] < i)
    <3>1. line[x] = p
      BY <1>1, <1>2, <2>1, <2>3, <2>5
    <3>2. line[m] < i
      BY <1>1, <2>3, <3>1
    <3>3. i - 1 \in Bytes(text)
      BY <1>1, LineIs
    <3>4. PICK y \in 1..Len(line) : line[y] = i - 1
      BY SMTT(30), <3>3, LineIs DEF Spells, Sound
    <3>5. y < x /\ ~(y < m)
      <4>1. \A j, k \in 1..Len(line) : j < k => line[j] < line[k]
        BY LineIs
      <4>2. Len(line) \in Nat
        BY LineIs DEF Sound
      <4>3. y < x
        BY <1>1, <2>2, <3>1, <3>4, <4>1, <4>2
      <4>4. ~(y < m)
        <5>1. y < m => line[y] < line[m]
          BY <2>2, <4>1
        <5>. QED
          BY <2>3, <3>2, <3>4, <5>1
      <4>. QED
        BY <4>3, <4>4
    <3>6. y = m
      <4>1. Len(line) \in Nat
        BY LineIs DEF Sound
      <4>. QED
        BY <2>1, <2>2, <3>4, <3>5, <4>1
    <3>. QED
      BY <1>1, <2>1, <3>1, <3>4, <3>6 DEF Sparse
  <2>. QED
    BY <2>3, <2>4, <2>5
<1>. QED
  BY <1>1, <1>2 DEF WholeTo

(* While the reader is no escape byte behind, what it has read is whole.    *)
WholeRead(line, p, i) ==
  /\ p \in {"opened", "closed", "comma", "end"} => WholeTo(line, i)
  /\ p = "string" => Stuck(text, i) \/ WholeTo(line, i)
  /\ p \in {"hex", "backslash", "u"} =>
       Stuck(text, i) \/ (WholeTo(line, i) /\ i \in Nat \ {0} /\ Belongs(text, i - 1))
  /\ p = "done" => ~BrokenTwice(line, Markers(text))
WholeInv == \E line, q : Reads(line, q) /\ WholeRead(line, pc, tmp)

(* Between the strings, and at a byte of a string.                          *)
LEMMA GapWhole ==
  ASSUME IInv, NEW line, NEW q, Reads(line, q), Now(line, q), WholeRead(line, pc, tmp),
         pc \in {"opened", "closed", "comma", "end"}
  PROVE  /\ WholeTo(line, Continuation(text, tmp))
         /\ WholeTo(line, tmp + 1)
<1>1. Walk(text, tmp) /\ WholeTo(line, tmp)
  BY GapNow DEF WholeRead
<1>2. PICK j, k : GapRead(line, q, pc, res, j, k) /\ Ahead(line, tmp, k)
  BY GapNow
<1>3. k \in Nat /\ Clean(line, k)
  <2>1. Parsed(line, q, res, j, k) /\ k \in 1..Len(line) + 1
    BY <1>2 DEF GapRead, Parsed
  <2>. QED
    BY <2>1 DEF Parsed
<1>. QED
  BY <1>1, <1>2, <1>3, Given, WholeOver, WholeByte

LEMMA StringWhole ==
  ASSUME IInv, NEW line, NEW q, Reads(line, q), Now(line, q), WholeRead(line, pc, tmp),
         pc = "string", ~Stuck(text, tmp)
  PROVE  /\ WholeTo(line, Continuation(text, tmp))
         /\ WholeTo(line, tmp + 1)
<1>1. Walk(text, tmp) /\ WholeTo(line, tmp)
  BY StringNow DEF WholeRead
<1>2. PICK j, k : StringRead(line, q, tmp, word_start, buf, res, j, k) /\ Ahead(line, tmp, k)
  BY StringNow
<1>3. k \in Nat /\ Clean(line, k)
  BY <1>2, Given, StringIs
<1>. QED
  BY <1>1, <1>2, <1>3, Given, WholeOver, WholeByte

(* In an escape: the next byte is read past one continuation, if there is   *)
(* one, and is not itself one.                                              *)
LEMMA Past ==
  ASSUME IInv, NEW C, At(text, Once(tmp), C), "lf" \notin C, C \cap Whitespace = {}
  PROVE  ~Stuck(text, tmp)
<1>1. SUFFICES ASSUME Stuck(text, tmp) PROVE FALSE
  OBVIOUS
<1>2. tmp < Len(text) /\ text[tmp + 1] \in Whitespace \cup {"lf"}
  BY <1>1, Given, StuckAt
<1>3. ~At(text, tmp, {"esc"})
  BY <1>2 DEF At, Whitespace
<1>4. Once(tmp) = tmp
  BY <1>3, Given DEF Once, Continues
<1>. QED
  BY <1>2, <1>4 DEF At

LEMMA InsideWhole ==
  ASSUME IInv, NEW line, NEW q, Reads(line, q), Now(line, q), WholeRead(line, pc, tmp),
         pc \in {"hex", "backslash", "u"}, NEW C, At(text, Once(tmp), C),
         "lf" \notin C, C \cap Whitespace = {}
  PROVE  \/ Stuck(text, Once(tmp) + 1)
         \/ /\ WholeTo(line, Once(tmp) + 1) /\ Once(tmp) + 1 \in Nat \ {0}
            /\ Belongs(text, (Once(tmp) + 1) - 1)
<1>1. ~Stuck(text, tmp)
  BY Past
<1>2. Walk(text, tmp)
  BY <1>1, UNow DEF IInv, WalkInv
<1>3. WholeTo(line, tmp) /\ tmp \in Nat \ {0} /\ Belongs(text, tmp - 1)
  BY <1>1 DEF WholeRead
<1>4. PICK p : p = Once(tmp)
  OBVIOUS
<1>5. p < Len(text) /\ text[p + 1] # "lf"
  BY <1>4 DEF At
<1>6. p = Continuation(text, tmp) /\ p \in 0..Len(text)
  BY <1>2, <1>4, Given, WalkOnce DEF Once
<1>7. CASE Continues(text, p)
  BY <1>4, <1>6, <1>7, Given, ContinuesStuck
<1>8. CASE ~Continues(text, p)
  <2>1. WholeTo(line, p + 1) /\ Belongs(text, p) /\ p + 1 \in Nat \ {0} /\ (p + 1) - 1 = p
    BY <1>2, <1>3, <1>5, <1>6, <1>8, Given, WholeInside
  <2>. QED
    BY <1>4, <2>1
<1>. QED
  BY <1>7, <1>8

LEMMA EscapeWhole ==
  ASSUME IInv, NEW line, NEW q, Reads(line, q), Now(line, q), WholeRead(line, pc, tmp), Escape,
         NEW C, At(text, Once(tmp + 1), C), "lf" \notin C
  PROVE  \/ Stuck(text, Once(tmp + 1) + 1)
         \/ /\ WholeTo(line, Once(tmp + 1) + 1) /\ Once(tmp + 1) + 1 \in Nat \ {0}
            /\ Belongs(text, (Once(tmp + 1) + 1) - 1)
<1>1. pc = "string" /\ tmp < Len(text) /\ text[tmp + 1] = backslash /\ ~Continues(text, tmp)
  BY DEF Escape, At
<1>2. text[tmp + 1] \notin Whitespace \cup {"lf"}
  BY <1>1, Given DEF Whitespace
<1>3. ~Stuck(text, tmp)
  BY <1>2, Given, StuckAt
<1>4. Walk(text, tmp)
  BY <1>1, <1>3, StringNow
<1>5. PICK i \in Nat \ {0} : i = tmp + 1
  BY Given
<1>6. Walk(text, i) /\ Belongs(text, i - 1)
  <2>1. Walk(text, tmp + 1) /\ Belongs(text, tmp)
    BY <1>1, <1>2, <1>4, Given, WalkByte
  <2>2. i - 1 = tmp
    BY <1>5, Given
  <2>. QED
    BY <1>5, <2>1, <2>2
<1>7. WholeTo(line, i)
  BY <1>1, <1>3, <1>5, StringWhole
<1>8. PICK p : p = Once(i)
  OBVIOUS
<1>9. p < Len(text) /\ text[p + 1] # "lf"
  BY <1>5, <1>8 DEF At
<1>10. p = Continuation(text, i) /\ p \in 0..Len(text)
  BY <1>6, <1>8, Given, WalkOnce DEF Once
<1>11. CASE Continues(text, p)
  BY <1>5, <1>8, <1>10, <1>11, Given, ContinuesStuck
<1>12. CASE ~Continues(text, p)
  <2>1. WholeTo(line, p + 1) /\ Belongs(text, p) /\ p + 1 \in Nat \ {0} /\ (p + 1) - 1 = p
    BY <1>6, <1>7, <1>9, <1>10, <1>12, Given, WholeInside
  <2>. QED
    BY <1>5, <1>8, <2>1
<1>. QED
  BY <1>11, <1>12

(* What is accepted has been read to its end.                               *)
LEMMA AcceptWhole ==
  ASSUME IInv, NEW line, NEW q, Reads(line, q), Now(line, q), WholeRead(line, pc, tmp), Accept
  PROVE  ~BrokenTwice(line, Markers(text))
<1>1. pc = "end" /\ (tmp = Len(text) \/ At(text, tmp, {"lf"}))
  BY DEF Accept
<1>2. Walk(text, tmp) /\ WholeTo(line, tmp)
  BY <1>1, GapNow DEF WholeRead
<1>3. \A b \in tmp..Len(text) - 1 : ~Belongs(text, b)
  BY <1>1, <1>2, Given, WalkOver
<1>4. Sound(line)
  BY Given, LineIs
<1>5. SUFFICES ASSUME NEW m, Inside(line, m) PROVE Sparse(line, m)
  BY <1>4, BrokenIs
<1>6. m + 1 \in 1..Len(line)
  BY <1>4, <1>5 DEF Inside, Sound
<1>7. line[m + 1] \in 0..Len(text) - 1 /\ Belongs(text, line[m + 1])
  BY <1>6, Given, LineIs DEF Spells, Sound
<1>8. line[m + 1] < tmp
  BY <1>3, <1>7, Given
<1>. QED
  BY <1>2, <1>5, <1>8 DEF WholeTo

LEMMA BetweenWhole ==
  ASSUME IInv, NEW line, NEW q, Reads(line, q), Now(line, q), WholeRead(line, pc, tmp),
         Skip \/ Open \/ Comma \/ Close \/ Accept
  PROVE  WholeRead(line, pc', tmp')
<1>1. CASE Skip
  <2>1. /\ pc \in {"opened", "closed", "comma", "end"} /\ pc' = pc
        /\ tmp' = tmp + 1 \/ tmp' = Continuation(text, tmp)
    BY <1>1 DEF Skip
  <2>. QED
    BY <2>1, GapWhole DEF WholeRead
<1>2. CASE Open \/ Comma \/ Close
  <2>1. /\ pc \in {"opened", "closed", "comma", "end"} /\ tmp' = tmp + 1
        /\ pc' \in {"string", "comma", "end"}
    BY <1>2 DEF Open, Comma, Close
  <2>. QED
    BY <2>1, GapWhole DEF WholeRead
<1>3. CASE Accept
  <2>1. pc' \in {"stray", "done"}
    BY <1>3 DEF Accept
  <2>. QED
    BY <1>3, <2>1, AcceptWhole DEF WholeRead
<1>. QED
  BY <1>1, <1>2, <1>3

LEMMA StringStepWhole ==
  ASSUME IInv, NEW line, NEW q, Reads(line, q), Now(line, q), WholeRead(line, pc, tmp),
         StringByte \/ StringContinued \/ StringEscape \/ StringHexEscape \/ StringEnds
  PROVE  WholeRead(line, pc', tmp')
<1>1. CASE StringByte
  <2>1. /\ pc = "string" /\ pc' = "string" /\ tmp < Len(text) /\ tmp' = tmp + 1
        /\ text[tmp + 1] # "lf"
    BY <1>1 DEF StringByte, At, Control
  <2>2. CASE Stuck(text, tmp)
    BY <2>1, <2>2, Given, StuckAt DEF WholeRead
  <2>3. CASE ~Stuck(text, tmp)
    BY <2>1, <2>3, StringWhole DEF WholeRead
  <2>. QED
    BY <2>2, <2>3
<1>2. CASE StringContinued
  <2>1. pc = "string" /\ pc' = "string" /\ Continues(text, tmp) /\ tmp' = Continuation(text, tmp)
    BY <1>2 DEF StringContinued
  <2>2. tmp < Len(text) /\ text[tmp + 1] = "esc"
    BY <2>1, Given, ContinuationAdvances DEF At
  <2>3. ~Stuck(text, tmp)
    BY <2>2, Given, StuckAt DEF Whitespace
  <2>. QED
    BY <2>1, <2>3, StringWhole DEF WholeRead
<1>3. CASE StringEscape
  <2>1. /\ Escape /\ pc' = "string" /\ At(text, Once(tmp + 1), Named)
        /\ tmp' = Once(tmp + 1) + 1
    BY <1>3 DEF StringEscape, Escape
  <2>2. "lf" \notin Named
    BY Given DEF Named
  <2>. QED
    BY <2>1, <2>2, EscapeWhole DEF WholeRead
<1>4. CASE StringHexEscape
  <2>1. /\ Escape /\ pc' = "hex" /\ At(text, Once(tmp + 1), {"u"})
        /\ tmp' = Once(tmp + 1) + 1
    BY <1>4 DEF StringHexEscape
  <2>. QED
    BY <2>1, EscapeWhole DEF WholeRead
<1>5. CASE StringEnds
  <2>1. /\ pc = "string" /\ pc' = "closed" /\ tmp' = tmp + 1
        /\ tmp < Len(text) /\ text[tmp + 1] = "quote"
    BY <1>5 DEF StringEnds, At
  <2>2. ~Stuck(text, tmp)
    BY <2>1, Given, StuckAt DEF Whitespace
  <2>. QED
    BY <2>1, <2>2, StringWhole DEF WholeRead
<1>. QED
  BY <1>1, <1>2, <1>3, <1>4, <1>5

LEMMA HexStepWhole ==
  ASSUME IInv, NEW line, NEW q, Reads(line, q), Now(line, q), WholeRead(line, pc, tmp),
         HexDigit \/ CodeUnit \/ HighSurrogate \/ LowSurrogate \/ LowBackslash \/ LowU
  PROVE  WholeRead(line, pc', tmp')
<1>1. /\ pc \in {"hex", "backslash", "u"} /\ pc' \in {"string", "hex", "backslash", "u"}
      /\ tmp' = Once(tmp) + 1
      /\ At(text, Once(tmp), Digit) \/ At(text, Once(tmp), {backslash}) \/ At(text, Once(tmp), {"u"})
  BY DEF HexDigit, CodeUnit, HighSurrogate, LowSurrogate, LowBackslash, LowU, AtDigit, Escaped16
<1>2. PICK C : /\ At(text, Once(tmp), C) /\ "lf" \notin C /\ C \cap Whitespace = {}
  <2>1. "lf" \notin Digit /\ Digit \cap Whitespace = {}
    BY DEF Digit, Digits, ToSet, Whitespace
  <2>2. "lf" \notin {backslash} /\ {backslash} \cap Whitespace = {}
    BY Given DEF Whitespace
  <2>3. "lf" \notin {"u"} /\ {"u"} \cap Whitespace = {}
    BY DEF Whitespace
  <2>. QED
    BY <1>1, <2>1, <2>2, <2>3
<1>3. \/ Stuck(text, tmp')
      \/ WholeTo(line, tmp') /\ tmp' \in Nat \ {0} /\ Belongs(text, tmp' - 1)
  BY <1>1, <1>2, InsideWhole
<1>. QED
  BY <1>1, <1>3 DEF WholeRead

LEMMA WholeKept ==
  ASSUME Fixed, NEW line, NEW q, Reads(line, q), WholeRead(line, pc', tmp')
  PROVE  WholeInv'
<1>1. Reads(line, q)'
  BY ReadsKept
<1>2. \A e : Size(line, e)' = Size(line, e)
  BY PairsKept
<1>3. \A m : Inside(line, m)' <=> Inside(line, m)
  BY <1>2, UnescapedKept DEF Inside
<1>4. \A m : Sparse(line, m)' <=> Sparse(line, m)
  BY DEF Sparse, Fixed
<1>5. \A i : WholeTo(line, i)' <=> WholeTo(line, i)
  BY <1>3, <1>4 DEF WholeTo
<1>6. BrokenTwice(line, Markers(text))' <=> BrokenTwice(line, Markers(text))
  BY <1>2, UnescapedKept DEF BrokenTwice, Fixed
<1>7. WholeRead(line, pc, tmp)'
  <2>1. WholeTo(line, tmp)' <=> WholeTo(line, tmp')
    BY <1>3, <1>4 DEF WholeTo
  <2>. QED
    BY <1>6, <2>1 DEF WholeRead, Fixed
<1>. QED
  BY <1>1, <1>7 DEF WholeInv

LEMMA InitWhole ==
  ASSUME Init
  PROVE  WholeInv
<1>1. PICK line : line = Ordered(Bytes(text), Len(text))
  OBVIOUS
<1>2. PICK q : q = Ordered(Unescaped(line, "quote"), Len(line) + 1)
  OBVIOUS
<1>3. Reads(line, q) /\ Len(text) \in Nat
  BY <1>1, <1>2, InputsAreSequences DEF Reads, Init
<1>4. WholeTo(line, 1)
  <2>1. SUFFICES ASSUME NEW m, Inside(line, m), line[m + 1] < 1 PROVE FALSE
    BY DEF WholeTo
  <2>2. PICK x : x = m + 1
    OBVIOUS
  <2>3. m \in 1..Len(line) /\ x \in 1..Len(line) /\ m < x
    BY <1>3, <2>1, <2>2, LineIs DEF Inside, Sound
  <2>4. line[m] < line[x] /\ line[m] \in Nat /\ line[x] \in Nat
    BY <1>3, <2>3, LineIs
  <2>. QED
    BY <2>1, <2>2, <2>4
<1>5. pc = "opened" /\ tmp = 1
  BY DEF Init
<1>. QED
  BY <1>3, <1>4, <1>5 DEF WholeInv, WholeRead

LEMMA NextWhole ==
  ASSUME IInv, ParseInv, WholeInv, [Next]_vars
  PROVE  WholeInv'
<1>1. PICK line, q : Reads(line, q) /\ Now(line, q)
  BY DEF ParseInv, Now
<1>2. WholeRead(line, pc, tmp)
  BY <1>1 DEF WholeInv, Reads
<1>3. Fixed
  BY DEF Fixed, Next, vars, scanning, escape, Reject, Escaped16, Skip, Open, Comma, Close,
         Unexpected, StringByte, StringContinued, StringEscape, StringHexEscape, BadEscape,
         HexDigit, CodeUnit, HighSurrogate, LowSurrogate, LoneSurrogate, LowBackslash, LowU,
         BadHexEscape, BadString, StringEnds, Accept, Trailing
<1>4. WholeRead(line, pc', tmp')
  <2>1. CASE UNCHANGED vars
    BY <1>2, <2>1 DEF vars, scanning
  <2>2. CASE Reject
    BY <2>2 DEF Reject, WholeRead
  <2>3. CASE Skip \/ Open \/ Comma \/ Close \/ Accept
    BY <1>1, <1>2, <2>3, BetweenWhole
  <2>4. CASE StringByte \/ StringContinued \/ StringEscape \/ StringHexEscape \/ StringEnds
    BY <1>1, <1>2, <2>4, StringStepWhole
  <2>5. CASE HexDigit \/ CodeUnit \/ HighSurrogate \/ LowSurrogate \/ LowBackslash \/ LowU
    BY <1>1, <1>2, <2>5, HexStepWhole
  <2>6. CASE \/ Unexpected \/ BadEscape \/ LoneSurrogate \/ BadHexEscape \/ BadString \/ Trailing
    BY <2>2, <2>6 DEF Unexpected, BadEscape, LoneSurrogate, BadHexEscape, BadString, Trailing
  <2>. QED
    BY <2>1, <2>3, <2>4, <2>5, <2>6 DEF Next
<1>. QED
  BY <1>1, <1>3, <1>4, WholeKept

LEMMA WholeInvariance == Spec => [](IInv /\ ParseInv /\ WholeInv)
<1>1. Init => IInv /\ ParseInv /\ WholeInv
  BY InitInv, InitParse, InitWhole
<1>2. IInv /\ ParseInv /\ WholeInv /\ [Next]_vars => (IInv /\ ParseInv /\ WholeInv)'
  BY NextInv, NextParse, NextWhole
<1>. QED
  BY <1>1, <1>2, PTL DEF Spec

(* A line is read as an array exactly if, its continuations removed, it is  *)
(* a JSON array of strings and none of its escapes is broken by two         *)
(* continuations in a row; otherwise the reader falls back on words or a    *)
(* shell form.  The strings are those JSON says: each with the characters   *)
(* of the bytes between two quotes, in their order.                         *)
THEOREM ArrayCorrect == Spec => []ArrayOfTheLine
<1>1. ASSUME IInv, ParseInv, WholeInv PROVE ArrayOfTheLine
  <2>1. PICK line, q : Reads(line, q) /\ Now(line, q)
    BY <1>1 DEF ParseInv, Now
  <2>2. ASSUME pc = "done"
        PROVE  /\ Len(res) * 2 = Len(q)
               /\ \A i \in DOMAIN res :
                    LET value == res[i].value IN
                    /\ ToSet(value) = Chars(line, q[2 * i - 1], q[2 * i])
                    /\ \A j, k \in DOMAIN value : j < k => value[j][1] < value[k][1]
    <3>1. Len(res) * 2 = Len(q) /\ StringsRead(line, q, res)
      BY <2>1, <2>2 DEF Now, Parses
    <3>2. DOMAIN res = 1..Len(res)
      BY <1>1, Basics
    <3>3. \A i \in 1..Len(res) : DOMAIN res[i].value = 1..Len(res[i].value)
      BY <1>1, Strings
    <3>. QED
      BY <3>1, <3>2, <3>3 DEF StringsRead, Rising
  <2>3. pc = "done" => IsRead(line, q, Markers(text))
    BY <1>1, <2>1 DEF Now, Parses, WholeInv, WholeRead, Reads, IsRead
  <2>4. pc = "fallback" => ~IsRead(line, q, Markers(text))
    <3>1. pc = "fallback" => Doomed(line, q)
      BY <2>1 DEF Now, Parses
    <3>. QED
      BY <3>1 DEF Doomed
  <2>5. pc \in {"done", "fallback"} => (pc = "done" <=> IsRead(line, q, Markers(text)))
    BY <2>3, <2>4
  <2>. QED
    BY <2>1, <2>2, <2>5 DEF ArrayOfTheLine, Reads
<1>. QED
  BY <1>1, WholeInvariance, PTL
=============================================================================
