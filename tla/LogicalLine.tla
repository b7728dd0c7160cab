------------------------------ MODULE LogicalLine ------------------------------
(***************************************************************************)
(* What an instruction's line means, told line by line, as the Dockerfile   *)
(* format is usually told: a line that ends with the escape character goes  *)
(* on, comment and blank lines in between do not count, and what is left is *)
(* joined.  Nothing here scans byte by byte: it is the reference the        *)
(* scanners are checked against.                                            *)
(***************************************************************************)
EXTENDS Scanner

(* Physical lines, named by where they start.                               *)
Lines(t) == {0} \cup {k \in 1..Len(t) : t[k] = "lf"}
EndOf(t, l) == Min({j \in l..Len(t) : j = Len(t) \/ t[j + 1] = "lf"})
Terminated(t, l) == EndOf(t, l) < Len(t)
RestOf(t, l, i) == {t[j + 1] : j \in i..EndOf(t, l) - 1}

(* The escape character ends a line if at most whitespace follows it; a     *)
(* carriage return is part of the newline.                                  *)
Marker(t, l, i) ==
  /\ Terminated(t, l)
  /\ i \in l..EndOf(t, l) - 1
  /\ t[i + 1] = "esc"
  /\ RestOf(t, l, i + 1) \subseteq Whitespace
  /\ \/ i + 1 = EndOf(t, l)
     \/ t[i + 2] \in Space
     \/ t[i + 2] = "cr" /\ i + 2 = EndOf(t, l)
GoesOn(t, l) == \E i \in l..EndOf(t, l) - 1 : Marker(t, l, i)

(* The lines that do not count, after the first.                            *)
Blank(t, l) == Terminated(t, l) /\ RestOf(t, l, l) \subseteq Whitespace
Comment(t, l) ==
  \E i \in l..EndOf(t, l) - 1 :
    t[i + 1] = "hash" /\ \A j \in l..i-1 : t[j + 1] \in Whitespace
Counts(t, l) == l = 0 \/ ~(Blank(t, l) \/ Comment(t, l))

(* The line the instruction ends on, and where the next one starts.         *)
Ends(t) == {l \in Lines(t) : Counts(t, l) /\ ~GoesOn(t, l)}
LastLine(t) == IF Ends(t) = {} THEN Len(t) ELSE Min(Ends(t))
After(t) == Min({Len(t), EndOf(t, LastLine(t)) + 1})

(* The bytes of the instruction: those of its lines that count, up to the   *)
(* escape character or the newline.                                         *)
LineOf(t, i) == Max({l \in Lines(t) : l <= i})
BelongsTo(t, i, last) ==
  LET l == LineOf(t, i) IN
  /\ l <= last
  /\ Counts(t, l)
  /\ t[i + 1] # "lf"
  /\ \A m \in l..i : ~Marker(t, l, m)
Belongs(t, i) == BelongsTo(t, i, LastLine(t))
Bytes(t) ==
  LET last == LastLine(t) IN {i \in 0..Len(t) - 1 : BelongsTo(t, i, last)}

(* Where it is continued.                                                   *)
Markers(t) == {i \in 0..Len(t) - 1 : Counts(t, LineOf(t, i)) /\ Marker(t, LineOf(t, i), i)}

(* The bytes without the whitespace around them.                            *)
Solid(t, bytes) == {i \in bytes : t[i + 1] \notin Whitespace}
Trimmed(t, bytes) ==
  LET solid == Solid(t, bytes) IN
  {i \in bytes : (\E j \in solid : j <= i) /\ (\E j \in solid : i <= j)}
=============================================================================
