----------------------------- MODULE LogicalWords -------------------------------
(***************************************************************************)
(* The words of a logical line and the flags among them: the reference for  *)
(* everything that reads a line word by word.                               *)
(***************************************************************************)
EXTENDS LogicalLine

(* The words of the logical line, each as the set of its bytes: its maximal *)
(* runs without whitespace, also those a continuation runs through.         *)
Between(i, j) == (i + 1..j - 1) \cup (j + 1..i - 1)
Joined(line, solid, i, j) == line \cap Between(i, j) \subseteq solid
Runs(line, solid) == {{j \in solid : Joined(line, solid, i, j)} : i \in solid}
LineWords(t) ==
  LET line == Bytes(t) IN Runs(line, Solid(t, line))
(* The k-th word is the one with k - 1 words before it.                     *)
Earlier(words, w) == {v \in words : Min(v) < Min(w)}
InOrder(words) ==
  [k \in 1..Cardinality(words) |-> CHOOSE w \in words : Cardinality(Earlier(words, w)) = k - 1]

(* The first bytes of a flag are dashes.                                    *)
IsFlag(t, word) ==
  \E i, j \in word :
    /\ i < j /\ \A k \in word : k \in {i, j} \/ k > j
    /\ t[i + 1] = "dash" /\ t[j + 1] = "dash"

(* The words that are flags, up to the first that is none.                  *)
LeadingFlags(t, words) ==
  LET plain == {w \in DOMAIN words : ~IsFlag(t, words[w])}
  IN IF plain = {} THEN words ELSE SubSeq(words, 1, Min(plain) - 1)
FlagWords(t) == LeadingFlags(t, InOrder(LineWords(t)))
=============================================================================
