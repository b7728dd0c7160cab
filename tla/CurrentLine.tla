------------------------------ MODULE CurrentLine ------------------------------
(***************************************************************************)
(* The shell form of CMD, ENTRYPOINT, RUN and HEALTHCHECK CMD: everything   *)
(* up to the end of the line, escape characters preserved                   *)
(* (consume_current_line), less the whitespace at its end (trim_end).       *)
(*                                                                          *)
(* Init is the call of CMD: text is what is left once the keyword has been  *)
(* read, as in Words.  HereDocs calls it for RUN.                           *)
(***************************************************************************)
EXTENDS LineReader

(* pc is "line", "trim", then "done" or "empty".                            *)
VARIABLES
  has_whitespace_only, \* only whitespace since the last continuation
  arguments_start,     \* where the arguments start
  end                  \* where they end

vars == <<text, s, pc, has_whitespace_only, arguments_start, end>>

-----------------------------------------------------------------------------
Init ==
  /\ text \in Inputs
  /\ ~At(text, 0, Whitespace) /\ ~Continues(text, 0)
  /\ s = 0
  /\ pc = "line"
  /\ has_whitespace_only = FALSE
  /\ arguments_start = 0
  /\ end = 0

(* The call at s.                                                           *)
Starts ==
  /\ pc' = "line"
  /\ has_whitespace_only' = FALSE
  /\ arguments_start' = s' /\ end' = s'

LineEnds ==
  /\ pc = "line"
  /\ s = Len(text) \/ Newline(text, s) # s
  /\ s' = Newline(text, s)
  /\ pc' = "trim"
  /\ UNCHANGED <<text, has_whitespace_only, arguments_start, end>>

LineContinued ==
  /\ pc = "line"
  /\ Continues(text, s)
  /\ s' = Continuation(text, s)
  /\ has_whitespace_only' = TRUE
  /\ UNCHANGED <<text, pc, arguments_start, end>>

AtComment == has_whitespace_only /\ At(text, s, {"hash"})

(* Faulty variant of LineByte: the flag is not reset by other bytes.        *)
LineByteKeepsFlag ==
  /\ pc = "line"
  /\ s < Len(text)
  /\ Newline(text, s) = s /\ ~Continues(text, s)
  /\ IF AtComment
     THEN s' = NextLine(text, s + 1)
     ELSE s' = s + 1
  /\ UNCHANGED <<text, pc, has_whitespace_only, arguments_start, end>>

LineByte ==
  /\ pc = "line"
  /\ s < Len(text)
  /\ Newline(text, s) = s /\ ~Continues(text, s)
  /\ IF AtComment
     THEN s' = NextLine(text, s + 1) /\ UNCHANGED has_whitespace_only
     ELSE /\ s' = s + 1
          /\ has_whitespace_only' = (has_whitespace_only /\ At(text, s, Whitespace))
  /\ UNCHANGED <<text, pc, arguments_start, end>>

(* Faulty variant of TrimEnd: only the newline is taken off.                *)
TrimNewline ==
  /\ pc = "trim"
  /\ end' = Max({arguments_start} \cup {i \in arguments_start + 1..s : text[i] \notin PossibleLine})
  /\ pc' = IF end' = arguments_start THEN "empty" ELSE "done"
  /\ UNCHANGED <<text, s, has_whitespace_only, arguments_start>>

(* The whole slice is trimmed, newlines and all.                            *)
TrimEnd ==
  /\ pc = "trim"
  /\ end' = Max({arguments_start} \cup {i \in arguments_start + 1..s : text[i] \notin Whitespace \cup PossibleLine})
  /\ pc' = IF end' = arguments_start THEN "empty" ELSE "done"
  /\ UNCHANGED <<text, s, has_whitespace_only, arguments_start>>

Next ==
  \/ LineEnds
  \/ LineContinued
  \/ LineByte
  \/ TrimEnd

Spec == Init /\ [][Next]_vars /\ WF_vars(Next)

-----------------------------------------------------------------------------
(* The arguments end with the logical line, where they would have ended for *)
(* the instructions that collect words or a string; a # after other bytes   *)
(* is an argument.                                                          *)
EndsWithTheLine == pc \in {"trim", "done", "empty"} => s = After(text)

(* Every byte of the logical line that is not whitespace is an argument, and*)
(* the last argument byte is none; there are none only if the line is blank.*)
HoldsTheLine ==
  pc \in {"done", "empty"} =>
    LET solid == Solid(text, Bytes(text)) IN
    /\ solid \subseteq 0..end-1
    /\ pc = "empty" <=> solid = {}
    /\ pc = "done" => text[end] \notin Whitespace \cup PossibleLine

(* consume_current_line never meets a comment line of its own: followup has *)
(* consumed those after each continuation, whitespace before the # or not.  *)
CommentsAreBehind == pc = "line" => ~AtComment
=============================================================================
