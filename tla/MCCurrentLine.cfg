\* Texts with continuations, comments, blank lines and both newlines.
SPECIFICATION Spec
CONSTANTS
  Char = {"a", "sp", "lf", "hash", "cr", "ff", "esc"}
  MaxLen = 7
  Inputs <- McInputs
INVARIANTS
  EndsWithTheLine
  HoldsTheLine
  CommentsAreBehind
CHECK_DEADLOCK FALSE
