\* Texts with continuations, comments, blank lines and both newlines.
SPECIFICATION Spec
CONSTANTS
  Char = {"a", "sp", "lf", "hash", "cr", "ff", "esc"}
  MaxLen = 7
  Inputs <- McInputs
INVARIANTS
  WordsOfTheLine
  EndsWithTheLine
  SpansApart
CHECK_DEADLOCK FALSE
