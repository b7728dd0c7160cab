\* Texts with continuations, comments, blank lines and both newlines.
SPECIFICATION ArgSpec
CONSTANTS
  Char = {"a", "sp", "lf", "hash", "cr", "ff", "esc"}
  MaxLen = 7
  Inputs <- McInputs
INVARIANTS
  TypeOK
  MeansTheLine
  ArgEndsWithTheLine
  SpanHolds
CHECK_DEADLOCK FALSE
