\* Images and names, broken up by continuations.
SPECIFICATION FromSpec
CONSTANTS
  Char = {"a", "A", "S", "sp", "lf", "cr", "esc"}
  MaxLen = 21
  Inputs <- McInputs
  NoName = NoName
  NoError = NoError
INVARIANTS
  WordsDecide
  LeavesTheNewline
CHECK_DEADLOCK FALSE
