\* The line of an error in a delimiter.
SPECIFICATION Spec
CONSTANTS
  Char = {"a", "dash", "eq", "sp", "tab", "lf", "cr", "hash", "esc", "lt", "d", "dq", "sq", "bs"}
  MaxLen = 24
  Inputs <- McInputs
  Before <- McBefore
  NoValue = NoValue
  NoQuote = NoQuote
INVARIANT
  LineOfTheError
CHECK_DEADLOCK FALSE
