\* The escape byte is the backslash, or it is not.
SPECIFICATION Spec
CONSTANTS
  Char = {"open", "close", "quote", "comma", "a", "n", "u", "sp", "tab", "cr", "lf", "esc", "0", "3", "5", "8", "9", "A", "C", "D", "F", "bs"}
  MaxLen = 34
  Inputs <- McInputs
INVARIANTS
  EndsWithTheLine
  SpansBetweenQuotes
  ArrayOfTheLine
PROPERTIES
  Terminates
CHECK_DEADLOCK FALSE
