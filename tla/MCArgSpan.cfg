\* The span of an argument and the value that was trimmed.
SPECIFICATION ArgSpec
CONSTANTS
  Char = {"a", "sp", "lf", "hash", "cr", "ff", "esc"}
  MaxLen = 7
  Inputs <- McInputs
PROPERTIES
  SpanTrimmedWithValue
CHECK_DEADLOCK FALSE
