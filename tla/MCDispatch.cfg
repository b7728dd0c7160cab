\* Which instruction a line is, and which form its arguments have.
SPECIFICATION Spec
CONSTANTS
  Char = {"A", "B", "C", "D", "E", "F", "G", "H", "I", "K", "L", "M", "N", "O", "P", "R", "S", "T", "U", "V", "W", "X", "Y", "g", "l", "m", "n", "o", "u", "0", "1", "sp", "lf", "cr", "hash", "esc", "bs", "dash", "open", "close", "quote", "comma"}
  MaxLen = 60
  Inputs <- McInputs
INVARIANTS
  InstructionsOfTheLines
  ErrorOfTheLine
CHECK_DEADLOCK FALSE
