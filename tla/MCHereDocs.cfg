\* The instructions with here-documents, from their flags to the last line.
SPECIFICATION Spec
CONSTANTS
  Char = {"a", "dash", "eq", "sp", "tab", "lf", "cr", "hash", "esc", "lt", "d", "dq", "sq", "bs"}
  MaxLen = 24
  Inputs <- McInputs
  Before <- McBefore
  NoValue = NoValue
  NoQuote = NoQuote
INVARIANTS
  FlagsOfTheLine
  RestIsLeft
  DelimOfTheWord
  SourcesOfTheLine
  DocsOfTheLines
  Located
PROPERTIES
  Terminates
CHECK_DEADLOCK FALSE
