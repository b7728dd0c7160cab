\* Every text of up to MaxLen instructions, two stage names.
SPECIFICATION Spec
CONSTANTS
  Name = {a, b}
  NoName = NoName
  NoIndex = NoIndex
  Pending = Pending
  MaxLen = 4
INVARIANTS
  TypeOK
  StagesTile
  AccessorsTotal
  NamesExact
PROPERTIES
  ParsePromise
CHECK_DEADLOCK FALSE
