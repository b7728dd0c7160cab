\* parse() and parse_iter() side by side on every text of up to MaxLen instructions.
SPECIFICATION BothSpec
CONSTANTS
  Name = {a}
  NoName = NoName
  NoIndex = NoIndex
  Pending = Pending
  MaxLen = 5
INVARIANTS
  InOrder
  SameInstructions
  SameErrors
PROPERTIES
  Fused
  PullPromise
