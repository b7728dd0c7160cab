\* Every head of a text of up to MaxLines lines.
SPECIFICATION Spec
CONSTANTS
  MaxLines = 4
  NoDirective = NoDirective
INVARIANTS
  TypeOK
  EscapeConsistent
  SectionMeaning
  LeadingSkipped
PROPERTIES
  NeverRevised
CHECK_DEADLOCK FALSE
