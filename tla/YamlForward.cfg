SPECIFICATION Spec
CONSTANTS
  None = None
  Error = Error
  Refs <- ReadRefs
  Interrupts = TRUE
  MaxCommits = 5
  Broken <- MCBroken
  Blank <- MCBlank
INVARIANTS
  TypeOK
PROPERTIES
  ReadsTrue
