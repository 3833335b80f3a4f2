SPECIFICATION Spec
CONSTANTS
  None = None
  Error = Error
  Refs <- ApplyRefs
  Interrupts = TRUE
  MaxCommits = 5
  Broken <- MCBroken
  Blank <- MCBlank
INVARIANTS
  ReadsHead
