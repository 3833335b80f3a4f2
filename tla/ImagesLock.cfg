SPECIFICATION Spec
CONSTANTS
  Updates <- MCUpdates
INVARIANTS
  LockIsHeld
