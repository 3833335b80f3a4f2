SPECIFICATION Spec
CONSTANTS
  x = x
  y = y
  NoRes = NoRes
  Absent = Absent
  NoVal = NoVal
  Ids <- MCIds
  Vals <- MCVals
  BadVals <- MCBadVals
  OnVals <- MCOnVals
  Trees <- MCTrees
  DirectTrees <- NoTrees
  InitialTree <- Chain
  MaxCommits = 2
INVARIANTS
  MergedApplies
CHECK_DEADLOCK FALSE
