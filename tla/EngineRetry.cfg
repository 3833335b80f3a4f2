SPECIFICATION Spec
CONSTANTS
  x = x
  y = y
  NoRes = NoRes
  Absent = Absent
  NoVal = NoVal
  Ids <- MCIds
  Vals <- MCVals
  BadVals <- MCBadVals
  OnVals <- MCOnVals
  Trees <- MCTrees
  DirectTrees <- DirectMix
  InitialTree <- Chain
  MaxCommits = 2
INVARIANTS
  TypeOK
  RefreshComplete
  CallbackDataReady
  DependenciesFirst
  RunConverges
  SuccessIsTrue
  AlwaysRepairable
CHECK_DEADLOCK FALSE
