SPECIFICATION FairSpec
CONSTANTS
  x = x
  y = y
  NoRes = NoRes
  Absent = Absent
  NoVal = NoVal
  Ids <- MCIds
  Vals <- MCVals
  BadVals <- MCBadVals
  OnVals <- MCOnVals
  Trees <- FewTrees
  DirectTrees <- NoTrees
  InitialTree <- Chain
  MaxCommits = 3
INVARIANTS
  MasterValid
PROPERTIES
  RetryHeals
  FollowsCommits
CHECK_DEADLOCK FALSE
