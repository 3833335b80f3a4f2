SPECIFICATION Spec
CONSTANTS
  g1 = g1
  g2 = g2
  r1 = r1
  r2 = r2
  a1 = a1
  one = one
  both = both
  none = none
  option = option
  worded = worded
  torn = torn
  Groups <- MCGroups
  Repos <- MCRepos
  Labels <- MCLabels
  Rules <- MCRules
  GroupsIn <- MCGroupsIn
  WithOptions <- MCWithOptions
  Without <- MCWithout
  Glued <- MCGlued
  Formatted <- MCFormatted
  NoAcl = NoAcl
  Trees <- MCTrees
  Configs <- MCConfigs
INVARIANTS
  TypeOK
  ProposalSound
  OnlyLostDangle
  NotProposedAgain
