SPECIFICATION FairSpec
CONSTANTS
  t1 = t1
  t2 = t2
  s1 = s1
  fix = fix
  done = done
  ip1 = ip1
  ip2 = ip2
  Tasks <- MCTasks
  Stories <- MCStories
  Messages <- MCMessages
  Events <- MCEvents
  MaxBuilds = 3
  NodeIds <- MCNodeIds
  Addresses <- MCAddresses
  NoNode = NoNode
INVARIANTS
  TypeOK
  SuccessMoved
  NoMessageTwice
  StatusHasCause
  RunNamesItsBuild
  StatusWasTrue
  ListingComplete
  KeysWanted
  NodeAnswersTrue
PROPERTIES
  RedeliveryHeals
