SPECIFICATION FairSpec
CONSTANTS
  Updates <- MCUpdates
INVARIANTS
  TypeOK
  RecordsTrue
  Tracked
  FreshAnswers
PROPERTIES
  VerdictStays
  EndedIsRecorded
