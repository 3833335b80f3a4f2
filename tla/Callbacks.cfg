SPECIFICATION Spec
CONSTANTS
  admin = admin
  joe = joe
  bot = bot
  sub = sub
  acl = acl
  plain = plain
  dev = dev
  ops = ops
  r1 = r1
  r2 = r2
  d1 = d1
  d2 = d2
  Texts <- MCTexts
  People <- MCPeople
  Admin = admin
  Nameless <- MCNameless
  Subgroups <- MCSubgroups
  NoGroup = NoGroup
  Acls <- MCAcls
  AclGroups <- MCAclGroups
  Plain = plain
  NoRepo = NoRepo
  Repos <- MCRepos
  NoNote = NoNote
  Absent = Absent
SYMMETRY MCSymmetry
INVARIANTS
  TypeOK
  QuietIsDone
  CalmOutcome
  CutShort
