SPECIFICATION Spec
CONSTANTS
  NoRow = NoRow
  NoReq = NoReq
  People <- MCPeople
  Admin = "admin"
  ExtIds <- MCExtIds
  Owner <- MCOwner
  Infos <- MCInfos
  Old = Old
  New = New
  User1 = User1
  User2 = User2
  UserIds <- MCUserIds
  GerritIds <- MCGerritIds
SYMMETRY Symmetry
INVARIANTS
  OneMapping
