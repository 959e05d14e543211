SPECIFICATION FairSpec
CONSTANTS
  Clients = {c1, c2}
  a = a
  b = b
  Ids <- MCIds
  Loads <- MCLoads
  Modes = {"wal", "delete", "pg"}
  MaxVersion = 2
  MaxWrites = 3
  ReuseIds = FALSE
  Absent = Absent
  Untouched = Untouched
  Unread = Unread
INVARIANTS
  TypeOK
  VersionNamesBody
  WriterSeesLatest
PROPERTIES
  NoLostUpdate
  ReadScopeStable
  StatementsEnd
