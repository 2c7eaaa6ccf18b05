SPECIFICATION Spec
CONSTANTS
  None = None
  Regular = Regular
  VaultKey = VaultKey
  x = x
  y = y
  Paths <- Branch
  FilesAt <- FilesIn
  AttrPath <- TheAttributes
  textPlace <- Places
  MaxCommits = 3
  MaxChanges = 4
INVARIANTS
  TypeOK
  TreeIsWhole
  CloneIsTip
  ReadableIsRead
  AccessFollowsAttributes
  NothingInvented
CHECK_DEADLOCK FALSE
