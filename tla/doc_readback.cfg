SPECIFICATION Spec
CONSTANTS
  None = None
  Regular = Regular
  VaultKey = VaultKey
  x = x
  y = y
  Paths <- Branch
  FilesAt <- FilesIn
  AttrPath <- TheAttributes
  textPlace <- Places
  MaxCommits = 3
  MaxChanges = 4
INVARIANT OwnerReadsBack
CHECK_DEADLOCK FALSE
