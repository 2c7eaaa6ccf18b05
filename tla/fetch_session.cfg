SPECIFICATION FairSpec
CONSTANTS
  None = None
  Found = Found
  main = main
  dev = dev
  Refs = {main, dev}
  TxIds <- Three
  Commits <- TwoNotes
  filesOf <- Files
  MaxNews = 4
INVARIANTS
  TypeOK
  CommitsFollowAnchors
  MarksGivenOnce
  DoneIsComplete
  ListAgreesWithImport
PROPERTY ImportAnswered
