SPECIFICATION Spec
CONSTANTS
  None = None
  Found = Found
  main = main
  dev = dev
  Refs = {main}
  TxIds <- Three
  Commits <- TwoNotes
  filesOf <- Files
  MaxNews = 4
PROPERTY DiscoveredIsFetched
