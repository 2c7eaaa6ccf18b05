SPECIFICATION Spec
CONSTANTS
  None = None
  c1 = c1
  c2 = c2
  p1 = p1
  p2 = p2
  main = main
  dev = dev
  Refs = {main, dev}
  Clones = {c1}
  Procs = {p1}
  cloneOf <- Alone
  Wallet <- Two
  NodeFeeMin = 2
  AnchorFeeMin = 1
  TxIds <- Positions
  MaxLimbo = 1
INVARIANTS
  HeadsOnChain
  AncestryOfRef
  TreeOfPush
  FeePoolExact
  OkIsAnchored
PROPERTY DiskMovesForward
