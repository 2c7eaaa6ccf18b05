SPECIFICATION Spec
CONSTANTS
  None = None
  c1 = c1
  c2 = c2
  p1 = p1
  p2 = p2
  main = main
  dev = dev
  Refs = {main}
  Clones = {c1}
  Procs = {p1, p2}
  cloneOf <- Together
  Wallet <- Three
  NodeFeeMin = 2
  AnchorFeeMin = 1
  TxIds <- Positions
  MaxLimbo = 0
INVARIANTS
  TypeOK
  NoFork
VIEW Core
SYMMETRY Interchangeable
