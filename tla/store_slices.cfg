SPECIFICATION Spec
CONSTANTS
  None = None
  Torn = Torn
  p1 = p1
  p2 = p2
  r1 = r1
  r2 = r2
  n1 = n1
  t1 = t1
  t2 = t2
  Procs = {p1}
  Coins <- ThreeCoins
  PNodes = {}
  Refs = {r1, r2}
  Txids = {t1}
  Minima = {1, 2}
INVARIANT KeysUnique
PROPERTY KeepsPromise
