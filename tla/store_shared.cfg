SPECIFICATION Spec
CONSTANTS
  None = None
  Torn = Torn
  p1 = p1
  p2 = p2
  r1 = r1
  r2 = r2
  n1 = n1
  t1 = t1
  t2 = t2
  Procs = {p1, p2}
  Coins <- NoCoins
  PNodes = {n1}
  Refs = {r1}
  Txids = {t1, t2}
  Minima = {1, 2}
PROPERTY KeepsPromise
