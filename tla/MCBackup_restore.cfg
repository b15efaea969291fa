SPECIFICATION Spec
CONSTANTS
  ca = ca
  ua = ua
  ka = ka
  qb = qb
  xa = xa
  lg = lg
  a = a
  b = b
  s1 = s1
  v1 = v1
  v2 = v2
  Null = Null
  Items = {ca, ua, ka, qb, xa, lg}
  Kind <- KindOf
  Apps = {a, b}
  KeyApp <- Key
  Secrets = {s1}
  Values = {v1, v2}
  Stock <- Full
  StockTop = 1
  MaxTraffic = 1
  MaxRestores = 2
INVARIANTS TypeOK DumpExact RestoreExact FailsOnlyOnTraffic
