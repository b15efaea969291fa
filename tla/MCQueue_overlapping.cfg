SPECIFICATION Spec
CONSTANTS
  c1 = c1
  s1 = s1
  s2 = s2
  p1 = p1
  p2 = p2
  Clients = {c1}
  Slots = {s1, s2}
  Publishers = {p1, p2}
  Ttls <- TtlExtremes
  MaxTtl = 1
  BatchSize = 2
  IdsPerTick = 8
  MaxMsgs = 2
  MaxClock = 3
SYMMETRY Interchangeable
INVARIANTS NoSkip AckedOutlivesKey
