SPECIFICATION FairSpec
CONSTANTS
  c1 = c1
  s1 = s1
  s2 = s2
  p1 = p1
  p2 = p2
  Clients = {c1}
  Slots = {1}
  Publishers = {1}
  Ttls <- TtlExtremes
  MaxTtl = 2
  BatchSize = 1
  IdsPerTick = 8
  MaxMsgs = 2
  MaxClock = 3
INVARIANTS TypeOK Fifo
PROPERTIES Broadcast EventuallyGiven EventuallyAnswered
