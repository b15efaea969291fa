SPECIFICATION MonitorSpec
CONSTANTS
  c1 = c1
  c2 = c2
  None = None
  Clients = {c1, c2}
  Heartbeats = {c1}
  Limits = {1, 2}
  Batch = 1
  MaxBatches = 3
  PageSize = 2
  MaxTtl = 1
  MaxSent = 4
  MaxTime = 1
INVARIANTS NewestFirst NothingMissed DumpComplete
PROPERTY ReadsEnd
