SPECIFICATION LogSpec
CONSTANTS
  c1 = c1
  c2 = c2
  None = None
  Prefixes <- SomePrefixes
  Paths <- SomePaths
  Rescue = TRUE
  MaxPerms = 2
  Clients = {c1, c2}
  Topics <- SomeTopics
  Limits = {1}
  Factor = 3
  PerfFactor = 2
  Ceiling = 2
  LogLen = 2
  LogRows <- SomeRows
  MaxSent = 2
INVARIANTS LogMatchesAnswers LogPage ListingsMatchCheck ScopeHonest
PROPERTY AppendKeepsAccess
SYMMETRY DeviceSymmetry
