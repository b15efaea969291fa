SPECIFICATION Spec
CONSTANTS
  k1 = k1
  c1 = c1
  w1 = w1
  w2 = w2
  s1 = s1
  s2 = s2
  Keys = {k1}
  Clients = {c1}
  Slots = {s1, s2}
  Writers = {w1, w2}
  Texts = {"129"}
  JsonTexts = {"129"}
  MaxReads = 3
  MaxClock = 2
SYMMETRY Interchangeable
INVARIANTS FlagMatches NoncesGrow
