SPECIFICATION FormSpec
CONSTANTS
  dev = dev
  pub = pub
  p1 = p1
  p2 = p2
  w1 = w1
  Keys = {dev, pub}
  DeviceKey = dev
  PublicKey = pub
  Clients = {}
  Slots = {1}
  Writers = {p1, w1}
  Pages = {p1}
  Texts = {"129"}
  JsonTexts = {"129"}
  Defaults = {"", "129"}
  WriteOnly = FALSE
  MaxReads = 0
  MaxClock = 1
INVARIANTS FlagMatches
