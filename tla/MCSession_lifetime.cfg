SPECIFICATION Spec
CONSTANTS
  Account = Account
  Rescue = Rescue
  None = None
  t1 = t1
  t2 = t2
  Tabs = {t1, t2}
  Sites <- SomeSites
  Pages <- SomePages
  TempLife = 1
  TokenLife = 1
  CookieLife = 3
  MaxTime = 2
  MaxLogins = 2
  MaxChanges = 1
  MaxOnWay = 1
SYMMETRY TabSymmetry
INVARIANT SessionLasts
