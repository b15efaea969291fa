SPECIFICATION Spec
CONSTANTS
  Account = Account
  Rescue = Rescue
  None = None
  t1 = t1
  t2 = t2
  Tabs = {t1, t2}
  Sites <- SomeSites
  Pages <- SomePages
  TempLife = 1
  TokenLife = 1
  CookieLife = 3
  MaxTime = 2
  MaxLogins = 2
  MaxChanges = 2
  MaxOnWay = 1
INVARIANTS AdmittedByProof SignInWorks StateSingleUse LogoutEnds
PROPERTY AnswersTellTheTruth
SYMMETRY TabSymmetry
