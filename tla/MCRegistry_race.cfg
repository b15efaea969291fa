SPECIFICATION Spec
CONSTANTS
  i1 = i1
  a1 = a1
  d1 = d1
  o1 = o1
  o2 = o2
  Deny = Deny
  Ids = {i1}
  Apps = {a1}
  Operators = {o1, o2}
  Devices = {d1}
  MaxSecrets = 2
  MaxFiles = 1
SYMMETRY OperatorSymmetry
INVARIANTS  HandedSecretsWork RevokedResolvesByRecord
