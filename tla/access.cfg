SPECIFICATION Spec
CONSTANTS
  Sites = {s1}
  Accounts = {a1, a2}
  Passwords = {w1, w2}
  Paths = {x1, x2}
  GeoSites = {s1}
  Null = Null
  MaxOps = 3
  MaxFaults = 1
SYMMETRY Symmetry
CHECK_DEADLOCK FALSE
INVARIANTS AppliedIsServed RevokedIsOut LinkedRuleFollows GeoIsCurrent
PROPERTIES NoLostEdit
