SPECIFICATION Spec
CONSTANTS
  ann = ann
  bob = bob
  c1 = c1
  c2 = c2
  c3 = c3
  None = None
  Dev = {ann, bob}
  Claim = {c1, c2, c3}
  Path = {1, 2, 3}
  Cap = 2
  MaxGroups = 1
  Casts <- AllCasts
INVARIANTS CurrentIsEarned StaleIsDeserved
PROPERTY DowngradeStands
CHECK_DEADLOCK FALSE
