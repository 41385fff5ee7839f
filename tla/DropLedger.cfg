SPECIFICATION Spec
CONSTANTS
  d1 = d1
  d2 = d2
  s1 = s1
  v = v
  w = w
  None = None
  Slug = {s1}
  Drop = {d1, d2}
  SlugOf <- OneSession
  Sweeper = {v, w}
  MaxFaults = 2
SYMMETRY Interchangeable
INVARIANTS NeverUnderCounts DoctorNeverUnderCounts
CHECK_DEADLOCK FALSE
