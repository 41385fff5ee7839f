SPECIFICATION Spec
CONSTANTS
  c1 = c1
  c2 = c2
  c3 = c3
  h1 = h1
  h2 = h2
  h3 = h3
  h4 = h4
  d1 = d1
  d2 = d2
  s1 = s1
  s2 = s2
  t1 = t1
  e1 = e1
  First = First
  None = None
  Calls = {c1, c2, c3}
  Hooks = {h1, h2, h3, h4}
  CallOf <- Wiring
  Declarations = {d1, d2}
  Starts = {s1, s2}
  Stops = {t1}
  Ends = {e1}
  Casts <- AllCasts
  Block = 2
  MaxWindows = 2
  MaxFaults = 1
INVARIANTS PredeclaredIsTrue PostHocIsTrue OrderStaysUsable
PROPERTIES CountsUp
SYMMETRY Interchange
CHECK_DEADLOCK FALSE
