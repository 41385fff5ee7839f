SPECIFICATION Spec
CONSTANTS
  r1 = r1
  r2 = r2
  i1 = i1
  i2 = i2
  w = w
  None = None
  Rec = {r1, r2}
  Worker = {w}
  Ino = {i1, i2}
  Cap = 2
  Batch = 1
  MaxFaults = 1
  KillInRescue = FALSE
SYMMETRY Symmetric
VIEW Reachable
INVARIANTS NoRecordLost CursorSkipsNothing
CHECK_DEADLOCK FALSE
