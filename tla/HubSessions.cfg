SPECIFICATION Spec
CONSTANTS
  reg = reg
  again = again
  beat = beat
  rec = rec
  endA = endA
  endB = endB
  timer = timer
  None = None
  Req = {reg, again, beat, rec, endA, endB, timer}
  KindOf <- Everything
  SeqOf <- OneSequenced
  OtherRepo = {again}
  Taken = {7}
  Casts <- AllCasts
INVARIANTS SilenceCostsNoRecord LedgerTellsTheRow InferredEndWithdrawn
PROPERTIES ReportedEndIsFinal
CHECK_DEADLOCK FALSE
