SPECIFICATION PromptSpec
CONSTANTS
  a = a
  a2 = a2
  b = b
  c = c
  NoOne = NoOne
  Task = {a, a2, b, c}
  Proc = {a, b, c}
  ProcOf <- Home
  Crews <- Apart
  Retries = 1

INVARIANTS MutualExclusion

