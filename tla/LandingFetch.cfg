SPECIFICATION FairSpec
CONSTANTS
  main = main
  trunk = trunk
  staging = staging
  h1 = h1
  h2 = h2
  w1 = w1
  w2 = w2
  None = None
  Branch = {main, trunk, staging}
  Fallbacks <- MCFallbacks
  WellKnown = {staging}
  Hook = {h1, h2}
  Worker = {w1, w2}
  Interval = 2
  HookTime = 1
  Jumps <- MCJumps
  Warn = 3
  Casts <- AllCasts
INVARIANT FetchedIsTrue
PROPERTIES StartsAreApart StaleIsTold
CHECK_DEADLOCK FALSE
