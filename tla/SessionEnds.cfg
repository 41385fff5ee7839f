SPECIFICATION FairSpec
CONSTANTS
  s = s
  o = o
  start = start
  work = work
  end = end
  other = other
  None = None
  Host = {s, o}
  Hook = {start, work, end, other}
  KindOf <- KindsOfHook
  HostOf <- HostsOfHook
  Last = 1
  Casts <- AllCasts
INVARIANTS LiveIsOpen NoEndForgotten
PROPERTIES DoneIsTrueWhenTold MarkersSettle
CHECK_DEADLOCK FALSE
