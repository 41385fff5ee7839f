\* Seven scenarios of up to five lines, a capture queue of two lines, two requests
\* awaiting answers, up to two reported edits and one fault.
SPECIFICATION ProxySpec
CONSTANTS
  s1 = s1
  s2 = s2
  Nil = Nil
  Sessions = {s1, s2}
  Connected = {s1}
  Scenarios <- AllScenarios
  QueueCap = 2
  PendingCap = 2
\* The proxy exits, and a client may stop sending.
CHECK_DEADLOCK FALSE
INVARIANTS LinesKeepOrder EditsAreEntitled BriefingToldOnce OneLifeAtATime ExitLeavesNoneOpen StandingEditsAreCaptured
PROPERTIES LinesGoThrough ExitFollowsAgent
