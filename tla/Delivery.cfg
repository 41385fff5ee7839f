SPECIFICATION Spec
CONSTANTS
  me = me
  t1 = t1
  t2 = t2
  c1 = c1
  c2 = c2
  q1 = q1
  q2 = q2
  q3 = q3
  w1 = w1
  n1 = n1
  n2 = n2
  h1 = h1
  h2 = h2
  h3 = h3
  s1 = s1
  s2 = s2
  p1 = p1
  None = None
  Me = me
  Developers = {me, t1, t2}
  Contexts = {w1}
  OwnerOf <- MCOwnerOf
  QuestionIds = {q1, q2, q3}
  Claims = {c1, c2}
  Readers = {t1, t2}
  Commits = {n1, n2}
  AuthorOf <- MCAuthorOf
  Sessions = {s1, s2}
  Hooks = {h1, h2, h3}
  SessionOf <- MCSessionOf
  Pointers = {p1}
  Scenarios <- AllScenarios
  Day = 1
  QuestionTTL = 2
  AnswerWindow = 3
  MaxOpen = 2
  MaxPerTarget = 1
  MaxPerDay = 2
  NoticeTTL = 2
  PairCap = 1
  MaxHints = 2
INVARIANTS StatusTellsAnswers PairBudget ToldWasShown SeenIsOwed NoneTwice
CHECK_DEADLOCK FALSE
