CONSTANTS
  q1 = q1
  q2 = q2
  q3 = q3
  s1 = s1
  s2 = s2
  r1 = r1
  r2 = r2
  None = None
  Request = {q1, q2, q3}
  Replier = {p1, p2}
  Session = {s1, s2}
  Resource = {r1, r2}
  SessionOf <- MCSessionOf
  ResourcesOf <- MCResourcesOf
  SaveOf <- MCSaveOf
  Config <- MCConfig
  Detached = {q3}
  MaxEdits = 1
SPECIFICATION FairSpec
INVARIANTS PendingMatchesCalls ReplyReachesAll
PROPERTIES AnsweredReturns
CHECK_DEADLOCK FALSE
