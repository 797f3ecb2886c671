CONSTANTS
  Key = {k1}
  Entry = {e1, e2}
  Fiber = {f1, f2}
  Caller = {c1, c2}
  None = None
SPECIFICATION FairSpec
PROPERTIES DeferredResumeRuns
