CONSTANTS
  Process = {p1, p2, p3}
  Dead = Dead
  None = None
  MaxCrash = 3
SPECIFICATION FairSpec
INVARIANTS MutualExclusion
PROPERTIES DeadLockIsBroken
