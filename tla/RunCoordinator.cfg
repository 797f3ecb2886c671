\* One session, as the coordinator treats sessions alike; no symmetry: liveness.  Settling
\* allocates the successor while the settled entry and fiber are reachable: two of each.
CONSTANTS
  Key = {k1}
  Entry = {e1, e2}
  Fiber = {f1, f2}
  Caller = {c1, c2, c3}
  None = None
SPECIFICATION FairSpec
INVARIANTS Serialised NoAbandonedWaiter NoLostDemand
PROPERTIES SuccessMeansDrained
PROPERTIES DemandServed CallsReturn ImplementsExecution
