CONSTANTS
  Space = {w1}
  Host = Host
  Creator = w1
  None = None
  MaxLog = 3
SPECIFICATION SyncFairSpec
INVARIANTS ReplicaIsPrefix
PROPERTIES OwnerWrites MovedWithHistory HostCatchesUp
