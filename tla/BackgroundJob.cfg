CONSTANTS
  MaxJob = 2
  MaxExtend = 2
SPECIFICATION FairSpec
INVARIANTS CompletedIsWhole RunsAreSerial
PROPERTIES JobEnds
CHECK_DEADLOCK FALSE
