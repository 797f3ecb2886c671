\* No symmetry: liveness.  The system may stop: all events appended, the journal drained.
CONSTANTS
  Call = {c1, c2}
  Stream = Stream
  Timer = Timer
  Drainer = Drainer
  MemoryLimit = 3
  MaxEvent = 6
SPECIFICATION JournalFairSpec
INVARIANTS StoredInOrder TransitionsAreStored
PROPERTIES ProgressIsFlushed
CHECK_DEADLOCK FALSE
