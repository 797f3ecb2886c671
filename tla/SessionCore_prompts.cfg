CONSTANTS
  Id = {m1, m2}
  Client = {c1, c2}
  S = S
  None = None
  MaxSeq = 4
SYMMETRY Symmetry
SPECIFICATION SpecNoRevert
INVARIANTS ReceiptIsKept NothingStranded PromotedInOrder
PROPERTIES WakeCallsWithInput QueuedWaits
