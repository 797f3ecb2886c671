\* No symmetry: liveness.  Six events: a row that is selected, reverted and admitted again.
CONSTANTS
  Id = {m1, m2}
  Client = {c1}
  S = S
  None = None
  MaxSeq = 6
SPECIFICATION SpecLive
INVARIANTS HistoryMatchesInbox
PROPERTIES AskedIsAnswered
