\* Two publishers and two consumers of one aggregate.
CONSTANTS
  Publisher = {p1, p2}
  Reader = {t1, t2}
  MaxSeq = 3
SPECIFICATION FairSpec
INVARIANTS NoGapNoRepeat NoMissedCommit
PROPERTIES ImplementsStream
