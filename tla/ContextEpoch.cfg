\* a and b are two values of one source.
CONSTANTS
  a = a
  b = b
  Key = {k1, k2}
  Removable = {k1}
  Value = {old, a, b}
  Legacy = {old}
  Location = {l1, l2}
  Unavailable = Unavailable
  Gone = Gone
  Same = Same
  None = None
  MaxLog = 4
SPECIFICATION Spec
SYMMETRY Symmetry
INVARIANTS ToldIsAdmitted RequestTellsWhatWasSeen
PROPERTIES BaselineIsKept
