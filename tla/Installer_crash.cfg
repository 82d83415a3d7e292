SPECIFICATION Spec
CONSTANTS
  Install = {i1, i2, i3}
  Process = {p1, p2, p3}
  Shipped = shipped
  None = None
  Archive <- SmallArchives
  Limit = 2
  MaxEntries = 2
  MaxFaults = 1
INVARIANTS TypeOK KeptIsWhole
PROPERTIES LivesUntouched CleanedAfterChild KeepsPromise
SYMMETRY Symmetry
CHECK_DEADLOCK FALSE
