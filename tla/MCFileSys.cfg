SPECIFICATION Spec
CONSTANTS
  NINODES = 3
  Name = {"a", "b"}
  Process = {p1, p2}
  None = None
  Calls <- MCCalls
  MaxCrash = 1
  RmdirBusy = FALSE
SYMMETRY Symmetry
INVARIANTS NoPanic RefsAreHolders Consistent NoOrphan NoCircularWait
