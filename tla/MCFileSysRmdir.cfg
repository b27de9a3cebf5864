SPECIFICATION Spec
CONSTANTS
  NINODES = 3
  Name = {"a", "b"}
  Process = {p1, p2}
  None = None
  Calls <- RmdirCalls
  MaxCrash = 0
  RmdirBusy = TRUE
SYMMETRY Symmetry
INVARIANT NoPanic
