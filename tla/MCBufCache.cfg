SPECIFICATION Spec
CONSTANTS
  NUM = 7
  Process = {p1, p2, p3}
  Buf = {b1, b2, b3}
  Block = {k1, k2, k3, k4}
  Written = {k1}
  Val = {0, 1}
  None = None
CHECK_DEADLOCK FALSE
INVARIANT DescriptorsConserved
INVARIANT AnswersMatchRequests
INVARIANT NobodySleepsInVain
PROPERTY BlocksAreRegisters
SYMMETRY Symmetry
