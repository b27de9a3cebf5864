CONSTANTS
  Proc = {p1, p2, p3}
  Block = {b1, b2, b3}
  Blank = v0
  Val = {v0, v1}
  NotCached = NotCached
  MAXOPBLOCKS = 3
  LOGBLOCKS = 6
  OpBlocks = 2
SPECIFICATION Spec
SYMMETRY Symmetry
INVARIANT PinsMatch
PROPERTY CrashAtomic
