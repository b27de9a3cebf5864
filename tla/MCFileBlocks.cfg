SPECIFICATION Spec
CONSTANTS
  Process = {p1, p2}
  f1 = f1
  f2 = f2
  d1 = d1
  d2 = d2
  d3 = d3
  File = {f1, f2}
  Desc = {d1, d2, d3}
  InodeOf <- MCInodeOf
  None = None
  NBLOCKS = 5
  BSIZE = 2
  BPB = 1
  NDIRECT = 1
  NINDIRECT = 2
  MAXOPBLOCKS = 6
  Byte = {a, b}
  Zero = Zero
  Sizes = {1, 3}
  MaxCalls = 3
  MaxCrash = 1
SYMMETRY Symmetry
INVARIANTS BlocksOwnedOnce TransactionFits
PROPERTY FilesSpec
CHECK_DEADLOCK FALSE
