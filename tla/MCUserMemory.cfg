SPECIFICATION Spec
CONSTANTS
  NPROC = 2
  NPAGES = 17
  PGSIZE = 2
  FAN = 2
  Table <- MCTable
  Val = {1}
  Programs <- MCPrograms
  Sbrks <- MCSbrks
  Touched = {0, 5}
  WORD = 64
VIEW View
CHECK_DEADLOCK FALSE
INVARIANTS NoPanic PagesOwnedOnce
PROPERTY MemorySpec
