SPECIFICATION ShellSpec
CONSTANTS
  NFILE = 5
  NOFILE = 5
  PIPESIZE = 1
  Word = {"e1", "e2", "c1", "c2", "f", "g"}
  MAXARGS = 3
  NPROC = 6
  Echo = {"e1", "e2"}
  Cat = {"c1", "c2"}
  Grind = {"g"}
  NCALLS = 2
  NPAGE = 3
  Typed <- MCLines
  Parsed <- ParsedText
  Programs <- ProgramsOf
INVARIANTS FilesCounted Wired OneAfterTheOther
PROPERTIES LineEnds
CHECK_DEADLOCK FALSE
