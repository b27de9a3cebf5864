CONSTANTS
  NPROC = 3
  CPU = {c1, c2}
  Chan <- MCChan
  None = None
  Syscalls = {"fork", "exit", "wait", "kill", "getppid"}
  KillPids = {2}
  MaxPid = 3
SPECIFICATION Spec
SYMMETRY Symmetry
INVARIANTS PidUnique NoLostExit ZombieStaysDead ParentAlive OneStack ContextSaved
PROPERTY SchedSpec
