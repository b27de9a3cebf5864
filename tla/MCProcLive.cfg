CONSTANTS
  NPROC = 3
  CPU = {c1}
  Chan <- MCChan
  None = None
  Syscalls = {"fork", "wait", "kill", "fault"}
  KillPids = {2}
  MaxPid = 3
SPECIFICATION FairSpec
PROPERTIES WaitReturns KilledExits RunnableRuns
