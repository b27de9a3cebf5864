CONSTANTS
  Reader = {r1}
  Writer = {w1, w2}
  Byte = {a, b}
  None = None
  PIPESIZE = 2
  Wrap = 4
  MaxN = 2
  Kills = {r1}
SPECIFICATION FairSpec
INVARIANTS FreedWithTheLast NoLostWakeup
PROPERTIES Fifo EndOfFile
CHECK_DEADLOCK FALSE
