CONSTANTS
  Proc = {p1, p2, p3}
  Block = {b1, b2, b3, b4, b5}
  Blank = v0
  Val = {v0}
  NotCached = NotCached
  MAXOPBLOCKS = 2
  LOGBLOCKS = 4
  OpBlocks = 1
SPECIFICATION FairSpec
INVARIANT NoLogPanic
PROPERTY SleeperWoken
