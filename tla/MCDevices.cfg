SPECIFICATION Spec
CONSTANTS
  Reader = {rd}
  Writer = {wr}
  None = None
  Handler = Handler
  INPUT_BUF_SIZE = 2
  Wrap = 4
  MaxRead = 2
  MaxWrite = 2
  MaxTyped = 1
  Sleeper = {s1, s2}
  Nobody = Nobody
  TickWrap = 4
  Args <- MCArgs
VIEW View
CONSTRAINT Apart
INVARIANTS WaitsForDevice OnTime
PROPERTIES LineSpec
CHECK_DEADLOCK FALSE
