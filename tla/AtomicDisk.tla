----------------------------- MODULE AtomicDisk -----------------------------
(***************************************************************************)
(* What the log of kernel/log.c promises to the file system: transactions  *)
(* see and change one memory image of the disk; the image becomes durable  *)
(* as a whole, only while no transaction is open, and before the end_op()  *)
(* that closes the last one returns; a crash falls back on the last        *)
(* durable image.                                                          *)
(***************************************************************************)
CONSTANTS Proc, Block, Val, Blank

VARIABLES
  mem,      \* the contents that bread() returns
  durable,  \* the contents that a crash would leave
  open,     \* the processes between begin_op() and end_op()
  closing   \* the last transaction of a group is making the group durable

absVars == <<mem, durable, open, closing>>

AbsInit ==
  /\ mem = [b \in Block |-> Blank]
  /\ durable = mem
  /\ open = {}
  /\ closing = FALSE

AbsBegin(p) ==
  /\ ~closing /\ p \notin open
  /\ open' = open \cup {p}
  /\ UNCHANGED <<mem, durable, closing>>

AbsWrite(p, b, v) ==
  /\ p \in open
  /\ mem' = [mem EXCEPT ![b] = v]
  /\ UNCHANGED <<durable, open, closing>>

AbsEnd(p) ==
  /\ p \in open
  /\ open' = open \ {p}
  /\ closing' = (open' = {})
  /\ UNCHANGED <<mem, durable>>

AbsCommit ==
  /\ closing
  /\ durable' = mem
  /\ UNCHANGED <<mem, open, closing>>

AbsClosed ==
  /\ closing /\ durable = mem
  /\ closing' = FALSE
  /\ UNCHANGED <<mem, durable, open>>

AbsCrash ==
  /\ mem' = durable
  /\ open' = {}
  /\ closing' = FALSE
  /\ UNCHANGED durable

AbsNext ==
  \/ \E p \in Proc : AbsBegin(p) \/ AbsEnd(p) \/ \E b \in Block, v \in Val : AbsWrite(p, b, v)
  \/ AbsCommit \/ AbsClosed \/ AbsCrash

AbsSpec == AbsInit /\ [][AbsNext]_absVars
=============================================================================
