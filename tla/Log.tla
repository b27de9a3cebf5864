-------------------------------- MODULE Log --------------------------------
(***************************************************************************)
(* The redo log of the file system (kernel/log.c) on the buffer cache and  *)
(* the disk.  Processes run transactions; the end_op() of the last one     *)
(* commits: write_log(), write_head(), install_trans(), write_head().  One *)
(* block is written per step and the machine may crash at every step,      *)
(* during recovery too.                                                    *)
(*                                                                         *)
(* The buffer cache is what log.c needs of bio.c: a cached copy that may   *)
(* be dropped when nobody holds the buffer.  A caller modifies a buffer    *)
(* and calls log_write() under the buffer's sleep-lock: one step.  A       *)
(* bwrite() is on the disk when it returns, one block at a time.           *)
(***************************************************************************)
EXTENDS Integers, Sequences, FiniteSets

CONSTANTS Proc, Block,   \* processes; blocks outside the log
          Val, Blank,    \* contents of a block; those of a new disk
          NotCached,
          MAXOPBLOCKS, LOGBLOCKS,   \* param.h
          OpBlocks       \* the most blocks that a file-system call writes

ASSUME ProcAssumption == IsFiniteSet(Proc)     \* NPROC processes
ASSUME ValAssumption == Blank \in Val /\ NotCached \notin Val
ASSUME SizeAssumption ==
  /\ MAXOPBLOCKS \in Nat \ {0} /\ LOGBLOCKS \in Nat /\ MAXOPBLOCKS <= LOGBLOCKS
  /\ OpBlocks \in 0..MAXOPBLOCKS   \* MAXOPBLOCKS: "max # of blocks any FS op writes"

VARIABLES
  home,         \* disk: the blocks at their home locations
  logged,       \* disk: the log's data blocks
  head,         \* disk: the log's header, block[0..n-1]
  cache,        \* the buffers' data
  pins,         \* references that log_write() holds on the buffers
  lh,           \* log.lh
  outstanding,  \* log.outstanding
  committing,   \* log.committing
  pc,           \* where a process is
  wrote,        \* the blocks a process has written in its transaction
  tail,         \* the loop variable of write_log() and install_trans()
  boot          \* "up", or where initlog() is

vars == <<home, logged, head, cache, pins, lh, outstanding, committing, pc, wrote, tail, boot>>
logLock == <<lh, outstanding, committing>>    \* what log.lock protects

CommitLabels == {"write_log", "write_head", "install", "clear", "committed"}
Labels == {"idle", "begin", "asleep", "op"} \cup CommitLabels

TypeOK ==
  /\ home \in [Block -> Val]
  /\ logged \in [1..LOGBLOCKS -> Val]
  /\ head \in Seq(Block) /\ Len(head) <= LOGBLOCKS
  /\ cache \in [Block -> Val \cup {NotCached}]
  /\ pins \in [Block -> Nat]
  /\ lh \in Seq(Block) /\ Len(lh) <= LOGBLOCKS
  /\ outstanding \in Nat
  /\ committing \in BOOLEAN
  /\ pc \in [Proc -> Labels]
  /\ wrote \in [Proc -> SUBSET Block]
  /\ tail \in 1..(LOGBLOCKS + 1)
  /\ boot \in {"up", "read_head", "recover", "erase"}

Init ==
  /\ home = [b \in Block |-> Blank]
  /\ logged = [i \in 1..LOGBLOCKS |-> Blank]
  /\ head = <<>>
  /\ cache = [b \in Block |-> NotCached]
  /\ pins = [b \in Block |-> 0]
  /\ lh = <<>>
  /\ outstanding = 0
  /\ committing = FALSE
  /\ pc = [p \in Proc |-> "idle"]
  /\ wrote = [p \in Proc |-> {}]
  /\ tail = 1
  /\ boot = "read_head"

At(p, l) == boot = "up" /\ pc[p] = l
Go(p, l) == pc' = [pc EXCEPT ![p] = l]

(* What bread() finds in the cache or reads from the disk. *)
Bread(b) == IF cache[b] = NotCached THEN home[b] ELSE cache[b]

(* A write of b keeps p's system call within its bound. *)
MayWrite(p, b) == Cardinality(wrote[p] \cup {b}) <= OpBlocks

InLh(b) == \E i \in DOMAIN lh : lh[i] = b

(* wakeup(&log) by p, which then goes to l. *)
WakeupAnd(p, l) ==
  pc' = [q \in Proc |-> IF q = p THEN l ELSE IF pc[q] = "asleep" THEN "begin" ELSE pc[q]]

-----------------------------------------------------------------------------
(* Transactions *)

StartCall(p) ==
  /\ At(p, "idle") /\ Go(p, "begin")
  /\ UNCHANGED <<home, logged, head, cache, pins, logLock, wrote, tail, boot>>

(* Wrong: forgets the transaction that is about to begin. *)
NoSpaceOffByOne == Len(lh) + outstanding * MAXOPBLOCKS > LOGBLOCKS

(* The log might not hold one more transaction. *)
NoSpace == Len(lh) + (outstanding + 1) * MAXOPBLOCKS > LOGBLOCKS

BeginSleep(p) ==
  /\ At(p, "begin")
  /\ committing \/ NoSpace
  /\ Go(p, "asleep")
  /\ UNCHANGED <<home, logged, head, cache, pins, logLock, wrote, tail, boot>>

BeginOp(p) ==
  /\ At(p, "begin") /\ ~committing /\ ~NoSpace
  /\ outstanding' = outstanding + 1
  /\ Go(p, "op")
  /\ UNCHANGED <<home, logged, head, cache, pins, lh, committing, wrote, tail, boot>>

(* Wrong: an absorbed block is pinned again. *)
LogWritePinAgain(p, b, v) ==
  /\ At(p, "op")
  /\ MayWrite(p, b)
  /\ Len(lh) < LOGBLOCKS /\ outstanding >= 1
  /\ cache' = [cache EXCEPT ![b] = v]
  /\ wrote' = [wrote EXCEPT ![p] = @ \cup {b}]
  /\ lh' = IF InLh(b) THEN lh ELSE Append(lh, b)
  /\ pins' = [pins EXCEPT ![b] = IF @ < 2 THEN @ + 1 ELSE @]
  /\ UNCHANGED <<home, logged, head, outstanding, committing, pc, tail, boot>>

(* bread(), a change of the buffer, log_write(), brelse().  A panic() of log.c
   is a state where a step's guard, the negation of the panic's test, is false;
   NoLogPanic says that there is none. *)
LogWrite(p, b, v) ==
  /\ At(p, "op")
  /\ MayWrite(p, b)
  /\ Len(lh) < LOGBLOCKS /\ outstanding >= 1
  /\ cache' = [cache EXCEPT ![b] = v]
  /\ wrote' = [wrote EXCEPT ![p] = @ \cup {b}]
  /\ IF InLh(b) THEN UNCHANGED <<lh, pins>>     \* log absorption
     ELSE lh' = Append(lh, b) /\ pins' = [pins EXCEPT ![b] = @ + 1]
  /\ UNCHANGED <<home, logged, head, outstanding, committing, pc, tail, boot>>

(* end_op() while others are in their transactions. *)
EndOp(p) ==
  /\ At(p, "op") /\ outstanding > 1 /\ ~committing
  /\ outstanding' = outstanding - 1
  /\ WakeupAnd(p, "idle")
  /\ wrote' = [wrote EXCEPT ![p] = {}]
  /\ UNCHANGED <<home, logged, head, cache, pins, lh, committing, tail, boot>>

(* end_op() of the last one; commit() does nothing without a logged block. *)
EndOpLast(p) ==
  /\ At(p, "op") /\ outstanding = 1 /\ ~committing
  /\ outstanding' = 0
  /\ committing' = TRUE
  /\ Go(p, IF lh = <<>> THEN "committed" ELSE "write_log")
  /\ wrote' = [wrote EXCEPT ![p] = {}]
  /\ UNCHANGED <<home, logged, head, cache, pins, lh, tail, boot>>

-----------------------------------------------------------------------------
(* commit() *)

(* After the last round of a loop over the log, p goes to l. *)
LoopTo(p, l) ==
  IF tail = Len(lh) THEN tail' = 1 /\ Go(p, l) ELSE tail' = tail + 1 /\ UNCHANGED pc

WriteLog(p) ==
  /\ At(p, "write_log")
  /\ logged' = [logged EXCEPT ![tail] = Bread(lh[tail])]
  /\ cache' = [cache EXCEPT ![lh[tail]] = Bread(lh[tail])]
  /\ LoopTo(p, "write_head")
  /\ UNCHANGED <<home, head, pins, logLock, wrote, boot>>

WriteHead(p) ==
  /\ At(p, "write_head")
  /\ head' = lh
  /\ Go(p, "install")
  /\ UNCHANGED <<home, logged, cache, pins, logLock, wrote, tail, boot>>

(* One round of install_trans(): from the log to the home location. *)
InstallBlock(b) ==
  /\ home' = [home EXCEPT ![b] = logged[tail]]
  /\ cache' = [cache EXCEPT ![b] = logged[tail]]

InstallTrans(p) ==
  /\ At(p, "install")
  /\ InstallBlock(lh[tail])
  /\ pins' = [pins EXCEPT ![lh[tail]] = @ - 1]
  /\ LoopTo(p, "clear")
  /\ UNCHANGED <<logged, head, logLock, wrote, boot>>

ClearHead(p) ==
  /\ At(p, "clear")
  /\ lh' = <<>> /\ head' = <<>>
  /\ Go(p, "committed")
  /\ UNCHANGED <<home, logged, cache, pins, outstanding, committing, wrote, tail, boot>>

(* Wrong: nobody is woken after the commit. *)
EndCommitQuiet(p) ==
  /\ At(p, "committed")
  /\ committing' = FALSE
  /\ Go(p, "idle")
  /\ UNCHANGED <<home, logged, head, cache, pins, lh, outstanding, wrote, tail, boot>>

EndCommit(p) ==
  /\ At(p, "committed")
  /\ committing' = FALSE
  /\ WakeupAnd(p, "idle")
  /\ UNCHANGED <<home, logged, head, cache, pins, lh, outstanding, wrote, tail, boot>>

-----------------------------------------------------------------------------
(* The buffer cache takes the buffer of a block nobody holds for another. *)
Evict(b) ==
  /\ pins[b] = 0 /\ cache[b] # NotCached
  /\ cache' = [cache EXCEPT ![b] = NotCached]
  /\ UNCHANGED <<home, logged, head, pins, logLock, pc, wrote, tail, boot>>

(* The machine stops, and is started again. *)
Crash ==
  /\ cache' = [b \in Block |-> NotCached]
  /\ pins' = [b \in Block |-> 0]
  /\ lh' = <<>> /\ outstanding' = 0 /\ committing' = FALSE
  /\ pc' = [p \in Proc |-> "idle"] /\ wrote' = [p \in Proc |-> {}]
  /\ tail' = 1
  /\ boot' = "read_head"
  /\ UNCHANGED <<home, logged, head>>

(* recover_from_log() *)
ReadHead ==
  /\ boot = "read_head"
  /\ lh' = head
  /\ boot' = IF head = <<>> THEN "erase" ELSE "recover"
  /\ UNCHANGED <<home, logged, head, cache, pins, outstanding, committing, pc, wrote, tail>>

RecoverBlock ==
  /\ boot = "recover"
  /\ InstallBlock(lh[tail])
  /\ IF tail = Len(lh) THEN tail' = 1 /\ boot' = "erase" ELSE tail' = tail + 1 /\ UNCHANGED boot
  /\ UNCHANGED <<logged, head, pins, logLock, pc, wrote>>

(* Wrong: recovery forgets to clear the log on the disk. *)
EraseHeadForgotten ==
  /\ boot = "erase"
  /\ lh' = <<>>
  /\ boot' = "up"
  /\ UNCHANGED <<home, logged, head, cache, pins, outstanding, committing, pc, wrote, tail>>

EraseHead ==
  /\ boot = "erase"
  /\ lh' = <<>> /\ head' = <<>>
  /\ boot' = "up"
  /\ UNCHANGED <<home, logged, cache, pins, outstanding, committing, pc, wrote, tail>>

-----------------------------------------------------------------------------
Commit(p) == WriteLog(p) \/ WriteHead(p) \/ InstallTrans(p) \/ ClearHead(p) \/ EndCommit(p)
EndAny(p) == EndOp(p) \/ EndOpLast(p)
Recover == ReadHead \/ RecoverBlock \/ EraseHead

Run(p) ==
  \/ StartCall(p) \/ BeginSleep(p) \/ BeginOp(p) \/ EndAny(p) \/ Commit(p)
  \/ \E b \in Block, v \in Val : LogWrite(p, b, v)

Next == (\E p \in Proc : Run(p)) \/ (\E b \in Block : Evict(b)) \/ Recover \/ Crash

Spec == Init /\ [][Next]_vars

(* CPU time for the processes and for initlog(); no fairness of LogWrite or of
   StartCall: a system call makes finitely many writes, or none. *)
FairSpec ==
  /\ Spec
  /\ WF_vars(Recover)
  /\ \A p \in Proc : WF_vars(BeginSleep(p) \/ BeginOp(p)) /\ WF_vars(EndAny(p)) /\ WF_vars(Commit(p))

-----------------------------------------------------------------------------
(* What a crash at this moment would leave, once recovered. *)
Durable ==
  [b \in Block |-> IF \E i \in DOMAIN head : head[i] = b
                   THEN logged[CHOOSE i \in DOMAIN head : head[i] = b]
                   ELSE home[b]]

Mem == IF boot = "up" THEN [b \in Block |-> Bread(b)] ELSE Durable

Disk == INSTANCE AtomicDisk WITH
          mem <- Mem, durable <- Durable,
          open <- {p \in Proc : pc[p] = "op"}, closing <- committing

(* Transactions are atomic and durable: the log on its buffer cache and disk,
   with crashes at every block written, implements AtomicDisk.  In particular
   the home blocks are never a mixture, a commit never holds half a system
   call, what the buffer cache forgets is not lost, and recovery may crash. *)
CrashAtomic == Disk!AbsSpec

(* Each logged block has exactly one pin, given back when the block is
   installed: log absorption does not pin twice, and no commit leaks one of
   the NBUF buffers (log_write, install_trans). *)
PinsMatch ==
  boot = "up" => \A b \in Block :
    pins[b] = Cardinality({i \in DOMAIN lh :
                lh[i] = b /\ ((\E p \in Proc : pc[p] = "install") => i >= tail)
                         /\ ~\E p \in Proc : pc[p] = "clear"})

(* begin_op() admits a transaction only if the log can hold all that the open
   ones may still write, so that log_write() never finds it full ("too big a
   transaction"); nor do the other panics of log.c come about. *)
NoLogPanic ==
  \A p \in Proc : At(p, "op") =>
    /\ (\E b \in Block : MayWrite(p, b)) => Len(lh) < LOGBLOCKS
    /\ outstanding >= 1 /\ ~committing

(* Whoever sleeps in begin_op() is woken: by the end of a transaction, which
   gives back reserved space, or by the end of the commit. *)
SleeperWoken == \A p \in Proc : (pc[p] = "asleep") ~> (pc[p] # "asleep")

=============================================================================
