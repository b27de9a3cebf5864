------------------------------ MODULE BufCache ------------------------------
(***************************************************************************)
(* The buffer cache (kernel/bio.c) with the sleep-locks of its buffers     *)
(* (kernel/sleeplock.c), over the disk driver.                             *)
(*                                                                         *)
(* The processes are the callers in fs.c and log.c: they get a block, and  *)
(* with its buffer locked change it and either write it at once or pin it  *)
(* for the log (log_write), or write a pinned block home and unpin it      *)
(* (install_trans); then they release it.  Each holds one buffer at a time.*)
(*                                                                         *)
(* bcache.lock is never held across a step, except by a process that       *)
(* panicked in bget(): nobody gets past that lock again.                   *)
(***************************************************************************)
EXTENDS VirtioDisk

CONSTANTS Written    \* bound: the blocks the callers change, the others are only read

ASSUME CacheAssumption == IsFiniteSet(Process) /\ IsFiniteSet(Buf) /\ Val # {}

VARIABLES
  valid,    \* b->valid
  refcnt,   \* b->refcnt
  locked,   \* the holder of b->lock, or None
  lru,      \* the list from bcache.head.next, most recently used first
  pinned    \* buffers the log has pinned: log.lh.block

cacheVars == <<valid, refcnt, locked, lru, pinned>>
vars == <<diskVars, cacheVars>>

InitVal == CHOOSE v \in Val : TRUE     \* a freshly made disk

(* binit(): the buffers belong to device 0, which no caller asks for. *)
Init ==
  /\ DiskInit
  /\ disk = [k \in Block |-> InitVal]
  /\ pc = [p \in Process |-> "idle"]
  /\ buf = [p \in Process |-> None]
  /\ writing = [p \in Process |-> FALSE]
  /\ chan = [p \in Process |-> None]
  /\ blk = [b \in Buf |-> None]
  /\ data = [b \in Buf |-> InitVal]
  /\ valid = [b \in Buf |-> FALSE]
  /\ refcnt = [b \in Buf |-> 0]
  /\ locked = [b \in Buf |-> None]
  /\ lru \in {s \in [1..Cardinality(Buf) -> Buf] : \A i, j \in DOMAIN s : s[i] = s[j] => i = j}
  /\ pinned = {}

Panicked == \E p \in Process : pc[p] = "panic"

-----------------------------------------------------------------------------
(* bget() *)

Cached(k) == {b \in Buf : blk[b] = k}

GetCached(p, k) ==
  /\ At(p, "idle") /\ ~Panicked
  /\ \E b \in Cached(k) :
       /\ refcnt' = [refcnt EXCEPT ![b] = @ + 1]
       /\ buf' = [buf EXCEPT ![p] = b]
  /\ Goto(p, "lock")
  /\ UNCHANGED <<writing, chan, blk, data, bdisk, descVars, ringVars, disk,
                 valid, locked, lru, pinned>>

(* Places of the buffers nobody refers to. *)
Unused == {i \in 1..Len(lru) : refcnt[lru[i]] = 0}

(* The least recently used of them changes its block. *)
GetRecycled(p, k) ==
  /\ At(p, "idle") /\ ~Panicked
  /\ Cached(k) = {} /\ Unused # {}
  /\ LET b == lru[CHOOSE i \in Unused : \A j \in Unused : j <= i] IN
     /\ blk' = [blk EXCEPT ![b] = k]
     /\ valid' = [valid EXCEPT ![b] = FALSE]
     /\ refcnt' = [refcnt EXCEPT ![b] = 1]
     /\ buf' = [buf EXCEPT ![p] = b]
  /\ Goto(p, "lock")
  /\ UNCHANGED <<writing, chan, data, bdisk, descVars, ringVars, disk,
                 locked, lru, pinned>>

(* panic("bget: no buffers") *)
GetPanic(p, k) ==
  /\ At(p, "idle") /\ ~Panicked
  /\ Cached(k) = {} /\ Unused = {}
  /\ Goto(p, "panic")
  /\ UNCHANGED <<buf, writing, chan, blk, data, bdisk, descVars, ringVars, disk, cacheVars>>

(* acquiresleep(&b->lock) *)
LockSleep(p) ==
  /\ At(p, "lock")
  /\ locked[buf[p]] # None
  /\ chan' = [chan EXCEPT ![p] = LockChan(buf[p])]
  /\ UNCHANGED <<pc, buf, writing, blk, data, bdisk, descVars, ringVars, disk, cacheVars>>

(* The lock is taken; bread() reads the disk unless the buffer is valid. *)
LockTake(p) ==
  /\ At(p, "lock")
  /\ locked[buf[p]] = None
  /\ locked' = [locked EXCEPT ![buf[p]] = p]
  /\ Goto(p, IF valid[buf[p]] THEN "use" ELSE "rw")
  /\ UNCHANGED <<buf, writing, chan, blk, data, bdisk, descVars, ringVars, disk,
                 valid, refcnt, lru, pinned>>

ReadDone(p) ==
  /\ ~writing[p]
  /\ RwReturn(p, "use")
  /\ valid' = [valid EXCEPT ![buf[p]] = TRUE]
  /\ UNCHANGED <<refcnt, locked, lru, pinned>>

-----------------------------------------------------------------------------
(* What a caller does with a locked buffer. *)

(* Changes it, and bwrite(). *)
WriteThrough(p, v) ==
  /\ At(p, "use") /\ blk[buf[p]] \in Written /\ buf[p] \notin pinned
  /\ data' = [data EXCEPT ![buf[p]] = v]
  /\ writing' = [writing EXCEPT ![p] = TRUE]
  /\ Goto(p, "rw")
  /\ UNCHANGED <<buf, chan, blk, bdisk, descVars, ringVars, disk, cacheVars>>

(* Wrong: log_write() without bpin(). *)
WriteLoggedUnpinned(p, v) ==
  /\ At(p, "use") /\ blk[buf[p]] \in Written /\ ~Panicked
  /\ data' = [data EXCEPT ![buf[p]] = v]
  /\ pinned' = pinned \cup {buf[p]}
  /\ UNCHANGED <<pc, buf, writing, chan, blk, bdisk, descVars, ringVars, disk,
                 valid, refcnt, locked, lru>>

(* Changes it, and log_write(): bpin() if the block is new to the log. *)
WriteLogged(p, v) ==
  /\ At(p, "use") /\ blk[buf[p]] \in Written /\ ~Panicked
  /\ data' = [data EXCEPT ![buf[p]] = v]
  /\ refcnt' = [refcnt EXCEPT ![buf[p]] = IF buf[p] \in pinned THEN @ ELSE @ + 1]
  /\ pinned' = pinned \cup {buf[p]}
  /\ UNCHANGED <<pc, buf, writing, chan, blk, bdisk, descVars, ringVars, disk,
                 valid, locked, lru>>

(* install_trans(): bwrite() of a pinned buffer, then bunpin(). *)
Install(p) ==
  /\ At(p, "use") /\ buf[p] \in pinned
  /\ writing' = [writing EXCEPT ![p] = TRUE]
  /\ Goto(p, "rw")
  /\ UNCHANGED <<buf, chan, blk, data, bdisk, descVars, ringVars, disk, cacheVars>>

WriteDone(p) ==
  /\ writing[p]
  /\ RwReturn(p, IF buf[p] \in pinned THEN "unpin" ELSE "use")
  /\ UNCHANGED cacheVars

Unpin(p) ==
  /\ At(p, "unpin") /\ ~Panicked
  /\ refcnt' = [refcnt EXCEPT ![buf[p]] = @ - 1]
  /\ pinned' = pinned \ {buf[p]}
  /\ Goto(p, "use")
  /\ UNCHANGED <<buf, writing, chan, blk, data, bdisk, descVars, ringVars, disk,
                 valid, locked, lru>>

-----------------------------------------------------------------------------
(* brelse() *)

Unlock(p) ==
  /\ At(p, "use")
  /\ locked' = [locked EXCEPT ![buf[p]] = None]
  /\ chan' = Wakeup(LockChan(buf[p]))
  /\ Goto(p, "deref")
  /\ UNCHANGED <<buf, writing, blk, data, bdisk, descVars, ringVars, disk,
                 valid, refcnt, lru, pinned>>

(* b goes to the front, and what was before it moves back by one. *)
ToHead(b) ==
  LET at == CHOOSE i \in DOMAIN lru : lru[i] = b IN
  [i \in DOMAIN lru |-> IF i = 1 THEN b ELSE IF i <= at THEN lru[i - 1] ELSE lru[i]]

(* A buffer nobody else waits for becomes the most recently used. *)
Deref(p) ==
  LET b == buf[p] IN
  /\ At(p, "deref") /\ ~Panicked
  /\ refcnt' = [refcnt EXCEPT ![b] = @ - 1]
  /\ lru' = IF refcnt[b] = 1 THEN ToHead(b) ELSE lru
  /\ buf' = [buf EXCEPT ![p] = None]
  /\ Goto(p, "idle")
  /\ UNCHANGED <<writing, chan, blk, data, bdisk, descVars, ringVars, disk,
                 valid, locked, pinned>>

-----------------------------------------------------------------------------
Get(p) == \E k \in Block : GetCached(p, k) \/ GetRecycled(p, k) \/ GetPanic(p, k)
Read(p) == LockSleep(p) \/ LockTake(p) \/ ReadDone(p)
Change(p) == Install(p) \/ \E v \in Val : WriteThrough(p, v) \/ WriteLogged(p, v)
Finish(p) == WriteDone(p) \/ Unpin(p) \/ Unlock(p) \/ Deref(p)

Driver == \/ \E p \in Process : RwStep(p) \/ KillWakes(p)
          \/ DeviceStep \/ IntrStep

Next == \/ \E p \in Process : Get(p) \/ Read(p) \/ Change(p) \/ Finish(p)
        \/ Driver /\ UNCHANGED cacheVars

Spec == Init /\ [][Next]_vars

-----------------------------------------------------------------------------
(* What every block holds and who has it, seen from above. *)
ContentOf(k) ==
  IF \E b \in Cached(k) : valid[b]
  THEN data[CHOOSE b \in Cached(k) : valid[b]]
  ELSE disk[k]

Holding(p) == \/ pc[p] \in {"use", "unpin"}
              \/ pc[p] \in {"rw", "wait"} /\ writing[p]
OwnerOf(k) ==
  IF \E p \in Process : Holding(p) /\ blk[buf[p]] = k
  THEN CHOOSE p \in Process : Holding(p) /\ blk[buf[p]] = k
  ELSE None

Store == INSTANCE BlockStore WITH
           content <- [k \in Block |-> ContentOf(k)],
           owner   <- [k \in Block |-> OwnerOf(k)]

(* Whatever is recycled, re-read, pinned or on its way to the disk, every   *)
(* block behaves as one register that a single process owns from bread() to *)
(* brelse(): a reader sees what was last stored, and nothing is lost when a *)
(* buffer changes its block.                                                *)
BlocksAreRegisters == Store!Spec

(* sleeplock.c:25, virtio_disk.c:232 and :284: who sleeps for a buffer's    *)
(* lock finds it held, whatever falls between the test and the sleep, and   *)
(* who sleeps in the driver will be woken.                                  *)
LockSleepersWait ==
  \A p \in Process : chan[p] = LockChan(buf[p]) => locked[buf[p]] # None
NobodySleepsInVain == SleepersWillBeWoken /\ LockSleepersWait
=============================================================================
