----------------------------- MODULE VirtioDisk -----------------------------
(***************************************************************************)
(* The disk driver (kernel/virtio_disk.c) and, external, the device it     *)
(* drives.  Callers of virtio_disk_rw() share NUM descriptors; a request   *)
(* takes a chain of three.  The device serves the posted requests in any   *)
(* order, writes their heads to the used ring and raises an interrupt.     *)
(*                                                                         *)
(* disk.vdisk_lock is held across steps only by the interrupt handler: the *)
(* device may append to the used ring while the handler runs.  A process   *)
(* holds it from acquire() to sleep() in one step.  A process asleep has a *)
(* channel in chan, and kill() may wake it at any moment.                  *)
(***************************************************************************)
EXTENDS Naturals, Sequences, FiniteSets

CONSTANTS NUM,    \* descriptors (virtio.h)
          Process,
          Buf,    \* struct buf of the cache
          Block,  \* disk blocks
          Val,    \* contents of a block
          None    \* null pointer, unlocked, not asleep

ASSUME NUMAssumption == NUM \in Nat /\ NUM >= 3

Desc == 0..(NUM - 1)
NoDesc == NUM                     \* VRING_DESC_F_NEXT is not set
NoOp == [write |-> FALSE, block |-> None]
FreeChan == <<"free", 0>>        \* &disk.free[0]
BufChan(b) == <<"buf", b>>        \* b
LockChan(b) == <<"lock", b>>      \* &b->lock

ASSUME NoneAssumption ==
  /\ None \notin Process \cup Buf \cup Block
  /\ None # FreeChan /\ \A b \in Buf \cup {None} : None \notin {BufChan(b), LockChan(b)}

VARIABLES
  pc,       \* where the process is in bio.c or virtio_disk.c
  buf,      \* the buffer it works on
  writing,  \* the argument of virtio_disk_rw()
  chan,     \* p->chan while SLEEPING, else None
  blk,      \* b->blockno
  data,     \* b->data
  bdisk,    \* b->disk: does the disk own the buffer?
  free,     \* the descriptors i with disk.free[i]
  link,     \* disk.desc[i].next where VRING_DESC_F_NEXT is set
  op,       \* disk.ops[h] of a head in flight: type and sector
  info,     \* disk.info[h].b
  status,   \* disk.info[h].status = 0
  avail,    \* heads the device has been told of and has not served
  used,     \* heads in the used ring from used_idx on
  intr,     \* VIRTIO_MMIO_INTERRUPT_STATUS
  handling, \* virtio_disk_intr() runs and holds vdisk_lock
  disk      \* the blocks on the disk

ringVars == <<avail, used, intr, handling>>
descVars == <<free, link, op, info, status>>
diskVars == <<pc, buf, writing, chan, blk, data, bdisk, descVars, ringVars, disk>>

DiskInit ==
  /\ bdisk = [b \in Buf |-> FALSE]
  /\ free = Desc
  /\ link = [i \in Desc |-> NoDesc]
  /\ op = [i \in Desc |-> NoOp]
  /\ info = [i \in Desc |-> None]
  /\ status = [i \in Desc |-> TRUE]
  /\ avail = {} /\ used = <<>>
  /\ intr = FALSE /\ handling = FALSE

At(p, where) == pc[p] = where /\ chan[p] = None
Goto(p, where) == pc' = [pc EXCEPT ![p] = where]
Wakeup(c) == [p \in Process |-> IF chan[p] = c THEN None ELSE chan[p]]

-----------------------------------------------------------------------------
(* virtio_disk_rw() *)

(* alloc3_desc() can have its three descriptors. *)
Enough == Cardinality(free) >= 3

(* alloc_desc() takes the lowest. *)
Lowest(S) == CHOOSE i \in S : \A j \in S : i <= j

(* Wrong: what alloc3_desc() took before it failed is lost. *)
RwNoDescKeeps(p) ==
  /\ At(p, "rw") /\ ~handling
  /\ ~Enough
  /\ free' = {}
  /\ chan' = [chan EXCEPT ![p] = FreeChan]
  /\ UNCHANGED <<pc, buf, writing, blk, data, bdisk, link, op, info, status, ringVars, disk>>

(* alloc3_desc() gives back what it took before it failed, each free_desc() *)
(* waking those who wait for descriptors; then the caller waits itself.     *)
RwNoDesc(p) ==
  /\ At(p, "rw") /\ ~handling
  /\ ~Enough
  /\ LET others == IF free = {} THEN chan ELSE Wakeup(FreeChan)
     IN chan' = [others EXCEPT ![p] = FreeChan]
  /\ UNCHANGED <<pc, buf, writing, blk, data, bdisk, descVars, ringVars, disk>>

(* The chain is formatted, the device told, and the caller sleeps on b: the *)
(* interrupt cannot come in between, it needs vdisk_lock.                   *)
RwPost(p) ==
  LET b == buf[p]
      i0 == Lowest(free)
      i1 == Lowest(free \ {i0})
      i2 == Lowest(free \ {i0, i1}) IN
  /\ At(p, "rw") /\ ~handling
  /\ Enough
  /\ free' = free \ {i0, i1, i2}
  /\ link' = [link EXCEPT ![i0] = i1, ![i1] = i2, ![i2] = NoDesc]
  /\ op' = [op EXCEPT ![i0] = [write |-> writing[p], block |-> blk[b]]]
  /\ status' = [status EXCEPT ![i0] = FALSE]
  /\ info' = [info EXCEPT ![i0] = b]
  /\ bdisk' = [bdisk EXCEPT ![b] = TRUE]
  /\ avail' = avail \cup {i0}
  /\ Goto(p, "wait")
  /\ chan' = [chan EXCEPT ![p] = BufChan(b)]
  /\ UNCHANGED <<buf, writing, blk, data, used, intr, handling, disk>>

(* The head of the chain the process posted: its local idx[0]. *)
HeadOf(p) == CHOOSE h \in Desc : info[h] = buf[p]
Chain(h) ==
  LET i1 == link[h]
      i2 == IF i1 = NoDesc THEN NoDesc ELSE link[i1] IN
  {h, i1, i2} \ {NoDesc}

(* Woken (by kill(), say) while the disk still owns the buffer: sleep again. *)
RwAgain(p) ==
  /\ At(p, "wait") /\ ~handling
  /\ bdisk[buf[p]]
  /\ chan' = [chan EXCEPT ![p] = BufChan(buf[p])]
  /\ UNCHANGED <<pc, buf, writing, blk, data, bdisk, descVars, ringVars, disk>>

(* Wrong: an if instead of the while. *)
DiskDoneUnchecked(p) == TRUE
DiskDone(p) == ~bdisk[buf[p]]

(* free_chain() and return to the caller, who goes on at to: he holds the  *)
(* buffer's sleep-lock, so what he does with it next needs no step.        *)
RwReturn(p, to) ==
  /\ At(p, "wait") /\ ~handling
  /\ DiskDone(p)
  /\ LET h == HeadOf(p) IN
     /\ info' = [info EXCEPT ![h] = None]
     /\ free' = free \cup Chain(h)
     /\ link' = [i \in Desc |-> IF i \in Chain(h) THEN NoDesc ELSE link[i]]
     /\ op' = [op EXCEPT ![h] = NoOp]
  /\ chan' = Wakeup(FreeChan)
  /\ writing' = [writing EXCEPT ![p] = FALSE]
  /\ Goto(p, to)
  /\ UNCHANGED <<buf, blk, data, bdisk, status, ringVars, disk>>

-----------------------------------------------------------------------------
(* The device: serves any posted request and raises the interrupt. *)

DevServe(h) ==
  LET b == info[h] IN
  /\ h \in avail
  /\ avail' = avail \ {h}
  /\ IF op[h].write
     THEN disk' = [disk EXCEPT ![op[h].block] = data[b]] /\ UNCHANGED data
     ELSE data' = [data EXCEPT ![b] = disk[op[h].block]] /\ UNCHANGED disk
  /\ status' = [status EXCEPT ![h] = TRUE]
  /\ used' = Append(used, h)
  /\ intr' = TRUE
  /\ UNCHANGED <<pc, buf, writing, chan, blk, bdisk, free, link, op, info, handling>>

-----------------------------------------------------------------------------
(* virtio_disk_intr() *)

(* The interrupt is acknowledged before the used ring is looked at. *)
IntrEnter ==
  /\ intr /\ ~handling
  /\ handling' = TRUE /\ intr' = FALSE
  /\ UNCHANGED <<pc, buf, writing, chan, blk, data, bdisk, descVars, avail, used, disk>>

IntrOne ==
  /\ handling /\ used # <<>>
  /\ LET b == info[Head(used)] IN
     /\ bdisk' = [bdisk EXCEPT ![b] = FALSE]
     /\ chan' = Wakeup(BufChan(b))
  /\ used' = Tail(used)
  /\ UNCHANGED <<pc, buf, writing, blk, data, descVars, avail, intr, handling, disk>>

(* Wrong: returns after one entry of the used ring. *)
IntrLeaveEarly ==
  /\ handling
  /\ handling' = FALSE
  /\ UNCHANGED <<pc, buf, writing, chan, blk, data, bdisk, descVars, avail, used, intr, disk>>

IntrLeave ==
  /\ handling /\ used = <<>>
  /\ handling' = FALSE
  /\ UNCHANGED <<pc, buf, writing, chan, blk, data, bdisk, descVars, avail, used, intr, disk>>

-----------------------------------------------------------------------------
(* kill() makes a SLEEPING process RUNNABLE, whatever it waits for. *)
KillWakes(p) ==
  /\ chan[p] # None
  /\ chan' = [chan EXCEPT ![p] = None]
  /\ UNCHANGED <<pc, buf, writing, blk, data, bdisk, descVars, ringVars, disk>>

RwStep(p) == RwNoDesc(p) \/ RwPost(p) \/ RwAgain(p)
DeviceStep == \E h \in Desc : DevServe(h)
IntrStep == IntrEnter \/ IntrOne \/ IntrLeave

-----------------------------------------------------------------------------
(* Properties of the driver. *)

Heads == {h \in Desc : info[h] # None}

(* No descriptor is lost or handed out twice: alloc3_desc(), its give-back  *)
(* and free_chain() keep the free ones and the chains of three of the       *)
(* requests in flight a partition, so free_desc() never panics.             *)
DescriptorsConserved ==
  /\ \A h \in Heads : Cardinality(Chain(h)) = 3 /\ Chain(h) \cap free = {}
  /\ \A h, g \in Heads : h # g => info[h] # info[g] /\ Chain(h) \cap Chain(g) = {}
  /\ free \cup UNION {Chain(h) : h \in Heads} = Desc

(* virtio_disk_intr() finds status 0 and a buffer for every id of the used  *)
(* ring, and the device never serves a request nobody waits for.            *)
AnswersMatchRequests ==
  /\ \A i \in 1..Len(used) : status[used[i]] /\ info[used[i]] # None
  /\ \A h \in avail : \E p \in Process : pc[p] = "wait" /\ buf[p] = info[h]

(* The only thing a sleeper in the driver waits for is still to come: who   *)
(* waits for descriptors finds too few of them, and who waits for the disk  *)
(* has a request the device or an announced interrupt will answer.          *)
SleepersWillBeWoken ==
  \A p \in Process :
    /\ chan[p] = FreeChan => ~Enough
    /\ chan[p] = BufChan(buf[p]) =>
         /\ bdisk[buf[p]]
         /\ \E h \in Heads : /\ info[h] = buf[p]
                             /\ \/ h \in avail
                                \/ /\ \E i \in 1..Len(used) : used[i] = h
                                   /\ intr \/ handling
=============================================================================
