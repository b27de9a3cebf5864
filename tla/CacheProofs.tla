---------------------------- MODULE CacheProofs ----------------------------
(***************************************************************************)
(* Proofs about the buffer cache and the disk driver, for any number of    *)
(* processes, buffers, blocks and descriptors.                             *)
(*                                                                         *)
(* DriverInv says how callers, sleepers, descriptor chains and requests    *)
(* fit together; CacheInv counts the references, gives every block one     *)
(* buffer and says where a buffer and the disk agree.  They need each      *)
(* other: a buffer is recycled only when its count is 0, and the device    *)
(* finds the buffer of a request because its block cannot change           *)
(* meanwhile.  From them follow the properties of the driver, and that the *)
(* cache implements BlockStore.                                            *)
(***************************************************************************)
EXTENDS BufCache, FiniteSetTheorems, SequenceTheorems, TLAPS

(* Where a process can be and on what it can sleep. *)
Pcs == {"idle", "lock", "rw", "wait", "use", "unpin", "deref", "panic"}
Chans == {None, FreeChan} \cup {BufChan(b) : b \in Buf} \cup {LockChan(b) : b \in Buf}

TypeInv ==
  /\ pc \in [Process -> Pcs]
  /\ buf \in [Process -> Buf \cup {None}]
  /\ writing \in [Process -> BOOLEAN]
  /\ chan \in [Process -> Chans]
  /\ blk \in [Buf -> Block \cup {None}]
  /\ data \in [Buf -> Val]
  /\ bdisk \in [Buf -> BOOLEAN]
  /\ free \in SUBSET Desc
  /\ link \in [Desc -> 0..NUM]
  /\ op \in [Desc -> [write : BOOLEAN, block : Block \cup {None}]]
  /\ info \in [Desc -> Buf \cup {None}]
  /\ status \in [Desc -> BOOLEAN]
  /\ avail \in SUBSET Desc
  /\ used \in Seq(Desc)
  /\ intr \in BOOLEAN /\ handling \in BOOLEAN
  /\ disk \in [Block -> Val]
  /\ valid \in [Buf -> BOOLEAN]
  /\ refcnt \in [Buf -> Int]
  /\ locked \in [Buf -> Process \cup {None}]
  /\ lru \in Seq(Buf)
  /\ pinned \in SUBSET Buf

(* A buffer's lock is held by the process between bread() and brelse(). *)
Holds(p) == pc[p] \in {"rw", "wait", "use", "unpin"}
Callers ==
  /\ \A p \in Process : pc[p] \in {"idle", "panic"} <=> buf[p] = None
  /\ \A p \in Process : Holds(p) => locked[buf[p]] = p
  /\ \A b \in Buf : locked[b] # None => Holds(locked[b]) /\ buf[locked[b]] = b
  /\ \A p \in Process : writing[p] => pc[p] \in {"rw", "wait"}

(* Who sleeps where, and what he waits for has not come. *)
Sleeping ==
  /\ \A p \in Process : chan[p] = FreeChan => pc[p] = "rw" /\ ~Enough
  /\ \A p \in Process, b \in Buf :
       chan[p] = BufChan(b) => pc[p] = "wait" /\ buf[p] = b /\ bdisk[b]
  /\ \A p \in Process, b \in Buf :
       chan[p] = LockChan(b) => pc[p] = "lock" /\ buf[p] = b /\ locked[b] # None

(* The chains of three. *)
Proper(h) ==
  /\ link[h] \in Desc /\ link[link[h]] \in Desc
  /\ h # link[h] /\ h # link[link[h]] /\ link[h] # link[link[h]]
Chains ==
  /\ \A h \in Heads : Proper(h) /\ Chain(h) \cap free = {}
  /\ \A h, g \in Heads : h # g => info[h] # info[g] /\ Chain(h) \cap Chain(g) = {}
  /\ \A i \in Desc : i \in free \/ \E h \in Heads : i \in Chain(h)

(* Requests in flight and those who wait for them. *)
Answered(h) == \E i \in 1..Len(used) : used[i] = h
Requests ==
  /\ \A p \in Process : pc[p] = "wait" => \E h \in Heads : info[h] = buf[p]
  /\ \A h \in Heads : \E p \in Process :
       /\ pc[p] = "wait" /\ buf[p] = info[h]
       /\ op[h] = [write |-> writing[p], block |-> blk[buf[p]]]
  /\ avail \subseteq Heads
  /\ \A i \in 1..Len(used) : used[i] \in Heads /\ used[i] \notin avail /\ status[used[i]]
  /\ \A i, j \in 1..Len(used) : used[i] = used[j] => i = j
  /\ \A h \in Heads : bdisk[info[h]] <=> h \in avail \/ Answered(h)
  /\ \A b \in Buf : bdisk[b] => \E h \in Heads : info[h] = b
  /\ used # <<>> => intr \/ handling

DriverInv == TypeInv /\ Callers /\ Sleeping /\ Chains /\ Requests

(* References. *)
Users(b) == {p \in Process : buf[p] = b}
Counted == \A b \in Buf : refcnt[b] = Cardinality(Users(b)) + IF b \in pinned THEN 1 ELSE 0

(* A block has one buffer, which keeps it while anybody refers to it. *)
OneCopy ==
  /\ \A a, b \in Buf : blk[a] = blk[b] /\ blk[a] # None => a = b
  /\ \A p \in Process : buf[p] # None => blk[buf[p]] # None
  /\ \A b \in Buf : valid[b] => blk[b] # None
Validity ==
  /\ \A p \in Process : pc[p] \in {"use", "unpin"} \/ writing[p] => valid[buf[p]]
  /\ \A p \in Process : pc[p] \in {"rw", "wait"} /\ ~writing[p] => ~valid[buf[p]]
  /\ \A p \in Process : pc[p] = "unpin" => buf[p] \in pinned
  /\ \A b \in pinned : valid[b]

(* Where buffer and disk agree: a valid buffer that nobody is about to write
   home, and one whose request the device has served. *)
Clean(b) == valid[b] /\ b \notin pinned /\ \A p \in Users(b) : ~writing[p]
Served(p) == pc[p] = "wait" /\ \A h \in Heads : info[h] = buf[p] => h \notin avail
Stored(p) == Served(p) \/ pc[p] = "unpin"
Same(b) == data[b] = disk[blk[b]]
Synced ==
  /\ \A b \in Buf : Clean(b) => Same(b)
  /\ \A p \in Process : Stored(p) => Same(buf[p])

CacheInv == Counted /\ OneCopy /\ Validity /\ Synced

-----------------------------------------------------------------------------
(* Channels, least and greatest elements, chains. *)

(* The sleep channels differ from one another. *)
LEMMA ChanDistinct ==
  /\ FreeChan # None
  /\ \A a, b \in Buf :
    /\ BufChan(a) # None /\ LockChan(a) # None
    /\ FreeChan # BufChan(a) /\ FreeChan # LockChan(a) /\ BufChan(a) # LockChan(b)
    /\ BufChan(a) = BufChan(b) => a = b
    /\ LockChan(a) = LockChan(b) => a = b
<1>1. \A a, b \in Buf : FreeChan # BufChan(a) /\ FreeChan # LockChan(a) /\ BufChan(a) # LockChan(b)
  BY DEF FreeChan, BufChan, LockChan
<1>2. \A a, b \in Buf : (BufChan(a) = BufChan(b) => a = b) /\ (LockChan(a) = LockChan(b) => a = b)
  BY DEF BufChan, LockChan
<1> QED BY <1>1, <1>2, NoneAssumption

(* A process at work has a buffer. *)
LEMMA HasBuf ==
  ASSUME DriverInv, NEW p \in Process, pc[p] \notin {"idle", "panic"} PROVE buf[p] \in Buf
<1>1. buf[p] \in Buf \cup {None} /\ buf[p] # None
  BY DEF DriverInv, TypeInv, Callers
<1> QED BY <1>1

(* A set of naturals that is not empty has a least element. *)
LEMMA LeastElement ==
  ASSUME NEW S \in SUBSET Nat, S # {} PROVE \E i \in S : \A j \in S : i <= j
<1> DEFINE R == OpToRel(<, Nat)
<1>1. \A x, y \in Nat : <<x, y>> \in R <=> x < y
  BY DEF OpToRel
<1>2. IsWellFoundedOn(R, Nat)
  BY NatLessThanWellFounded
<1> HIDE DEF R
<1>3. PICK x \in S : \A y \in S : ~(<<y, x>> \in R)
  <2>1. S \subseteq Nat
    OBVIOUS
  <2> QED BY <1>2, <2>1, WFMin, Zenon
<1>4. ASSUME NEW y \in S PROVE x <= y
  <2>1. x \in Nat /\ y \in Nat /\ ~(y < x)
    BY <1>1, <1>3
  <2> QED BY <2>1
<1> QED BY <1>4

(* A set of numbers up to n that is not empty has a greatest element. *)
LEMMA GreatestElement ==
  ASSUME NEW n \in Nat, NEW S \in SUBSET (1..n), S # {} PROVE \E i \in S : \A j \in S : j <= i
<1> DEFINE T == {n - i : i \in S}
<1>1. T \in SUBSET Nat /\ T # {}
  <2>1. \A i \in S : i \in 1..n
    OBVIOUS
  <2>2. \A i \in S : n - i \in Nat
    BY <2>1
  <2> QED BY <2>2
<1> HIDE DEF T
<1>2. PICK k \in T : \A j \in T : k <= j
  BY <1>1, LeastElement
<1>3. PICK i \in S : k = n - i
  BY DEF T
<1>4. \A j \in S : n - j \in T
  BY DEF T
<1>5. \A j \in S : j <= i
  BY <1>2, <1>3, <1>4
<1> QED BY <1>5

(* alloc_desc() takes one of the free descriptors. *)
LEMMA LowestIn == ASSUME NEW S \in SUBSET Desc, S # {} PROVE Lowest(S) \in S
<1>1. S \in SUBSET Nat
  BY NUMAssumption DEF Desc
<1> QED BY <1>1, LeastElement DEF Lowest

(* alloc3_desc() finds three free descriptors. *)
LEMMA ThreeFree ==
  ASSUME free \in SUBSET Desc, Enough,
         NEW i, i = Lowest(free), NEW j, j = Lowest(free \ {i}), NEW k, k = Lowest(free \ {i, j})
  PROVE  i \in free /\ j \in free /\ k \in free /\ i # j /\ i # k /\ j # k
<1>1. IsFiniteSet(free) /\ Cardinality(free) \in Nat /\ Cardinality(free) >= 3
  <2>1. IsFiniteSet(Desc)
    BY NUMAssumption, FS_Interval DEF Desc
  <2>2. IsFiniteSet(free)
    BY <2>1, FS_Subset
  <2> QED BY <2>2, FS_CardinalityType DEF Enough
<1>2. i \in free
  <2>1. free # {}
    BY <1>1, FS_EmptySet
  <2> QED BY <2>1, LowestIn
<1>3. IsFiniteSet(free \ {i}) /\ Cardinality(free \ {i}) >= 2
  <2>1. IsFiniteSet(free \ {i}) /\ Cardinality(free \ {i}) = Cardinality(free) - 1
    BY <1>1, <1>2, FS_RemoveElement
  <2> QED BY <1>1, <2>1
<1>4. j \in free \ {i}
  <2>1. free \ {i} # {}
    BY <1>3, FS_EmptySet
  <2> QED BY <2>1, LowestIn
<1>5. k \in free \ {i, j}
  <2>1. Cardinality((free \ {i}) \ {j}) = Cardinality(free \ {i}) - 1 /\ IsFiniteSet((free \ {i}) \ {j})
    BY <1>3, <1>4, FS_RemoveElement
  <2>2. (free \ {i}) \ {j} = free \ {i, j} /\ Cardinality(free \ {i}) \in Nat
    BY <1>3, FS_CardinalityType
  <2>3. Cardinality(free \ {i, j}) # 0
    BY <1>3, <2>1, <2>2
  <2>4. free \ {i, j} # {}
    BY <2>3, FS_EmptySet
  <2> QED BY <2>4, LowestIn
<1> QED BY <1>2, <1>4, <1>5

(* free_chain() follows a chain to its third descriptor. *)
LEMMA ProperChain ==
  ASSUME NEW h \in Desc, Proper(h)
  PROVE  Chain(h) = {h, link[h], link[link[h]]}
<1>1. NoDesc \notin Desc
  BY NUMAssumption DEF NoDesc, Desc
<1> QED BY <1>1 DEF Chain, Proper

(* A chain has three descriptors. *)
LEMMA ChainOfThree ==
  ASSUME NEW h \in Desc, Proper(h) PROVE Cardinality(Chain(h)) = 3
<1>1. IsFiniteSet({h}) /\ Cardinality({h}) = 1
  BY FS_Singleton
<1>2. IsFiniteSet({h} \cup {link[h]}) /\ Cardinality({h} \cup {link[h]}) = 2
  BY <1>1, FS_AddElement DEF Proper
<1>3. Cardinality(({h} \cup {link[h]}) \cup {link[link[h]]}) = 3
  BY <1>2, FS_AddElement DEF Proper
<1>4. Chain(h) = ({h} \cup {link[h]}) \cup {link[link[h]]}
  BY ProperChain
<1> QED BY <1>3, <1>4

(* What the descriptors and requests look like depends only on the driver's
   variables and on the processes that wait. *)
LEMMA QuietDriver ==
  ASSUME DriverInv, UNCHANGED <<bdisk, descVars, ringVars>>,
         \A p \in Process : pc'[p] = "wait" <=> pc[p] = "wait",
         \A p \in Process : pc[p] = "wait" =>
           buf'[p] = buf[p] /\ writing'[p] = writing[p] /\ blk'[buf[p]] = blk[buf[p]]
  PROVE  Chains' /\ Requests'
<1>1. UNCHANGED <<bdisk, free, link, op, info, status, avail, used, intr, handling>>
  BY DEF descVars, ringVars
<1>2. Heads' = Heads /\ (\A h : Chain(h)' = Chain(h)) /\ \A h : Proper(h)' <=> Proper(h)
  BY <1>1 DEF Heads, Chain, Proper
<1>3. Chains'
  BY <1>1, <1>2 DEF DriverInv, Chains
<1>4. \A h : Answered(h)' <=> Answered(h)
  BY <1>1 DEF Answered
<1>5. ASSUME NEW h \in Heads
      PROVE \E p \in Process : /\ pc'[p] = "wait" /\ buf'[p] = info'[h]
                               /\ op'[h] = [write |-> writing'[p], block |-> blk'[buf'[p]]]
  <2>1. PICK p \in Process : /\ pc[p] = "wait" /\ buf[p] = info[h]
                             /\ op[h] = [write |-> writing[p], block |-> blk[buf[p]]]
    BY DEF DriverInv, Requests
  <2> QED BY <1>1, <2>1
<1>6. Requests'
  BY <1>1, <1>2, <1>4, <1>5 DEF DriverInv, Requests
<1> QED BY <1>3, <1>6

(* bget() finds the block cached. *)
LEMMA GetCachedInv ==
  ASSUME DriverInv, NEW p \in Process, NEW k \in Block, GetCached(p, k) PROVE DriverInv'
<1>1. PICK b \in Buf : buf' = [buf EXCEPT ![p] = b] /\ refcnt' = [refcnt EXCEPT ![b] = @ + 1]
  BY DEF GetCached, Cached
<1>2. /\ pc[p] = "idle" /\ chan[p] = None /\ pc' = [pc EXCEPT ![p] = "lock"]
      /\ UNCHANGED <<writing, chan, blk, data, bdisk, descVars, ringVars, disk, valid, locked, lru, pinned>>
  BY DEF GetCached, At, Goto
<1>3. TypeInv'
  BY <1>1, <1>2 DEF DriverInv, TypeInv, descVars, ringVars, Pcs
<1>4. Callers'
  BY <1>1, <1>2, NoneAssumption DEF DriverInv, TypeInv, Callers, Holds
<1>5. Sleeping'
  BY <1>1, <1>2, ChanDistinct DEF DriverInv, TypeInv, Sleeping, Enough, descVars
<1>6. Chains' /\ Requests'
  BY <1>1, <1>2, QuietDriver DEF DriverInv, TypeInv
<1> QED BY <1>3, <1>4, <1>5, <1>6 DEF DriverInv

-----------------------------------------------------------------------------
(* The steps of the cache that leave the requests alone keep DriverInv. *)

(* bget() has no buffer to recycle. *)
LEMMA GetPanicInv ==
  ASSUME DriverInv, NEW p \in Process, NEW k \in Block, GetPanic(p, k) PROVE DriverInv'
<1>2. /\ pc[p] = "idle" /\ chan[p] = None /\ pc' = [pc EXCEPT ![p] = "panic"]
      /\ UNCHANGED <<buf, writing, chan, blk, data, bdisk, descVars, ringVars, disk, valid, refcnt, locked, lru, pinned>>
  BY DEF GetPanic, At, Goto, cacheVars
<1>3. TypeInv'
  BY <1>2 DEF DriverInv, TypeInv, descVars, ringVars, Pcs, Chans
<1>4. Callers'
  BY <1>2, NoneAssumption DEF DriverInv, TypeInv, Callers, Holds
<1>5. Sleeping'
  BY <1>2, ChanDistinct DEF DriverInv, TypeInv, Callers, Sleeping, Enough, descVars, Holds
<1>6. Chains' /\ Requests'
  BY <1>2, QuietDriver DEF DriverInv, TypeInv, Callers, Holds
<1> QED BY <1>3, <1>4, <1>5, <1>6 DEF DriverInv

(* acquiresleep() finds the lock held and sleeps. *)
LEMMA LockSleepInv ==
  ASSUME DriverInv, NEW p \in Process, LockSleep(p) PROVE DriverInv'
<1>1. buf[p] \in Buf
  BY HasBuf DEF LockSleep, At
<1>2. /\ pc[p] = "lock" /\ locked[buf[p]] # None /\ chan' = [chan EXCEPT ![p] = LockChan(buf[p])]
      /\ UNCHANGED <<buf, writing, blk, data, bdisk, descVars, ringVars, disk, valid, refcnt, locked, lru, pinned, pc>>
  BY DEF LockSleep, At, Goto, cacheVars
<1>3. TypeInv'
  BY <1>2, <1>1 DEF DriverInv, TypeInv, descVars, ringVars, Pcs, Chans
<1>4. Callers'
  BY <1>2, <1>1, NoneAssumption DEF DriverInv, TypeInv, Callers, Holds
<1>5. Sleeping'
  BY <1>2, <1>1, ChanDistinct DEF DriverInv, TypeInv, Callers, Sleeping, Enough, descVars, Holds
<1>6. Chains' /\ Requests'
  BY <1>2, <1>1, QuietDriver DEF DriverInv, TypeInv, Callers, Holds
<1> QED BY <1>3, <1>4, <1>5, <1>6 DEF DriverInv

(* acquiresleep() takes the lock. *)
LEMMA LockTakeInv ==
  ASSUME DriverInv, NEW p \in Process, LockTake(p) PROVE DriverInv'
<1>1. buf[p] \in Buf /\ p # None
  BY HasBuf, NoneAssumption DEF LockTake, At
<1>2. /\ pc[p] = "lock" /\ chan[p] = None /\ locked[buf[p]] = None
      /\ locked' = [locked EXCEPT ![buf[p]] = p]
      /\ \E l \in {"use", "rw"} : pc' = [pc EXCEPT ![p] = l]
      /\ UNCHANGED <<buf, writing, chan, blk, data, bdisk, descVars, ringVars, disk, valid, refcnt, lru, pinned>>
  BY DEF LockTake, At, Goto
<1>3. TypeInv'
  BY <1>2, <1>1 DEF DriverInv, TypeInv, descVars, ringVars, Pcs, Chans
<1>4. Callers'
  BY <1>2, <1>1, NoneAssumption DEF DriverInv, TypeInv, Callers, Holds
<1>5. Sleeping'
  BY <1>2, <1>1, ChanDistinct DEF DriverInv, TypeInv, Callers, Sleeping, Enough, descVars, Holds
<1>6. Chains' /\ Requests'
  BY <1>2, <1>1, QuietDriver DEF DriverInv, TypeInv, Callers, Holds
<1> QED BY <1>3, <1>4, <1>5, <1>6 DEF DriverInv

(* A caller changes its buffer and calls bwrite(). *)
LEMMA WriteThroughInv ==
  ASSUME DriverInv, NEW p \in Process, NEW v \in Val, WriteThrough(p, v) PROVE DriverInv'
<1>2. /\ pc[p] = "use" /\ chan[p] = None /\ pc' = [pc EXCEPT ![p] = "rw"]
      /\ data' = [data EXCEPT ![buf[p]] = v] /\ writing' = [writing EXCEPT ![p] = TRUE]
      /\ UNCHANGED <<buf, chan, blk, bdisk, descVars, ringVars, disk, valid, refcnt, locked, lru, pinned>>
  BY DEF WriteThrough, At, Goto, cacheVars
<1>3. TypeInv'
  BY <1>2 DEF DriverInv, TypeInv, descVars, ringVars, Pcs, Chans
<1>4. Callers'
  BY <1>2 DEF DriverInv, TypeInv, Callers, Holds
<1>5. Sleeping'
  BY <1>2, ChanDistinct DEF DriverInv, TypeInv, Callers, Sleeping, Enough, descVars, Holds
<1>6. Chains' /\ Requests'
  <2>1. /\ \A q \in Process : pc'[q] = "wait" <=> pc[q] = "wait"
        /\ \A q \in Process : pc[q] = "wait" =>
             buf'[q] = buf[q] /\ writing'[q] = writing[q] /\ blk'[buf[q]] = blk[buf[q]]
    BY <1>2 DEF DriverInv, TypeInv
  <2> QED BY <1>2, <2>1, QuietDriver
<1> QED BY <1>3, <1>4, <1>5, <1>6 DEF DriverInv

(* A caller changes its buffer and calls log_write(). *)
LEMMA WriteLoggedInv ==
  ASSUME DriverInv, NEW p \in Process, NEW v \in Val, WriteLogged(p, v) PROVE DriverInv'
<1>1. buf[p] \in Buf
  BY HasBuf DEF WriteLogged, At
<1>2. /\ pc[p] = "use" /\ data' = [data EXCEPT ![buf[p]] = v]
      /\ refcnt' = [refcnt EXCEPT ![buf[p]] = IF buf[p] \in pinned THEN @ ELSE @ + 1]
      /\ pinned' = pinned \cup {buf[p]}
      /\ UNCHANGED <<buf, writing, chan, blk, bdisk, descVars, ringVars, disk, valid, locked, lru, pc>>
  BY DEF WriteLogged, At, Goto
<1>3. TypeInv'
  <2>1. refcnt' \in [Buf -> Int]
    BY <1>1, <1>2 DEF DriverInv, TypeInv
  <2>2. data' \in [Buf -> Val] /\ pinned' \in SUBSET Buf
    BY <1>1, <1>2 DEF DriverInv, TypeInv
  <2> QED BY <1>2, <2>1, <2>2 DEF DriverInv, TypeInv, descVars, ringVars, Pcs
<1>4. Callers'
  BY <1>2, <1>1, NoneAssumption DEF DriverInv, TypeInv, Callers, Holds
<1>5. Sleeping'
  BY <1>2, <1>1, ChanDistinct DEF DriverInv, TypeInv, Callers, Sleeping, Enough, descVars, Holds
<1>6. Chains' /\ Requests'
  BY <1>2, <1>1, QuietDriver DEF DriverInv, TypeInv, Callers, Holds
<1> QED BY <1>3, <1>4, <1>5, <1>6 DEF DriverInv

(* install_trans() calls bwrite(). *)
LEMMA InstallInv ==
  ASSUME DriverInv, NEW p \in Process, Install(p) PROVE DriverInv'
<1>2. /\ pc[p] = "use" /\ chan[p] = None /\ pc' = [pc EXCEPT ![p] = "rw"]
      /\ writing' = [writing EXCEPT ![p] = TRUE]
      /\ UNCHANGED <<buf, chan, blk, data, bdisk, descVars, ringVars, disk, valid, refcnt, locked, lru, pinned>>
  BY DEF Install, At, Goto, cacheVars
<1>3. TypeInv'
  BY <1>2 DEF DriverInv, TypeInv, descVars, ringVars, Pcs, Chans
<1>4. Callers'
  BY <1>2, NoneAssumption DEF DriverInv, TypeInv, Callers, Holds
<1>5. Sleeping'
  BY <1>2, ChanDistinct DEF DriverInv, TypeInv, Callers, Sleeping, Enough, descVars, Holds
<1>6. Chains' /\ Requests'
  <2>1. /\ \A q \in Process : pc'[q] = "wait" <=> pc[q] = "wait"
        /\ \A q \in Process : pc[q] = "wait" =>
             buf'[q] = buf[q] /\ writing'[q] = writing[q] /\ blk'[buf[q]] = blk[buf[q]]
    BY <1>2 DEF DriverInv, TypeInv
  <2> QED BY <1>2, <2>1, QuietDriver
<1> QED BY <1>3, <1>4, <1>5, <1>6 DEF DriverInv

(* install_trans() calls bunpin(). *)
LEMMA UnpinInv ==
  ASSUME DriverInv, NEW p \in Process, Unpin(p) PROVE DriverInv'
<1>1. buf[p] \in Buf
  BY HasBuf DEF Unpin, At
<1>2. /\ pc[p] = "unpin" /\ chan[p] = None /\ pc' = [pc EXCEPT ![p] = "use"]
      /\ refcnt' = [refcnt EXCEPT ![buf[p]] = @ - 1]
      /\ pinned' = pinned \ {buf[p]}
      /\ UNCHANGED <<buf, writing, chan, blk, data, bdisk, descVars, ringVars, disk, valid, locked, lru>>
  BY DEF Unpin, At, Goto
<1>3. TypeInv'
  <2>1. refcnt' \in [Buf -> Int]
    BY <1>1, <1>2 DEF DriverInv, TypeInv
  <2>2. pinned' \in SUBSET Buf
    BY <1>1, <1>2 DEF DriverInv, TypeInv
  <2> QED BY <1>2, <2>1, <2>2 DEF DriverInv, TypeInv, descVars, ringVars, Pcs
<1>4. Callers'
  BY <1>2, NoneAssumption DEF DriverInv, TypeInv, Callers, Holds
<1>5. Sleeping'
  BY <1>2, ChanDistinct DEF DriverInv, TypeInv, Callers, Sleeping, Enough, descVars, Holds
<1>6. Chains' /\ Requests'
  BY <1>2, QuietDriver DEF DriverInv, TypeInv, Callers, Holds
<1> QED BY <1>3, <1>4, <1>5, <1>6 DEF DriverInv

(* brelse() releases the sleep-lock and wakes its waiters. *)
LEMMA UnlockInv ==
  ASSUME DriverInv, NEW p \in Process, Unlock(p) PROVE DriverInv'
<1>1. buf[p] \in Buf
  BY HasBuf DEF Unlock, At
<1>2. /\ pc[p] = "use" /\ chan[p] = None /\ pc' = [pc EXCEPT ![p] = "deref"]
      /\ locked' = [locked EXCEPT ![buf[p]] = None]
      /\ chan' = [q \in Process |-> IF chan[q] = LockChan(buf[p]) THEN None ELSE chan[q]]
      /\ UNCHANGED <<buf, writing, blk, data, bdisk, descVars, ringVars, disk, valid, refcnt, lru, pinned>>
  BY DEF Unlock, At, Goto, Wakeup
<1>3. TypeInv'
  BY <1>2, <1>1 DEF DriverInv, TypeInv, descVars, ringVars, Pcs, Chans
<1>4. Callers'
  BY <1>2, <1>1, NoneAssumption DEF DriverInv, TypeInv, Callers, Holds
<1>5. Sleeping'
  BY <1>2, <1>1, ChanDistinct DEF DriverInv, TypeInv, Callers, Sleeping, Enough, descVars, Holds
<1>6. Chains' /\ Requests'
  BY <1>2, <1>1, QuietDriver DEF DriverInv, TypeInv, Callers, Holds
<1> QED BY <1>3, <1>4, <1>5, <1>6 DEF DriverInv

(* The list keeps its buffers when one moves to the front. *)
LEMMA ToHeadType ==
  ASSUME lru \in Seq(Buf), NEW b \in Buf PROVE ToHead(b) \in Seq(Buf)
<1> DEFINE at == CHOOSE i \in DOMAIN lru : lru[i] = b
           s == [i \in DOMAIN lru |-> IF i = 1 THEN b ELSE IF i <= at THEN lru[i - 1] ELSE lru[i]]
<1>1. Len(lru) \in Nat /\ DOMAIN lru = 1..Len(lru) /\ \A i \in 1..Len(lru) : lru[i] \in Buf
  BY LenProperties, ElementOfSeq
<1>2. ASSUME NEW i \in 1..Len(lru), i # 1 PROVE i - 1 \in 1..Len(lru)
  BY <1>1, <1>2
<1> HIDE DEF at
<1>3. s \in [1..Len(lru) -> Buf]
  BY <1>1, <1>2
<1>4. s \in Seq(Buf)
  BY <1>1, <1>3, SeqDef
<1> QED BY <1>4 DEF ToHead, at

(* brelse() drops the reference. *)
LEMMA DerefInv ==
  ASSUME DriverInv, NEW p \in Process, Deref(p) PROVE DriverInv'
<1>1. buf[p] \in Buf
  BY HasBuf DEF Deref, At
<1>2. /\ pc[p] = "deref" /\ chan[p] = None /\ pc' = [pc EXCEPT ![p] = "idle"]
      /\ refcnt' = [refcnt EXCEPT ![buf[p]] = @ - 1]
      /\ lru' = IF refcnt[buf[p]] = 1 THEN ToHead(buf[p]) ELSE lru
      /\ buf' = [buf EXCEPT ![p] = None]
      /\ UNCHANGED <<writing, chan, blk, data, bdisk, descVars, ringVars, disk, valid, locked, pinned>>
  BY DEF Deref, At, Goto
<1>3. TypeInv'
  <2>1. lru' \in Seq(Buf)
    <3>1. lru \in Seq(Buf)
      BY DEF DriverInv, TypeInv
    <3>2. ToHead(buf[p]) \in Seq(Buf)
      BY <1>1, <3>1, ToHeadType
    <3> QED BY <1>2, <3>1, <3>2
  <2>2. refcnt' \in [Buf -> Int]
    BY <1>1, <1>2 DEF DriverInv, TypeInv
  <2>3. UNCHANGED <<writing, chan, blk, data, bdisk, descVars, ringVars, disk, valid, locked, pinned>>
    BY <1>2
  <2>4. pc' \in [Process -> Pcs] /\ buf' \in [Process -> Buf \cup {None}]
    BY <1>2 DEF DriverInv, TypeInv, Pcs
  <2> QED BY <2>1, <2>2, <2>3, <2>4 DEF DriverInv, TypeInv, descVars, ringVars
<1>4. Callers'
  BY <1>2, NoneAssumption DEF DriverInv, TypeInv, Callers, Holds
<1>5. Sleeping'
  BY <1>2, ChanDistinct DEF DriverInv, TypeInv, Callers, Sleeping, Enough, descVars, Holds
<1>6. Chains' /\ Requests'
  BY <1>2, QuietDriver DEF DriverInv, TypeInv, Callers, Holds
<1> QED BY <1>3, <1>4, <1>5, <1>6 DEF DriverInv

(* kill() wakes a sleeper: he still waits for the same. *)
LEMMA KillWakesInv ==
  ASSUME DriverInv, NEW p \in Process, KillWakes(p), UNCHANGED cacheVars PROVE DriverInv'
<1>2. /\ chan' = [chan EXCEPT ![p] = None]
      /\ UNCHANGED <<buf, writing, blk, data, bdisk, descVars, ringVars, disk, valid, refcnt, locked, lru, pinned, pc>>
  BY DEF KillWakes, cacheVars, At, Goto
<1>3. TypeInv'
  BY <1>2 DEF DriverInv, TypeInv, descVars, ringVars, Pcs, Chans
<1>4. Callers'
  BY <1>2, NoneAssumption DEF DriverInv, TypeInv, Callers, Holds
<1>5. Sleeping'
  BY <1>2, ChanDistinct DEF DriverInv, TypeInv, Callers, Sleeping, Enough, descVars, Holds
<1>6. Chains' /\ Requests'
  BY <1>2, QuietDriver DEF DriverInv, TypeInv, Callers, Holds
<1> QED BY <1>3, <1>4, <1>5, <1>6 DEF DriverInv

(* virtio_disk_rw() was woken too early and sleeps again. *)
LEMMA RwAgainInv ==
  ASSUME DriverInv, NEW p \in Process, RwAgain(p), UNCHANGED cacheVars PROVE DriverInv'
<1>1. buf[p] \in Buf
  BY HasBuf DEF RwAgain, At
<1>2. /\ pc[p] = "wait" /\ bdisk[buf[p]] /\ chan' = [chan EXCEPT ![p] = BufChan(buf[p])]
      /\ UNCHANGED <<buf, writing, blk, data, bdisk, descVars, ringVars, disk, valid, refcnt, locked, lru, pinned, pc>>
  BY DEF RwAgain, At, Goto, cacheVars
<1>3. TypeInv'
  BY <1>2, <1>1 DEF DriverInv, TypeInv, descVars, ringVars, Pcs, Chans
<1>4. Callers'
  BY <1>2, <1>1, NoneAssumption DEF DriverInv, TypeInv, Callers, Holds
<1>5. Sleeping'
  BY <1>2, <1>1, ChanDistinct DEF DriverInv, TypeInv, Callers, Sleeping, Enough, descVars, Holds
<1>6. Chains' /\ Requests'
  BY <1>2, <1>1, QuietDriver DEF DriverInv, TypeInv, Callers, Holds
<1> QED BY <1>3, <1>4, <1>5, <1>6 DEF DriverInv

(* virtio_disk_rw() finds too few descriptors and sleeps. *)
LEMMA RwNoDescInv ==
  ASSUME DriverInv, NEW p \in Process, RwNoDesc(p), UNCHANGED cacheVars PROVE DriverInv'
<1>2. /\ pc[p] = "rw" /\ ~Enough
      /\ UNCHANGED <<buf, writing, blk, data, bdisk, descVars, ringVars, disk, valid, refcnt, locked, lru, pinned, pc>>
      /\ \A q \in Process : chan'[q] \in {chan[q], None} \/ (q = p /\ chan'[q] = FreeChan)
      /\ chan' \in [Process -> Chans]
  <2>1. PICK others \in {chan, Wakeup(FreeChan)} : chan' = [others EXCEPT ![p] = FreeChan]
    BY DEF RwNoDesc
  <2>2. others \in [Process -> Chans] /\ \A q \in Process : others[q] \in {chan[q], None}
    BY DEF Wakeup, DriverInv, TypeInv, Chans
  <2>3. FreeChan \in Chans
    BY DEF Chans
  <2>4. chan' \in [Process -> Chans]
    BY <2>1, <2>2, <2>3
  <2>5. \A q \in Process : chan'[q] = IF q = p THEN FreeChan ELSE others[q]
    BY <2>1, <2>2
  <2>6. /\ pc[p] = "rw" /\ ~Enough
        /\ UNCHANGED <<buf, writing, blk, data, bdisk, descVars, ringVars, disk, pc>>
    BY DEF RwNoDesc, At
  <2>7. UNCHANGED <<valid, refcnt, locked, lru, pinned>>
    BY DEF cacheVars
  <2>8. ASSUME NEW q \in Process
        PROVE  chan'[q] \in {chan[q], None} \/ (q = p /\ chan'[q] = FreeChan)
    BY <2>2, <2>5
  <2> QED BY <2>4, <2>6, <2>7, <2>8
<1>3. TypeInv'
  BY <1>2 DEF DriverInv, TypeInv, descVars, ringVars, Pcs, Chans
<1>4. Callers'
  BY <1>2, NoneAssumption DEF DriverInv, TypeInv, Callers, Holds
<1>5. Sleeping'
  BY <1>2, ChanDistinct DEF DriverInv, TypeInv, Callers, Sleeping, Enough, descVars, Holds
<1>6. Chains' /\ Requests'
  BY <1>2, QuietDriver DEF DriverInv, TypeInv, Callers, Holds
<1> QED BY <1>3, <1>4, <1>5, <1>6 DEF DriverInv


-----------------------------------------------------------------------------
(* A recycled buffer, the interrupt handler and the device. *)

(* A buffer with count 0 is neither used nor pinned. *)
LEMMA NoUsers ==
  ASSUME TypeInv, Counted, NEW b \in Buf, refcnt[b] = 0 PROVE Users(b) = {} /\ b \notin pinned
<1>1. IsFiniteSet(Users(b)) /\ Cardinality(Users(b)) \in Nat
  <2>1. Users(b) \subseteq Process
    BY DEF Users
  <2> QED BY <2>1, CacheAssumption, FS_Subset, FS_CardinalityType
<1>2. b \notin pinned /\ Cardinality(Users(b)) = 0
  BY <1>1 DEF Counted
<1> QED BY <1>1, <1>2, FS_EmptySet

(* The least recently used buffer that nobody refers to. *)
LEMMA Recycled ==
  ASSUME TypeInv, Unused # {},
         NEW b, b = lru[CHOOSE i \in Unused : \A j \in Unused : j <= i]
  PROVE  b \in Buf /\ refcnt[b] = 0
<1>1. Len(lru) \in Nat /\ \A i \in 1..Len(lru) : lru[i] \in Buf
  BY LenProperties, ElementOfSeq DEF TypeInv
<1>2. Unused \in SUBSET (1..Len(lru))
  BY DEF Unused
<1>3. \E i \in Unused : \A j \in Unused : j <= i
  BY <1>1, <1>2, GreatestElement
<1>4. PICK i \in Unused : b = lru[i]
  BY <1>3
<1> QED BY <1>1, <1>2, <1>4 DEF Unused

(* bget() recycles a buffer: nobody works on it. *)
LEMMA GetRecycledInv ==
  ASSUME DriverInv, Counted, NEW p \in Process, NEW k \in Block, GetRecycled(p, k) PROVE DriverInv'
<1>1. PICK b \in Buf : /\ refcnt[b] = 0 /\ buf' = [buf EXCEPT ![p] = b]
                       /\ blk' = [blk EXCEPT ![b] = k] /\ valid' = [valid EXCEPT ![b] = FALSE]
                       /\ refcnt' = [refcnt EXCEPT ![b] = 1]
  BY Recycled DEF GetRecycled, DriverInv
<1>2. /\ pc[p] = "idle" /\ chan[p] = None /\ pc' = [pc EXCEPT ![p] = "lock"]
      /\ UNCHANGED <<writing, chan, data, bdisk, descVars, ringVars, disk, locked, lru, pinned>>
  BY DEF GetRecycled, At, Goto
<1>3. TypeInv'
  BY <1>1, <1>2 DEF DriverInv, TypeInv, descVars, ringVars, Pcs
<1>4. Callers'
  BY <1>1, <1>2, NoneAssumption DEF DriverInv, TypeInv, Callers, Holds
<1>5. Sleeping'
  BY <1>1, <1>2, ChanDistinct DEF DriverInv, TypeInv, Sleeping, Enough, descVars
<1>6. Chains' /\ Requests'
  <2>1. \A q \in Process : buf[q] # b
    BY <1>1, NoUsers DEF DriverInv, Users
  <2>2. /\ \A q \in Process : pc'[q] = "wait" <=> pc[q] = "wait"
        /\ \A q \in Process : pc[q] = "wait" =>
             buf'[q] = buf[q] /\ writing'[q] = writing[q] /\ blk'[buf[q]] = blk[buf[q]]
    BY <1>1, <1>2, <2>1, HasBuf DEF DriverInv, TypeInv
  <2> QED BY <1>2, <2>2, QuietDriver
<1> QED BY <1>3, <1>4, <1>5, <1>6 DEF DriverInv

(* virtio_disk_intr() starts. *)
LEMMA IntrEnterInv == ASSUME DriverInv, IntrEnter, UNCHANGED cacheVars PROVE DriverInv'
<1>1. /\ handling' = TRUE /\ intr' = FALSE
      /\ UNCHANGED <<pc, buf, writing, chan, blk, data, bdisk, free, link, op, info, status, avail, used,
                     disk, valid, refcnt, locked, lru, pinned>>
  BY DEF IntrEnter, descVars, cacheVars
<1>2. TypeInv'
  BY <1>1 DEF DriverInv, TypeInv
<1>3. Callers' /\ Sleeping'
  BY <1>1 DEF DriverInv, Callers, Sleeping, Holds, Enough
<1>4. /\ Heads' = Heads /\ (\A h : Chain(h)' = Chain(h)) /\ (\A h : Proper(h)' <=> Proper(h))
      /\ \A h : Answered(h)' <=> Answered(h)
  BY <1>1 DEF Heads, Chain, Proper, Answered
<1>5. Chains' /\ Requests'
  BY <1>1, <1>4 DEF DriverInv, Chains, Requests
<1> QED BY <1>2, <1>3, <1>5 DEF DriverInv

(* virtio_disk_intr() has emptied the used ring. *)
LEMMA IntrLeaveInv == ASSUME DriverInv, IntrLeave, UNCHANGED cacheVars PROVE DriverInv'
<1>1. /\ handling' = FALSE /\ used = <<>>
      /\ UNCHANGED <<pc, buf, writing, chan, blk, data, bdisk, free, link, op, info, status, avail, used, intr,
                     disk, valid, refcnt, locked, lru, pinned>>
  BY DEF IntrLeave, descVars, cacheVars
<1>2. TypeInv'
  BY <1>1 DEF DriverInv, TypeInv
<1>3. Callers' /\ Sleeping'
  BY <1>1 DEF DriverInv, Callers, Sleeping, Holds, Enough
<1>4. /\ Heads' = Heads /\ (\A h : Chain(h)' = Chain(h)) /\ (\A h : Proper(h)' <=> Proper(h))
      /\ \A h : Answered(h)' <=> Answered(h)
  BY <1>1 DEF Heads, Chain, Proper, Answered
<1>5. Chains' /\ Requests'
  BY <1>1, <1>4 DEF DriverInv, Chains, Requests
<1> QED BY <1>2, <1>3, <1>5 DEF DriverInv

(* virtio_disk_intr() takes one head from the used ring. *)
LEMMA IntrOneInv == ASSUME DriverInv, IntrOne, UNCHANGED cacheVars PROVE DriverInv'
<1> DEFINE h == Head(used)
           b == info[h]
<1>1. /\ handling /\ used # <<>> /\ bdisk' = [bdisk EXCEPT ![b] = FALSE] /\ used' = Tail(used)
      /\ chan' = [q \in Process |-> IF chan[q] = BufChan(b) THEN None ELSE chan[q]]
      /\ UNCHANGED <<pc, buf, writing, blk, data, free, link, op, info, status, avail, intr, handling,
                     disk, valid, refcnt, locked, lru, pinned>>
  BY DEF IntrOne, Wakeup, descVars, cacheVars
<1>2. /\ used \in Seq(Desc) /\ Len(used) \in Nat \ {0} /\ DOMAIN used = 1..Len(used) /\ h = used[1]
      /\ used' \in Seq(Desc) /\ Len(used') = Len(used) - 1
      /\ \A i \in 1..Len(used') : used'[i] = used[i + 1]
  BY <1>1, HeadTailProperties, EmptySeq, LenProperties DEF DriverInv, TypeInv
<1>3. h \in Heads /\ b \in Buf /\ h \notin avail
  BY <1>2 DEF DriverInv, Requests, TypeInv, Heads
<1> HIDE DEF b
<1>4. TypeInv'
  <2>1. chan' \in [Process -> Chans] /\ bdisk' \in [Buf -> BOOLEAN]
    BY <1>1, <1>3 DEF DriverInv, TypeInv, Chans
  <2> QED BY <1>1, <1>2, <2>1 DEF DriverInv, TypeInv
<1>5. Callers'
  BY <1>1 DEF DriverInv, Callers, Holds
<1>6. Sleeping'
  BY <1>1, <1>3, ChanDistinct DEF DriverInv, TypeInv, Sleeping, Enough
<1>7. Heads' = Heads /\ (\A g : Chain(g)' = Chain(g)) /\ \A g : Proper(g)' <=> Proper(g)
  BY <1>1 DEF Heads, Chain, Proper
<1>8. Chains'
  BY <1>1, <1>7 DEF DriverInv, Chains
<1>9. \A g : Answered(g)' <=> Answered(g) /\ g # h
  <2>1. \A i, j \in 1..Len(used) : used[i] = used[j] => i = j
    BY DEF DriverInv, Requests
  <2>2. ASSUME NEW g, Answered(g)' PROVE Answered(g) /\ g # h
    <3>1. PICK i \in 1..Len(used') : used'[i] = g
      BY <2>2 DEF Answered
    <3>2. i + 1 \in 1..Len(used) /\ i + 1 # 1 /\ 1 \in 1..Len(used) /\ used[i + 1] = g
      BY <1>2, <3>1
    <3> QED BY <1>2, <2>1, <3>2 DEF Answered
  <2>3. ASSUME NEW g, Answered(g), g # h PROVE Answered(g)'
    <3>1. PICK i \in 1..Len(used) : used[i] = g
      BY <2>3 DEF Answered
    <3>2. i - 1 \in 1..Len(used') /\ (i - 1) + 1 = i
      BY <1>2, <2>3, <3>1
    <3> QED BY <1>2, <3>1, <3>2 DEF Answered
  <2> QED BY <2>2, <2>3
<1>10. Requests'
  <2>1. \A g \in Heads : g # h => info[g] # b
    BY <1>3 DEF DriverInv, Chains, b
  <2>2. \A c \in Buf : bdisk'[c] = IF c = b THEN FALSE ELSE bdisk[c]
    BY <1>1, <1>3 DEF DriverInv, TypeInv
  <2>3. \A i \in 1..Len(used') : i + 1 \in 1..Len(used)
    BY <1>2
  <2>4. \A g \in Heads : bdisk'[info[g]] <=> g \in avail \/ Answered(g)'
    <3> SUFFICES ASSUME NEW g \in Heads PROVE bdisk'[info[g]] <=> g \in avail \/ Answered(g)'
      OBVIOUS
    <3>1. info[g] \in Buf
      BY DEF DriverInv, TypeInv, Heads
    <3>2. CASE g = h
      BY <1>3, <1>9, <2>2, <3>1, <3>2 DEF b
    <3>3. CASE g # h
      <4>1. bdisk'[info[g]] = bdisk[info[g]] /\ (Answered(g)' <=> Answered(g))
        BY <1>9, <2>1, <2>2, <3>1, <3>3
      <4> QED BY <4>1 DEF DriverInv, Requests
    <3> QED BY <3>2, <3>3
  <2>5. \A i \in 1..Len(used') : used'[i] \in Heads /\ used'[i] \notin avail /\ status[used'[i]]
    BY <1>2, <2>3 DEF DriverInv, Requests
  <2>6. \A i, j \in 1..Len(used') : used'[i] = used'[j] => i = j
    <3> SUFFICES ASSUME NEW i \in 1..Len(used'), NEW j \in 1..Len(used'), used'[i] = used'[j] PROVE i = j
      OBVIOUS
    <3>1. i + 1 = j + 1
      BY <1>2, <2>3 DEF DriverInv, Requests
    <3> QED BY <1>2, <3>1
  <2>7. \A c \in Buf : bdisk'[c] => \E g \in Heads : info[g] = c
    BY <2>2 DEF DriverInv, Requests
  <2> QED BY <1>1, <1>7, <2>4, <2>5, <2>6, <2>7 DEF DriverInv, Requests
<1> QED BY <1>4, <1>5, <1>6, <1>8, <1>10 DEF DriverInv

(* The device answers a request. *)
LEMMA DevServeInv ==
  ASSUME DriverInv, OneCopy, NEW h \in Desc, DevServe(h), UNCHANGED cacheVars PROVE DriverInv'
<1>1. /\ h \in avail /\ avail' = avail \ {h} /\ status' = [status EXCEPT ![h] = TRUE]
      /\ used' = Append(used, h) /\ intr' = TRUE
      /\ UNCHANGED <<pc, buf, writing, chan, blk, bdisk, free, link, op, info, handling,
                     valid, refcnt, locked, lru, pinned>>
  BY DEF DevServe, cacheVars
<1>2. h \in Heads /\ info[h] \in Buf
  BY <1>1 DEF DriverInv, Requests, TypeInv, Heads
<1>3. data' \in [Buf -> Val] /\ disk' \in [Block -> Val]
  <2>1. PICK q \in Process : pc[q] = "wait" /\ buf[q] = info[h] /\ op[h].block = blk[buf[q]]
    <3>1. PICK q \in Process : /\ pc[q] = "wait" /\ buf[q] = info[h]
                               /\ op[h] = [write |-> writing[q], block |-> blk[buf[q]]]
      BY <1>2 DEF DriverInv, Requests
    <3> QED BY <3>1
  <2>2. op[h].block \in Block
    BY <1>2, <2>1, NoneAssumption DEF OneCopy, DriverInv, TypeInv
  <2>3. data \in [Buf -> Val] /\ disk \in [Block -> Val]
    BY DEF DriverInv, TypeInv
  <2>4. CASE op[h].write
    BY <1>2, <2>2, <2>3, <2>4 DEF DevServe
  <2>5. CASE ~op[h].write
    BY <1>2, <2>2, <2>3, <2>5 DEF DevServe
  <2> QED BY <2>4, <2>5
<1>4. /\ used \in Seq(Desc) /\ Len(used) \in Nat /\ used' \in Seq(Desc) /\ Len(used') = Len(used) + 1
      /\ \A i \in 1..Len(used) : used'[i] = used[i]
      /\ used'[Len(used) + 1] = h
  BY <1>1, AppendProperties, LenProperties DEF DriverInv, TypeInv
<1>5. TypeInv'
  BY <1>1, <1>3, <1>4 DEF DriverInv, TypeInv
<1>6. Callers' /\ Sleeping'
  BY <1>1 DEF DriverInv, Callers, Sleeping, Holds, Enough
<1>7. Heads' = Heads /\ (\A g : Chain(g)' = Chain(g)) /\ \A g : Proper(g)' <=> Proper(g)
  BY <1>1 DEF Heads, Chain, Proper
<1>8. Chains'
  BY <1>1, <1>7 DEF DriverInv, Chains
<1>9. \A i \in 1..Len(used') : i \in 1..Len(used) \/ i = Len(used) + 1
  BY <1>4
<1>10. ~Answered(h) /\ \A g : Answered(g)' <=> Answered(g) \/ g = h
  <2>1. ~Answered(h)
    BY <1>1 DEF DriverInv, Requests, Answered
  <2>2. 1..Len(used) \subseteq 1..Len(used') /\ Len(used) + 1 \in 1..Len(used')
    BY <1>4
  <2> QED BY <1>4, <1>9, <2>1, <2>2 DEF Answered
<1>11. Requests'
  <2>1. \A i \in 1..Len(used') : used'[i] \in Heads /\ used'[i] \notin avail' /\ status'[used'[i]]
    BY <1>1, <1>2, <1>4, <1>9 DEF DriverInv, Requests, TypeInv
  <2>2. \A i, j \in 1..Len(used') : used'[i] = used'[j] => i = j
    <3>1. \A i \in 1..Len(used) : used[i] # h
      BY <1>10 DEF Answered
    <3> QED BY <1>4, <1>9, <3>1 DEF DriverInv, Requests
  <2>3. \A g \in Heads : bdisk'[info[g]] <=> g \in avail' \/ Answered(g)'
    BY <1>1, <1>10 DEF DriverInv, Requests
  <2> QED BY <1>1, <1>7, <2>1, <2>2, <2>3 DEF DriverInv, Requests
<1> QED BY <1>5, <1>6, <1>8, <1>11 DEF DriverInv

-----------------------------------------------------------------------------
(* Posting a request and coming back from it. *)

(* A head in flight and the two descriptors after it. *)
LEMMA HeadChain ==
  ASSUME DriverInv, NEW h \in Heads
  PROVE  /\ h \in Desc /\ Proper(h) /\ Chain(h) = {h, link[h], link[link[h]]}
         /\ info[h] \in Buf /\ h \notin free /\ link[h] \notin free /\ link[link[h]] \notin free
<1>1. h \in Desc /\ Proper(h) /\ info[h] \in Buf
  BY DEF DriverInv, Chains, Heads, TypeInv
<1>2. Chain(h) = {h, link[h], link[link[h]]}
  BY <1>1, ProperChain
<1> QED BY <1>1, <1>2 DEF DriverInv, Chains

(* One process works on a locked buffer. *)
LEMMA OneHolder ==
  ASSUME DriverInv, NEW p \in Process, NEW q \in Process, Holds(p), Holds(q), buf[p] = buf[q]
  PROVE  p = q
BY DEF DriverInv, Callers

(* virtio_disk_rw() posts a request: three descriptors leave the free ones. *)
LEMMA RwPostInv ==
  ASSUME DriverInv, NEW p \in Process, RwPost(p), UNCHANGED cacheVars PROVE DriverInv'
<1> DEFINE b == buf[p]
           j0 == Lowest(free)
           j1 == Lowest(free \ {j0})
           j2 == Lowest(free \ {j0, j1})
<1>0. j0 \in free /\ j1 \in free /\ j2 \in free /\ j0 # j1 /\ j0 # j2 /\ j1 # j2
  BY ThreeFree DEF RwPost, DriverInv, TypeInv
<1>p. PICK i0 \in free, i1 \in free, i2 \in free : i0 = j0 /\ i1 = j1 /\ i2 = j2
  BY <1>0
<1>1. /\ pc[p] = "rw" /\ chan[p] = None /\ Enough
      /\ free' = free \ {i0, i1, i2}
      /\ link' = [link EXCEPT ![i0] = i1, ![i1] = i2, ![i2] = NoDesc]
      /\ op' = [op EXCEPT ![i0] = [write |-> writing[p], block |-> blk[b]]]
      /\ status' = [status EXCEPT ![i0] = FALSE]
      /\ info' = [info EXCEPT ![i0] = b]
      /\ bdisk' = [bdisk EXCEPT ![b] = TRUE]
      /\ avail' = avail \cup {i0}
      /\ pc' = [pc EXCEPT ![p] = "wait"]
      /\ chan' = [chan EXCEPT ![p] = BufChan(b)]
      /\ UNCHANGED <<buf, writing, blk, data, used, intr, handling, disk, valid, refcnt, locked, lru, pinned>>
  BY <1>p DEF RwPost, At, Goto, cacheVars
<1>2. /\ i0 \in free /\ i1 \in free /\ i2 \in free /\ i0 # i1 /\ i0 # i2 /\ i1 # i2
      /\ free \in SUBSET Desc
  BY <1>0, <1>p DEF DriverInv, TypeInv
<1>3. b \in Buf
  BY <1>1, HasBuf
<1> HIDE DEF j0, j1, j2
<1>4. NoDesc \in 0..NUM /\ Desc \subseteq 0..NUM
  BY NUMAssumption DEF NoDesc, Desc
<1>5. TypeInv'
  <2>1. link' \in [Desc -> 0..NUM] /\ free' \in SUBSET Desc /\ avail' \in SUBSET Desc
    BY <1>1, <1>2, <1>4 DEF DriverInv, TypeInv
  <2>2. /\ op' \in [Desc -> [write : BOOLEAN, block : Block \cup {None}]]
        /\ status' \in [Desc -> BOOLEAN] /\ info' \in [Desc -> Buf \cup {None}]
    BY <1>1, <1>2, <1>3 DEF DriverInv, TypeInv
  <2>3. /\ bdisk' \in [Buf -> BOOLEAN] /\ pc' \in [Process -> Pcs] /\ chan' \in [Process -> Chans]
    BY <1>1, <1>3 DEF DriverInv, TypeInv, Pcs, Chans
  <2> QED BY <1>1, <2>1, <2>2, <2>3 DEF DriverInv, TypeInv
<1>6. Callers'
  BY <1>1 DEF DriverInv, TypeInv, Callers, Holds
<1>7. Sleeping'
  <2>1. \A q \in Process : chan[q] # FreeChan
    BY <1>1 DEF DriverInv, Sleeping
  <2>2. \A q \in Process : q # p => chan'[q] = chan[q] /\ pc'[q] = pc[q]
    BY <1>1 DEF DriverInv, TypeInv
  <2>3. chan'[p] = BufChan(b) /\ pc'[p] = "wait"
    BY <1>1 DEF DriverInv, TypeInv
  <2>4. \A c \in Buf : bdisk[c] => bdisk'[c]
    BY <1>1 DEF DriverInv, TypeInv
  <2>5. bdisk'[b]
    BY <1>1, <1>3 DEF DriverInv, TypeInv
  <2> QED BY <1>1, <1>3, <2>1, <2>2, <2>3, <2>4, <2>5, ChanDistinct DEF DriverInv, Sleeping
<1>8. \A h \in Heads : h # i0 /\ h # i1 /\ h # i2 /\ info[h] # b
  <2> SUFFICES ASSUME NEW h \in Heads PROVE h # i0 /\ h # i1 /\ h # i2 /\ info[h] # b
    OBVIOUS
  <2>1. h # i0 /\ h # i1 /\ h # i2
    BY <1>2, HeadChain
  <2>2. PICK q \in Process : pc[q] = "wait" /\ buf[q] = info[h]
    BY DEF DriverInv, Requests
  <2>3. q # p /\ Holds(p) /\ Holds(q)
    BY <1>1, <2>2 DEF Holds
  <2>4. buf[q] # b
    BY <2>3, OneHolder
  <2> QED BY <2>1, <2>2, <2>4
<1>9. /\ Heads' = Heads \cup {i0}
      /\ \A h \in Heads : info'[h] = info[h] /\ op'[h] = op[h] /\ status'[h] = status[h]
      /\ info'[i0] = b /\ op'[i0] = [write |-> writing[p], block |-> blk[b]]
  <2>1. i0 \in Desc /\ Heads \subseteq Desc /\ i0 \notin Heads
    BY <1>2, <1>8 DEF Heads
  <2>2. b # None
    BY <1>3, NoneAssumption
  <2>3. \A h \in Desc : info'[h] = IF h = i0 THEN b ELSE info[h]
    BY <1>1, <2>1 DEF DriverInv, TypeInv
  <2>4. Heads' = Heads \cup {i0}
    BY <2>1, <2>2, <2>3 DEF Heads
  <2>5. \A h \in Desc : op'[h] = IF h = i0 THEN [write |-> writing[p], block |-> blk[b]] ELSE op[h]
    BY <1>1, <2>1 DEF DriverInv, TypeInv
  <2>6. \A h \in Desc : h # i0 => status'[h] = status[h]
    BY <1>1, <2>1 DEF DriverInv, TypeInv
  <2> QED BY <2>1, <2>3, <2>4, <2>5, <2>6
<1>10. \A h \in Heads : link'[h] = link[h] /\ link'[link[h]] = link[link[h]]
  <2> SUFFICES ASSUME NEW h \in Heads PROVE link'[h] = link[h] /\ link'[link[h]] = link[link[h]]
    OBVIOUS
  <2>1. h \in Desc /\ link[h] \in Desc /\ h \notin free /\ link[h] \notin free
    BY HeadChain DEF Proper
  <2> QED BY <1>1, <1>2, <2>1 DEF DriverInv, TypeInv
<1>11. \A h \in Heads : Proper(h)' /\ Chain(h)' = Chain(h)
  <2>1. \A h \in Heads : Proper(h)
    BY HeadChain
  <2> QED BY <1>10, <2>1 DEF Proper, Chain
<1>12. Proper(i0)' /\ Chain(i0)' = {i0, i1, i2}
  <2>1. link'[i0] = i1 /\ link'[i1] = i2
    BY <1>1, <1>2 DEF DriverInv, TypeInv
  <2>2. i0 \in Desc /\ i1 \in Desc /\ i2 \in Desc /\ NoDesc \notin Desc
    BY <1>2, NUMAssumption DEF NoDesc, Desc
  <2>3. Proper(i0)'
    BY <1>2, <2>1, <2>2 DEF Proper
  <2>4. i0 # NoDesc /\ i1 # NoDesc /\ i2 # NoDesc
    BY <2>2
  <2>5. Chain(i0)' = {i0, i1, i2}
    BY <2>1, <2>4 DEF Chain
  <2> QED BY <2>3, <2>5
<1>13. Chains'
  <2>1. \A h \in Heads : Chain(h) \cap {i0, i1, i2} = {} /\ Chain(h) \cap free = {}
    BY <1>2 DEF DriverInv, Chains
  <2>2. ASSUME NEW h \in Heads' PROVE Proper(h)' /\ Chain(h)' \cap free' = {}
    <3>1. CASE h = i0
      BY <1>1, <1>12, <3>1
    <3>2. CASE h \in Heads
      BY <1>1, <1>11, <2>1, <3>2
    <3> QED BY <1>9, <3>1, <3>2
  <2>3. ASSUME NEW h \in Heads', NEW g \in Heads', h # g
        PROVE  info'[h] # info'[g] /\ Chain(h)' \cap Chain(g)' = {}
    <3>1. CASE h = i0
      <4>1. g \in Heads
        BY <1>9, <2>3, <3>1
      <4>2. info'[h] = b /\ info'[g] = info[g] /\ info[g] # b
        BY <1>8, <1>9, <3>1, <4>1
      <4>3. Chain(h)' = {i0, i1, i2} /\ Chain(g)' = Chain(g)
        BY <1>11, <1>12, <3>1, <4>1
      <4> QED BY <2>1, <4>1, <4>2, <4>3
    <3>2. CASE g = i0
      <4>1. h \in Heads
        BY <1>9, <2>3, <3>2
      <4>2. info'[g] = b /\ info'[h] = info[h] /\ info[h] # b
        BY <1>8, <1>9, <3>2, <4>1
      <4>3. Chain(g)' = {i0, i1, i2} /\ Chain(h)' = Chain(h)
        BY <1>11, <1>12, <3>2, <4>1
      <4> QED BY <2>1, <4>1, <4>2, <4>3
    <3>3. CASE h \in Heads /\ g \in Heads
      <4>1. info[h] # info[g] /\ Chain(h) \cap Chain(g) = {}
        BY <2>3, <3>3 DEF DriverInv, Chains
      <4>2. info'[h] = info[h] /\ info'[g] = info[g]
        BY <1>9, <3>3
      <4> QED BY <1>11, <3>3, <4>1, <4>2
    <3> QED BY <1>9, <3>1, <3>2, <3>3
  <2>4. ASSUME NEW i \in Desc PROVE i \in free' \/ \E h \in Heads' : i \in Chain(h)'
    <3>1. CASE i \in {i0, i1, i2}
      BY <1>9, <1>12, <3>1
    <3>2. CASE i \in free /\ i \notin {i0, i1, i2}
      BY <1>1, <3>2
    <3>3. CASE i \notin free
      <4>1. PICK h \in Heads : i \in Chain(h)
        BY <3>3 DEF DriverInv, Chains
      <4>2. h \in Heads' /\ i \in Chain(h)'
        BY <1>9, <1>11, <4>1
      <4> QED BY <4>2
    <3> QED BY <3>1, <3>2, <3>3
  <2>5. \A h \in Heads' : Proper(h)' /\ Chain(h)' \cap free' = {}
    BY <2>2
  <2>6. \A h, g \in Heads' : h # g => info'[h] # info'[g] /\ Chain(h)' \cap Chain(g)' = {}
    BY <2>3
  <2> QED BY <2>4, <2>5, <2>6 DEF Chains
<1>14. Requests'
  <2>1. \A q \in Process : q # p => pc'[q] = pc[q]
    BY <1>1 DEF DriverInv, TypeInv
  <2>2. pc'[p] = "wait" /\ \A h : Answered(h)' <=> Answered(h)
    BY <1>1 DEF DriverInv, TypeInv, Answered
  <2>3. ASSUME NEW q \in Process, pc'[q] = "wait" PROVE \E h \in Heads' : info'[h] = buf'[q]
    <3>1. CASE q = p
      BY <1>1, <1>9, <3>1
    <3>2. CASE q # p
      <4>1. PICK h \in Heads : info[h] = buf[q]
        BY <2>1, <2>3, <3>2 DEF DriverInv, Requests
      <4>2. h \in Heads' /\ info'[h] = info[h]
        BY <1>9, <4>1
      <4> QED BY <1>1, <4>1, <4>2
    <3> QED BY <3>1, <3>2
  <2>4. ASSUME NEW h \in Heads'
        PROVE  \E q \in Process : /\ pc'[q] = "wait" /\ buf'[q] = info'[h]
                                  /\ op'[h] = [write |-> writing'[q], block |-> blk'[buf'[q]]]
    <3>1. CASE h = i0
      BY <1>1, <1>9, <2>2, <3>1
    <3>2. CASE h \in Heads
      <4>1. PICK q \in Process : /\ pc[q] = "wait" /\ buf[q] = info[h]
                                 /\ op[h] = [write |-> writing[q], block |-> blk[buf[q]]]
        BY <3>2 DEF DriverInv, Requests
      <4>2. q # p /\ buf'[q] = buf[q] /\ writing'[q] = writing[q] /\ blk' = blk
        BY <1>1, <4>1
      <4>3. pc'[q] = "wait" /\ info'[h] = info[h] /\ op'[h] = op[h]
        BY <1>9, <2>1, <3>2, <4>1, <4>2
      <4> QED BY <4>1, <4>2, <4>3
    <3> QED BY <1>9, <3>1, <3>2
  <2>5. /\ avail' \subseteq Heads' /\ i0 \notin Heads
        /\ \A i \in 1..Len(used') : used'[i] \in Heads' /\ used'[i] \notin avail' /\ status'[used'[i]]
    BY <1>1, <1>8, <1>9 DEF DriverInv, Requests
  <2>6. \A h \in Heads' : bdisk'[info'[h]] <=> h \in avail' \/ Answered(h)'
    <3>1. \A h \in Heads : info[h] \in Buf /\ bdisk'[info[h]] = bdisk[info[h]]
      BY <1>1, <1>8, HeadChain DEF DriverInv, TypeInv
    <3>2. bdisk'[b]
      BY <1>1, <1>3 DEF DriverInv, TypeInv
    <3> QED BY <1>1, <1>8, <1>9, <2>2, <3>1, <3>2 DEF DriverInv, Requests
  <2>7. ASSUME NEW c \in Buf, bdisk'[c] PROVE \E h \in Heads' : info'[h] = c
    <3>1. CASE c = b
      BY <1>9, <3>1
    <3>2. CASE c # b
      <4>1. bdisk[c]
        BY <1>1, <2>7, <3>2 DEF DriverInv, TypeInv
      <4>2. PICK h \in Heads : info[h] = c
        BY <4>1 DEF DriverInv, Requests
      <4>3. h \in Heads' /\ info'[h] = info[h]
        BY <1>9, <4>2
      <4> QED BY <4>2, <4>3
    <3> QED BY <3>1, <3>2
  <2>8. (\A i, j \in 1..Len(used') : used'[i] = used'[j] => i = j) /\ (used' # <<>> => intr' \/ handling')
    BY <1>1 DEF DriverInv, Requests
  <2> QED BY <2>3, <2>4, <2>5, <2>6, <2>7, <2>8 DEF Requests
<1> QED BY <1>5, <1>6, <1>7, <1>13, <1>14 DEF DriverInv

(* virtio_disk_rw() returns: the chain of its request is free again. *)
LEMMA RwReturnInv ==
  ASSUME DriverInv, NEW p \in Process, NEW to \in {"use", "unpin"}, RwReturn(p, to),
         valid' \in [Buf -> BOOLEAN], UNCHANGED <<refcnt, locked, lru, pinned>>
  PROVE  DriverInv'
<1> DEFINE b == buf[p]
           h == HeadOf(p)
<1>1. /\ pc[p] = "wait" /\ chan[p] = None /\ ~bdisk[b]
      /\ info' = [info EXCEPT ![h] = None]
      /\ free' = free \cup Chain(h)
      /\ link' = [i \in Desc |-> IF i \in Chain(h) THEN NoDesc ELSE link[i]]
      /\ op' = [op EXCEPT ![h] = NoOp]
      /\ chan' = [q \in Process |-> IF chan[q] = FreeChan THEN None ELSE chan[q]]
      /\ writing' = [writing EXCEPT ![p] = FALSE]
      /\ pc' = [pc EXCEPT ![p] = to]
      /\ UNCHANGED <<buf, blk, data, bdisk, status, avail, used, intr, handling, disk>>
  BY DEF RwReturn, DiskDone, At, Goto, Wakeup, ringVars
<1>2. b \in Buf
  BY <1>1, HasBuf
<1>3. h \in Heads /\ info[h] = b
  <2>1. \E g \in Desc : info[g] = buf[p]
    BY <1>1 DEF DriverInv, Requests, Heads
  <2> QED BY <1>2, <2>1, NoneAssumption DEF HeadOf, Heads
<1> HIDE DEF h
<1>4. h \in Desc /\ Chain(h) \subseteq Desc /\ h \in Chain(h)
  BY <1>3, HeadChain DEF Proper
<1>5. h \notin avail /\ ~Answered(h)
  BY <1>1, <1>3 DEF DriverInv, Requests
<1>6. TypeInv'
  <2>1. NoDesc \in 0..NUM /\ NoOp \in [write : BOOLEAN, block : Block \cup {None}]
    BY NUMAssumption DEF NoDesc, NoOp
  <2>2. link' \in [Desc -> 0..NUM] /\ free' \in SUBSET Desc
    BY <1>1, <1>4, <2>1 DEF DriverInv, TypeInv
  <2>3. op' \in [Desc -> [write : BOOLEAN, block : Block \cup {None}]] /\ info' \in [Desc -> Buf \cup {None}]
    BY <1>1, <2>1 DEF DriverInv, TypeInv
  <2>4. /\ pc' \in [Process -> Pcs] /\ writing' \in [Process -> BOOLEAN]
        /\ chan' \in [Process -> Chans]
    BY <1>1 DEF DriverInv, TypeInv, Pcs, Chans
  <2> QED BY <1>1, <2>2, <2>3, <2>4 DEF DriverInv, TypeInv
<1>7. Callers'
  BY <1>1 DEF DriverInv, TypeInv, Callers, Holds
<1>8. Sleeping'
  <2>1. \A q \in Process : chan'[q] # FreeChan /\ (chan'[q] # None => chan'[q] = chan[q] /\ q # p)
    BY <1>1, ChanDistinct
  <2>2. \A q \in Process : q # p => pc'[q] = pc[q]
    BY <1>1 DEF DriverInv, TypeInv
  <2> QED BY <1>1, <2>1, <2>2, ChanDistinct DEF DriverInv, Sleeping
<1>9. /\ Heads' = Heads \ {h}
      /\ \A g \in Heads \ {h} : info'[g] = info[g] /\ op'[g] = op[g]
  BY <1>1, <1>4 DEF Heads, DriverInv, TypeInv
<1>10. ASSUME NEW g \in Heads \ {h} PROVE Proper(g)' /\ Chain(g)' = Chain(g)
  <2>1. /\ g \in Desc /\ Proper(g) /\ Chain(g) = {g, link[g], link[link[g]]}
    BY HeadChain
  <2>2. Chain(g) \cap Chain(h) = {}
    BY <1>3 DEF DriverInv, Chains
  <2>3. link'[g] = link[g] /\ link'[link[g]] = link[link[g]]
    BY <1>1, <2>1, <2>2 DEF Proper
  <2> QED BY <2>1, <2>3 DEF Proper, Chain
<1>11. Chains'
  <2>1. \A g \in Heads \ {h} : Chain(g) \cap Chain(h) = {}
    BY <1>3 DEF DriverInv, Chains
  <2>2. \A g \in Heads' : Proper(g)' /\ Chain(g)' \cap free' = {}
    BY <1>1, <1>9, <1>10, <2>1 DEF DriverInv, Chains
  <2>3. \A f, g \in Heads' : f # g => info'[f] # info'[g] /\ Chain(f)' \cap Chain(g)' = {}
    BY <1>9, <1>10 DEF DriverInv, Chains
  <2>4. \A i \in Desc : i \in free' \/ \E g \in Heads' : i \in Chain(g)'
    BY <1>1, <1>9, <1>10 DEF DriverInv, Chains
  <2> QED BY <2>2, <2>3, <2>4 DEF Chains
<1>12. Requests'
  <2>1. \A q \in Process : q # p => pc'[q] = pc[q] /\ writing'[q] = writing[q]
    BY <1>1 DEF DriverInv, TypeInv
  <2>2. pc'[p] # "wait" /\ \A g : Answered(g)' <=> Answered(g)
    BY <1>1 DEF DriverInv, TypeInv, Answered
  <2>3. ASSUME NEW q \in Process, pc'[q] = "wait" PROVE \E g \in Heads' : info'[g] = buf'[q]
    <3>1. q # p /\ pc[q] = "wait"
      BY <2>1, <2>2, <2>3
    <3>2. PICK g \in Heads : info[g] = buf[q]
      BY <3>1 DEF DriverInv, Requests
    <3>3. g # h
      BY <1>1, <1>3, <3>1, <3>2, OneHolder DEF Holds
    <3> QED BY <1>1, <1>9, <3>2, <3>3
  <2>4. ASSUME NEW g \in Heads'
        PROVE  \E q \in Process : /\ pc'[q] = "wait" /\ buf'[q] = info'[g]
                                  /\ op'[g] = [write |-> writing'[q], block |-> blk'[buf'[q]]]
    <3>1. g \in Heads /\ g # h
      BY <1>9
    <3>2. PICK q \in Process : /\ pc[q] = "wait" /\ buf[q] = info[g]
                               /\ op[g] = [write |-> writing[q], block |-> blk[buf[q]]]
      BY <3>1 DEF DriverInv, Requests
    <3>3. q # p
      BY <1>3, <3>1, <3>2 DEF DriverInv, Chains
    <3> QED BY <1>1, <1>9, <2>1, <3>1, <3>2, <3>3
  <2>5. /\ avail' \subseteq Heads'
        /\ \A i \in 1..Len(used') : used'[i] \in Heads' /\ used'[i] \notin avail' /\ status'[used'[i]]
    BY <1>1, <1>5, <1>9 DEF DriverInv, Requests, Answered
  <2>6. \A g \in Heads' : bdisk'[info'[g]] <=> g \in avail' \/ Answered(g)'
    BY <1>1, <1>9, <2>2 DEF DriverInv, Requests
  <2>7. \A c \in Buf : bdisk'[c] => \E g \in Heads' : info'[g] = c
    <3>1. \A c \in Buf : bdisk[c] => \E g \in Heads \ {h} : info[g] = c
      BY <1>1, <1>3 DEF DriverInv, Requests
    <3> QED BY <1>1, <1>9, <3>1
  <2>8. (\A i, j \in 1..Len(used') : used'[i] = used'[j] => i = j) /\ (used' # <<>> => intr' \/ handling')
    BY <1>1 DEF DriverInv, Requests
  <2> QED BY <2>3, <2>4, <2>5, <2>6, <2>7, <2>8 DEF Requests
<1> QED BY <1>6, <1>7, <1>8, <1>11, <1>12 DEF DriverInv

(* bread() has its block. *)
LEMMA ReadDoneInv == ASSUME DriverInv, NEW p \in Process, ReadDone(p) PROVE DriverInv'
<1>1. RwReturn(p, "use") /\ UNCHANGED <<refcnt, locked, lru, pinned>> /\ valid' \in [Buf -> BOOLEAN]
  BY DEF ReadDone, DriverInv, TypeInv
<1> QED BY <1>1, RwReturnInv

(* bwrite() returns. *)
LEMMA WriteDoneInv == ASSUME DriverInv, NEW p \in Process, WriteDone(p) PROVE DriverInv'
<1>1. /\ \E to \in {"use", "unpin"} : RwReturn(p, to)
      /\ UNCHANGED <<refcnt, locked, lru, pinned>> /\ valid' \in [Buf -> BOOLEAN]
  BY DEF WriteDone, cacheVars, DriverInv, TypeInv
<1> QED BY <1>1, RwReturnInv

-----------------------------------------------------------------------------
(* How it starts, and the steps together. *)

(* binit() and virtio_disk_init() establish the invariant. *)
LEMMA InitInv == ASSUME Init PROVE DriverInv /\ CacheInv
<1> USE DEF Init, DiskInit
<1>1. TypeInv
  <2>1. InitVal \in Val
    BY CacheAssumption DEF InitVal
  <2>2. lru \in Seq(Buf)
    <3>1. Cardinality(Buf) \in Nat
      BY CacheAssumption, FS_CardinalityType
    <3>2. lru \in [1..Cardinality(Buf) -> Buf]
      OBVIOUS
    <3> QED BY <3>1, <3>2, SeqDef
  <2>3. NoDesc \in 0..NUM /\ NoOp \in [write : BOOLEAN, block : Block \cup {None}]
    BY NUMAssumption DEF NoDesc, NoOp
  <2>4. /\ link \in [Desc -> 0..NUM] /\ op \in [Desc -> [write : BOOLEAN, block : Block \cup {None}]]
        /\ info \in [Desc -> Buf \cup {None}] /\ status \in [Desc -> BOOLEAN]
    BY <2>3
  <2>5. used \in Seq(Desc)
    OBVIOUS
  <2>6. /\ pc \in [Process -> Pcs] /\ chan \in [Process -> Chans] /\ buf \in [Process -> Buf \cup {None}]
        /\ writing \in [Process -> BOOLEAN] /\ blk \in [Buf -> Block \cup {None}] /\ data \in [Buf -> Val]
        /\ disk \in [Block -> Val] /\ locked \in [Buf -> Process \cup {None}]
    BY <2>1 DEF Pcs, Chans
  <2>7. /\ bdisk \in [Buf -> BOOLEAN] /\ valid \in [Buf -> BOOLEAN] /\ refcnt \in [Buf -> Int]
    OBVIOUS
  <2>8. /\ free \in SUBSET Desc /\ avail \in SUBSET Desc /\ pinned \in SUBSET Buf
    OBVIOUS
  <2>9. intr \in BOOLEAN /\ handling \in BOOLEAN
    OBVIOUS
  <2> HIDE DEF Init, DiskInit
  <2> QED BY <2>2, <2>4, <2>5, <2>6, <2>7, <2>8, <2>9 DEF TypeInv
<1>2. Callers
  BY NoneAssumption DEF Callers, Holds
<1>3. Sleeping
  BY ChanDistinct DEF Sleeping
<1>4. Heads = {}
  BY DEF Heads
<1>5. Chains
  BY <1>4 DEF Chains
<1>6. Requests
  BY <1>4 DEF Requests
<1>7. Counted
  <2>1. \A b \in Buf : Users(b) = {}
    <3>1. \A p \in Process : buf[p] = None
      OBVIOUS
    <3> QED BY <3>1, NoneAssumption DEF Users
  <2>2. pinned = {} /\ \A b \in Buf : refcnt[b] = 0
    OBVIOUS
  <2>3. Cardinality({}) = 0
    BY FS_EmptySet
  <2> HIDE DEF Init, DiskInit
  <2> QED BY <2>1, <2>2, <2>3 DEF Counted
<1>8. OneCopy /\ Validity
  BY DEF OneCopy, Validity
<1>9. Synced
  BY DEF Synced, Clean, Stored, Served
<1> QED BY <1>1, <1>2, <1>3, <1>5, <1>6, <1>7, <1>8, <1>9 DEF DriverInv, CacheInv

(* The steps that change none of what the cache's invariant speaks of. *)
Aside == UNCHANGED <<pc, buf, writing, blk, data, info, avail, disk, valid, refcnt, pinned>>

(* The steps that matter to the cache, and the rest. *)
LEMMA NextCases ==
  ASSUME Next
  PROVE  \/ \E p \in Process, k \in Block : GetCached(p, k) \/ GetRecycled(p, k) \/ GetPanic(p, k)
         \/ \E p \in Process, v \in Val : WriteThrough(p, v) \/ WriteLogged(p, v)
         \/ \E p \in Process : \/ LockTake(p) \/ ReadDone(p) \/ Install(p) \/ WriteDone(p)
                               \/ Unpin(p) \/ Unlock(p) \/ Deref(p)
                               \/ RwPost(p) /\ UNCHANGED cacheVars
         \/ \E h \in Desc : DevServe(h) /\ UNCHANGED cacheVars
         \/ Aside
<1>1. ASSUME NEW p \in Process, LockSleep(p) PROVE Aside
  BY <1>1 DEF LockSleep, Aside, descVars, ringVars, cacheVars
<1>2. ASSUME NEW p \in Process, RwNoDesc(p) \/ RwAgain(p) \/ KillWakes(p), UNCHANGED cacheVars PROVE Aside
  BY <1>2 DEF RwNoDesc, RwAgain, KillWakes, Aside, descVars, ringVars, cacheVars
<1>3. ASSUME IntrStep, UNCHANGED cacheVars PROVE Aside
  BY <1>3 DEF IntrStep, IntrEnter, IntrOne, IntrLeave, Aside, descVars, ringVars, cacheVars
<1> QED BY <1>1, <1>2, <1>3 DEF Next, Get, Read, Change, Finish, Driver, RwStep, DeviceStep

(* Every step keeps DriverInv. *)
LEMMA StepDriver == ASSUME DriverInv, CacheInv, Next PROVE DriverInv'
<1>1. Counted /\ OneCopy
  BY DEF CacheInv
<1>2. ASSUME NEW p \in Process, Get(p) PROVE DriverInv'
  BY <1>1, <1>2, GetCachedInv, GetRecycledInv, GetPanicInv DEF Get
<1>3. ASSUME NEW p \in Process, Read(p) PROVE DriverInv'
  BY <1>3, LockSleepInv, LockTakeInv, ReadDoneInv DEF Read
<1>4. ASSUME NEW p \in Process, Change(p) PROVE DriverInv'
  BY <1>4, InstallInv, WriteThroughInv, WriteLoggedInv DEF Change
<1>5. ASSUME NEW p \in Process, Finish(p) PROVE DriverInv'
  BY <1>5, WriteDoneInv, UnpinInv, UnlockInv, DerefInv DEF Finish
<1>6. ASSUME NEW p \in Process, RwStep(p) \/ KillWakes(p), UNCHANGED cacheVars PROVE DriverInv'
  BY <1>6, RwNoDescInv, RwPostInv, RwAgainInv, KillWakesInv DEF RwStep
<1>7. ASSUME DeviceStep, UNCHANGED cacheVars PROVE DriverInv'
  BY <1>1, <1>7, DevServeInv DEF DeviceStep
<1>8. ASSUME IntrStep, UNCHANGED cacheVars PROVE DriverInv'
  BY <1>8, IntrEnterInv, IntrOneInv, IntrLeaveInv DEF IntrStep
<1> QED BY <1>2, <1>3, <1>4, <1>5, <1>6, <1>7, <1>8 DEF Next, Driver

-----------------------------------------------------------------------------
(* References. *)

(* A process that takes a buffer, and one that gives it back. *)
LEMMA OneMore ==
  ASSUME TypeInv, NEW p \in Process, buf[p] = None, NEW b \in Buf, buf' = [buf EXCEPT ![p] = b]
  PROVE  /\ Cardinality(Users(b)') = Cardinality(Users(b)) + 1
         /\ \A c \in Buf : c # b => Users(c)' = Users(c)
<1>1. Users(b) \subseteq Process /\ IsFiniteSet(Users(b)) /\ p \notin Users(b)
  <2>1. Users(b) \subseteq Process /\ p \notin Users(b)
    BY NoneAssumption DEF Users
  <2> QED BY <2>1, CacheAssumption, FS_Subset
<1>2. \A q \in Process : buf'[q] = IF q = p THEN b ELSE buf[q]
  BY DEF TypeInv
<1>3. Users(b)' = Users(b) \cup {p}
  BY <1>2 DEF Users
<1>4. \A c \in Buf : c # b => Users(c)' = Users(c)
  BY <1>2, NoneAssumption DEF Users
<1> QED BY <1>1, <1>3, <1>4, FS_AddElement

(* A process that drops its buffer is one user less. *)
LEMMA OneLess ==
  ASSUME TypeInv, NEW p \in Process, buf[p] \in Buf, buf' = [buf EXCEPT ![p] = None]
  PROVE  /\ Cardinality(Users(buf[p])) \in Nat /\ IsFiniteSet(Users(buf[p]))
         /\ \A b \in Buf : Cardinality(Users(b)') = Cardinality(Users(b)) - IF b = buf[p] THEN 1 ELSE 0
<1>1. \A b \in Buf : Users(b) \subseteq Process /\ IsFiniteSet(Users(b)) /\ Cardinality(Users(b)) \in Nat
  BY CacheAssumption, FS_Subset, FS_CardinalityType DEF Users
<1>2. \A q \in Process : buf'[q] = IF q = p THEN None ELSE buf[q]
  BY DEF TypeInv
<1>3. ASSUME NEW b \in Buf, b # buf[p] PROVE Users(b)' = Users(b)
  BY <1>2, <1>3, NoneAssumption DEF Users
<1>4. ASSUME NEW b \in Buf, b = buf[p] PROVE Users(b)' = Users(b) \ {p} /\ p \in Users(b)
  BY <1>2, <1>4, NoneAssumption DEF Users
<1>5. ASSUME NEW b \in Buf, b = buf[p] PROVE Cardinality(Users(b)') = Cardinality(Users(b)) - 1
  BY <1>1, <1>4, <1>5, FS_RemoveElement
<1> QED BY <1>1, <1>3, <1>5

(* b->refcnt counts users and pin after every step. *)
LEMMA StepCounted == ASSUME DriverInv, CacheInv, Next PROVE Counted'
<1> DEFINE Pin(b) == IF b \in pinned THEN 1 ELSE 0
<1>1. /\ TypeInv /\ Counted
      /\ \A b \in Buf : Cardinality(Users(b)) \in Nat
      /\ \A p \in Process : pc[p] = "idle" => buf[p] = None
  <2>1. \A b \in Buf : Users(b) \subseteq Process
    BY DEF Users
  <2> QED BY <2>1, CacheAssumption, FS_Subset, FS_CardinalityType DEF DriverInv, Callers, CacheInv
<1>2. ASSUME UNCHANGED <<buf, refcnt, pinned>> PROVE Counted'
  BY <1>1, <1>2 DEF Counted, Users
<1>3. ASSUME NEW p \in Process, NEW k \in Block, GetCached(p, k) PROVE Counted'
  <2>1. PICK b \in Buf : buf' = [buf EXCEPT ![p] = b] /\ refcnt' = [refcnt EXCEPT ![b] = @ + 1]
    BY <1>3 DEF GetCached, Cached
  <2>2. buf[p] = None /\ pinned' = pinned
    BY <1>1, <1>3 DEF GetCached, At
  <2>3. /\ Cardinality(Users(b)') = Cardinality(Users(b)) + 1
        /\ \A c \in Buf : c # b => Users(c)' = Users(c)
    BY <1>1, <2>1, <2>2, OneMore
  <2> QED BY <1>1, <2>1, <2>2, <2>3 DEF Counted, TypeInv
<1>4. ASSUME NEW p \in Process, NEW k \in Block, GetRecycled(p, k) PROVE Counted'
  <2>1. PICK b \in Buf : refcnt[b] = 0 /\ buf' = [buf EXCEPT ![p] = b] /\ refcnt' = [refcnt EXCEPT ![b] = 1]
    BY <1>1, <1>4, Recycled DEF GetRecycled
  <2>2. buf[p] = None /\ pinned' = pinned
    BY <1>1, <1>4 DEF GetRecycled, At
  <2>3. /\ Cardinality(Users(b)') = Cardinality(Users(b)) + 1
        /\ \A c \in Buf : c # b => Users(c)' = Users(c)
    BY <1>1, <2>1, <2>2, OneMore
  <2>4. Cardinality(Users(b)) = 0 /\ b \notin pinned
    BY <1>1, <2>1, NoUsers, FS_EmptySet
  <2>5. refcnt'[b] = 1 /\ \A c \in Buf : c # b => refcnt'[c] = refcnt[c]
    BY <1>1, <2>1 DEF TypeInv
  <2>6. Cardinality(Users(b)') + (IF b \in pinned' THEN 1 ELSE 0) = 1
    BY <2>2, <2>3, <2>4
  <2>7. ASSUME NEW c \in Buf, c # b
        PROVE  refcnt'[c] = Cardinality(Users(c)') + IF c \in pinned' THEN 1 ELSE 0
    BY <1>1, <2>2, <2>3, <2>5, <2>7 DEF Counted
  <2> QED BY <2>5, <2>6, <2>7 DEF Counted
<1>5. ASSUME NEW p \in Process, NEW v \in Val, WriteLogged(p, v) PROVE Counted'
  <2>1. /\ refcnt' = [refcnt EXCEPT ![buf[p]] = IF buf[p] \in pinned THEN @ ELSE @ + 1]
        /\ pinned' = pinned \cup {buf[p]} /\ buf' = buf
    BY <1>5 DEF WriteLogged
  <2>2. \A b \in Buf : Users(b)' = Users(b)
    BY <2>1 DEF Users
  <2> QED BY <1>1, <2>1, <2>2 DEF Counted, TypeInv
<1>6. ASSUME NEW p \in Process, Unpin(p) PROVE Counted'
  <2>1. /\ refcnt' = [refcnt EXCEPT ![buf[p]] = @ - 1]
        /\ pinned' = pinned \ {buf[p]} /\ buf' = buf /\ buf[p] \in pinned
    BY <1>6 DEF Unpin, At, CacheInv, Validity
  <2>2. \A b \in Buf : Users(b)' = Users(b)
    BY <2>1 DEF Users
  <2> QED BY <1>1, <2>1, <2>2 DEF Counted, TypeInv
<1>7. ASSUME NEW p \in Process, Deref(p) PROVE Counted'
  <2>1. /\ refcnt' = [refcnt EXCEPT ![buf[p]] = @ - 1]
        /\ buf' = [buf EXCEPT ![p] = None] /\ pinned' = pinned
    BY <1>7 DEF Deref
  <2>2. buf[p] \in Buf
    BY <1>7, HasBuf DEF Deref, At
  <2>3. \A b \in Buf : Cardinality(Users(b)') = Cardinality(Users(b)) - IF b = buf[p] THEN 1 ELSE 0
    BY <1>1, <2>1, <2>2, OneLess
  <2>4. \A b \in Buf : refcnt'[b] = refcnt[b] - IF b = buf[p] THEN 1 ELSE 0
    BY <1>1, <2>1, <2>2 DEF TypeInv
  <2> QED BY <1>1, <2>1, <2>3, <2>4 DEF Counted, TypeInv
<1>8. ASSUME NEW p \in Process,
             \/ LockTake(p) \/ ReadDone(p) \/ Install(p) \/ WriteDone(p) \/ Unlock(p)
             \/ RwPost(p) /\ UNCHANGED cacheVars
      PROVE Counted'
  BY <1>2, <1>8 DEF LockTake, ReadDone, Install, WriteDone, Unlock, RwPost, RwReturn, cacheVars
<1>9. ASSUME NEW p \in Process, (\E k \in Block : GetPanic(p, k)) \/ \E v \in Val : WriteThrough(p, v)
      PROVE Counted'
  BY <1>2, <1>9 DEF GetPanic, WriteThrough, cacheVars
<1>10. ASSUME NEW h \in Desc, DevServe(h), UNCHANGED cacheVars PROVE Counted'
  BY <1>2, <1>10 DEF DevServe, cacheVars
<1>11. ASSUME Aside PROVE Counted'
  BY <1>2, <1>11 DEF Aside
<1> QED BY <1>3, <1>4, <1>5, <1>6, <1>7, <1>8, <1>9, <1>10, <1>11, NextCases

-----------------------------------------------------------------------------
(* One buffer for a block, and what it holds. *)

(* A step that changes nothing the cache speaks of. *)
LEMMA Quiet == ASSUME CacheInv, Aside PROVE OneCopy' /\ Validity' /\ Synced'
<1>1. Heads' = Heads /\ \A b \in Buf : Users(b)' = Users(b)
  BY DEF Aside, Heads, Users
<1>2. OneCopy' /\ Validity'
  BY DEF Aside, CacheInv, OneCopy, Validity
<1>3. \A p \in Process : Stored(p)' <=> Stored(p)
  BY <1>1 DEF Aside, Served, Stored
<1>4. \A b \in Buf : Clean(b)' <=> Clean(b)
  BY <1>1 DEF Aside, Clean
<1> QED BY <1>2, <1>3, <1>4 DEF Aside, CacheInv, Synced, Same

(* A block has at most one buffer after every step. *)
LEMMA StepOneCopy == ASSUME DriverInv, CacheInv, Next PROVE OneCopy'
<1>1. OneCopy /\ TypeInv /\ Counted
  BY DEF CacheInv, DriverInv
<1>2. ASSUME UNCHANGED <<blk, buf, valid>> PROVE OneCopy'
  BY <1>1, <1>2 DEF OneCopy
<1>3. ASSUME NEW p \in Process, NEW k \in Block, GetCached(p, k) PROVE OneCopy'
  <2>1. PICK b \in Buf : blk[b] = k /\ buf' = [buf EXCEPT ![p] = b]
    BY <1>3 DEF GetCached, Cached
  <2>2. blk' = blk /\ valid' = valid
    BY <1>3 DEF GetCached
  <2> QED BY <1>1, <2>1, <2>2, NoneAssumption DEF OneCopy, TypeInv
<1>4. ASSUME NEW p \in Process, NEW k \in Block, GetRecycled(p, k) PROVE OneCopy'
  <2>1. PICK b \in Buf : /\ buf' = [buf EXCEPT ![p] = b] /\ refcnt[b] = 0
                         /\ blk' = [blk EXCEPT ![b] = k] /\ valid' = [valid EXCEPT ![b] = FALSE]
    BY <1>1, <1>4, Recycled DEF GetRecycled
  <2>2. \A c \in Buf : blk[c] # k
    BY <1>4 DEF GetRecycled, Cached
  <2>3. \A c \in Buf : blk'[c] = (IF c = b THEN k ELSE blk[c]) /\ (valid'[c] => valid[c] /\ c # b)
    BY <1>1, <2>1 DEF TypeInv
  <2>4. \A q \in Process : buf'[q] = IF q = p THEN b ELSE buf[q]
    BY <1>1, <2>1 DEF TypeInv
  <2>5. \A q \in Process : buf[q] \in Buf \cup {None}
    BY <1>1 DEF TypeInv
  <2>6. k # None
    BY NoneAssumption
  <2> QED BY <1>1, <2>2, <2>3, <2>4, <2>5, <2>6 DEF OneCopy
<1>5. ASSUME NEW p \in Process, ReadDone(p) PROVE OneCopy'
  <2>1. blk' = blk /\ buf' = buf /\ valid' = [valid EXCEPT ![buf[p]] = TRUE] /\ buf[p] # None
    BY <1>5, HasBuf, NoneAssumption DEF ReadDone, RwReturn, At
  <2> QED BY <1>1, <2>1 DEF OneCopy, TypeInv
<1>6. ASSUME NEW p \in Process, Deref(p) PROVE OneCopy'
  <2>1. blk' = blk /\ valid' = valid /\ buf' = [buf EXCEPT ![p] = None]
    BY <1>6 DEF Deref
  <2> QED BY <1>1, <2>1 DEF OneCopy, TypeInv
<1>7. ASSUME NEW p \in Process,
             \/ LockTake(p) \/ Install(p) \/ WriteDone(p) \/ Unpin(p) \/ Unlock(p)
             \/ RwPost(p) /\ UNCHANGED cacheVars
      PROVE OneCopy'
  BY <1>2, <1>7 DEF LockTake, Install, WriteDone, Unpin, Unlock, RwPost, RwReturn, cacheVars
<1>8. ASSUME NEW p \in Process,
             \/ \E k \in Block : GetPanic(p, k)
             \/ \E v \in Val : WriteThrough(p, v) \/ WriteLogged(p, v)
      PROVE OneCopy'
  BY <1>2, <1>8 DEF GetPanic, WriteThrough, WriteLogged, cacheVars
<1>9. ASSUME NEW h \in Desc, DevServe(h), UNCHANGED cacheVars PROVE OneCopy'
  BY <1>2, <1>9 DEF DevServe, cacheVars
<1> QED BY <1>3, <1>4, <1>5, <1>6, <1>7, <1>8, <1>9, NextCases, Quiet

(* What a process at work relies on, and one that goes on to "use" or "unpin". *)
LEMMA StepValidity == ASSUME DriverInv, CacheInv, Next PROVE Validity'
<1>1. Validity /\ OneCopy /\ TypeInv /\ Callers /\ Counted
  BY DEF CacheInv, DriverInv
<1>2. \A q \in Process : writing[q] => pc[q] \in {"rw", "wait"}
  BY <1>1 DEF Callers
<1>3. ASSUME NEW p \in Process, NEW to \in {"lock", "deref", "idle", "panic"},
             pc' = [pc EXCEPT ![p] = to], ~writing[p],
             \A q \in Process : q # p => buf'[q] = buf[q],
             UNCHANGED <<writing, pinned>>,
             \A q \in Process : q # p /\ buf[q] # None => valid'[buf[q]] = valid[buf[q]],
             \A b \in pinned : valid'[b]
      PROVE  Validity'
  <2>1. \A q \in Process : q # p => pc'[q] = pc[q]
    BY <1>1, <1>3 DEF TypeInv
  <2>2. pc'[p] \notin {"use", "unpin", "rw", "wait"}
    BY <1>1, <1>3 DEF TypeInv
  <2>3. \A q \in Process : pc[q] \in {"use", "unpin", "rw", "wait"} => buf[q] # None
    BY <1>1 DEF Callers
  <2> QED BY <1>1, <1>2, <1>3, <2>1, <2>2, <2>3 DEF Validity
<1>4. ASSUME NEW p \in Process, NEW k \in Block, GetCached(p, k) PROVE Validity'
  <2>1. /\ pc' = [pc EXCEPT ![p] = "lock"] /\ UNCHANGED <<writing, pinned, valid>>
        /\ \A q \in Process : q # p => buf'[q] = buf[q]
        /\ ~writing[p]
    BY <1>1, <1>2, <1>4 DEF GetCached, At, Goto, TypeInv
  <2> QED BY <1>1, <1>3, <2>1 DEF Validity
<1>5. ASSUME NEW p \in Process, NEW k \in Block, GetRecycled(p, k) PROVE Validity'
  <2>1. PICK b \in Buf : /\ buf' = [buf EXCEPT ![p] = b] /\ refcnt[b] = 0
                         /\ valid' = [valid EXCEPT ![b] = FALSE]
    BY <1>1, <1>5, Recycled DEF GetRecycled
  <2>2. b \notin pinned /\ \A q \in Process : buf[q] # b
    BY <1>1, <2>1, NoUsers DEF Users
  <2>3. /\ \A q \in Process : q # p => buf'[q] = buf[q]
        /\ \A c \in Buf : c # b => valid'[c] = valid[c]
        /\ \A q \in Process : buf[q] \in Buf \cup {None}
        /\ pinned \in SUBSET Buf
    BY <1>1, <2>1 DEF TypeInv
  <2>4. pc' = [pc EXCEPT ![p] = "lock"] /\ UNCHANGED <<writing, pinned>> /\ ~writing[p]
    BY <1>2, <1>5 DEF GetRecycled, At, Goto
  <2>5. \A q \in Process : q # p /\ buf[q] # None => valid'[buf[q]] = valid[buf[q]]
    BY <2>2, <2>3
  <2>6. \A c \in pinned : valid'[c]
    BY <1>1, <2>2, <2>3 DEF Validity
  <2> QED BY <1>3, <2>3, <2>4, <2>5, <2>6
<1>6. ASSUME NEW p \in Process, NEW k \in Block, GetPanic(p, k) PROVE Validity'
  <2>1. pc' = [pc EXCEPT ![p] = "panic"] /\ UNCHANGED <<buf, writing, pinned, valid>> /\ ~writing[p]
    BY <1>2, <1>6 DEF GetPanic, At, Goto, cacheVars
  <2> QED BY <1>1, <1>3, <2>1 DEF Validity
<1>7. ASSUME NEW p \in Process, Unlock(p) PROVE Validity'
  <2>1. pc' = [pc EXCEPT ![p] = "deref"] /\ UNCHANGED <<buf, writing, pinned, valid>> /\ ~writing[p]
    BY <1>2, <1>7 DEF Unlock, At, Goto
  <2> QED BY <1>1, <1>3, <2>1 DEF Validity
<1>8. ASSUME NEW p \in Process, Deref(p) PROVE Validity'
  <2>1. /\ pc' = [pc EXCEPT ![p] = "idle"] /\ UNCHANGED <<writing, pinned, valid>> /\ ~writing[p]
        /\ \A q \in Process : q # p => buf'[q] = buf[q]
    BY <1>1, <1>2, <1>8 DEF Deref, At, Goto, TypeInv
  <2> QED BY <1>1, <1>3, <2>1 DEF Validity
<1>9. ASSUME NEW p \in Process, LockTake(p) PROVE Validity'
  <2>1. /\ pc' = [pc EXCEPT ![p] = IF valid[buf[p]] THEN "use" ELSE "rw"]
        /\ UNCHANGED <<buf, writing, pinned, valid>> /\ ~writing[p]
    BY <1>2, <1>9 DEF LockTake, At, Goto
  <2> QED BY <1>1, <2>1 DEF Validity, TypeInv
<1>10. ASSUME NEW p \in Process, Install(p) \/ \E v \in Val : WriteThrough(p, v) PROVE Validity'
  <2>1. /\ pc' = [pc EXCEPT ![p] = "rw"] /\ writing' = [writing EXCEPT ![p] = TRUE]
        /\ UNCHANGED <<buf, pinned, valid>> /\ pc[p] = "use"
    BY <1>10 DEF Install, WriteThrough, At, Goto, cacheVars
  <2> QED BY <1>1, <2>1 DEF Validity, TypeInv
<1>11. ASSUME NEW p \in Process, NEW v \in Val, WriteLogged(p, v) PROVE Validity'
  <2>1. pinned' = pinned \cup {buf[p]} /\ UNCHANGED <<pc, buf, writing, valid>> /\ pc[p] = "use"
    BY <1>11 DEF WriteLogged, At
  <2> QED BY <1>1, <2>1 DEF Validity
<1>12. ASSUME NEW p \in Process, RwPost(p), UNCHANGED cacheVars PROVE Validity'
  <2>1. pc' = [pc EXCEPT ![p] = "wait"] /\ UNCHANGED <<buf, writing, pinned, valid>> /\ pc[p] = "rw"
    BY <1>12 DEF RwPost, At, Goto, cacheVars
  <2> QED BY <1>1, <2>1 DEF Validity, TypeInv
<1>13. ASSUME NEW p \in Process, ReadDone(p) PROVE Validity'
  <2>1. /\ pc' = [pc EXCEPT ![p] = "use"] /\ writing' = [writing EXCEPT ![p] = FALSE]
        /\ valid' = [valid EXCEPT ![buf[p]] = TRUE] /\ UNCHANGED <<buf, pinned>> /\ pc[p] = "wait"
    BY <1>13 DEF ReadDone, RwReturn, At, Goto
  <2>2. buf[p] \in Buf
    BY <2>1, HasBuf
  <2>3. \A q \in Process : q # p /\ Holds(q) => buf[q] # buf[p]
    BY <2>1, OneHolder DEF Holds
  <2>4. \A q \in Process : q # p => pc'[q] = pc[q] /\ writing'[q] = writing[q]
    BY <1>1, <2>1 DEF TypeInv
  <2>5. pc'[p] = "use" /\ ~writing'[p]
    BY <1>1, <2>1 DEF TypeInv
  <2>6. \A b \in Buf : valid'[b] = IF b = buf[p] THEN TRUE ELSE valid[b]
    BY <1>1, <2>1 DEF TypeInv
  <2>7. ASSUME NEW q \in Process, q # p, Holds(q) PROVE valid'[buf[q]] = valid[buf[q]]
    <3>1. buf[q] \in Buf /\ buf[q] # buf[p]
      BY <2>3, <2>7, HasBuf DEF Holds
    <3> QED BY <2>6, <3>1
  <2>8. ASSUME NEW q \in Process, pc'[q] \in {"use", "unpin"} \/ writing'[q] PROVE valid'[buf'[q]]
    <3>1. CASE q = p
      BY <2>1, <2>2, <2>6, <3>1
    <3>2. CASE q # p
      <4>1. pc[q] \in {"use", "unpin"} \/ writing[q]
        BY <2>4, <2>8, <3>2
      <4>2. Holds(q) /\ valid[buf[q]]
        BY <1>1, <1>2, <4>1 DEF Validity, Holds
      <4> QED BY <2>1, <2>7, <3>2, <4>2
    <3> QED BY <3>1, <3>2
  <2>9. ASSUME NEW q \in Process, pc'[q] \in {"rw", "wait"} /\ ~writing'[q] PROVE ~valid'[buf'[q]]
    <3>1. q # p /\ pc[q] \in {"rw", "wait"} /\ ~writing[q]
      BY <2>4, <2>5, <2>9
    <3>2. Holds(q) /\ ~valid[buf[q]]
      BY <1>1, <3>1 DEF Validity, Holds
    <3> QED BY <2>1, <2>7, <3>1, <3>2
  <2>10. ASSUME NEW q \in Process, pc'[q] = "unpin" PROVE buf'[q] \in pinned'
    BY <1>1, <2>1, <2>4, <2>5, <2>10 DEF Validity
  <2>11. \A b \in pinned' : valid'[b]
    <3>1. pinned \subseteq Buf
      BY <1>1 DEF TypeInv
    <3> QED BY <1>1, <2>1, <2>6, <3>1 DEF Validity
  <2> QED BY <2>8, <2>9, <2>10, <2>11 DEF Validity
<1>14. ASSUME NEW p \in Process, WriteDone(p) PROVE Validity'
  <2>1. /\ pc' = [pc EXCEPT ![p] = IF buf[p] \in pinned THEN "unpin" ELSE "use"]
        /\ writing' = [writing EXCEPT ![p] = FALSE] /\ writing[p]
        /\ UNCHANGED <<buf, pinned, valid>>
    BY <1>14 DEF WriteDone, RwReturn, At, Goto, cacheVars
  <2> QED BY <1>1, <2>1 DEF Validity, TypeInv
<1>15. ASSUME NEW p \in Process, Unpin(p) PROVE Validity'
  <2>1. /\ pc' = [pc EXCEPT ![p] = "use"] /\ pinned' = pinned \ {buf[p]}
        /\ UNCHANGED <<buf, writing, valid>> /\ pc[p] = "unpin"
    BY <1>15 DEF Unpin, At, Goto
  <2>2. \A q \in Process : q # p /\ Holds(q) => buf[q] # buf[p]
    BY <2>1, OneHolder DEF Holds
  <2> QED BY <1>1, <1>2, <2>1, <2>2 DEF Validity, TypeInv, Holds
<1>16. ASSUME NEW h \in Desc, DevServe(h), UNCHANGED cacheVars PROVE Validity'
  BY <1>1, <1>16 DEF DevServe, cacheVars, Validity
<1> QED BY <1>4, <1>5, <1>6, <1>7, <1>8, <1>9, <1>10, <1>11, <1>12, <1>13, <1>14, <1>15, <1>16, NextCases, Quiet

-----------------------------------------------------------------------------
(* Buffer and disk. *)

(* A process whose request is served holds its buffer. *)
LEMMA StoredHolds ==
  ASSUME DriverInv, NEW q \in Process, Stored(q) PROVE Holds(q) /\ buf[q] \in Buf
<1>1. Holds(q) /\ pc[q] \notin {"idle", "panic"}
  BY DEF Stored, Served, Holds
<1> QED BY <1>1, HasBuf

(* A step that moves no data: what becomes clean or stored was already. *)
LEMMA SyncedCarries ==
  ASSUME Synced, UNCHANGED <<data, disk>>,
         \A b \in Buf : Clean(b)' => (Clean(b) /\ blk'[b] = blk[b]) \/ Same(b)',
         \A q \in Process : Stored(q)' => Stored(q) /\ buf'[q] = buf[q] /\ blk'[buf[q]] = blk[buf[q]]
  PROVE  Synced'
BY DEF Synced, Same

(* The step of a process that leaves the driver's variables alone. *)
LEMMA StoredCarries ==
  ASSUME DriverInv, NEW p \in Process, NEW to \in Pcs \ {"wait", "unpin"},
         pc' = [pc EXCEPT ![p] = to], UNCHANGED <<info, avail>>,
         \A q \in Process : q # p => buf'[q] = buf[q]
  PROVE  \A q \in Process : Stored(q)' => q # p /\ Stored(q) /\ buf'[q] = buf[q]
<1>1. Heads' = Heads
  BY DEF Heads
<1>2. pc'[p] = to /\ \A q \in Process : q # p => pc'[q] = pc[q]
  BY DEF DriverInv, TypeInv
<1> QED BY <1>1, <1>2 DEF Stored, Served

(* After virtio_disk_rw() buffer and disk agree. *)
LEMMA RwReturnSynced ==
  ASSUME DriverInv, CacheInv, NEW p \in Process, NEW to \in {"use", "unpin"}, RwReturn(p, to),
         UNCHANGED pinned, \A c \in Buf : c # buf[p] => valid'[c] = valid[c]
  PROVE  Synced'
<1> DEFINE h == HeadOf(p)
<1>1. /\ pc[p] = "wait" /\ ~bdisk[buf[p]]
      /\ info' = [info EXCEPT ![h] = None]
      /\ writing' = [writing EXCEPT ![p] = FALSE]
      /\ pc' = [pc EXCEPT ![p] = to]
      /\ UNCHANGED <<buf, blk, data, avail, disk>>
  BY DEF RwReturn, DiskDone, At, Goto, ringVars
<1>2. buf[p] \in Buf
  BY <1>1, HasBuf
<1>3. h \in Heads /\ info[h] = buf[p]
  <2>1. \E g \in Desc : info[g] = buf[p]
    BY <1>1 DEF DriverInv, Requests, Heads
  <2> QED BY <1>2, <2>1, NoneAssumption DEF HeadOf, Heads
<1> HIDE DEF h
<1>4. Synced
  BY DEF CacheInv
<1>5. Stored(p)
  BY <1>1, <1>2 DEF Stored, Served, DriverInv, Requests
<1>6. Same(buf[p])' /\ blk' = blk
  BY <1>1, <1>2, <1>4, <1>5 DEF Synced, Same
<1>7. ASSUME NEW b \in Buf, Clean(b)' PROVE (Clean(b) /\ blk'[b] = blk[b]) \/ Same(b)'
  <2>1. CASE b = buf[p]
    BY <1>1, <1>6, <2>1 DEF Same
  <2>2. CASE b # buf[p]
    <3>1. \A q \in Users(b) : q # p /\ q \in Process
      BY <2>2 DEF Users
    <3>2. Users(b)' = Users(b)
      BY <1>1 DEF Users
    <3>3. \A q \in Users(b) : writing'[q] = writing[q]
      BY <1>1, <3>1 DEF DriverInv, TypeInv
    <3> QED BY <1>6, <1>7, <2>2, <3>2, <3>3 DEF Clean
  <2> QED BY <2>1, <2>2
<1>8. ASSUME NEW q \in Process, Stored(q)' PROVE Stored(q)
  <2>1. CASE q = p
    BY <1>5, <2>1
  <2>2. CASE q # p
    <3>1. pc'[q] = pc[q]
      BY <1>1, <2>2 DEF DriverInv, TypeInv
    <3>2. CASE pc[q] = "wait"
      <4>1. buf[q] # buf[p]
        BY <1>1, <2>2, <3>2, OneHolder DEF Holds
      <4>2. \A g \in Heads : info[g] = buf[q] => g \in Heads' /\ info'[g] = info[g]
        BY <1>1, <1>3, <4>1 DEF Heads, DriverInv, TypeInv
      <4> QED BY <1>1, <1>8, <3>1, <3>2, <4>2 DEF Stored, Served
    <3>3. CASE pc[q] # "wait"
      BY <1>8, <3>1, <3>3 DEF Stored, Served
    <3> QED BY <3>2, <3>3
  <2> QED BY <2>1, <2>2
<1> QED BY <1>1, <1>4, <1>7, <1>8, SyncedCarries

(* The device copies a block: its buffer is the only one of that block. *)
LEMMA DevServeSynced ==
  ASSUME DriverInv, CacheInv, NEW h \in Desc, DevServe(h), UNCHANGED cacheVars PROVE Synced'
<1> DEFINE b == info[h]
<1>1. /\ h \in avail /\ avail' = avail \ {h}
      /\ UNCHANGED <<pc, buf, writing, blk, info, valid, pinned>>
  BY DEF DevServe, cacheVars
<1>2. h \in Heads /\ b \in Buf
  BY <1>1 DEF DriverInv, Requests, TypeInv, Heads
<1>3. PICK p \in Process : /\ pc[p] = "wait" /\ buf[p] = b
                           /\ op[h] = [write |-> writing[p], block |-> blk[buf[p]]]
  BY <1>2 DEF DriverInv, Requests
<1>4. op[h].write = writing[p] /\ op[h].block = blk[b] /\ blk[b] # None /\ blk[b] \in Block
  <2>1. op[h].write = writing[p] /\ op[h].block = blk[b]
    BY <1>3
  <2>2. buf[p] # None
    BY <1>2, <1>3, NoneAssumption
  <2>3. blk[b] # None
    BY <1>3, <2>2 DEF CacheInv, OneCopy
  <2> QED BY <1>2, <2>1, <2>3 DEF DriverInv, TypeInv
<1>5. Same(b)' /\ \A c \in Buf \ {b} : blk[c] # None /\ Same(c) => Same(c)'
  <2>1. \A c \in Buf \ {b} : blk[c] # blk[b]
    BY <1>2, <1>4 DEF CacheInv, OneCopy
  <2>2. \A c \in Buf : blk[c] # None => blk[c] \in Block
    BY DEF DriverInv, TypeInv
  <2>3. data \in [Buf -> Val] /\ disk \in [Block -> Val]
    BY DEF DriverInv, TypeInv
  <2>4. CASE op[h].write
    <3>1. disk' = [disk EXCEPT ![blk[b]] = data[b]] /\ data' = data
      BY <1>4, <2>4 DEF DevServe
    <3>2. Same(b)'
      BY <1>1, <1>2, <1>4, <2>3, <3>1 DEF Same
    <3> QED BY <1>1, <1>4, <2>1, <2>2, <2>3, <3>1, <3>2 DEF Same
  <2>5. CASE ~op[h].write
    <3>1. data' = [data EXCEPT ![b] = disk[blk[b]]] /\ disk' = disk
      BY <1>4, <2>5 DEF DevServe
    <3>2. Same(b)'
      BY <1>1, <1>2, <2>3, <3>1 DEF Same
    <3> QED BY <1>1, <1>2, <2>3, <3>1, <3>2 DEF Same
  <2> QED BY <2>4, <2>5
<1>6. ASSUME NEW c \in Buf, Clean(c)' PROVE Same(c)'
  <2>1. Clean(c) /\ valid[c]
    <3>1. Users(c)' = Users(c)
      BY <1>1 DEF Users
    <3> QED BY <1>1, <1>6, <3>1 DEF Clean
  <2>2. Same(c) /\ blk[c] # None
    BY <2>1 DEF CacheInv, Synced, OneCopy
  <2>3. CASE c = b
    BY <1>1, <1>5, <2>3 DEF Same
  <2>4. CASE c # b
    BY <1>5, <2>2, <2>4
  <2> QED BY <2>3, <2>4
<1>7. ASSUME NEW q \in Process, Stored(q)' PROVE Same(buf[q])'
  <2>1. CASE buf[q] = b
    BY <1>1, <1>5, <2>1 DEF Same
  <2>2. CASE buf[q] # b
    <3>1. Heads' = Heads
      BY <1>1 DEF Heads
    <3>2. Stored(q)
      BY <1>1, <1>7, <2>2, <3>1 DEF Stored, Served
    <3>3. buf[q] \in Buf /\ Same(buf[q]) /\ blk[buf[q]] # None
      BY <3>2, StoredHolds, NoneAssumption DEF CacheInv, Synced, OneCopy
    <3>4. \A c \in Buf \ {b} : blk[c] # None /\ Same(c) => Same(c)'
      BY <1>5
    <3> QED BY <1>1, <2>2, <3>3, <3>4 DEF Same
  <2> QED BY <2>1, <2>2
<1> QED BY <1>1, <1>6, <1>7 DEF Synced, Same

(* Buffer and disk keep agreeing where nobody is about to write. *)
LEMMA StepSynced == ASSUME DriverInv, CacheInv, Next PROVE Synced'
<1>1. Synced /\ Validity /\ OneCopy /\ Counted /\ TypeInv /\ Callers
  BY DEF CacheInv, DriverInv
<1>2. \A q \in Process : writing[q] => pc[q] \in {"rw", "wait"}
  BY <1>1 DEF Callers
<1>3. {"idle", "lock", "rw", "use", "deref", "panic"} \subseteq Pcs \ {"wait", "unpin"}
  BY DEF Pcs
<1>4. ASSUME NEW p \in Process, NEW k \in Block, GetCached(p, k) PROVE Synced'
  <2>1. /\ pc[p] = "idle" /\ pc' = [pc EXCEPT ![p] = "lock"]
        /\ UNCHANGED <<writing, blk, data, info, avail, disk, valid, pinned>>
    BY <1>4 DEF GetCached, At, Goto, descVars, ringVars
  <2>2. buf[p] = None /\ \A q \in Process : q # p => buf'[q] = buf[q]
    BY <1>1, <1>4, <2>1 DEF GetCached, TypeInv, Callers
  <2>3. \A b \in Buf : Users(b) \subseteq Users(b)'
    BY <2>2, NoneAssumption DEF Users
  <2>4. \A b \in Buf : Clean(b)' => Clean(b)
    BY <2>1, <2>3 DEF Clean
  <2> QED BY <1>1, <1>3, <2>1, <2>2, <2>4, StoredCarries, SyncedCarries
<1>5. ASSUME NEW p \in Process, NEW k \in Block, GetRecycled(p, k) PROVE Synced'
  <2>1. PICK b \in Buf : /\ buf' = [buf EXCEPT ![p] = b] /\ refcnt[b] = 0
                         /\ blk' = [blk EXCEPT ![b] = k] /\ valid' = [valid EXCEPT ![b] = FALSE]
    BY <1>1, <1>5, Recycled DEF GetRecycled
  <2>2. /\ pc[p] = "idle" /\ pc' = [pc EXCEPT ![p] = "lock"]
        /\ UNCHANGED <<writing, data, info, avail, disk, pinned>>
    BY <1>5 DEF GetRecycled, At, Goto, descVars, ringVars
  <2>3. \A q \in Process : buf[q] # b
    BY <1>1, <2>1, NoUsers DEF Users
  <2>4. buf[p] = None /\ \A q \in Process : q # p => buf'[q] = buf[q]
    BY <1>1, <2>1, <2>2 DEF TypeInv, Callers
  <2>5. \A c \in Buf : Users(c) \subseteq Users(c)'
    BY <2>4, NoneAssumption DEF Users
  <2>6. \A c \in Buf : Clean(c)' => Clean(c) /\ blk'[c] = blk[c]
    BY <1>1, <2>1, <2>2, <2>5 DEF Clean, TypeInv
  <2>7. \A q \in Process : Stored(q)' => q # p /\ Stored(q) /\ buf'[q] = buf[q]
    BY <1>3, <2>2, <2>4, StoredCarries
  <2>8. \A q \in Process : Stored(q) => blk'[buf[q]] = blk[buf[q]]
    BY <1>1, <2>1, <2>3, StoredHolds DEF TypeInv
  <2> QED BY <1>1, <2>2, <2>6, <2>7, <2>8, SyncedCarries
<1>6. ASSUME NEW p \in Process, (\E k \in Block : GetPanic(p, k)) \/ Unlock(p) \/ LockTake(p) PROVE Synced'
  <2>1. PICK to \in Pcs \ {"wait", "unpin"} : pc' = [pc EXCEPT ![p] = to]
    BY <1>3, <1>6 DEF GetPanic, Unlock, LockTake, Goto
  <2>2. UNCHANGED <<buf, writing, blk, data, info, avail, disk, valid, pinned>>
    BY <1>6 DEF GetPanic, Unlock, LockTake, descVars, ringVars, cacheVars
  <2>3. \A b \in Buf : Clean(b)' <=> Clean(b)
    BY <2>2 DEF Clean, Users
  <2>4. \A q \in Process : Stored(q)' => Stored(q)
    BY <2>1, <2>2, StoredCarries
  <2> QED BY <1>1, <2>2, <2>3, <2>4, SyncedCarries
<1>7. ASSUME NEW p \in Process, Deref(p) PROVE Synced'
  <2>1. /\ pc[p] = "deref" /\ pc' = [pc EXCEPT ![p] = "idle"] /\ buf' = [buf EXCEPT ![p] = None]
        /\ UNCHANGED <<writing, blk, data, info, avail, disk, valid, pinned>>
    BY <1>7 DEF Deref, At, Goto, descVars, ringVars
  <2>2. ~writing[p] /\ \A q \in Process : q # p => buf'[q] = buf[q]
    BY <1>1, <1>2, <2>1 DEF TypeInv
  <2>3. \A b \in Buf : Clean(b)' => Clean(b)
    BY <2>1, <2>2 DEF Clean, Users
  <2> QED BY <1>1, <1>3, <2>1, <2>2, <2>3, StoredCarries, SyncedCarries
<1>8. ASSUME NEW p \in Process, Install(p) PROVE Synced'
  <2>1. /\ pc[p] = "use" /\ pc' = [pc EXCEPT ![p] = "rw"] /\ writing' = [writing EXCEPT ![p] = TRUE]
        /\ UNCHANGED <<buf, blk, data, info, avail, disk, valid, pinned>>
    BY <1>8 DEF Install, At, Goto, descVars, ringVars, cacheVars
  <2>2. \A q \in Process : writing[q] => writing'[q]
    BY <1>1, <2>1 DEF TypeInv
  <2>3. \A b \in Buf : Clean(b)' => Clean(b)
    BY <2>1, <2>2 DEF Clean, Users
  <2> QED BY <1>1, <1>3, <2>1, <2>3, StoredCarries, SyncedCarries
<1>9. ASSUME NEW p \in Process, NEW v \in Val, WriteThrough(p, v) \/ WriteLogged(p, v) PROVE Synced'
  <2>1. /\ pc[p] = "use" /\ data' = [data EXCEPT ![buf[p]] = v]
        /\ UNCHANGED <<buf, blk, info, avail, disk, valid>>
    BY <1>9 DEF WriteThrough, WriteLogged, At, descVars, ringVars, cacheVars
  <2>2. buf[p] \in Buf /\ p \in Users(buf[p])
    BY <2>1, HasBuf DEF Users
  <2>3. ASSUME NEW b \in Buf, Clean(b)' PROVE b # buf[p] /\ Clean(b)
    <3>1. CASE WriteThrough(p, v)
      <4>1. writing' = [writing EXCEPT ![p] = TRUE] /\ pinned' = pinned
        BY <3>1 DEF WriteThrough, cacheVars
      <4>2. writing'[p] /\ \A q \in Process : writing[q] => writing'[q]
        BY <1>1, <4>1 DEF TypeInv
      <4> QED BY <2>1, <2>3, <4>1, <4>2 DEF Clean, Users
    <3>2. CASE WriteLogged(p, v)
      <4>1. pinned' = pinned \cup {buf[p]} /\ writing' = writing
        BY <3>2 DEF WriteLogged
      <4> QED BY <2>1, <2>3, <4>1 DEF Clean, Users
    <3> QED BY <1>9, <3>1, <3>2
  <2>4. ASSUME NEW q \in Process, Stored(q)' PROVE q # p /\ Stored(q)
    <3>1. PICK to \in {"use", "rw"} : pc' = [pc EXCEPT ![p] = to]
      <4>1. CASE WriteThrough(p, v)
        BY <4>1 DEF WriteThrough, Goto
      <4>2. CASE WriteLogged(p, v)
        <5>1. pc' = [pc EXCEPT ![p] = "use"]
          BY <1>1, <2>1, <4>2 DEF WriteLogged, TypeInv
        <5> QED BY <5>1
      <4> QED BY <1>9, <4>1, <4>2
    <3> QED BY <1>3, <2>1, <2>4, <3>1, StoredCarries
  <2>5. ASSUME NEW q \in Process, q # p, Stored(q) PROVE buf[q] \in Buf /\ buf[q] # buf[p]
    BY <2>1, <2>5, StoredHolds, OneHolder DEF Holds
  <2>6. \A c \in Buf : c # buf[p] => data'[c] = data[c]
    BY <1>1, <2>1 DEF TypeInv
  <2> QED BY <1>1, <2>1, <2>3, <2>4, <2>5, <2>6 DEF Synced, Same
<1>10. ASSUME NEW p \in Process, RwPost(p), UNCHANGED cacheVars PROVE Synced'
  <2>1. /\ pc[p] = "rw" /\ pc' = [pc EXCEPT ![p] = "wait"] /\ Lowest(free) \in Desc
        /\ info' = [info EXCEPT ![Lowest(free)] = buf[p]]
        /\ avail' = avail \cup {Lowest(free)}
        /\ UNCHANGED <<buf, writing, blk, data, disk, valid, pinned>>
    <3>1. Lowest(free) \in free
      BY <1>1, <1>10, ThreeFree DEF RwPost, TypeInv
    <3> QED BY <1>1, <1>10, <3>1 DEF RwPost, At, Goto, cacheVars, TypeInv
  <2>2. \A b \in Buf : Clean(b)' <=> Clean(b)
    BY <2>1 DEF Clean, Users
  <2>3. buf[p] \in Buf /\ buf[p] # None
    BY <2>1, HasBuf, NoneAssumption
  <2>4. ASSUME NEW q \in Process, Stored(q)' PROVE Stored(q)
    <3>1. q # p
      <4>1. ~Served(p)' /\ pc'[p] = "wait"
        BY <1>1, <2>1, <2>3 DEF Served, Heads, TypeInv
      <4> QED BY <2>4, <4>1 DEF Stored
    <3>2. pc'[q] = pc[q]
      BY <1>1, <2>1, <3>1 DEF TypeInv
    <3>3. \A h \in Heads : h \in Heads' /\ (info'[h] = info[h] \/ h \in avail')
      BY <1>1, <2>1, <2>3 DEF Heads, TypeInv
    <3>4. CASE pc[q] = "wait"
      <4>1. \A h \in Heads' : info'[h] = buf[q] => h \notin avail'
        BY <2>1, <2>4, <3>2, <3>4 DEF Stored, Served
      <4>2. \A h \in Heads : info[h] = buf[q] => h \notin avail
        <5>1. \A h \in avail : h \in Heads /\ h # Lowest(free)
          <6>1. \A h \in avail : h \in Heads /\ h \notin free
            BY HeadChain DEF DriverInv, Requests
          <6> QED BY <1>1, <1>10, <6>1, ThreeFree DEF RwPost, TypeInv
        <5>2. \A h \in avail : h \in Heads' /\ h \in avail' /\ info'[h] = info[h]
          BY <1>1, <2>1, <3>3, <5>1 DEF TypeInv, Heads
        <5> QED BY <4>1, <5>2
      <4> QED BY <3>4, <4>2 DEF Stored, Served
    <3>5. CASE pc[q] # "wait"
      BY <2>4, <3>2, <3>5 DEF Stored, Served
    <3> QED BY <3>4, <3>5
  <2> QED BY <1>1, <2>1, <2>2, <2>4, SyncedCarries
<1>11. ASSUME NEW p \in Process, ReadDone(p) PROVE Synced'
  <2>1. /\ RwReturn(p, "use") /\ pinned' = pinned
        /\ \A c \in Buf : c # buf[p] => valid'[c] = valid[c]
    BY <1>1, <1>11 DEF ReadDone, TypeInv
  <2> QED BY <2>1, RwReturnSynced
<1>12. ASSUME NEW p \in Process, WriteDone(p) PROVE Synced'
  <2>1. /\ \E to \in {"use", "unpin"} : RwReturn(p, to)
        /\ pinned' = pinned /\ \A c \in Buf : c # buf[p] => valid'[c] = valid[c]
    BY <1>12 DEF WriteDone, cacheVars
  <2> QED BY <2>1, RwReturnSynced
<1>13. ASSUME NEW p \in Process, Unpin(p) PROVE Synced'
  <2>1. /\ pc[p] = "unpin" /\ pc' = [pc EXCEPT ![p] = "use"] /\ pinned' = pinned \ {buf[p]}
        /\ UNCHANGED <<buf, writing, blk, data, info, avail, disk, valid>>
    BY <1>13 DEF Unpin, At, Goto, descVars, ringVars
  <2>2. Same(buf[p])
    BY <1>1, <2>1 DEF Synced, Stored
  <2>3. \A b \in Buf : Clean(b)' => Clean(b) \/ b = buf[p]
    BY <2>1 DEF Clean, Users
  <2>4. \A b \in Buf : b = buf[p] => Same(b)'
    BY <2>1, <2>2 DEF Same
  <2>5. \A q \in Process : Stored(q)' => Stored(q)
    BY <1>3, <2>1, StoredCarries
  <2> QED BY <1>1, <2>1, <2>3, <2>4, <2>5, SyncedCarries
<1> QED BY <1>4, <1>5, <1>6, <1>7, <1>8, <1>9, <1>10, <1>11, <1>12, <1>13, NextCases, Quiet, DevServeSynced

-----------------------------------------------------------------------------
(* The invariant as a whole. *)

(* A step that changes nothing keeps the invariant. *)
LEMMA Stutters == ASSUME DriverInv, CacheInv, UNCHANGED vars PROVE DriverInv' /\ CacheInv'
<1>1. UNCHANGED <<pc, buf, writing, chan, blk, data, bdisk, free, link, op, info, status,
                  avail, used, intr, handling, disk, valid, refcnt, locked, lru, pinned>>
  BY DEF vars, diskVars, descVars, ringVars, cacheVars
<1>2. TypeInv' /\ Callers' /\ Sleeping'
  BY <1>1 DEF DriverInv, TypeInv, Callers, Holds, Sleeping, Enough
<1>3. Chains' /\ Requests'
  BY <1>1, QuietDriver DEF descVars, ringVars
<1>4. Counted'
  BY <1>1 DEF CacheInv, Counted, Users
<1>5. OneCopy' /\ Validity' /\ Synced'
  BY <1>1, Quiet DEF Aside
<1> QED BY <1>2, <1>3, <1>4, <1>5 DEF DriverInv, CacheInv

(* The invariant of driver and cache: chains, requests and sleepers fit, a   *)
(* buffer's count is its users and its pin, a block has one buffer, and      *)
(* buffer and disk agree wherever nobody is about to write.                  *)
THEOREM CacheInvariant == Spec => [](DriverInv /\ CacheInv)
<1>1. DriverInv /\ CacheInv /\ [Next]_vars => (DriverInv /\ CacheInv)'
  BY StepDriver, StepCounted, StepOneCopy, StepValidity, StepSynced, Stutters DEF CacheInv
<1>2. Init => DriverInv /\ CacheInv
  BY InitInv
<1> QED BY <1>1, <1>2, PTL DEF Spec

(* alloc3_desc(), its give-back and free_chain() lose no descriptor and hand *)
(* out none twice, for any number of descriptors and callers.                *)
THEOREM CacheDescriptors == Spec => []DescriptorsConserved
<1>1. ASSUME DriverInv PROVE DescriptorsConserved
  <2>1. \A h \in Heads : /\ h \in Desc /\ Cardinality(Chain(h)) = 3 /\ Chain(h) \cap free = {}
                         /\ Chain(h) \subseteq Desc
    <3> SUFFICES ASSUME NEW h \in Heads
                 PROVE  /\ h \in Desc /\ Cardinality(Chain(h)) = 3 /\ Chain(h) \cap free = {}
                        /\ Chain(h) \subseteq Desc
      OBVIOUS
    <3>1. h \in Desc /\ Proper(h) /\ Chain(h) = {h, link[h], link[link[h]]}
      BY <1>1, HeadChain
    <3>2. Cardinality(Chain(h)) = 3
      BY <3>1, ChainOfThree
    <3>3. Chain(h) \cap free = {}
      BY <1>1 DEF DriverInv, Chains
    <3> QED BY <3>1, <3>2, <3>3 DEF Proper
  <2>2. \A h, g \in Heads : h # g => info[h] # info[g] /\ Chain(h) \cap Chain(g) = {}
    BY <1>1 DEF DriverInv, Chains
  <2>3. free \cup UNION {Chain(h) : h \in Heads} = Desc
    <3>1. free \subseteq Desc /\ \A i \in Desc : i \in free \/ \E h \in Heads : i \in Chain(h)
      BY <1>1 DEF DriverInv, Chains, TypeInv
    <3> QED BY <2>1, <3>1
  <2> QED BY <2>1, <2>2, <2>3 DEF DescriptorsConserved
<1>2. DriverInv /\ CacheInv => DescriptorsConserved
  BY <1>1
<1> QED BY <1>2, CacheInvariant, PTL

(* The panic of virtio_disk_intr() on a status that is not 0 is never met,   *)
(* and the device serves only requests somebody waits for.                   *)
THEOREM CacheAnswers == Spec => []AnswersMatchRequests
<1>1. DriverInv /\ CacheInv => AnswersMatchRequests
  BY DEF DriverInv, Requests, Heads, AnswersMatchRequests
<1> QED BY <1>1, CacheInvariant, PTL

(* Who sleeps in virtio_disk_rw() or in acquiresleep() waits for something   *)
(* that has not come, and that will wake him.                                *)
THEOREM CacheSleepers == Spec => []NobodySleepsInVain
<1>1. ASSUME DriverInv, NEW p \in Process
      PROVE  /\ chan[p] = FreeChan => ~Enough
             /\ chan[p] = LockChan(buf[p]) => locked[buf[p]] # None
             /\ chan[p] = BufChan(buf[p]) =>
                  /\ bdisk[buf[p]]
                  /\ \E h \in Heads : /\ info[h] = buf[p]
                                      /\ \/ h \in avail
                                         \/ Answered(h) /\ (intr \/ handling)
  <2>1. chan[p] = FreeChan => ~Enough
    BY <1>1 DEF DriverInv, Sleeping
  <2>2. ASSUME chan[p] = LockChan(buf[p]) \/ chan[p] = BufChan(buf[p]) PROVE buf[p] \in Buf
    <3>1. SUFFICES ASSUME buf[p] = None PROVE FALSE
      BY <1>1 DEF DriverInv, TypeInv
    <3>2. pc[p] \in {"idle", "panic"}
      BY <1>1, <3>1 DEF DriverInv, Callers
    <3>3. \A b \in Buf : chan[p] # BufChan(b) /\ chan[p] # LockChan(b)
      BY <1>1, <3>2 DEF DriverInv, Sleeping
    <3>4. chan[p] # FreeChan
      BY <1>1, <3>2 DEF DriverInv, Sleeping
    <3>5. chan[p] = None
      <4>1. chan[p] \in Chans
        BY <1>1 DEF DriverInv, TypeInv
      <4> HIDE DEF LockChan, BufChan, FreeChan
      <4> QED BY <3>3, <3>4, <4>1 DEF Chans
    <3>6. None # LockChan(None) /\ None # BufChan(None)
      BY NoneAssumption
    <3> QED BY <2>2, <3>1, <3>5, <3>6
  <2>3. chan[p] = LockChan(buf[p]) => locked[buf[p]] # None
    BY <1>1, <2>2 DEF DriverInv, Sleeping
  <2>4. ASSUME chan[p] = BufChan(buf[p])
        PROVE  /\ bdisk[buf[p]]
               /\ \E h \in Heads : /\ info[h] = buf[p]
                                   /\ \/ h \in avail
                                      \/ Answered(h) /\ (intr \/ handling)
    <3>1. buf[p] \in Buf /\ bdisk[buf[p]]
      BY <1>1, <2>2, <2>4 DEF DriverInv, Sleeping
    <3>2. PICK h \in Heads : info[h] = buf[p]
      BY <1>1, <3>1 DEF DriverInv, Requests
    <3>3. h \in avail \/ Answered(h)
      BY <1>1, <3>1, <3>2 DEF DriverInv, Requests
    <3>4. Answered(h) => intr \/ handling
      BY <1>1 DEF DriverInv, Requests, Answered
    <3> QED BY <3>1, <3>2, <3>3, <3>4
  <2> QED BY <2>1, <2>3, <2>4
<1>2. DriverInv /\ CacheInv => NobodySleepsInVain
  BY <1>1 DEF NobodySleepsInVain, SleepersWillBeWoken, LockSleepersWait, Answered
<1> QED BY <1>2, CacheInvariant, PTL

-----------------------------------------------------------------------------
(* The cache from above: a register for each block. *)

(* ContentOf and OwnerOf without their choices. *)
HeldFor(p, k) == Holding(p) /\ blk[buf[p]] = k
Holder(b, k) == valid[b] /\ blk[b] = k
View ==
  \A k \in Block :
    /\ \A b \in Buf : Holder(b, k) => ContentOf(k) = data[b]
    /\ (\A b \in Buf : ~Holder(b, k)) => ContentOf(k) = disk[k]
    /\ \A p \in Process : HeldFor(p, k) => OwnerOf(k) = p
    /\ (\A p \in Process : ~HeldFor(p, k)) => OwnerOf(k) = None

(* Who owns the block from above holds the lock of its buffer. *)
LEMMA HoldingHolds ==
  ASSUME DriverInv, NEW p \in Process, Holding(p) PROVE Holds(p) /\ buf[p] \in Buf
<1>1. Holds(p) /\ pc[p] \notin {"idle", "panic"}
  BY DEF Holding, Holds
<1> QED BY <1>1, HasBuf

(* A block has one owner. *)
LEMMA OneOwner ==
  ASSUME DriverInv, CacheInv, NEW k \in Block, NEW p \in Process, NEW q \in Process,
         Holds(p), Holds(q), blk[buf[p]] = k, blk[buf[q]] = k
  PROVE  p = q
<1>1. buf[p] \in Buf /\ buf[q] \in Buf
  BY HasBuf DEF Holds
<1>2. buf[p] = buf[q]
  BY <1>1, NoneAssumption DEF CacheInv, OneCopy
<1> QED BY <1>2, OneHolder

(* The view follows from the invariant. *)
LEMMA ViewHolds == DriverInv /\ CacheInv => View
<1> SUFFICES ASSUME DriverInv, CacheInv, NEW k \in Block
             PROVE  /\ \A b \in Buf : Holder(b, k) => ContentOf(k) = data[b]
                    /\ (\A b \in Buf : ~Holder(b, k)) => ContentOf(k) = disk[k]
                    /\ \A p \in Process : HeldFor(p, k) => OwnerOf(k) = p
                    /\ (\A p \in Process : ~HeldFor(p, k)) => OwnerOf(k) = None
  BY DEF View
<1>1. ASSUME NEW b \in Buf, Holder(b, k) PROVE ContentOf(k) = data[b]
  <2>1. b \in Cached(k) /\ valid[b]
    BY <1>1 DEF Cached, Holder
  <2>2. \A a \in Cached(k) : a = b
    BY <1>1, NoneAssumption DEF Cached, Holder, CacheInv, OneCopy
  <2> HIDE DEF Cached
  <2>3. (CHOOSE a \in Cached(k) : valid[a]) = b
    BY <2>1, <2>2
  <2> QED BY <2>1, <2>3 DEF ContentOf
<1>2. (\A b \in Buf : ~Holder(b, k)) => ContentOf(k) = disk[k]
  BY DEF ContentOf, Cached, Holder
<1>3. ASSUME NEW p \in Process, HeldFor(p, k) PROVE OwnerOf(k) = p
  <2>1. \A q \in Process : Holding(q) /\ blk[buf[q]] = k => q = p
    BY <1>3, HoldingHolds, OneOwner DEF HeldFor
  <2>2. Holding(p) /\ blk[buf[p]] = k
    BY <1>3 DEF HeldFor
  <2> HIDE DEF Holding
  <2> QED BY <2>1, <2>2 DEF OwnerOf
<1>4. (\A p \in Process : ~HeldFor(p, k)) => OwnerOf(k) = None
  BY DEF OwnerOf, HeldFor
<1> QED BY <1>1, <1>2, <1>3, <1>4

(* When nothing changes from above. *)
LEMMA SameOwner ==
  ASSUME View, View', NEW k \in Block, \A p \in Process : HeldFor(p, k)' <=> HeldFor(p, k)
  PROVE  OwnerOf(k)' = OwnerOf(k)
<1>1. CASE \E p \in Process : HeldFor(p, k)
  <2>1. PICK p \in Process : HeldFor(p, k)
    BY <1>1
  <2>2. HeldFor(p, k)'
    BY <2>1
  <2> QED BY <2>1, <2>2 DEF View
<1>2. CASE \A p \in Process : ~HeldFor(p, k)
  BY <1>2 DEF View
<1> QED BY <1>1, <1>2

(* A block keeps its content when its valid buffer does, or else the disk. *)
LEMMA SameContent ==
  ASSUME View, View', NEW k \in Block,
         \A b \in Buf : Holder(b, k)' <=> Holder(b, k),
         \A b \in Buf : Holder(b, k) => data'[b] = data[b],
         (\A b \in Buf : ~Holder(b, k)) => disk'[k] = disk[k]
  PROVE  ContentOf(k)' = ContentOf(k)
<1>1. CASE \E b \in Buf : Holder(b, k)
  <2>1. PICK b \in Buf : Holder(b, k)
    BY <1>1
  <2>2. Holder(b, k)' /\ data'[b] = data[b]
    BY <2>1
  <2> QED BY <2>1, <2>2 DEF View
<1>2. CASE \A b \in Buf : ~Holder(b, k)
  BY <1>2 DEF View
<1> QED BY <1>1, <1>2

(* The variables of BlockStore. *)
AbsVars == <<[k \in Block |-> ContentOf(k)], [k \in Block |-> OwnerOf(k)]>>

(* Nothing changes from above. *)
LEMMA AbsStutter ==
  ASSUME \A k \in Block : ContentOf(k)' = ContentOf(k) /\ OwnerOf(k)' = OwnerOf(k)
  PROVE  UNCHANGED AbsVars
BY DEF AbsVars

(* One block changes hands or content. *)
LEMMA AbsStep ==
  ASSUME NEW k \in Block,
         \A j \in Block \ {k} : ContentOf(j)' = ContentOf(j) /\ OwnerOf(j)' = OwnerOf(j),
         \/ OwnerOf(k) = None /\ OwnerOf(k)' \in Process /\ ContentOf(k)' = ContentOf(k)
         \/ OwnerOf(k) # None /\ OwnerOf(k)' = None /\ ContentOf(k)' = ContentOf(k)
         \/ OwnerOf(k) # None /\ OwnerOf(k)' = OwnerOf(k) /\ ContentOf(k)' \in Val
  PROVE  Store!Next
<1> DEFINE c == [j \in Block |-> ContentOf(j)]
           o == [j \in Block |-> OwnerOf(j)]
<1>1. \A j \in Block : c[j] = ContentOf(j) /\ o[j] = OwnerOf(j)
  OBVIOUS
<1>2. \A j \in Block : c'[j] = ContentOf(j)' /\ o'[j] = OwnerOf(j)'
  OBVIOUS
<1>3. Store!Write(k) \/ Store!Acquire(k) \/ Store!Release(k)
  BY <1>1, <1>2 DEF Store!Write, Store!Acquire, Store!Release
<1>4. \A j \in Block \ {k} : c'[j] = c[j] /\ o'[j] = o[j]
  BY <1>1, <1>2
<1> QED BY <1>3, <1>4 DEF Store!Next

(* A step of p with the buffer he holds: no other block and no other owner. *)
LEMMA OwnStep ==
  ASSUME DriverInv, CacheInv, View, View', NEW p \in Process, NEW k \in Block,
         Holds(p), blk[buf[p]] = k,
         UNCHANGED <<buf, blk, valid, disk>>,
         \A q \in Process : q # p => (Holding(q)' <=> Holding(q)),
         \A b \in Buf : b # buf[p] => data'[b] = data[b]
  PROVE  \A j \in Block \ {k} : ContentOf(j)' = ContentOf(j) /\ OwnerOf(j)' = OwnerOf(j)
<1> SUFFICES ASSUME NEW j \in Block \ {k}
             PROVE  ContentOf(j)' = ContentOf(j) /\ OwnerOf(j)' = OwnerOf(j)
  OBVIOUS
<1>1. \A q \in Process : HeldFor(q, j)' <=> HeldFor(q, j)
  BY DEF HeldFor
<1>2. \A b \in Buf : Holder(b, j)' <=> Holder(b, j)
  BY DEF Holder
<1>3. \A b \in Buf : Holder(b, j) => data'[b] = data[b]
  BY DEF Holder
<1> QED BY <1>1, <1>2, <1>3, SameOwner, SameContent

(* What process p does to his place and his request alone. *)
LEMMA HoldingElsewhere ==
  ASSUME DriverInv, NEW p \in Process, NEW to, pc' = [pc EXCEPT ![p] = to],
         \A q \in Process : q # p => writing'[q] = writing[q]
  PROVE  \A q \in Process : q # p => (Holding(q)' <=> Holding(q))
BY DEF DriverInv, TypeInv, Holding

(* A clean buffer changes its block and nothing is lost: the disk has it. *)
LEMMA GetRecycledView ==
  ASSUME DriverInv, CacheInv, View, View', NEW p \in Process, NEW k \in Block, GetRecycled(p, k)
  PROVE  UNCHANGED AbsVars
<1>1. TypeInv /\ Counted /\ OneCopy /\ Synced
  BY DEF DriverInv, CacheInv
<1>2. PICK b \in Buf : /\ buf' = [buf EXCEPT ![p] = b] /\ refcnt[b] = 0
                       /\ blk' = [blk EXCEPT ![b] = k] /\ valid' = [valid EXCEPT ![b] = FALSE]
  BY <1>1, Recycled DEF GetRecycled
<1>3. /\ pc[p] = "idle" /\ pc' = [pc EXCEPT ![p] = "lock"]
      /\ UNCHANGED <<writing, data, disk>> /\ Cached(k) = {}
  BY DEF GetRecycled, At, Goto
<1>4. Users(b) = {} /\ b \notin pinned
  BY <1>1, <1>2, NoUsers
<1>5. ASSUME NEW j \in Block, NEW q \in Process PROVE HeldFor(q, j)' <=> HeldFor(q, j)
  <2>1. CASE q = p
    <3>1. pc[p] = "idle" /\ pc'[p] = "lock"
      BY <1>1, <1>3 DEF TypeInv
    <3> QED BY <2>1, <3>1 DEF HeldFor, Holding
  <2>2. CASE q # p
    <3>1. Holding(q)' <=> Holding(q)
      BY <1>3, <2>2, HoldingElsewhere
    <3>2. ASSUME Holding(q) PROVE blk'[buf'[q]] = blk[buf[q]]
      <4>1. buf[q] \in Buf /\ buf[q] # b
        BY <1>4, <3>2, HoldingHolds DEF Users
      <4> QED BY <1>1, <1>2, <2>2, <4>1 DEF TypeInv
    <3> QED BY <3>1, <3>2 DEF HeldFor
  <2> QED BY <2>1, <2>2
<1>6. ASSUME NEW j \in Block PROVE ContentOf(j)' = ContentOf(j)
  <2>1. \A c \in Buf : Holder(c, j)' <=> Holder(c, j) /\ c # b
    BY <1>1, <1>2 DEF Holder, TypeInv
  <2>2. CASE ~Holder(b, j)
    BY <1>3, <2>1, <2>2, SameContent
  <2>3. CASE Holder(b, j)
    <3>1. \A c \in Buf : ~Holder(c, j)'
      BY <1>1, <2>1, <2>3, NoneAssumption DEF Holder, OneCopy
    <3>2. ContentOf(j)' = disk[j] /\ ContentOf(j) = data[b]
      BY <1>3, <2>3, <3>1 DEF View
    <3>3. Clean(b)
      BY <1>4, <2>3 DEF Clean, Holder
    <3> QED BY <1>1, <2>3, <3>2, <3>3 DEF Synced, Same, Holder
  <2> QED BY <2>2, <2>3
<1> QED BY <1>5, <1>6, SameOwner, AbsStutter

(* A valid buffer is acquired with its lock; one to be read is not yet. *)
LEMMA LockTakeView ==
  ASSUME DriverInv, CacheInv, View, View', NEW p \in Process, LockTake(p)
  PROVE  Store!Next \/ UNCHANGED AbsVars
<1>1. /\ pc[p] = "lock" /\ locked[buf[p]] = None
      /\ pc' = [pc EXCEPT ![p] = IF valid[buf[p]] THEN "use" ELSE "rw"]
      /\ UNCHANGED <<buf, writing, blk, data, disk, valid>>
  BY DEF LockTake, At, Goto
<1>2. buf[p] \in Buf /\ buf[p] # None
  BY <1>1, HasBuf, NoneAssumption
<1>3. PICK k \in Block : k = blk[buf[p]]
  <2>1. blk[buf[p]] # None
    BY <1>2 DEF CacheInv, OneCopy
  <2> QED BY <1>2, <2>1 DEF DriverInv, TypeInv
<1>4. pc'[p] = (IF valid[buf[p]] THEN "use" ELSE "rw") /\ ~writing[p] /\ ~Holding(p)
  <2>1. pc'[p] = IF valid[buf[p]] THEN "use" ELSE "rw"
    BY <1>1 DEF DriverInv, TypeInv
  <2>2. ~writing[p]
    BY <1>1 DEF DriverInv, Callers
  <2> QED BY <1>1, <2>1, <2>2 DEF Holding
<1>5. \A q \in Process : q # p => (Holding(q)' <=> Holding(q))
  BY <1>1, HoldingElsewhere
<1>6. \A j \in Block : ContentOf(j)' = ContentOf(j)
  BY <1>1, SameContent DEF Holder
<1>7. CASE valid[buf[p]]
  <2>1. HeldFor(p, k)'
    BY <1>1, <1>3, <1>4, <1>7 DEF HeldFor, Holding
  <2>2. \A q \in Process : ~HeldFor(q, k)
    <3> SUFFICES ASSUME NEW q \in Process, Holding(q), blk[buf[q]] = k PROVE FALSE
      BY DEF HeldFor
    <3>1. Holds(q) /\ buf[q] \in Buf
      BY HoldingHolds
    <3>2. buf[q] = buf[p]
      BY <1>2, <1>3, <3>1, NoneAssumption DEF CacheInv, OneCopy
    <3> QED BY <1>1, <3>1, <3>2, NoneAssumption DEF DriverInv, Callers
  <2>3. OwnerOf(k) = None /\ OwnerOf(k)' = p
    BY <2>1, <2>2 DEF View
  <2>4. ASSUME NEW j \in Block \ {k} PROVE OwnerOf(j)' = OwnerOf(j)
    <3>1. \A q \in Process : HeldFor(q, j)' <=> HeldFor(q, j)
      BY <1>1, <1>3, <1>4, <1>5 DEF HeldFor
    <3> QED BY <3>1, SameOwner
  <2> QED BY <1>6, <2>3, <2>4, AbsStep
<1>8. CASE ~valid[buf[p]]
  <2>1. ~Holding(p)'
    BY <1>1, <1>4, <1>8 DEF Holding
  <2>2. \A j \in Block, q \in Process : HeldFor(q, j)' <=> HeldFor(q, j)
    BY <1>1, <1>4, <1>5, <2>1 DEF HeldFor
  <2> QED BY <1>6, <2>2, SameOwner, AbsStutter
<1> QED BY <1>7, <1>8

(* Reading is done: the buffer holds what the disk holds. *)
LEMMA ReadDoneView ==
  ASSUME DriverInv, CacheInv, View, View', NEW p \in Process, ReadDone(p)
  PROVE  Store!Next
<1>1. /\ pc[p] = "wait" /\ ~bdisk[buf[p]] /\ ~writing[p]
      /\ pc' = [pc EXCEPT ![p] = "use"] /\ writing' = [writing EXCEPT ![p] = FALSE]
      /\ valid' = [valid EXCEPT ![buf[p]] = TRUE]
      /\ UNCHANGED <<buf, blk, data, disk>>
  BY DEF ReadDone, RwReturn, DiskDone, At, Goto
<1>2. buf[p] \in Buf /\ buf[p] # None /\ Holds(p)
  BY <1>1, HasBuf, NoneAssumption DEF Holds
<1>3. PICK k \in Block : k = blk[buf[p]]
  <2>1. blk[buf[p]] # None
    BY <1>2 DEF CacheInv, OneCopy
  <2> QED BY <1>2, <2>1 DEF DriverInv, TypeInv
<1>4. \A q \in Process : q # p => (Holding(q)' <=> Holding(q))
  <2>1. \A q \in Process : q # p => writing'[q] = writing[q]
    BY <1>1 DEF DriverInv, TypeInv
  <2> QED BY <1>1, <2>1, HoldingElsewhere
<1>5. Holding(p)' /\ ~Holding(p)
  BY <1>1 DEF Holding, DriverInv, TypeInv
<1>6. Same(buf[p])
  <2>1. Stored(p)
    BY <1>1, <1>2 DEF Stored, Served, DriverInv, Requests
  <2> QED BY <2>1 DEF CacheInv, Synced
<1>7. \A b \in Buf : b # buf[p] => blk[b] # k
  BY <1>2, <1>3, NoneAssumption DEF CacheInv, OneCopy
<1>8. \A b \in Buf : valid'[b] = IF b = buf[p] THEN TRUE ELSE valid[b]
  BY <1>1 DEF DriverInv, TypeInv
<1>9. ContentOf(k)' = ContentOf(k)
  <2>1. ContentOf(k) = disk[k]
    <3>1. ~valid[buf[p]]
      BY <1>1 DEF CacheInv, Validity
    <3>2. \A b \in Buf : ~Holder(b, k)
      BY <1>7, <3>1 DEF Holder
    <3> QED BY <3>2 DEF View
  <2>2. ContentOf(k)' = data[buf[p]]
    <3>1. PICK b \in Buf : b = buf[p]
      BY <1>2
    <3>2. Holder(b, k)'
      BY <1>1, <1>3, <1>8, <3>1 DEF Holder
    <3> QED BY <1>1, <3>1, <3>2 DEF View
  <2> QED BY <1>3, <1>6, <2>1, <2>2 DEF Same
<1>10. OwnerOf(k) = None /\ OwnerOf(k)' = p
  <2>1. \A q \in Process : ~HeldFor(q, k)
    <3> SUFFICES ASSUME NEW q \in Process, Holding(q), blk[buf[q]] = k PROVE FALSE
      BY DEF HeldFor
    <3>1. q = p
      BY <1>2, <1>3, HoldingHolds, OneOwner
    <3> QED BY <1>5, <3>1
  <2>2. HeldFor(p, k)'
    BY <1>1, <1>3, <1>5 DEF HeldFor
  <2> QED BY <2>1, <2>2 DEF View
<1>11. ASSUME NEW j \in Block \ {k} PROVE ContentOf(j)' = ContentOf(j) /\ OwnerOf(j)' = OwnerOf(j)
  <2>1. \A q \in Process : HeldFor(q, j)' <=> HeldFor(q, j)
    BY <1>1, <1>3, <1>4, <1>5 DEF HeldFor
  <2>2. \A b \in Buf : Holder(b, j)' <=> Holder(b, j)
    BY <1>1, <1>3, <1>8 DEF Holder
  <2> QED BY <1>1, <2>1, <2>2, SameOwner, SameContent
<1> QED BY <1>9, <1>10, <1>11, AbsStep

(* A store into a locked buffer. *)
LEMMA WriteView ==
  ASSUME DriverInv, CacheInv, DriverInv', View, View', NEW p \in Process, NEW v \in Val,
         WriteThrough(p, v) \/ WriteLogged(p, v)
  PROVE  Store!Next
<1>1. /\ pc[p] = "use" /\ data' = [data EXCEPT ![buf[p]] = v]
      /\ UNCHANGED <<buf, blk, disk, valid>>
  BY DEF WriteThrough, WriteLogged, At, cacheVars
<1>2. buf[p] \in Buf /\ buf[p] # None /\ Holds(p) /\ Holding(p) /\ valid[buf[p]]
  BY <1>1, HasBuf, NoneAssumption DEF Holds, Holding, CacheInv, Validity
<1>3. PICK k \in Block : k = blk[buf[p]]
  <2>1. blk[buf[p]] # None
    BY <1>2 DEF CacheInv, OneCopy
  <2> QED BY <1>2, <2>1 DEF DriverInv, TypeInv
<1>4. Holding(p)' /\ \A q \in Process : q # p => (Holding(q)' <=> Holding(q))
  <2>1. CASE WriteThrough(p, v)
    <3>1. pc' = [pc EXCEPT ![p] = "rw"] /\ writing' = [writing EXCEPT ![p] = TRUE]
      BY <2>1 DEF WriteThrough, Goto
    <3>2. pc'[p] = "rw" /\ writing'[p] /\ \A q \in Process : q # p => writing'[q] = writing[q]
      BY <3>1 DEF DriverInv, TypeInv
    <3> QED BY <3>1, <3>2, HoldingElsewhere DEF Holding
  <2>2. CASE WriteLogged(p, v)
    BY <1>2, <2>2 DEF WriteLogged, Holding
  <2> QED BY <2>1, <2>2
<1>5. \A j \in Block \ {k} : ContentOf(j)' = ContentOf(j) /\ OwnerOf(j)' = OwnerOf(j)
  <2>1. \A b \in Buf : b # buf[p] => data'[b] = data[b]
    BY <1>1 DEF DriverInv, TypeInv
  <2> QED BY <1>1, <1>2, <1>3, <1>4, <2>1, OwnStep
<1>6. HeldFor(p, k) /\ HeldFor(p, k)'
  BY <1>1, <1>2, <1>3, <1>4 DEF HeldFor
<1>7. OwnerOf(k) = p /\ OwnerOf(k)' = p
  BY <1>6 DEF View
<1>8. ContentOf(k)' \in Val
  <2>1. PICK b \in Buf : b = buf[p]
    BY <1>2
  <2>2. Holder(b, k)' /\ data'[b] = v
    BY <1>1, <1>2, <1>3, <2>1 DEF Holder, DriverInv, TypeInv
  <2> QED BY <2>1, <2>2 DEF View
<1> QED BY <1>5, <1>7, <1>8, NoneAssumption, AbsStep

(* brelse() gives the block up. *)
LEMMA UnlockView ==
  ASSUME DriverInv, CacheInv, View, View', NEW p \in Process, Unlock(p)
  PROVE  Store!Next
<1>1. /\ pc[p] = "use" /\ pc' = [pc EXCEPT ![p] = "deref"]
      /\ UNCHANGED <<buf, writing, blk, data, disk, valid>>
  BY DEF Unlock, At, Goto
<1>2. buf[p] \in Buf /\ buf[p] # None /\ Holds(p) /\ Holding(p)
  BY <1>1, HasBuf, NoneAssumption DEF Holds, Holding
<1>3. PICK k \in Block : k = blk[buf[p]]
  <2>1. blk[buf[p]] # None
    BY <1>2 DEF CacheInv, OneCopy
  <2> QED BY <1>2, <2>1 DEF DriverInv, TypeInv
<1>4. ~Holding(p)' /\ \A q \in Process : q # p => (Holding(q)' <=> Holding(q))
  <2>1. pc'[p] = "deref"
    BY <1>1 DEF DriverInv, TypeInv
  <2> QED BY <1>1, <2>1, HoldingElsewhere DEF Holding
<1>5. \A j \in Block \ {k} : ContentOf(j)' = ContentOf(j) /\ OwnerOf(j)' = OwnerOf(j)
  BY <1>1, <1>2, <1>3, <1>4, OwnStep
<1>6. ContentOf(k)' = ContentOf(k)
  BY <1>1, SameContent DEF Holder
<1>7. OwnerOf(k) = p
  BY <1>2, <1>3 DEF View, HeldFor
<1>8. OwnerOf(k)' = None
  <2>1. ASSUME NEW q \in Process PROVE ~HeldFor(q, k)'
    <3>1. CASE q = p
      BY <1>4, <3>1 DEF HeldFor
    <3>2. CASE q # p
      <4>1. SUFFICES ASSUME Holding(q), blk[buf[q]] = k PROVE FALSE
        BY <1>1, <1>4, <3>2 DEF HeldFor
      <4> QED BY <1>2, <1>3, <3>2, <4>1, HoldingHolds, OneOwner
    <3> QED BY <3>1, <3>2
  <2> QED BY <2>1 DEF View
<1> QED BY <1>5, <1>6, <1>7, <1>8, NoneAssumption, AbsStep

(* The device copies: what was written is what the buffer held, and what is
   read fills a buffer that is not valid yet. *)
LEMMA DevServeView ==
  ASSUME DriverInv, CacheInv, View, View', NEW h \in Desc, DevServe(h), UNCHANGED cacheVars
  PROVE  UNCHANGED AbsVars
<1>1. /\ h \in avail /\ UNCHANGED <<pc, buf, writing, blk, valid>>
  BY DEF DevServe, cacheVars
<1>2. h \in Heads /\ info[h] \in Buf /\ info[h] # None
  BY <1>1 DEF DriverInv, Requests, TypeInv, Heads
<1>3. PICK p \in Process : /\ pc[p] = "wait" /\ buf[p] = info[h]
                           /\ op[h] = [write |-> writing[p], block |-> blk[buf[p]]]
  BY <1>2 DEF DriverInv, Requests
<1>4. op[h].write = writing[p] /\ op[h].block = blk[info[h]] /\ blk[info[h]] # None
  <2>1. op[h].write = writing[p] /\ op[h].block = blk[info[h]]
    BY <1>3
  <2>2. blk[info[h]] # None
    BY <1>2, <1>3 DEF CacheInv, OneCopy
  <2> QED BY <2>1, <2>2
<1>5. \A q \in Process, j \in Block : HeldFor(q, j)' <=> HeldFor(q, j)
  BY <1>1 DEF HeldFor, Holding
<1>6. \A b \in Buf, j \in Block : Holder(b, j)' <=> Holder(b, j)
  BY <1>1 DEF Holder
<1>7. data \in [Buf -> Val] /\ disk \in [Block -> Val]
  BY DEF DriverInv, TypeInv
<1>8. CASE op[h].write
  <2>1. disk' = [disk EXCEPT ![blk[info[h]]] = data[info[h]]] /\ data' = data
    BY <1>4, <1>8 DEF DevServe
  <2>2. valid[info[h]]
    BY <1>3, <1>4, <1>8 DEF CacheInv, Validity
  <2>3. \A j \in Block : (\A b \in Buf : ~Holder(b, j)) => disk'[j] = disk[j]
    BY <1>2, <1>7, <2>1, <2>2 DEF Holder
  <2> QED BY <1>5, <1>6, <2>1, <2>3, SameContent, SameOwner, AbsStutter
<1>9. CASE ~op[h].write
  <2>1. data' = [data EXCEPT ![info[h]] = disk[blk[info[h]]]] /\ disk' = disk
    BY <1>4, <1>9 DEF DevServe
  <2>2. ~valid[info[h]]
    BY <1>3, <1>4, <1>9 DEF CacheInv, Validity
  <2>3. \A j \in Block, b \in Buf : Holder(b, j) => data'[b] = data[b]
    BY <1>7, <2>1, <2>2 DEF Holder
  <2> QED BY <1>5, <1>6, <2>1, <2>3, SameContent, SameOwner, AbsStutter
<1> QED BY <1>8, <1>9

(* Steps that move no data and change no holder. *)
LEMMA QuietView ==
  ASSUME View, View', UNCHANGED <<blk, valid, data, disk>>,
         \A q \in Process : Holding(q)' <=> Holding(q),
         \A q \in Process : Holding(q) => buf'[q] = buf[q]
  PROVE  UNCHANGED AbsVars
<1>1. \A q \in Process, j \in Block : HeldFor(q, j)' <=> HeldFor(q, j)
  BY DEF HeldFor
<1>2. \A j \in Block : ContentOf(j)' = ContentOf(j)
  BY SameContent DEF Holder
<1> QED BY <1>1, <1>2, SameOwner, AbsStutter

(* Every step is one of the register or none. *)
LEMMA StepView ==
  ASSUME DriverInv, CacheInv, DriverInv', View, View', Next
  PROVE  Store!Next \/ UNCHANGED AbsVars
<1> DEFINE Goal == Store!Next \/ UNCHANGED AbsVars
<1>1. ASSUME NEW p \in Process, NEW k \in Block, GetCached(p, k) \/ GetPanic(p, k) PROVE Goal
  <2>1. PICK to \in {"lock", "panic"} : pc' = [pc EXCEPT ![p] = to]
    BY <1>1 DEF GetCached, GetPanic, Goto
  <2>2. pc[p] = "idle" /\ UNCHANGED <<writing, blk, valid, data, disk>>
    BY <1>1 DEF GetCached, GetPanic, At, cacheVars
  <2>3. \A q \in Process : q # p => buf'[q] = buf[q]
    BY <1>1 DEF GetCached, GetPanic, DriverInv, TypeInv
  <2>4. ~Holding(p) /\ ~Holding(p)'
    BY <2>1, <2>2 DEF Holding, DriverInv, TypeInv
  <2>5. \A q \in Process : q # p => (Holding(q)' <=> Holding(q))
    BY <2>1, <2>2, HoldingElsewhere
  <2> QED BY <2>2, <2>3, <2>4, <2>5, QuietView
<1>2. ASSUME NEW p \in Process, Deref(p) PROVE Goal
  <2>1. /\ pc[p] = "deref" /\ pc' = [pc EXCEPT ![p] = "idle"] /\ buf' = [buf EXCEPT ![p] = None]
        /\ UNCHANGED <<writing, blk, valid, data, disk>>
    BY <1>2 DEF Deref, At, Goto
  <2>2. \A q \in Process : q # p => buf'[q] = buf[q]
    BY <2>1 DEF DriverInv, TypeInv
  <2>3. ~Holding(p) /\ ~Holding(p)'
    BY <2>1 DEF Holding, DriverInv, TypeInv
  <2>4. \A q \in Process : q # p => (Holding(q)' <=> Holding(q))
    BY <2>1, HoldingElsewhere
  <2> QED BY <2>1, <2>2, <2>3, <2>4, QuietView
<1>3. ASSUME NEW p \in Process, Install(p) \/ WriteDone(p) \/ Unpin(p) \/ (RwPost(p) /\ UNCHANGED cacheVars)
      PROVE Goal
  <2>1. UNCHANGED <<buf, blk, valid, data, disk>>
    BY <1>3 DEF Install, WriteDone, Unpin, RwPost, RwReturn, cacheVars
  <2>2. PICK to \in {"rw", "wait", "use", "unpin"} : pc' = [pc EXCEPT ![p] = to]
    BY <1>3 DEF Install, WriteDone, Unpin, RwPost, RwReturn, Goto
  <2>3. PICK w \in BOOLEAN : writing' = [writing EXCEPT ![p] = w]
    <3>1. CASE Install(p)
      BY <3>1 DEF Install
    <3>2. CASE WriteDone(p)
      BY <3>2 DEF WriteDone, RwReturn
    <3>3. CASE writing' = writing
      <4>1. writing' = [writing EXCEPT ![p] = writing[p]] /\ writing[p] \in BOOLEAN
        BY <3>3 DEF DriverInv, TypeInv
      <4> QED BY <4>1
    <3> QED BY <1>3, <3>1, <3>2, <3>3 DEF Unpin, RwPost
  <2>4. Holding(p)' <=> Holding(p)
    <3>1. CASE Install(p)
      BY <3>1 DEF Install, At, Goto, Holding, DriverInv, TypeInv
    <3>2. CASE WriteDone(p)
      BY <3>2 DEF WriteDone, RwReturn, At, Goto, Holding, DriverInv, TypeInv
    <3>3. CASE Unpin(p)
      BY <3>3 DEF Unpin, At, Goto, Holding, DriverInv, TypeInv
    <3>4. CASE RwPost(p)
      BY <3>4 DEF RwPost, At, Goto, Holding, DriverInv, TypeInv
    <3> QED BY <1>3, <3>1, <3>2, <3>3, <3>4
  <2>5. \A q \in Process : q # p => writing'[q] = writing[q]
    BY <2>3 DEF DriverInv, TypeInv
  <2>6. \A q \in Process : q # p => (Holding(q)' <=> Holding(q))
    BY <2>2, <2>5, HoldingElsewhere
  <2> QED BY <2>1, <2>4, <2>6, QuietView
<1>4. ASSUME Aside PROVE Goal
  BY <1>4, QuietView DEF Aside, Holding
<1> QED BY <1>1, <1>2, <1>3, <1>4, GetRecycledView, LockTakeView, ReadDoneView, WriteView,
           UnlockView, DevServeView, NextCases

(* At first every block holds what the disk holds, and nobody owns it. *)
LEMMA InitView == ASSUME Init, View PROVE Store!Init
<1>1. \A k \in Block : ContentOf(k) = disk[k] /\ OwnerOf(k) = None /\ disk[k] \in Val
  <2> SUFFICES ASSUME NEW k \in Block PROVE ContentOf(k) = disk[k] /\ OwnerOf(k) = None /\ disk[k] \in Val
    OBVIOUS
  <2>1. (\A b \in Buf : ~Holder(b, k)) /\ \A p \in Process : ~HeldFor(p, k)
    BY DEF Init, Holder, HeldFor, Holding
  <2>2. disk[k] \in Val
    BY CacheAssumption DEF Init, InitVal
  <2> QED BY <2>1, <2>2 DEF View
<1> QED BY <1>1 DEF Store!Init

(* From bread() to brelse() every block behaves as one register with one     *)
(* owner, whatever is recycled, read again, pinned or on its way to the disk:*)
(* LockTake() of a valid buffer and ReadDone() acquire, a store into the     *)
(* locked buffer writes, Unlock() releases, and all other steps stutter.     *)
THEOREM CacheBlocksAreRegisters == Spec => BlocksAreRegisters
<1>1. DriverInv /\ CacheInv => View
  BY ViewHolds
<1>2. Spec => []View
  BY <1>1, CacheInvariant, PTL
<1>3. Init /\ View => Store!Init
  BY InitView
<1>4. DriverInv /\ CacheInv /\ DriverInv' /\ View /\ View' /\ [Next]_vars
      => [Store!Next]_<<[k \in Block |-> ContentOf(k)], [k \in Block |-> OwnerOf(k)]>>
  <2> SUFFICES ASSUME DriverInv, CacheInv, DriverInv', View, View', [Next]_vars
               PROVE  Store!Next \/ UNCHANGED AbsVars
    BY DEF AbsVars
  <2>1. CASE Next
    BY <2>1, StepView
  <2>2. CASE UNCHANGED vars
    <3>1. UNCHANGED <<pc, buf, writing, blk, valid, data, disk>>
      BY <2>2 DEF vars, diskVars, cacheVars
    <3> QED BY <3>1, QuietView DEF Holding
  <2> QED BY <2>1, <2>2
<1>5. Spec => Store!Init /\ [][Store!Next]_<<[k \in Block |-> ContentOf(k)], [k \in Block |-> OwnerOf(k)]>>
  BY <1>2, <1>3, <1>4, CacheInvariant, PTL DEF Spec
<1> QED BY <1>5, PTL DEF BlocksAreRegisters, Store!Spec
=============================================================================
