----------------------------- MODULE PipeProofs -----------------------------
(***************************************************************************)
(* A pipe loses no wakeup and no byte and is freed once: the invariants of *)
(* module Pipe and its refinement of ByteQueue, for any numbers of readers *)
(* and writers, any size of the ring and any wrap-around of its counters.  *)
(***************************************************************************)
EXTENDS Pipe, SequenceTheorems, TLAPS

-----------------------------------------------------------------------------
(* Arithmetic modulo m.  These and the operators of the ring below are folded *)
(* wherever they are cited: the solver must not see products of variables.  *)

LEMMA ModDef ==
  ASSUME NEW m \in Nat \ {0}, NEW a \in Int
  PROVE  a % m \in 0..(m - 1) /\ a = m * (a \div m) + (a % m) /\ a \div m \in Int
  BY SMT

LEMMA ModUnique ==
  ASSUME NEW m \in Nat \ {0}, NEW q \in Int, NEW r \in 0..(m - 1)
  PROVE  (m * q + r) % m = r
  BY SMT

LEMMA ModSmall ==
  ASSUME NEW m \in Nat \ {0}, NEW a \in 0..(m - 1)
  PROVE  a % m = a
  BY SMT

LEMMA ModNeg ==
  ASSUME NEW m \in Nat \ {0}, NEW a \in (-m)..(-1)
  PROVE  a % m = a + m
  BY SMT

LEMMA ModBig ==
  ASSUME NEW m \in Nat \ {0}, NEW a \in m..(2*m - 1)
  PROVE  a % m = a - m
  BY SMT

LEMMA ModSum ==
  ASSUME NEW m \in Nat \ {0}, NEW a \in 0..(m - 1), NEW b \in 0..(m - 1)
  PROVE  (a + b) % m = IF a + b < m THEN a + b ELSE a + b - m
  BY SMT

LEMMA ModMult ==
  ASSUME NEW m \in Nat \ {0}, NEW w \in Int, w % m = 0, NEW a \in Int
  PROVE  (a + w) % m = a % m
<1> DEFINE q == (a \div m) + (w \div m)
<1>1. q \in Int /\ a % m \in 0..(m-1)
  BY ModDef
<1>2. w = m * (w \div m)
  BY ModDef
<1>3. a + w = m * q + (a % m)
  BY <1>2, ModDef
<1>4. (m * q + (a % m)) % m = a % m
  <2> HIDE DEF q
  <2> QED BY <1>1, ModUnique
<1> QED BY <1>3, <1>4

LEMMA ModDiff ==
  ASSUME NEW m \in Nat \ {0}, NEW a \in Int, NEW d \in 1..(m - 1)
  PROVE  (a + d) % m # a % m
<1> DEFINE r == a % m  q == a \div m
<1>1. r \in 0..(m-1) /\ q \in Int /\ a = m * q + r
  BY ModDef
<1> HIDE DEF r, q
<1>2. CASE r + d < m
  <2>1. (m * q + (r + d)) % m = r + d
     BY <1>1, <1>2, ModUnique
  <2> QED BY <2>1, <1>1 DEF r
<1>3. CASE r + d >= m
  <2> DEFINE q1 == q + 1  r1 == r + d - m
  <2>1. q1 \in Int /\ r1 \in 0..(m-1) /\ m * q1 + r1 = a + d
     BY <1>1, <1>3
  <2>2. (m * q1 + r1) % m = r1
     <3> HIDE DEF q1, r1
     <3> QED BY <2>1, ModUnique
  <2> QED BY <2>1, <2>2, <1>1 DEF r
<1> QED BY <1>1, <1>2, <1>3

-----------------------------------------------------------------------------
(* The invariant. *)

(* pi->lock is held by the process that is between acquire() and the release *)
(* of its call; only piperead() has a second loop.                          *)
Inside == {"loop", "tosleep", "copy", "done"}
HasLock(p) == pc[p] \in Inside <=> lock = p
Holder == \A p \in Proc : HasLock(p) /\ (pc[p] = "copy" => p \in Reader)

(* An end is open as long as somebody has a descriptor of it. *)
Ends ==
  /\ readopen <=> \E p \in Reader : pc[p] # "gone"
  /\ writeopen <=> \E p \in Writer : pc[p] # "gone"
  /\ freed <=> ~readopen /\ ~writeopen

(* A reader that has taken bytes wakes the writers before it gives up pi->lock. *)
Taking == \E r \in Reader : pc[r] \in {"copy", "done"}
WriterWaits(p) ==
  /\ pc[p] = "tosleep" => Full /\ readopen
  /\ pc[p] = "asleep" => Taking \/ (Full /\ readopen)
WritersWait == \A p \in Writer : WriterWaits(p)

(* A writer that has put bytes wakes the readers before it gives up pi->lock, *)
(* unless it was killed in between.                                         *)
WriterKilled == \E w \in Writer : killed[w]
ReaderWaits(p) ==
  /\ pc[p] = "tosleep" => Empty /\ writeopen
  /\ pc[p] = "asleep" => lock \in Writer \/ (writeopen /\ (Empty \/ WriterKilled))
ReadersWait == \A p \in Reader : ReaderWaits(p)

PipeTypes ==
  /\ pc \in [Proc -> Labels] /\ killed \in [Proc -> BOOLEAN]
  /\ nread \in 0..(Wrap - 1) /\ nwrite \in 0..(Wrap - 1)
  /\ readopen \in BOOLEAN /\ writeopen \in BOOLEAN /\ freed \in BOOLEAN
PipeInv == PipeTypes /\ Holder /\ Ends /\ WritersWait /\ ReadersWait

LEMMA Sizes == PIPESIZE \in Nat \ {0} /\ Wrap \in Nat \ {0} /\ PIPESIZE < Wrap
  BY SizeAssumption

LEMMA FullNotEmpty == ASSUME PipeTypes PROVE ~(Full /\ Empty)
  BY Sizes, SMT DEF PipeTypes, Full, Empty

LEMMA StepInv == ASSUME PipeInv, [Next]_vars PROVE PipeInv'
<1> USE DEF PipeInv, PipeTypes, Holder, HasLock, Ends, WritersWait, WriterWaits, ReadersWait, ReaderWaits,
        Taking, WriterKilled, Inside, Labels, At, Go, Proc, pipeVars, callVars
<1>0. CASE UNCHANGED vars
  BY <1>0 DEF vars, Full, Empty
<1>1. ASSUME NEW p \in Proc, Call(p) PROVE PipeInv'
  BY <1>1, FullNotEmpty, RoleAssumption DEF Call, Full, Empty
<1>2. ASSUME NEW p \in Proc, Acquire(p) PROVE PipeInv'
  BY <1>2, FullNotEmpty, RoleAssumption DEF Acquire, Full, Empty
<1>3. ASSUME NEW p \in Proc, Sleep(p) PROVE PipeInv'
  BY <1>3, FullNotEmpty, RoleAssumption DEF Sleep, WakeupAnd, Full, Empty
<1>4. ASSUME NEW p \in Proc, WriteFails(p) PROVE PipeInv'
  BY <1>4, FullNotEmpty, RoleAssumption DEF WriteFails, Leave, Full, Empty
<1>5. ASSUME NEW p \in Proc, WriteFull(p) PROVE PipeInv'
  BY <1>5, FullNotEmpty, RoleAssumption DEF WriteFull, Full, Empty
<1>6. ASSUME NEW p \in Proc, WriteByte(p) PROVE PipeInv'
  <2>1. nwrite' \in 0..(Wrap - 1)
    BY <1>6, Sizes, ModDef DEF WriteByte
  <2> QED BY <1>6, <2>1, RoleAssumption DEF WriteByte
<1>7. ASSUME NEW p \in Proc, WriteBadAddr(p) PROVE PipeInv'
  BY <1>7, FullNotEmpty, RoleAssumption DEF WriteBadAddr, Full, Empty
<1>8. ASSUME NEW p \in Proc, WriteAll(p) PROVE PipeInv'
  BY <1>8, FullNotEmpty, RoleAssumption DEF WriteAll, Full, Empty
<1>9. ASSUME NEW p \in Proc, WriteReturn(p) PROVE PipeInv'
  BY <1>9, FullNotEmpty, RoleAssumption DEF WriteReturn, WakeupAnd, Leave, Full, Empty
<1>10. ASSUME NEW p \in Proc, ReadKilled(p) PROVE PipeInv'
  BY <1>10, FullNotEmpty, RoleAssumption DEF ReadKilled, Leave, Full, Empty
<1>11. ASSUME NEW p \in Proc, ReadEmpty(p) PROVE PipeInv'
  BY <1>11, FullNotEmpty, RoleAssumption DEF ReadEmpty, Full, Empty
<1>12. ASSUME NEW p \in Proc, ReadStart(p) PROVE PipeInv'
  BY <1>12, FullNotEmpty, RoleAssumption DEF ReadStart, Full, Empty
<1>13. ASSUME NEW p \in Proc, ReadByte(p) PROVE PipeInv'
  <2>1. nread' \in 0..(Wrap - 1)
    BY <1>13, Sizes, ModDef DEF ReadByte
  <2> QED BY <1>13, <2>1, RoleAssumption DEF ReadByte
<1>14. ASSUME NEW p \in Proc, ReadBadAddr(p) PROVE PipeInv'
  BY <1>14, FullNotEmpty, RoleAssumption DEF ReadBadAddr, Full, Empty
<1>15. ASSUME NEW p \in Proc, ReadAll(p) PROVE PipeInv'
  BY <1>15, FullNotEmpty, RoleAssumption DEF ReadAll, Full, Empty
<1>16. ASSUME NEW p \in Proc, ReadReturn(p) PROVE PipeInv'
  BY <1>16, FullNotEmpty, RoleAssumption DEF ReadReturn, WakeupAnd, Leave, Full, Empty
<1>17. ASSUME NEW p \in Proc, CloseShared(p) PROVE PipeInv'
  BY <1>17, FullNotEmpty, RoleAssumption DEF CloseShared, Others, Full, Empty
<1>18. ASSUME NEW p \in Proc, Pipeclose(p) PROVE PipeInv'
  <2>1. (Full' <=> Full) /\ (Empty' <=> Empty)
    BY <1>18 DEF Pipeclose, Full, Empty
  <2>2. PipeTypes'
    BY <1>18 DEF Pipeclose, WakeupAnd
  <2>5. Holder'
    BY <1>18, RoleAssumption DEF Pipeclose, WakeupAnd
  <2>3. CASE p \in Writer
    <3>1. Ends'
      BY <1>18, <2>3, RoleAssumption DEF Pipeclose, WakeupAnd, Others
    <3>2. WritersWait' /\ ReadersWait'
      BY <1>18, <2>1, <2>3, RoleAssumption DEF Pipeclose, WakeupAnd
    <3> QED BY <2>2, <2>5, <3>1, <3>2
  <2>4. CASE p \in Reader
    <3>1. Ends'
      BY <1>18, <2>4, RoleAssumption DEF Pipeclose, WakeupAnd, Others
    <3>2. WritersWait' /\ ReadersWait'
      BY <1>18, <2>1, <2>4, RoleAssumption DEF Pipeclose, WakeupAnd
    <3> QED BY <2>2, <2>5, <3>1, <3>2
  <2> QED BY <2>3, <2>4
<1>19. ASSUME NEW p \in Proc, Kill(p) PROVE PipeInv'
  BY <1>19, FullNotEmpty, RoleAssumption DEF Kill, Full, Empty
<1> QED BY <1>0, <1>1, <1>2, <1>3, <1>4, <1>5, <1>6, <1>7, <1>8, <1>9, <1>10, <1>11, <1>12, <1>13, <1>14, <1>15, <1>16, <1>17, <1>18, <1>19 DEF Next, Run, Write, Read, CloseAny

(* Initially nobody sleeps and both ends are open. *)
LEMMA InitInv == Init => PipeInv
<1> SUFFICES ASSUME Init PROVE PipeInv
  OBVIOUS
<1>1. pc = [p \in Proc |-> "idle"] /\ lock = None
  BY DEF Init
<1>2. PipeTypes
  <2>1. pc \in [Proc -> Labels] /\ killed \in [Proc -> BOOLEAN]
    BY DEF Init, Labels
  <2>2. nread = 0 /\ nwrite = 0 /\ readopen = TRUE /\ writeopen = TRUE /\ freed = FALSE
    BY DEF Init
  <2>3. 0 \in 0..(Wrap - 1)
    BY Sizes
  <2> QED BY <2>1, <2>2, <2>3, Zenon DEF PipeTypes
<1>3. Holder
  BY <1>1, RoleAssumption DEF Holder, HasLock, Inside, Proc
<1>4. Ends
  BY <1>1, RoleAssumption DEF Init, Ends, Proc
<1>5. WritersWait /\ ReadersWait
  BY <1>1 DEF WritersWait, WriterWaits, ReadersWait, ReaderWaits, Proc
<1> QED BY <1>2, <1>3, <1>4, <1>5 DEF PipeInv

(* Who holds pi->lock, which ends are open and what each sleeper waits for, at *)
(* every point inside the calls too.                                       *)
THEOREM PipeInvariant == Spec => []PipeInv
  BY InitInv, StepInv, PTL DEF Spec

(* pipe.c:59-74: the pipe is freed with the last descriptor of either end, and *)
(* not before.                                                              *)
THEOREM PipeFreedWithTheLast == Spec => []FreedWithTheLast
<1>1. PipeInv => FreedWithTheLast
  BY DEF PipeInv, Ends, FreedWithTheLast, Proc
<1> QED BY <1>1, PipeInvariant, PTL

(* Whatever is killed: no writer ever sleeps in vain, and a reader does only *)
(* after a writer has been killed (pipe.c:84 returns without a wakeup).     *)
OnlyKillsLoseWakeups ==
  lock = None =>
    /\ \A p \in Reader : pc[p] = "asleep" => writeopen /\ (Empty \/ WriterKilled)
    /\ \A p \in Writer : pc[p] = "asleep" => Full /\ readopen

(* pipe.c:76-134, for any set of processes that may be killed. *)
THEOREM PipeOnlyKillsLoseWakeups == Spec => []OnlyKillsLoseWakeups
<1>1. PipeInv => OnlyKillsLoseWakeups
  BY RoleAssumption DEF PipeInv, OnlyKillsLoseWakeups, Holder, HasLock, Inside, ReadersWait,
     ReaderWaits, WritersWait, WriterWaits, Taking, Proc
<1> QED BY <1>1, PipeInvariant, PTL

(* pipe.c:84-104, 113-132: no order of reads, writes, closes and kills of readers *)
(* leaves a process asleep in the pipe that has something to do.            *)
THEOREM PipeNoLostWakeup ==
  ASSUME Kills \cap Writer = {}
  PROVE  Spec => []NoLostWakeup
<1>1. Init => ~WriterKilled
  BY DEF Init, WriterKilled, Proc
<1>2. PipeInv /\ ~WriterKilled /\ [Next]_vars => ~WriterKilled'
  <2> SUFFICES ASSUME PipeInv, ~WriterKilled, [Next]_vars PROVE ~WriterKilled'
    OBVIOUS
  <2>1. UNCHANGED killed \/ \E p \in Proc : Kill(p)
    BY DEF vars, Next, Call, Run, Write, Read, CloseAny, Acquire, Sleep, WriteFails, WriteFull, WriteByte,
       WriteBadAddr, WriteAll, WriteReturn, ReadKilled, ReadEmpty, ReadStart, ReadByte, ReadBadAddr, ReadAll,
       ReadReturn, CloseShared, Pipeclose
  <2> QED BY <2>1 DEF Kill, WriterKilled, PipeInv, PipeTypes, Proc
<1>3. OnlyKillsLoseWakeups /\ ~WriterKilled => NoLostWakeup
  BY DEF OnlyKillsLoseWakeups, NoLostWakeup
<1> QED BY <1>1, <1>2, <1>3, PipeInvariant, PipeOnlyKillsLoseWakeups, PTL DEF Spec

-----------------------------------------------------------------------------
(* The ring. *)

(* The operators by which the ring is counted, kept folded below. *)
SizeOf(r, w) == (w - r) % Wrap
Succ(x) == (x + 1) % Wrap
Slot(x) == x % PIPESIZE
Counter == 0..(Wrap - 1)
Slots == 0..(PIPESIZE - 1)
RingOf(d, r, w) == [k \in 1..SizeOf(r, w) |-> d[Slot(r + k - 1)]]

LEMMA SizeDef ==
  ASSUME NEW r \in Counter, NEW w \in Counter
  PROVE  SizeOf(r, w) = IF w >= r THEN w - r ELSE w - r + Wrap
<1>1. w - r \in 0..(Wrap - 1) \/ w - r \in (-Wrap)..(-1)
  BY Sizes DEF Counter
<1> QED BY <1>1, Sizes, ModSmall, ModNeg DEF SizeOf, Counter

LEMMA SuccDef ==
  ASSUME NEW x \in Counter
  PROVE  Succ(x) = IF x = Wrap - 1 THEN 0 ELSE x + 1
<1>1. x + 1 \in 0..(Wrap - 1) \/ x + 1 \in Wrap..(2*Wrap - 1)
  BY Sizes DEF Counter
<1> QED BY <1>1, Sizes, ModSmall, ModBig DEF Succ, Counter

LEMMA SuccType == ASSUME NEW x \in Counter PROVE Succ(x) \in Counter
  BY SuccDef, Sizes DEF Counter

(* nwrite == nread + PIPESIZE, computed in uint. *)
LEMMA FullDef ==
  ASSUME NEW r \in Counter, NEW w \in Counter
  PROVE  w = (r + PIPESIZE) % Wrap <=> SizeOf(r, w) = PIPESIZE
<1>1. r \in 0..(Wrap - 1) /\ PIPESIZE \in 0..(Wrap - 1)
  BY Sizes DEF Counter
<1> DEFINE f == (r + PIPESIZE) % Wrap
<1>2. f = IF r + PIPESIZE < Wrap THEN r + PIPESIZE ELSE r + PIPESIZE - Wrap
  BY <1>1, Sizes, ModSum
<1> HIDE DEF f
<1>3. w = f <=> SizeOf(r, w) = PIPESIZE
  BY <1>2, Sizes, SizeDef DEF Counter
<1> QED BY <1>3 DEF f

LEMMA SlotType == ASSUME NEW x \in Int PROVE Slot(x) \in Slots
  BY Sizes, ModDef DEF Slot, Slots

(* The slots of a ring of PIPESIZE bytes do not notice that the counters wrap. *)
LEMMA SlotWraps ==
  ASSUME NEW x \in Int PROVE Slot(x + Wrap) = Slot(x)
<1>1. Wrap % PIPESIZE = 0
  BY SizeAssumption
<1>2. PIPESIZE \in Nat \ {0} /\ Wrap \in Int
  BY Sizes
<1>3. (x + Wrap) % PIPESIZE = x % PIPESIZE
  BY <1>1, <1>2, ModMult, Zenon
<1> QED BY <1>3 DEF Slot

LEMMA SlotsDiffer ==
  ASSUME NEW x \in Int, NEW y \in Int, x < y, y < x + PIPESIZE
  PROVE  Slot(x) # Slot(y)
<1> DEFINE d == y - x
<1>1. d \in 1..(PIPESIZE - 1) /\ y = x + d
  BY Sizes
<1> HIDE DEF d
<1> QED BY <1>1, Sizes, ModDiff DEF Slot

LEMMA SlotOfSucc ==
  ASSUME NEW x \in Counter, NEW k \in Int
  PROVE  Slot(Succ(x) + k) = Slot(x + 1 + k)
<1>1. CASE x = Wrap - 1
  <2>1. x + 1 + k = k + Wrap /\ Succ(x) + k = k
    BY <1>1, SuccDef, Sizes
  <2> QED BY <2>1, SlotWraps
<1>2. CASE x # Wrap - 1
  BY <1>2, SuccDef
<1> QED BY <1>1, <1>2

(* The first slot behind the ring is the one that nwrite names. *)
LEMMA SlotOfEnd ==
  ASSUME NEW r \in Counter, NEW w \in Counter
  PROVE  Slot(r + SizeOf(r, w)) = Slot(w)
<1>1. r + SizeOf(r, w) = w \/ r + SizeOf(r, w) = w + Wrap
  BY SizeDef, Sizes DEF Counter
<1> QED BY <1>1, SlotWraps DEF Counter

LEMMA RingType ==
  ASSUME NEW d \in [Slots -> Byte], NEW r \in Counter, NEW w \in Counter
  PROVE  /\ SizeOf(r, w) \in Nat
         /\ RingOf(d, r, w) \in Seq(Byte)
         /\ Len(RingOf(d, r, w)) = SizeOf(r, w)
<1>1. SizeOf(r, w) \in Nat
  BY SizeDef, Sizes DEF Counter
<1>2. \A k \in 1..SizeOf(r, w) : d[Slot(r + k - 1)] \in Byte
  BY <1>1, SlotType DEF Counter
<1> QED BY <1>1, <1>2 DEF RingOf

LEMMA RingPut ==
  ASSUME NEW d \in [Slots -> Byte], NEW r \in Counter, NEW w \in Counter, NEW b \in Byte,
         SizeOf(r, w) < PIPESIZE
  PROVE  /\ SizeOf(r, Succ(w)) = SizeOf(r, w) + 1
         /\ RingOf([d EXCEPT ![Slot(w)] = b], r, Succ(w)) = Append(RingOf(d, r, w), b)
<1> DEFINE s == SizeOf(r, w)
           e == [d EXCEPT ![Slot(w)] = b]
           old == RingOf(d, r, w)
           new == RingOf(e, r, Succ(w))
<1>1. /\ s \in Nat /\ old \in Seq(Byte) /\ Len(old) = s
      /\ e \in [Slots -> Byte] /\ Succ(w) \in Counter
  BY RingType, SuccType
<1>2. SizeOf(r, Succ(w)) = s + 1
  <2>1. SizeOf(r, Succ(w)) = IF Succ(w) >= r THEN Succ(w) - r ELSE Succ(w) - r + Wrap
    BY <1>1, SizeDef
  <2>2. s = IF w >= r THEN w - r ELSE w - r + Wrap
    BY SizeDef
  <2>3. Succ(w) = IF w = Wrap - 1 THEN 0 ELSE w + 1
    BY SuccDef
  <2> QED BY <2>1, <2>2, <2>3, Sizes DEF Counter
<1>3. new \in Seq(Byte) /\ Len(new) = s + 1
  BY <1>1, <1>2, RingType
<1>4. ASSUME NEW k \in 1..s PROVE new[k] = old[k]
  <2>1. Slot(r + k - 1) # Slot(r + s)
    <3> DEFINE x == r + k - 1  y == r + s
    <3>1. x \in Int /\ y \in Int /\ x < y /\ y < x + PIPESIZE
      BY <1>1, Sizes DEF Counter
    <3> HIDE DEF x, y
    <3>2. Slot(x) # Slot(y)
      BY <3>1, SlotsDiffer
    <3> QED BY <3>2 DEF x, y
  <2>2. Slot(r + k - 1) # Slot(w) /\ Slot(r + k - 1) \in Slots
    BY <2>1, SlotOfEnd, SlotType DEF Counter
  <2> QED BY <1>1, <1>2, <2>2 DEF RingOf
<1>5. new[s + 1] = b
  <2>1. r + (s + 1) - 1 = r + s
    BY <1>1 DEF Counter
  <2>2. new[s + 1] = e[Slot(r + s)]
    BY <1>1, <1>2, <2>1 DEF RingOf
  <2> QED BY <2>2, SlotOfEnd, SlotType DEF Counter
<1>6. /\ Append(old, b) \in Seq(Byte) /\ Len(Append(old, b)) = s + 1
      /\ \A k \in 1..s : Append(old, b)[k] = old[k]
      /\ Append(old, b)[s + 1] = b
  <2> HIDE DEF old
  <2> QED BY <1>1, AppendProperties
<1>7. \A k \in 1..(s + 1) : new[k] = Append(old, b)[k]
  <2> HIDE DEF new, old, s
  <2> QED BY <1>1, <1>4, <1>5, <1>6
<1> HIDE DEF new, old, s
<1>8. new = Append(old, b)
  BY <1>1, <1>3, <1>6, <1>7, SeqEqual
<1> QED BY <1>2, <1>8 DEF new, old, s

LEMMA RingGet ==
  ASSUME NEW d \in [Slots -> Byte], NEW r \in Counter, NEW w \in Counter, r # w
  PROVE  /\ SizeOf(Succ(r), w) = SizeOf(r, w) - 1
         /\ RingOf(d, r, w) # <<>>
         /\ RingOf(d, Succ(r), w) = Tail(RingOf(d, r, w))
<1> DEFINE s == SizeOf(r, w)
           old == RingOf(d, r, w)
           new == RingOf(d, Succ(r), w)
<1>1. /\ s \in Nat /\ old \in Seq(Byte) /\ Len(old) = s /\ Succ(r) \in Counter
      /\ s > 0
  <2>1. s = IF w >= r THEN w - r ELSE w - r + Wrap
    BY SizeDef
  <2>2. s > 0
    BY <2>1, Sizes DEF Counter
  <2> QED BY <2>2, RingType, SuccType
<1>2. SizeOf(Succ(r), w) = s - 1
  <2>1. SizeOf(Succ(r), w) = IF w >= Succ(r) THEN w - Succ(r) ELSE w - Succ(r) + Wrap
    BY <1>1, SizeDef
  <2>2. s = IF w >= r THEN w - r ELSE w - r + Wrap
    BY SizeDef
  <2>3. Succ(r) = IF r = Wrap - 1 THEN 0 ELSE r + 1
    BY SuccDef
  <2> QED BY <2>1, <2>2, <2>3, Sizes DEF Counter
<1>3. new \in Seq(Byte) /\ Len(new) = s - 1
  BY <1>1, <1>2, RingType
<1>4. ASSUME NEW k \in 1..(s - 1) PROVE new[k] = old[k + 1]
  <2>1. new[k] = d[Slot(Succ(r) + k - 1)] /\ old[k + 1] = d[Slot(r + (k + 1) - 1)]
    BY <1>1, <1>2 DEF RingOf
  <2>2. Slot(Succ(r) + (k - 1)) = Slot(r + 1 + (k - 1))
    BY SlotOfSucc, <1>1
  <2>3. Succ(r) + k - 1 = Succ(r) + (k - 1) /\ r + (k + 1) - 1 = r + 1 + (k - 1)
    BY <1>1 DEF Counter
  <2> QED BY <2>1, <2>2, <2>3
<1> HIDE DEF new, old, s
<1>5. old # <<>>
  BY <1>1
<1>6. Tail(old) \in Seq(Byte) /\ Len(Tail(old)) = s - 1 /\ \A k \in 1..(s - 1) : Tail(old)[k] = old[k + 1]
  BY <1>1, <1>5, HeadTailProperties
<1>7. new = Tail(old)
  BY <1>3, <1>4, <1>6, SeqEqual
<1> QED BY <1>2, <1>5, <1>7 DEF new, old, s

-----------------------------------------------------------------------------
(* The refinement. *)

RingInv == data \in [Slots -> Byte] /\ SizeOf(nread, nwrite) <= PIPESIZE

LEMMA QueueIsRing ==
  /\ Q!AbsInit <=> RingOf(data, nread, nwrite) = <<>> /\ readopen = TRUE /\ writeopen = TRUE
  /\ \A b : Q!Put(b) <=>
       /\ readopen /\ writeopen /\ Len(RingOf(data, nread, nwrite)) < PIPESIZE
       /\ RingOf(data', nread', nwrite') = Append(RingOf(data, nread, nwrite), b)
       /\ UNCHANGED <<readopen, writeopen>>
  /\ Q!Get <=>
       /\ readopen /\ RingOf(data, nread, nwrite) # <<>>
       /\ RingOf(data', nread', nwrite') = Tail(RingOf(data, nread, nwrite))
       /\ UNCHANGED <<readopen, writeopen>>
  BY DEF Q!AbsInit, Q!Put, Q!Get, RingOf, SizeOf, Slot

LEMMA PutStep ==
  ASSUME PipeInv, RingInv, NEW p \in Proc, WriteByte(p)
  PROVE  RingInv' /\ \E b \in Byte : Q!Put(b)
<1>1. PICK b \in Byte : data' = [data EXCEPT ![Slot(nwrite)] = b]
  BY DEF WriteByte, Slot
<1>2. /\ readopen /\ writeopen /\ UNCHANGED <<nread, readopen, writeopen>>
      /\ nread \in Counter /\ nwrite \in Counter
  BY DEF WriteByte, PipeInv, PipeTypes, Ends, At, Counter
<1>3. SizeOf(nread, nwrite) < PIPESIZE
  BY <1>2, FullDef, RingType, Sizes DEF WriteByte, Full, RingInv
<1>4. nwrite' = Succ(nwrite)
  BY DEF WriteByte, Succ
<1>5. /\ SizeOf(nread', nwrite') = SizeOf(nread, nwrite) + 1
      /\ RingOf(data', nread', nwrite') = Append(RingOf(data, nread, nwrite), b)
  BY <1>1, <1>2, <1>3, <1>4, RingPut DEF RingInv
<1>6. SizeOf(nread, nwrite) \in Nat /\ Len(RingOf(data, nread, nwrite)) = SizeOf(nread, nwrite)
  BY <1>2, RingType DEF RingInv
<1>7. RingInv'
  <2>1. data' \in [Slots -> Byte]
    BY <1>1 DEF RingInv
  <2> QED BY <2>1, <1>3, <1>5, <1>6, Sizes DEF RingInv
<1> QED BY <1>2, <1>3, <1>5, <1>6, <1>7, QueueIsRing

LEMMA GetStep ==
  ASSUME PipeInv, RingInv, NEW p \in Proc, ReadByte(p)
  PROVE  RingInv' /\ Q!Get
<1>1. /\ readopen /\ UNCHANGED <<data, nwrite, readopen, writeopen>>
      /\ nread \in Counter /\ nwrite \in Counter /\ nread # nwrite
  BY DEF ReadByte, PipeInv, PipeTypes, Holder, Ends, At, Empty, Counter
<1>2. nread' = Succ(nread)
  BY DEF ReadByte, Succ
<1> QED BY <1>1, <1>2, RingGet, RingType, Sizes, QueueIsRing DEF RingInv

(* The last descriptor of an end that is closed closes an open end. *)
LEMMA CloseStep == ASSUME NEW p \in Proc, PipeInv, Pipeclose(p) PROVE Q!Close
  BY DEF Pipeclose, PipeInv, Ends, At, PipeTypes, Proc, Q!Close, Others

LEMMA InitRing == Init => RingInv /\ Q!AbsInit
<1> SUFFICES ASSUME Init PROVE RingInv /\ Q!AbsInit
  OBVIOUS
<1>1. data \in [Slots -> Byte] /\ nread \in Counter /\ nwrite = nread
  BY Sizes DEF Init, Slots, Counter
<1>2. SizeOf(nread, nwrite) = 0
  BY <1>1, SizeDef DEF Counter
<1>3. RingOf(data, nread, nwrite) = <<>>
  BY <1>2 DEF RingOf
<1> QED BY <1>1, <1>2, <1>3, Sizes, QueueIsRing DEF Init, RingInv

LEMMA RingStep == PipeInv /\ RingInv /\ [Next]_vars => RingInv' /\ [Q!AbsNext]_(Q!absVars)
<1> SUFFICES ASSUME PipeInv, RingInv, [Next]_vars
             PROVE  RingInv' /\ [Q!AbsNext]_(Q!absVars)
  OBVIOUS
<1>1. CASE UNCHANGED pipeVars
  BY <1>1 DEF pipeVars, RingInv, Q!absVars
<1>2. ASSUME NEW p \in Proc, WriteByte(p) PROVE RingInv' /\ Q!AbsNext
  BY <1>2, PutStep DEF PipeInv, Q!AbsNext
<1>3. ASSUME NEW p \in Proc, ReadByte(p) PROVE RingInv' /\ Q!AbsNext
  BY <1>3, GetStep DEF PipeInv, Q!AbsNext
<1>4. ASSUME NEW p \in Proc, Pipeclose(p) PROVE RingInv' /\ Q!AbsNext
  <2>1. RingInv'
    BY <1>4 DEF Pipeclose, RingInv
  <2> QED BY <2>1, <1>4, CloseStep DEF Q!AbsNext
<1>5. \/ UNCHANGED pipeVars
      \/ \E p \in Proc : WriteByte(p) \/ ReadByte(p) \/ Pipeclose(p)
  BY DEF vars, Next, Call, Run, Write, Read, CloseAny, Acquire, Sleep, WriteFails, WriteFull,
     WriteBadAddr, WriteAll, WriteReturn, ReadKilled, ReadEmpty, ReadStart, ReadBadAddr, ReadAll,
     ReadReturn, CloseShared, Kill
<1> QED BY <1>1, <1>2, <1>3, <1>4, <1>5

(* pipe.c:76-134: the ring is a bounded first-in first-out queue across every *)
(* wrap of nread and nwrite and of the slots: no byte is lost, duplicated,  *)
(* overwritten or put into a pipe that nobody can read.                     *)
THEOREM PipeFifo == Spec => Fifo
  BY InitRing, RingStep, PipeInvariant, PTL DEF Spec, Fifo, Q!AbsSpec

-----------------------------------------------------------------------------
(* Type correctness. *)

(* i counts up to n; a process outside its calls has i = 0. *)
CallTypes ==
  /\ n \in [Proc -> 0..MaxN] /\ i \in [Proc -> -1..MaxN]
  /\ \A p \in Proc : i[p] <= n[p] /\ (pc[p] \in {"idle", "gone"} => i[p] = 0)
LockTypes == lock \in Proc \cup {None}

LEMMA CallStep == ASSUME PipeTypes, CallTypes, LockTypes, [Next]_vars PROVE CallTypes' /\ LockTypes'
<1> USE DEF PipeTypes, CallTypes, LockTypes, Labels, At, Go, callVars
<1>0. MaxN \in Nat
  BY SizeAssumption
<1>1. CASE UNCHANGED vars
  BY <1>1 DEF vars
<1>2. ASSUME NEW p \in Proc, Call(p) PROVE CallTypes' /\ LockTypes'
  BY <1>0, <1>2 DEF Call
<1>3. ASSUME NEW p \in Proc, Acquire(p) PROVE CallTypes' /\ LockTypes'
  BY <1>0, <1>3 DEF Acquire
<1>4. ASSUME NEW p \in Proc, Sleep(p) PROVE CallTypes' /\ LockTypes'
  BY <1>0, <1>4 DEF Sleep, WakeupAnd
<1>5. ASSUME NEW p \in Proc, WriteFails(p) PROVE CallTypes' /\ LockTypes'
  BY <1>0, <1>5 DEF WriteFails, Leave
<1>6. ASSUME NEW p \in Proc, WriteFull(p) PROVE CallTypes' /\ LockTypes'
  BY <1>0, <1>6 DEF WriteFull
<1>7. ASSUME NEW p \in Proc, WriteByte(p) PROVE CallTypes' /\ LockTypes'
  BY <1>0, <1>7 DEF WriteByte
<1>8. ASSUME NEW p \in Proc, WriteBadAddr(p) PROVE CallTypes' /\ LockTypes'
  BY <1>0, <1>8 DEF WriteBadAddr
<1>9. ASSUME NEW p \in Proc, WriteAll(p) PROVE CallTypes' /\ LockTypes'
  BY <1>0, <1>9 DEF WriteAll
<1>10. ASSUME NEW p \in Proc, WriteReturn(p) PROVE CallTypes' /\ LockTypes'
  BY <1>0, <1>10 DEF WriteReturn, WakeupAnd, Leave
<1>11. ASSUME NEW p \in Proc, ReadKilled(p) PROVE CallTypes' /\ LockTypes'
  BY <1>0, <1>11 DEF ReadKilled, Leave
<1>12. ASSUME NEW p \in Proc, ReadEmpty(p) PROVE CallTypes' /\ LockTypes'
  BY <1>0, <1>12 DEF ReadEmpty
<1>13. ASSUME NEW p \in Proc, ReadStart(p) PROVE CallTypes' /\ LockTypes'
  BY <1>0, <1>13 DEF ReadStart
<1>14. ASSUME NEW p \in Proc, ReadByte(p) PROVE CallTypes' /\ LockTypes'
  BY <1>0, <1>14 DEF ReadByte
<1>15. ASSUME NEW p \in Proc, ReadBadAddr(p) PROVE CallTypes' /\ LockTypes'
  BY <1>0, <1>15 DEF ReadBadAddr
<1>16. ASSUME NEW p \in Proc, ReadAll(p) PROVE CallTypes' /\ LockTypes'
  BY <1>0, <1>16 DEF ReadAll
<1>17. ASSUME NEW p \in Proc, ReadReturn(p) PROVE CallTypes' /\ LockTypes'
  BY <1>0, <1>17 DEF ReadReturn, WakeupAnd, Leave
<1>18. ASSUME NEW p \in Proc, CloseShared(p) PROVE CallTypes' /\ LockTypes'
  BY <1>0, <1>18 DEF CloseShared
<1>19. ASSUME NEW p \in Proc, Pipeclose(p) PROVE CallTypes' /\ LockTypes'
  BY <1>0, <1>19 DEF Pipeclose, WakeupAnd
<1>20. ASSUME NEW p \in Proc, Kill(p) PROVE CallTypes' /\ LockTypes'
  BY <1>0, <1>20 DEF Kill
<1> QED
  BY <1>1, <1>2, <1>3, <1>4, <1>5, <1>6, <1>7, <1>8, <1>9, <1>10,
     <1>11, <1>12, <1>13, <1>14, <1>15, <1>16, <1>17, <1>18, <1>19, <1>20
     DEF Next, Run, Write, Read, CloseAny

(* Every variable of the model keeps its type; in particular a read or a write *)
(* never handles more bytes than it was asked for.                          *)
THEOREM PipeTypeOK == Spec => []TypeOK
<1>1. Init => CallTypes /\ LockTypes /\ RingInv
  <2> SUFFICES ASSUME Init PROVE CallTypes /\ LockTypes /\ RingInv
    OBVIOUS
  <2>1. CallTypes
    BY SizeAssumption DEF Init, CallTypes
  <2>2. LockTypes
    BY DEF Init, LockTypes
  <2> QED BY <2>1, <2>2, InitRing
<1>2. PipeInv /\ RingInv /\ CallTypes /\ LockTypes /\ [Next]_vars => CallTypes' /\ LockTypes' /\ RingInv'
  BY CallStep, RingStep DEF PipeInv
<1>3. PipeInv /\ RingInv /\ CallTypes /\ LockTypes => TypeOK
  BY DEF PipeInv, PipeTypes, RingInv, CallTypes, LockTypes, TypeOK, Slots
<1> QED BY <1>1, <1>2, <1>3, PipeInvariant, PTL DEF Spec
=============================================================================
