---------------------------- MODULE DeviceProofs ----------------------------
(***************************************************************************)
(* Nobody waits in vain for the terminal or for the clock, and the console *)
(* is a queue of lines: the invariants of module Devices, for any readers, *)
(* writers and sleepers, and its refinement of LineQueue, for any size of  *)
(* the buffer.  And of the shell at that console (module Shell): each file *)
(* counts what names it, whatever lines are typed and whatever fails.      *)
(***************************************************************************)
EXTENDS Devices, Shell, SequenceTheorems, WellFoundedInduction, FiniteSetTheorems, TLAPS

-----------------------------------------------------------------------------
(* The clock. *)

(* The sleeper that has looked and is not asleep yet still has tickslock,   *)
(* so no tick comes in between.                                             *)
HoldsTickslock == \A s \in Sleeper : at[s] \in {"look", "sleep"} => tickslock = s
ClockTypes == at \in [Sleeper -> {"idle", "look", "sleep", "asleep", "woken"}]
              /\ ticks0 \in [Sleeper -> Nat] /\ for \in [Sleeper -> Nat]
              /\ ticks \in Nat
ClockInv == ClockTypes /\ HoldsTickslock /\ OnTime

LEMMA ClockStep == ClockInv /\ ClockNext => ClockInv'
<1> SUFFICES ASSUME ClockInv, ClockNext PROVE ClockInv'
  OBVIOUS
<1> USE NobodyAssumption DEF ClockInv, ClockTypes, HoldsTickslock, OnTime, Elapsed
<1>1. CASE Clockintr
  BY <1>1, TicksAssumption DEF Clockintr
<1>2. ASSUME NEW s \in Sleeper, Ask(s) PROVE ClockInv'
  <2>1. for' \in [Sleeper -> Nat]
    BY <1>2, TicksAssumption DEF Ask
  <2> QED BY <1>2, <2>1 DEF Ask, MoveTo
<1>3. ASSUME NEW s \in Sleeper, Look(s) PROVE ClockInv'
  <2>1. CASE Elapsed(s) < for[s] /\ ~flagged[s]
    BY <1>3, <2>1 DEF Look, MayLook, MoveTo
  <2>2. CASE ~(Elapsed(s) < for[s] /\ ~flagged[s])
    BY <1>3, <2>2 DEF Look, MayLook, MoveTo
  <2> QED BY <2>1, <2>2
<1>4. ASSUME NEW s \in Sleeper, Sleep(s) PROVE ClockInv'
  BY <1>4 DEF Sleep, MoveTo
<1>5. ASSUME NEW s \in Sleeper, KillSleeper(s) PROVE ClockInv'
  BY <1>5 DEF KillSleeper
<1> QED BY <1>1, <1>2, <1>3, <1>4, <1>5 DEF ClockNext, SleeperStep

(* sysproc.c:77: nobody sleeps past its time, for any argument and also when*)
(* ticks wraps.                                                             *)
THEOREM DevicesOnTime == Spec => []OnTime
<1>1. Init => ClockInv
  BY DEF Init, ClockInit, ClockInv, ClockTypes, HoldsTickslock, OnTime
<1>2. ClockInv /\ [Next]_vars => ClockInv'
  <2> SUFFICES ASSUME ClockInv, [Next]_vars PROVE ClockInv'
    OBVIOUS
  <2>1. CASE UNCHANGED clockVars
    BY <2>1 DEF clockVars, ClockInv, ClockTypes, HoldsTickslock, OnTime, Elapsed
  <2> QED BY <2>1, ClockStep DEF Next, vars
<1> QED BY <1>1, <1>2, PTL DEF Spec, ClockInv

-----------------------------------------------------------------------------
(* The terminal. *)

(* tx_busy is set only while the transmitter, its interrupt or the handler  *)
(* has yet to come to the point where tx_busy is cleared.                   *)
BusyEnds == txBusy => fifo > 0 \/ txIrq \/ hpc = "tx"
WritersWait == \A p \in Writer : pc[p] = "asleep" => txBusy
ReadersWait == \A p \in Reader : pc[p] = "asleep" => r = w
TermTypes ==
  /\ pc \in [Process -> {"idle", "write", "read", "more", "asleep"}]
  /\ fifo \in Nat /\ txBusy \in BOOLEAN /\ txIrq \in BOOLEAN
(* A writer only writes, and a reader only reads. *)
Calls ==
  /\ \A p \in Writer : pc[p] \notin {"read", "more"}
  /\ \A p \in Reader : pc[p] # "write"
TermInv == TermTypes /\ Calls /\ BusyEnds /\ WritersWait /\ ReadersWait

LEMMA IntrStep == TermInv /\ Intr => TermInv'
<1> SUFFICES ASSUME TermInv, Intr PROVE TermInv'
  OBVIOUS
<1> USE DEF TermInv, TermTypes, Calls, BusyEnds, WritersWait, ReadersWait, Process
<1>1. CASE IntrEnter
  BY <1>1 DEF IntrEnter, consVars, procVars
<1>2. CASE IntrTx
  <2>1. CASE Idle
    <3>1. /\ pc' = Woken(Writer, "write") /\ txBusy' = FALSE /\ hpc' = "rx"
          /\ UNCHANGED <<fifo, txIrq, r, w>>
      BY <1>2, <2>1 DEF IntrTx, consVars
    <3>2. TermTypes'
      BY <3>1 DEF Woken
    <3>3. Calls' /\ WritersWait' /\ ReadersWait'
      BY <3>1, ProcessAssumption DEF Woken
    <3> QED BY <3>1, <3>2, <3>3
  <2>2. CASE ~Idle
    BY <1>2, <2>2 DEF IntrTx, Idle, consVars
  <2> QED BY <2>1, <2>2
<1>3. CASE IntrGetc
  BY <1>3 DEF IntrGetc, consVars, uartVars, procVars
<1>4. CASE ConsStart
  BY <1>4 DEF ConsStart, uartVars, procVars
<1>5. CASE EchoSpin
  BY <1>5 DEF EchoSpin, consVars, uartVars, procVars
<1>6. CASE EchoPut
  BY <1>6 DEF EchoPut, Put, consVars, procVars
<1>7. CASE ConsStore
  BY <1>7, ProcessAssumption DEF ConsStore, uartVars, Woken
<1> QED BY <1>1, <1>2, <1>3, <1>4, <1>5, <1>6, <1>7 DEF Intr

LEMMA CallStep == ASSUME TermInv, NEW p \in Process, Call(p) PROVE TermInv'
<1> USE DEF TermInv, TermTypes, Calls, BusyEnds, WritersWait, ReadersWait, Process, Goto
<1>1. CASE WriteStart(p)
  BY <1>1, ProcessAssumption DEF WriteStart, consVars, uartVars, intrVars
<1>2. CASE WriteSleep(p)
  BY <1>2, ProcessAssumption DEF WriteSleep, consVars, uartVars, intrVars
<1>3. CASE WriteByte(p)
  BY <1>3, ProcessAssumption DEF WriteByte, Put, consVars, intrVars
<1>4. CASE ReadStart(p)
  BY <1>4, ProcessAssumption DEF ReadStart, consVars, uartVars, intrVars
<1>5. CASE ReadSleep(p)
  BY <1>5, ProcessAssumption DEF ReadSleep, ReadReturn, MayRead, consVars, uartVars, intrVars
<1>6. CASE ReadByte(p)
  BY <1>6, ProcessAssumption DEF ReadByte, ReadReturn, MayRead, uartVars, intrVars
<1>7. CASE KillReader(p)
  BY <1>7, ProcessAssumption DEF KillReader, consVars, uartVars, intrVars
<1> QED BY <1>1, <1>2, <1>3, <1>4, <1>5, <1>6, <1>7 DEF Call

(* uart.c:86, console.c:97: whoever sleeps at the terminal is waited for by *)
(* something that will happen, whatever printf() and the echo transmit.     *)
THEOREM DevicesWaitForDevice == Spec => []WaitsForDevice
<1> USE DEF TermInv, TermTypes, Calls, BusyEnds, WritersWait, ReadersWait
<1>1. Init => TermInv
  <2> SUFFICES ASSUME TermInit PROVE TermInv
    BY DEF Init
  <2>1. pc = [p \in Process |-> "idle"] /\ fifo = 0 /\ txBusy = FALSE /\ txIrq = FALSE
    BY DEF TermInit
  <2> QED BY <2>1 DEF Process
<1>2. TermInv /\ [Next]_vars => TermInv'
  <2> SUFFICES ASSUME TermInv, [Next]_vars PROVE TermInv'
    OBVIOUS
  <2>1. CASE UNCHANGED termVars
    BY <2>1 DEF termVars, consVars, uartVars, intrVars, procVars
  <2>2. CASE Device
    <3>1. CASE KeyPressed
      BY <3>1 DEF KeyPressed, consVars, uartVars, intrVars, procVars
    <3>2. CASE Transmit
      BY <3>2 DEF Transmit, consVars, intrVars, procVars
    <3> QED BY <2>2, <3>1, <3>2 DEF Device
  <2>3. CASE Printf
    BY <2>3 DEF Printf, Put, consVars, uartVars, intrVars, procVars
  <2> QED BY <2>1, <2>2, <2>3, IntrStep, CallStep DEF Next, TerminalNext, vars
<1>3. TermInv => WaitsForDevice
  BY DEF WaitsForDevice, Process
<1> QED BY <1>1, <1>2, <1>3, PTL DEF Spec
-----------------------------------------------------------------------------
(* Arithmetic modulo m, as in PipeProofs: what is proved of % and of the ring *)
(* is cited folded, so that the solver sees no product of variables.        *)

LEMMA ModDef ==
  ASSUME NEW m \in Nat \ {0}, NEW a \in Int
  PROVE  a % m \in 0..(m - 1) /\ a = m * (a \div m) + (a % m) /\ a \div m \in Int
  BY SMT

LEMMA ModUnique ==
  ASSUME NEW m \in Nat \ {0}, NEW q \in Int, NEW z \in 0..(m - 1)
  PROVE  (m * q + z) % m = z
  BY SMT

LEMMA ModSmall ==
  ASSUME NEW m \in Nat \ {0}, NEW a \in 0..(m - 1)
  PROVE  a % m = a
  BY SMT

LEMMA ModNeg ==
  ASSUME NEW m \in Nat \ {0}, NEW a \in (-m)..(-1)
  PROVE  a % m = a + m
  BY SMT

LEMMA ModBig ==
  ASSUME NEW m \in Nat \ {0}, NEW a \in m..(2*m - 1)
  PROVE  a % m = a - m
  BY SMT

(* A multiple of m does not count. *)
LEMMA ModMult ==
  ASSUME NEW m \in Nat \ {0}, NEW b \in Int, b % m = 0, NEW a \in Int
  PROVE  (a + b) % m = a % m
<1> DEFINE q == (a \div m) + (b \div m)
<1>1. q \in Int /\ a % m \in 0..(m-1)
  BY ModDef
<1>2. b = m * (b \div m)
  BY ModDef
<1>3. a + b = m * q + (a % m)
  BY <1>2, ModDef
<1>4. (m * q + (a % m)) % m = a % m
  <2> HIDE DEF q
  <2> QED BY <1>1, ModUnique
<1> QED BY <1>3, <1>4

(* Two numbers less than m apart differ modulo m. *)
LEMMA ModDiff ==
  ASSUME NEW m \in Nat \ {0}, NEW a \in Int, NEW d \in 1..(m - 1)
  PROVE  (a + d) % m # a % m
<1> DEFINE z == a % m  q == a \div m
<1>1. z \in 0..(m-1) /\ q \in Int /\ a = m * q + z
  BY ModDef
<1> HIDE DEF z, q
<1>2. CASE z + d < m
  <2>1. (m * q + (z + d)) % m = z + d
     BY <1>1, <1>2, ModUnique
  <2> QED BY <2>1, <1>1 DEF z
<1>3. CASE z + d >= m
  <2> DEFINE q1 == q + 1  r1 == z + d - m
  <2>1. q1 \in Int /\ r1 \in 0..(m-1) /\ m * q1 + r1 = a + d
     BY <1>1, <1>3
  <2>2. (m * q1 + r1) % m = r1
     <3> HIDE DEF q1, r1
     <3> QED BY <2>1, ModUnique
  <2> QED BY <2>1, <2>2, <1>1 DEF z
<1> QED BY <1>1, <1>2, <1>3

-----------------------------------------------------------------------------
(* The ring cons.buf. *)

Gap(i, j) == (j - i) % Wrap
Succ(x) == (x + 1) % Wrap
Pred(x) == (x - 1) % Wrap
Counter == 0..(Wrap - 1)
Places == 0..(INPUT_BUF_SIZE - 1)
RingOf(d, i, j) == [h \in 1..Gap(i, j) |-> d[Slot(i + h - 1)]]

LEMMA BufferSizes == INPUT_BUF_SIZE \in Nat \ {0} /\ Wrap \in Nat \ {0} /\ INPUT_BUF_SIZE < Wrap
  BY BufferAssumption

LEMMA GapDef ==
  ASSUME NEW i \in Counter, NEW j \in Counter
  PROVE  Gap(i, j) = IF j >= i THEN j - i ELSE j - i + Wrap
<1>1. j - i \in 0..(Wrap - 1) \/ j - i \in (-Wrap)..(-1)
  BY BufferSizes DEF Counter
<1> QED BY <1>1, BufferSizes, ModSmall, ModNeg DEF Gap, Counter

LEMMA SuccDef ==
  ASSUME NEW x \in Counter
  PROVE  Succ(x) = IF x = Wrap - 1 THEN 0 ELSE x + 1
<1>1. x + 1 \in 0..(Wrap - 1) \/ x + 1 \in Wrap..(2*Wrap - 1)
  BY BufferSizes DEF Counter
<1> QED BY <1>1, BufferSizes, ModSmall, ModBig DEF Succ, Counter

LEMMA SuccType == ASSUME NEW x \in Counter PROVE Succ(x) \in Counter
  BY SuccDef, BufferSizes DEF Counter

LEMMA SlotType == ASSUME NEW x \in Int PROVE Slot(x) \in Places
  BY BufferSizes, ModDef DEF Slot, Places

(* The slots of a ring of INPUT_BUF_SIZE bytes do not notice that the counters wrap. *)
LEMMA SlotWraps ==
  ASSUME NEW x \in Int PROVE Slot(x + Wrap) = Slot(x)
<1>1. Wrap % INPUT_BUF_SIZE = 0
  BY BufferAssumption
<1>2. INPUT_BUF_SIZE \in Nat \ {0} /\ Wrap \in Int
  BY BufferSizes
<1>3. (x + Wrap) % INPUT_BUF_SIZE = x % INPUT_BUF_SIZE
  BY <1>1, <1>2, ModMult, Zenon
<1> QED BY <1>3 DEF Slot

LEMMA SlotsDiffer ==
  ASSUME NEW x \in Int, NEW y \in Int, x < y, y < x + INPUT_BUF_SIZE
  PROVE  Slot(x) # Slot(y)
<1> DEFINE d == y - x
<1>1. d \in 1..(INPUT_BUF_SIZE - 1) /\ y = x + d
  BY BufferSizes
<1> HIDE DEF d
<1> QED BY <1>1, BufferSizes, ModDiff DEF Slot

LEMMA SlotOfSucc ==
  ASSUME NEW x \in Counter, NEW h \in Int
  PROVE  Slot(Succ(x) + h) = Slot(x + 1 + h)
<1>1. CASE x = Wrap - 1
  <2>1. x + 1 + h = h + Wrap /\ Succ(x) + h = h
    BY <1>1, SuccDef, BufferSizes
  <2> QED BY <2>1, SlotWraps
<1>2. CASE x # Wrap - 1
  BY <1>2, SuccDef
<1> QED BY <1>1, <1>2

(* The first slot behind the ring is the one that j names. *)
LEMMA SlotOfEnd ==
  ASSUME NEW i \in Counter, NEW j \in Counter
  PROVE  Slot(i + Gap(i, j)) = Slot(j)
<1>1. i + Gap(i, j) = j \/ i + Gap(i, j) = j + Wrap
  BY GapDef, BufferSizes DEF Counter
<1> QED BY <1>1, SlotWraps DEF Counter

LEMMA RingType ==
  ASSUME NEW d \in [Places -> Char], NEW i \in Counter, NEW j \in Counter
  PROVE  /\ Gap(i, j) \in Nat
         /\ RingOf(d, i, j) \in Seq(Char)
         /\ Len(RingOf(d, i, j)) = Gap(i, j)
<1>1. Gap(i, j) \in Nat
  BY GapDef, BufferSizes DEF Counter
<1>2. \A h \in 1..Gap(i, j) : d[Slot(i + h - 1)] \in Char
  BY <1>1, SlotType DEF Counter
<1> QED BY <1>1, <1>2 DEF RingOf

(* A character put behind the last one is appended to the ring. *)
LEMMA RingPut ==
  ASSUME NEW d \in [Places -> Char], NEW i \in Counter, NEW j \in Counter, NEW c \in Char,
         Gap(i, j) < INPUT_BUF_SIZE
  PROVE  /\ Gap(i, Succ(j)) = Gap(i, j) + 1
         /\ RingOf([d EXCEPT ![Slot(j)] = c], i, Succ(j)) = Append(RingOf(d, i, j), c)
<1> DEFINE s == Gap(i, j)
           f == [d EXCEPT ![Slot(j)] = c]
           old == RingOf(d, i, j)
           new == RingOf(f, i, Succ(j))
<1>1. /\ s \in Nat /\ old \in Seq(Char) /\ Len(old) = s
      /\ f \in [Places -> Char] /\ Succ(j) \in Counter
  BY RingType, SuccType
<1>2. Gap(i, Succ(j)) = s + 1
  <2>1. Gap(i, Succ(j)) = IF Succ(j) >= i THEN Succ(j) - i ELSE Succ(j) - i + Wrap
    BY <1>1, GapDef
  <2>2. s = IF j >= i THEN j - i ELSE j - i + Wrap
    BY GapDef
  <2>3. Succ(j) = IF j = Wrap - 1 THEN 0 ELSE j + 1
    BY SuccDef
  <2> QED BY <2>1, <2>2, <2>3, BufferSizes DEF Counter
<1>3. new \in Seq(Char) /\ Len(new) = s + 1
  BY <1>1, <1>2, RingType
<1>4. ASSUME NEW h \in 1..s PROVE new[h] = old[h]
  <2>1. Slot(i + h - 1) # Slot(i + s)
    <3> DEFINE x == i + h - 1  y == i + s
    <3>1. x \in Int /\ y \in Int /\ x < y /\ y < x + INPUT_BUF_SIZE
      BY <1>1, BufferSizes DEF Counter
    <3> HIDE DEF x, y
    <3>2. Slot(x) # Slot(y)
      BY <3>1, SlotsDiffer
    <3> QED BY <3>2 DEF x, y
  <2>2. Slot(i + h - 1) # Slot(j) /\ Slot(i + h - 1) \in Places
    BY <2>1, SlotOfEnd, SlotType DEF Counter
  <2> QED BY <1>1, <1>2, <2>2 DEF RingOf
<1>5. new[s + 1] = c
  <2>1. i + (s + 1) - 1 = i + s
    BY <1>1 DEF Counter
  <2>2. new[s + 1] = f[Slot(i + s)]
    BY <1>1, <1>2, <2>1 DEF RingOf
  <2> QED BY <2>2, SlotOfEnd, SlotType DEF Counter
<1>6. /\ Append(old, c) \in Seq(Char) /\ Len(Append(old, c)) = s + 1
      /\ \A h \in 1..s : Append(old, c)[h] = old[h]
      /\ Append(old, c)[s + 1] = c
  <2> HIDE DEF old
  <2> QED BY <1>1, AppendProperties
<1>7. \A h \in 1..(s + 1) : new[h] = Append(old, c)[h]
  <2> HIDE DEF new, old, s
  <2> QED BY <1>1, <1>4, <1>5, <1>6
<1> HIDE DEF new, old, s
<1>8. new = Append(old, c)
  BY <1>1, <1>3, <1>6, <1>7, SeqEqual
<1> QED BY <1>2, <1>8 DEF new, old, s

(* To advance the first index is to take the first character. *)
LEMMA RingGet ==
  ASSUME NEW d \in [Places -> Char], NEW i \in Counter, NEW j \in Counter, i # j
  PROVE  /\ Gap(Succ(i), j) = Gap(i, j) - 1
         /\ RingOf(d, i, j) # <<>>
         /\ RingOf(d, Succ(i), j) = Tail(RingOf(d, i, j))
<1> DEFINE s == Gap(i, j)
           old == RingOf(d, i, j)
           new == RingOf(d, Succ(i), j)
<1>1. /\ s \in Nat /\ old \in Seq(Char) /\ Len(old) = s /\ Succ(i) \in Counter
      /\ s > 0
  <2>1. s = IF j >= i THEN j - i ELSE j - i + Wrap
    BY GapDef
  <2>2. s > 0
    BY <2>1, BufferSizes DEF Counter
  <2> QED BY <2>2, RingType, SuccType
<1>2. Gap(Succ(i), j) = s - 1
  <2>1. Gap(Succ(i), j) = IF j >= Succ(i) THEN j - Succ(i) ELSE j - Succ(i) + Wrap
    BY <1>1, GapDef
  <2>2. s = IF j >= i THEN j - i ELSE j - i + Wrap
    BY GapDef
  <2>3. Succ(i) = IF i = Wrap - 1 THEN 0 ELSE i + 1
    BY SuccDef
  <2> QED BY <2>1, <2>2, <2>3, BufferSizes DEF Counter
<1>3. new \in Seq(Char) /\ Len(new) = s - 1
  BY <1>1, <1>2, RingType
<1>4. ASSUME NEW h \in 1..(s - 1) PROVE new[h] = old[h + 1]
  <2>1. new[h] = d[Slot(Succ(i) + h - 1)] /\ old[h + 1] = d[Slot(i + (h + 1) - 1)]
    BY <1>1, <1>2 DEF RingOf
  <2>2. Slot(Succ(i) + (h - 1)) = Slot(i + 1 + (h - 1))
    BY SlotOfSucc, <1>1
  <2>3. Succ(i) + h - 1 = Succ(i) + (h - 1) /\ i + (h + 1) - 1 = i + 1 + (h - 1)
    BY <1>1 DEF Counter
  <2> QED BY <2>1, <2>2, <2>3
<1> HIDE DEF new, old, s
<1>5. old # <<>>
  BY <1>1
<1>6. Tail(old) \in Seq(Char) /\ Len(Tail(old)) = s - 1 /\ \A h \in 1..(s - 1) : Tail(old)[h] = old[h + 1]
  BY <1>1, <1>5, HeadTailProperties
<1>7. new = Tail(old)
  BY <1>3, <1>4, <1>6, SeqEqual
<1> QED BY <1>2, <1>5, <1>7 DEF new, old, s

(* What consoleintr() erases: (e - 1) in uint. *)
LEMMA PredDef ==
  ASSUME NEW x \in Counter
  PROVE  Pred(x) = IF x = 0 THEN Wrap - 1 ELSE x - 1
<1>1. x - 1 \in 0..(Wrap - 1) \/ x - 1 \in (-Wrap)..(-1)
  BY BufferSizes DEF Counter
<1> QED BY <1>1, BufferSizes, ModSmall, ModNeg DEF Pred, Counter

(* To step the last index back is to drop the last character. *)
LEMMA RingFront ==
  ASSUME NEW d \in [Places -> Char], NEW i \in Counter, NEW j \in Counter, i # j
  PROVE  /\ Pred(j) \in Counter
         /\ Gap(i, Pred(j)) = Gap(i, j) - 1
         /\ RingOf(d, i, j) # <<>>
         /\ RingOf(d, i, Pred(j)) = SubSeq(RingOf(d, i, j), 1, Len(RingOf(d, i, j)) - 1)
<1> DEFINE s == Gap(i, j)
           old == RingOf(d, i, j)
           new == RingOf(d, i, Pred(j))
<1>1. Pred(j) \in Counter
  BY PredDef, BufferSizes DEF Counter
<1>2. /\ s \in Nat /\ s > 0 /\ old \in Seq(Char) /\ Len(old) = s
  <2>1. s = IF j >= i THEN j - i ELSE j - i + Wrap
    BY GapDef
  <2>2. s > 0
    BY <2>1, BufferSizes DEF Counter
  <2> QED BY <2>2, RingType
<1>3. Gap(i, Pred(j)) = s - 1
  <2>1. Gap(i, Pred(j)) = IF Pred(j) >= i THEN Pred(j) - i ELSE Pred(j) - i + Wrap
    BY <1>1, GapDef
  <2>2. s = IF j >= i THEN j - i ELSE j - i + Wrap
    BY GapDef
  <2>3. Pred(j) = IF j = 0 THEN Wrap - 1 ELSE j - 1
    BY PredDef
  <2> QED BY <2>1, <2>2, <2>3, BufferSizes DEF Counter
<1>4. new \in Seq(Char) /\ Len(new) = s - 1
  BY <1>1, <1>3, RingType
<1>5. \A h \in 1..(s - 1) : new[h] = old[h]
  BY <1>2, <1>3 DEF RingOf
<1> HIDE DEF old, new, s
<1>6. /\ SubSeq(old, 1, s - 1) \in Seq(Char) /\ Len(SubSeq(old, 1, s - 1)) = s - 1
      /\ \A h \in 1..(s - 1) : SubSeq(old, 1, s - 1)[h] = old[h]
  <2>1. /\ SubSeq(old, 1, s - 1) \in Seq(Char)
        /\ Len(SubSeq(old, 1, s - 1)) = IF 1 <= s - 1 THEN (s - 1) - 1 + 1 ELSE 0
        /\ \A h \in 1..((s - 1) - 1 + 1) : SubSeq(old, 1, s - 1)[h] = old[1 + h - 1]
    BY <1>2, SubSeqProperties
  <2> QED BY <1>2, <2>1
<1>7. new = SubSeq(old, 1, s - 1)
  BY <1>2, <1>4, <1>5, <1>6, SeqEqual
<1>8. old # <<>>
  BY <1>2
<1> QED BY <1>1, <1>2, <1>3, <1>7, <1>8 DEF old, new, s

(* i, j and h follow each other on the circle. *)
InOrder(i, j, h) == Gap(i, j) + Gap(j, h) = Gap(i, h)

(* The ring from i to h is the one from i to j, then the one from j to h. *)
LEMMA RingJoin ==
  ASSUME NEW d \in [Places -> Char], NEW i \in Counter, NEW j \in Counter, NEW h \in Counter,
         InOrder(i, j, h)
  PROVE  RingOf(d, i, h) = RingOf(d, i, j) \o RingOf(d, j, h)
<1> DEFINE a == RingOf(d, i, j)  b == RingOf(d, j, h)  c == RingOf(d, i, h)
           s == Gap(i, j)  t == Gap(j, h)
<1>1. /\ s \in Nat /\ t \in Nat /\ Gap(i, h) = s + t
      /\ a \in Seq(Char) /\ b \in Seq(Char) /\ c \in Seq(Char)
      /\ Len(a) = s /\ Len(b) = t /\ Len(c) = s + t
  BY RingType DEF InOrder
<1>2. ASSUME NEW l \in 1..s PROVE c[l] = a[l]
  BY <1>1 DEF RingOf
<1>3. ASSUME NEW l \in (s + 1)..(s + t) PROVE c[l] = b[l - s]
  <2>1. c[l] = d[Slot(i + l - 1)] /\ b[l - s] = d[Slot(j + (l - s) - 1)]
    BY <1>1 DEF RingOf
  <2>2. i + s = j \/ i + s = j + Wrap
    BY GapDef, BufferSizes DEF Counter
  <2>3. i + l - 1 = j + (l - s) - 1 \/ i + l - 1 = j + (l - s) - 1 + Wrap
    <3>1. s \in Int /\ l \in Int /\ i \in Int /\ j \in Int /\ Wrap \in Int
      BY <1>1, BufferSizes DEF Counter
    <3> HIDE DEF s
    <3> QED BY <2>2, <3>1
  <2>4. Slot(i + l - 1) = Slot(j + (l - s) - 1)
    <3> DEFINE x == j + (l - s) - 1
    <3>1. x \in Int /\ (i + l - 1 = x \/ i + l - 1 = x + Wrap)
      BY <1>1, <2>3 DEF Counter
    <3> HIDE DEF x
    <3>2. Slot(i + l - 1) = Slot(x)
      BY <3>1, SlotWraps
    <3> QED BY <3>2 DEF x
  <2> QED BY <2>1, <2>4
<1> HIDE DEF a, b, c, s, t
<1>4. /\ a \o b \in Seq(Char) /\ Len(a \o b) = s + t
      /\ \A l \in 1..(s + t) : (a \o b)[l] = IF l <= s THEN a[l] ELSE b[l - s]
  BY <1>1, ConcatProperties
<1>5. \A l \in 1..(s + t) : c[l] = (a \o b)[l]
  BY <1>1, <1>2, <1>3, <1>4
<1>6. c = a \o b
  BY <1>1, <1>4, <1>5, SeqEqual
<1> QED BY <1>6 DEF a, b, c

(* What is put at the end does not touch a whole line. *)
LEMMA RingKeep ==
  ASSUME NEW d \in [Places -> Char], NEW i \in Counter, NEW j \in Counter, NEW h \in Counter,
         NEW f, \A x \in Places : x # Slot(h) => f[x] = d[x],
         InOrder(i, j, h), Gap(i, h) < INPUT_BUF_SIZE
  PROVE  RingOf(f, i, j) = RingOf(d, i, j)
<1> DEFINE s == Gap(i, j)  t == Gap(i, h)
<1>1. s \in Nat /\ t \in Nat /\ s <= t
  BY RingType DEF InOrder
<1>2. ASSUME NEW l \in 1..s
      PROVE  Slot(i + l - 1) # Slot(h) /\ Slot(i + l - 1) \in Places
  <2> DEFINE x == i + l - 1  y == i + t
  <2>1. x \in Int /\ y \in Int /\ x < y /\ y < x + INPUT_BUF_SIZE
    BY <1>1, BufferSizes DEF Counter
  <2>2. Slot(y) = Slot(h)
    BY SlotOfEnd
  <2> HIDE DEF x, y
  <2>3. Slot(x) # Slot(y) /\ Slot(x) \in Places
    BY <2>1, SlotsDiffer, SlotType
  <2> QED BY <2>2, <2>3 DEF x
<1> QED BY <1>1, <1>2 DEF RingOf
-----------------------------------------------------------------------------
(* The console is a queue of lines. *)

(* The line being typed follows the whole lines, and both fit in the buffer; *)
(* from the test for space to the store the handler has cons.lock, although *)
(* it echoes in between.                                                    *)
RingInv ==
  /\ r \in Counter /\ w \in Counter /\ e \in Counter /\ buf \in [Places -> Char]
  /\ InOrder(r, w, e) /\ Gap(r, e) <= INPUT_BUF_SIZE
HandlerInv ==
  /\ hc \in Keys
  /\ hpc \in {"echo", "put", "store"} =>
       consLock = Handler /\ (hc \in Char => Gap(r, e) < INPUT_BUF_SIZE)
  /\ hpc = "store" => hc \in Char
LineInv == RingInv /\ HandlerInv

(* The two parts of the buffer, and what LineQueue says of them. *)
Ready == RingOf(buf, r, w)
Edit == RingOf(buf, w, e)

LEMMA LinesAreRings ==
  /\ Slots(r, w) = Ready /\ Slots(w, e) = Edit
  /\ Slots(r, w)' = Ready' /\ Slots(w, e)' = Edit'
  BY DEF Slots, Ready, Edit, RingOf, Gap, Slot

(* The two parts take the space between r and e. *)
LEMMA LineLengths ==
  ASSUME RingInv
  PROVE  /\ Ready \in Seq(Char) /\ Edit \in Seq(Char)
         /\ Len(Ready) = Gap(r, w) /\ Len(Edit) = Gap(w, e)
         /\ Gap(r, w) \in Nat /\ Gap(w, e) \in Nat /\ Gap(r, e) \in Nat
         /\ Len(Ready) + Len(Edit) = Gap(r, e)
  BY RingType DEF RingInv, InOrder, Ready, Edit

(* console.c:172: a character more in the line. *)
LEMMA TypeStep ==
  ASSUME RingInv, ConsStore, HandlerInv, hpc = "store", ~WholeLine(Used + 1)
  PROVE  RingInv' /\ Lines!Type
<1>1. /\ hc \in Char \ {Newline, Eof} /\ Gap(r, e) + 1 < INPUT_BUF_SIZE
      /\ buf' = [buf EXCEPT ![Slot(e)] = hc] /\ e' = Succ(e) /\ UNCHANGED <<r, w>>
  <2>1. Gap(r, e) < INPUT_BUF_SIZE /\ Gap(r, e) + 1 # INPUT_BUF_SIZE /\ hc \in Char \ {Newline, Eof}
    BY DEF HandlerInv, WholeLine, Used, Gap
  <2> QED BY <2>1, LineLengths, BufferSizes DEF ConsStore, Succ
<1>2. Gap(w, e) < INPUT_BUF_SIZE
  BY <1>1, LineLengths, BufferSizes DEF RingInv, InOrder
<1>3. /\ Gap(w, e') = Gap(w, e) + 1 /\ Gap(r, e') = Gap(r, e) + 1
      /\ Edit' = Append(Edit, hc)
  <2>1. Gap(r, e) < INPUT_BUF_SIZE
    BY <1>1, LineLengths, BufferSizes
  <2> QED BY <1>1, <1>2, <2>1, RingPut DEF RingInv, Edit
<1>4. Ready' = Ready
  <2>1. Gap(r, e) < INPUT_BUF_SIZE
    BY <1>1, LineLengths, BufferSizes
  <2>2. \A x \in Places : x # Slot(e) => buf'[x] = buf[x]
    BY <1>1 DEF RingInv
  <2>3. RingOf(buf', r, w) = RingOf(buf, r, w)
    BY <2>1, <2>2, RingKeep DEF RingInv
  <2> QED BY <1>1, <2>3 DEF Ready
<1>5. RingInv'
  <2>1. buf' \in [Places -> Char] /\ e' \in Counter
    BY <1>1, SuccType DEF RingInv
  <2> QED BY <1>1, <1>3, <2>1, LineLengths, BufferSizes DEF RingInv, InOrder
<1>6. Len(Ready) + Len(Edit) + 1 < INPUT_BUF_SIZE
  BY <1>1, LineLengths
<1>7. Lines!Type
  <2> HIDE DEF Ready, Edit
  <2> QED BY <1>1, <1>3, <1>4, <1>6, LinesAreRings DEF Lines!Type
<1> QED BY <1>5, <1>7

(* console.c:177: the line is whole, or the buffer full. *)
LEMMA CommitStep ==
  ASSUME RingInv, ConsStore, HandlerInv, hpc = "store", WholeLine(Used + 1)
  PROVE  RingInv' /\ Lines!Commit
<1>1. /\ hc \in Char /\ Gap(r, e) < INPUT_BUF_SIZE
      /\ hc \in {Newline, Eof} \/ Gap(r, e) + 1 = INPUT_BUF_SIZE
      /\ buf' = [buf EXCEPT ![Slot(e)] = hc] /\ e' = Succ(e) /\ w' = e' /\ UNCHANGED r
  BY DEF HandlerInv, WholeLine, Used, Gap, ConsStore, Succ
<1>2. /\ Gap(r, e') = Gap(r, e) + 1
      /\ RingOf(buf', r, e') = Append(RingOf(buf, r, e), hc)
  BY <1>1, RingPut DEF RingInv
<1>3. RingOf(buf, r, e) = Ready \o Edit
  BY RingJoin DEF RingInv, Ready, Edit
<1>4. e' \in Counter /\ Gap(e', e') = 0
  BY <1>1, SuccType, GapDef, BufferSizes DEF RingInv, Counter
<1>5. Edit' = <<>>
  BY <1>1, <1>4 DEF Edit, RingOf
<1>6. Ready' = Ready \o Append(Edit, hc)
  <2>1. Ready' = RingOf(buf', r, e')
    BY <1>1 DEF Ready
  <2>2. Append(Ready \o Edit, hc) = Ready \o Append(Edit, hc)
    BY <1>1, LineLengths
  <2> QED BY <1>2, <1>3, <2>1, <2>2
<1>7. RingInv'
  <2>1. buf' \in [Places -> Char]
    BY <1>1 DEF RingInv
  <2> QED BY <1>1, <1>2, <1>4, <2>1, LineLengths, BufferSizes DEF RingInv, InOrder
<1>8. /\ Len(Ready) + Len(Edit) < INPUT_BUF_SIZE
      /\ hc \in {Newline, Eof} \/ Len(Ready) + Len(Edit) + 1 = INPUT_BUF_SIZE
  BY <1>1, LineLengths
<1>9. Lines!Commit
  <2> HIDE DEF Ready, Edit
  <2> QED BY <1>1, <1>5, <1>6, <1>8, LinesAreRings DEF Lines!Commit
<1> QED BY <1>7, <1>9

(* console.c:152, :159: only the line being typed is erased. *)
LEMMA EraseStep ==
  ASSUME RingInv, MayErase, e' = (e - 1) % Wrap, UNCHANGED <<r, w, buf>>
  PROVE  RingInv' /\ Gap(r, e') < Gap(r, e) /\ Lines!Erase
<1>1. /\ w # e /\ e' = Pred(e)
      /\ r \in Counter /\ w \in Counter /\ e \in Counter /\ buf \in [Places -> Char]
  BY DEF MayErase, Pred, RingInv
<1>2. /\ e' \in Counter /\ Gap(w, e') = Gap(w, e) - 1 /\ Edit # <<>>
      /\ Edit' = SubSeq(Edit, 1, Len(Edit) - 1)
  BY <1>1, RingFront DEF Edit
<1>3. r # e
  <2>1. Gap(w, e) > 0
    BY <1>1, GapDef, BufferSizes DEF Counter
  <2>2. Gap(r, e) > 0
    BY <2>1, LineLengths DEF RingInv, InOrder
  <2>3. Gap(r, r) = 0
    BY <1>1, GapDef DEF Counter
  <2> QED BY <2>2, <2>3
<1>4. Gap(r, e') = Gap(r, e) - 1
  BY <1>1, <1>3, RingFront
<1>5. RingInv' /\ Gap(r, e') < Gap(r, e)
  BY <1>1, <1>2, <1>4, LineLengths, BufferSizes DEF RingInv, InOrder
<1>6. Ready' = Ready
  BY DEF Ready
<1>7. Lines!Erase
  <2> HIDE DEF Ready, Edit
  <2> QED BY <1>2, <1>6, LinesAreRings DEF Lines!Erase, Lines!Front
<1> QED BY <1>5, <1>7

(* console.c:105: a byte of a whole line is read. *)
LEMMA TakeStep ==
  ASSUME RingInv, r # w, r' = (r + 1) % Wrap, UNCHANGED <<w, e, buf>>
  PROVE  RingInv' /\ Gap(r', e) <= Gap(r, e) /\ Lines!Read
<1>1. /\ r' = Succ(r)
      /\ r \in Counter /\ w \in Counter /\ e \in Counter /\ buf \in [Places -> Char]
  BY DEF Succ, RingInv
<1>2. Gap(r', w) = Gap(r, w) - 1 /\ Ready # <<>> /\ Ready' = Tail(Ready)
  BY <1>1, RingGet DEF Ready
<1>3. r # e
  <2>1. Gap(r, w) > 0
    BY <1>1, GapDef, BufferSizes DEF Counter
  <2>2. Gap(r, e) > 0
    BY <2>1, LineLengths DEF RingInv, InOrder
  <2>3. Gap(r, r) = 0
    BY <1>1, GapDef DEF Counter
  <2> QED BY <2>2, <2>3
<1>4. Gap(r', e) = Gap(r, e) - 1
  BY <1>1, <1>3, RingGet
<1>5. RingInv' /\ Gap(r', e) <= Gap(r, e)
  BY <1>1, <1>2, <1>4, SuccType, LineLengths, BufferSizes DEF RingInv, InOrder
<1>6. Edit' = Edit
  BY DEF Edit
<1>7. Lines!Read
  <2> HIDE DEF Ready, Edit
  <2> QED BY <1>2, <1>6, LinesAreRings DEF Lines!Read
<1> QED BY <1>5, <1>7

(* What leaves the indices and the buffer alone is no step of the queue. *)
LEMMA LineStutter ==
  ASSUME RingInv, UNCHANGED consVars
  PROVE  RingInv' /\ UNCHANGED <<Slots(r, w), Slots(w, e)>>
  BY DEF RingInv, consVars, Slots

(* Every step of the devices is a step of LineQueue or none. *)
LEMMA LineStep ==
  LineInv /\ [Next]_vars => LineInv' /\ [Lines!Next]_<<Slots(r, w), Slots(w, e)>>
<1> SUFFICES ASSUME LineInv, [Next]_vars
             PROVE  LineInv' /\ [Lines!Next]_<<Slots(r, w), Slots(w, e)>>
  OBVIOUS
<1> USE DEF LineInv
<1>1. CASE ConsStart
  <2>1. CASE MayErase /\ e' = (e - 1) % Wrap /\ hpc' = "echo" /\ consLock' = Handler
    <3>1. UNCHANGED <<r, w, buf, hc>> /\ hc \in Keys /\ hc \notin Char
      BY <1>1, <2>1 DEF ConsStart, MayErase, HandlerInv, Char, Newline, Plain, Eof
    <3>2. RingInv' /\ Lines!Erase
      BY <2>1, <3>1, EraseStep
    <3>3. HandlerInv'
      BY <2>1, <3>1 DEF HandlerInv
    <3> QED BY <3>2, <3>3 DEF Lines!Next
  <2>2. CASE MayStore /\ UNCHANGED e /\ hpc' = "echo" /\ consLock' = Handler
    <3>1. UNCHANGED <<consVars, hc>>
      BY <1>1, <2>2 DEF ConsStart, consVars
    <3>2. HandlerInv'
      BY <2>2, <3>1 DEF HandlerInv, MayStore, Used, Gap, consVars
    <3> QED BY <3>1, <3>2, LineStutter
  <2>3. CASE UNCHANGED e /\ hpc' = "rx"
    <3>1. UNCHANGED <<consVars, hc>>
      BY <1>1, <2>3 DEF ConsStart, consVars
    <3>2. HandlerInv'
      BY <2>3, <3>1 DEF HandlerInv
    <3> QED BY <3>1, <3>2, LineStutter
  <2> QED BY <1>1, <2>1, <2>2, <2>3 DEF ConsStart
<1>2. CASE ConsStore
  <2>1. hpc = "store" /\ hpc' = "rx" /\ UNCHANGED hc
    BY <1>2 DEF ConsStore
  <2>2. HandlerInv'
    BY <2>1 DEF HandlerInv
  <2> QED BY <1>2, <2>1, <2>2, TypeStep, CommitStep DEF Lines!Next
<1>3. CASE IntrEnter \/ IntrTx \/ IntrGetc \/ EchoSpin \/ EchoPut
  <2>1. UNCHANGED consVars
    BY <1>3 DEF IntrEnter, IntrTx, IntrGetc, EchoSpin, EchoPut
  <2>2. HandlerInv'
    <3>1. CASE IntrEnter \/ IntrTx \/ IntrGetc
      BY <3>1 DEF HandlerInv, IntrEnter, IntrTx, IntrGetc
    <3>2. CASE EchoSpin
      BY <2>1, <3>2 DEF HandlerInv, EchoSpin, consVars
    <3>3. CASE EchoPut
      BY <2>1, <3>3 DEF HandlerInv, EchoPut, consVars, Keys
    <3> QED BY <1>3, <3>1, <3>2, <3>3
  <2> QED BY <2>1, <2>2, LineStutter
<1>4. ASSUME NEW p \in Process, ReadByte(p)
      PROVE  LineInv' /\ [Lines!Next]_<<Slots(r, w), Slots(w, e)>>
  <2>1. r # w /\ UNCHANGED <<w, e, buf, hpc, hc>> /\ consLock # Handler
    BY <1>4, HandlerAssumption DEF ReadByte, MayRead, intrVars, Process
  <2>2. HandlerInv'
    BY <2>1 DEF HandlerInv
  <2>3. CASE UNCHANGED r
    <3>1. UNCHANGED consVars
      BY <2>1, <2>3 DEF consVars
    <3> QED BY <2>2, <3>1, LineStutter
  <2>4. CASE r' = (r + 1) % Wrap
    BY <2>1, <2>2, <2>4, TakeStep DEF Lines!Next
  <2> QED BY <1>4, <2>3, <2>4 DEF ReadByte
<1>5. ASSUME NEW p \in Process, ReadSleep(p)
      PROVE  LineInv' /\ [Lines!Next]_<<Slots(r, w), Slots(w, e)>>
  <2>1. UNCHANGED <<consVars, hpc, hc>> /\ consLock # Handler
    BY <1>5, HandlerAssumption DEF ReadSleep, MayRead, intrVars, Process
  <2>2. HandlerInv'
    BY <2>1 DEF HandlerInv
  <2> QED BY <2>1, <2>2, LineStutter
<1>6. CASE UNCHANGED <<consVars, consLock, hpc, hc>>
  <2>1. HandlerInv'
    BY <1>6 DEF HandlerInv, consVars
  <2> QED BY <1>6, <2>1, LineStutter
<1>7. ASSUME NEW p \in Process, Call(p)
      PROVE  ReadByte(p) \/ ReadSleep(p) \/ UNCHANGED <<consVars, consLock, hpc, hc>>
  BY <1>7 DEF Call, WriteStart, WriteSleep, WriteByte, ReadStart, KillReader, intrVars
<1>8. Device \/ Printf \/ UNCHANGED termVars => UNCHANGED <<consVars, consLock, hpc, hc>>
  BY DEF Device, KeyPressed, Transmit, Printf, termVars, intrVars
<1> QED BY <1>1, <1>2, <1>3, <1>4, <1>5, <1>6, <1>7, <1>8 DEF Next, TerminalNext, Intr, vars

(* Nothing has been typed. *)
LEMMA LineInit == Init => LineInv /\ Lines!Init
<1> SUFFICES ASSUME TermInit PROVE LineInv /\ Lines!Init
  BY DEF Init
<1>1. /\ r = 0 /\ w = 0 /\ e = 0 /\ buf \in [Places -> Char]
      /\ hpc = "idle" /\ hc \in Keys
  BY DEF TermInit, Places, Char, Keys
<1>2. 0 \in Counter /\ Gap(0, 0) = 0
  <2>1. 0 \in Counter
    BY BufferSizes DEF Counter
  <2> QED BY <2>1, GapDef
<1>3. LineInv
  BY <1>1, <1>2, BufferSizes DEF LineInv, RingInv, HandlerInv, InOrder
<1>4. Ready = <<>> /\ Edit = <<>>
  BY <1>1, <1>2 DEF Ready, Edit, RingOf
<1> QED BY <1>3, <1>4, LinesAreRings DEF Lines!Init

(* console.c:152, :159, :177: what is typed can be erased until its line is *)
(* whole, and is then read once and in order, for any size of the buffer and *)
(* however r, w and e wrap.                                                 *)
THEOREM DevicesImplementLines == Spec => LineSpec
  BY LineInit, LineStep, PTL DEF Spec, LineSpec, Lines!Spec

-----------------------------------------------------------------------------
(* The file table, of module FileTable.                                    *)

Holder == {Initproc} \cup Task
FileIs(x) ==
  x = [ref |-> x.ref, type |-> x.type, of |-> x.of, readable |-> x.readable, writable |-> x.writable]
KernelIs(a) == a = [file |-> a.file, fd |-> a.fd, pipe |-> a.pipe, panic |-> a.panic]
FilesAre(a) ==
  /\ a.file = [f \in 1..NFILE |-> a.file[f]]
  /\ \A f \in 1..NFILE : /\ FileIs(a.file[f]) /\ a.file[f].ref \in Nat
                         /\ a.file[f].ref = 0 => a.file[f].type = "none"
FdsAre(a) == a.fd \in [Holder -> [FdSlot -> 0..NFILE]]
Base(a) == KernelIs(a) /\ a.panic = FALSE /\ FilesAre(a) /\ FdsAre(a)
Refs(a, f) == {x \in Holder \X FdSlot : a.fd[x[1]][x[2]] = f}

(* Every file counts what refers to it. *)
Counted(a) == \A f \in 1..NFILE : a.file[f].ref = Cardinality(Refs(a, f))

(* An open end of a pipe is one file's, and a file's end is open. *)
IsEnd(a, f) == f \in 1..NFILE /\ a.file[f].ref > 0 /\ a.file[f].type = "pipe"
IsEndOf(a, f, x, v) == IsEnd(a, f) /\ a.file[f].of = x /\ a.file[f].writable = v
EndOpen(a, x, v) == x \in DOMAIN a.pipe /\ IF v THEN a.pipe[x].writeopen ELSE a.pipe[x].readopen
PipeIs(x) ==
  /\ x = [bytes |-> x.bytes, readopen |-> x.readopen, writeopen |-> x.writeopen, by |-> x.by]
  /\ x.readopen \in BOOLEAN /\ x.writeopen \in BOOLEAN
PipesAre(a) ==
  /\ a.pipe = [x \in DOMAIN a.pipe |-> a.pipe[x]] /\ DOMAIN a.pipe \subseteq 1..NPAGE
  /\ \A x \in DOMAIN a.pipe : PipeIs(a.pipe[x]) /\ (a.pipe[x].writeopen \/ a.pipe[x].readopen)
EndsAre(a) ==
  /\ \A f : IsEnd(a, f) => a.file[f].writable \in BOOLEAN /\ EndOpen(a, a.file[f].of, a.file[f].writable)
  /\ \A x, v, f, g : IsEndOf(a, f, x, v) /\ IsEndOf(a, g, x, v) => f = g
  /\ \A x : \A v \in BOOLEAN : EndOpen(a, x, v) => \E f : IsEndOf(a, f, x, v)

Good(a) == Base(a) /\ Counted(a) /\ PipesAre(a) /\ EndsAre(a)

(* What the processes outside S hold alone is left alone. *)
Frame(b, a, S) ==
  \A x \in Holder \ S :
    /\ b.fd[x] = a.fd[x]
    /\ \A s \in FdSlot : a.fd[x][s] # NoFile /\ a.file[a.fd[x][s]].ref = 1
                         => b.file[a.fd[x][s]] = a.file[a.fd[x][s]]

SetFd(b, a, q, s, y) == b.fd = [a.fd EXCEPT ![q][s] = y]
SetFile(b, a, f, x) == b.file = [a.file EXCEPT ![f] = x]
(* Moved: what slot s names, slot z names instead. *)
Moved(b, a, q, s, z) ==
  b.fd = [a.fd EXCEPT ![q] = [i \in FdSlot |-> IF i = z THEN a.fd[q][s]
                                             ELSE IF i = s THEN NoFile ELSE a.fd[q][i]]]
(* The files that are ends are the same. *)
SameEnds(b, a) ==
  \A f \in 1..NFILE : /\ IsEnd(b, f) <=> IsEnd(a, f)
                      /\ IsEnd(a, f) => /\ b.file[f].of = a.file[f].of
                                        /\ b.file[f].writable = a.file[f].writable

LEMMA SlotsAre ==
  /\ FD \subseteq FdSlot /\ Rf \in FdSlot /\ Wf \in FdSlot /\ Rf \notin FD /\ Wf \notin FD /\ Rf # Wf
  /\ FdSlot = FD \cup {Rf, Wf} /\ NoFile \in 0..NFILE /\ NoFile \notin 1..NFILE
  /\ IsFiniteSet(FdSlot) /\ 0..2 \subseteq FD
<1>1. IsFiniteSet(FdSlot)
  BY TablesAssumption, FS_Interval DEF FdSlot
<1> QED BY <1>1, TablesAssumption DEF FD, FdSlot, Rf, Wf, NoFile

LEMMA RefsFinite ==
  ASSUME NEW a, NEW f
  PROVE  IsFiniteSet(Refs(a, f)) /\ Cardinality(Refs(a, f)) \in Nat
<1>1. IsFiniteSet(Holder)
  <2>1. IsFiniteSet(Task)
    BY TasksAssumption, FS_Interval DEF Task
  <2>2. Holder = Task \cup {Initproc}
    BY DEF Holder
  <2> QED BY <2>1, <2>2, FS_AddElement
<1>2. IsFiniteSet(Holder \X FdSlot)
  BY <1>1, SlotsAre, FS_Product
<1>3. Refs(a, f) \in SUBSET (Holder \X FdSlot)
  BY DEF Refs
<1>4. IsFiniteSet(Refs(a, f))
  BY <1>2, <1>3, FS_Subset
<1> QED BY <1>4, FS_CardinalityType

LEMMA RefsChange ==
  ASSUME NEW a, FdsAre(a), NEW q \in Holder, NEW s \in FdSlot, NEW y, y # a.fd[q][s],
         NEW b, SetFd(b, a, q, s, y), NEW f
  PROVE  Cardinality(Refs(b, f)) =
           IF f = y THEN Cardinality(Refs(a, f)) + 1
           ELSE IF f = a.fd[q][s] THEN Cardinality(Refs(a, f)) - 1
           ELSE Cardinality(Refs(a, f))
<1> DEFINE x == <<q, s>>
<1>1. /\ b.fd[q][s] = y /\ DOMAIN b.fd = Holder
      /\ \A z \in Holder \X FdSlot : z # x => b.fd[z[1]][z[2]] = a.fd[z[1]][z[2]]
  BY DEF FdsAre, SetFd
<1>2. x \in Holder \X FdSlot /\ x[1] = q /\ x[2] = s
  OBVIOUS
<1> HIDE DEF x
<1>3. CASE f = y
  <2>1. Refs(b, f) = Refs(a, f) \cup {x} /\ x \notin Refs(a, f)
    BY <1>1, <1>2, <1>3 DEF Refs
  <2> QED BY <1>3, <2>1, RefsFinite, FS_AddElement
<1>4. CASE f # y /\ f = a.fd[q][s]
  <2>1. Refs(b, f) = Refs(a, f) \ {x} /\ x \in Refs(a, f)
    BY <1>1, <1>2, <1>4 DEF Refs
  <2>2. Cardinality(Refs(a, f) \ {x}) = Cardinality(Refs(a, f)) - 1
    BY <2>1, RefsFinite, FS_RemoveElement
  <2> QED BY <1>4, <2>1, <2>2
<1>5. CASE f # y /\ f # a.fd[q][s]
  <2>1. Refs(b, f) = Refs(a, f)
    BY <1>1, <1>2, <1>5 DEF Refs
  <2> QED BY <1>5, <2>1
<1> QED BY <1>3, <1>4, <1>5

(* One slot changes, and the counts with it. *)
LEMMA CountsChange ==
  ASSUME NEW a, Base(a), Counted(a), NEW q \in Holder, NEW s \in FdSlot, NEW y \in 0..NFILE,
         y # a.fd[q][s], NEW b, SetFd(b, a, q, s, y),
         \A f \in 1..NFILE : b.file[f].ref = IF f = y THEN a.file[f].ref + 1
                                             ELSE IF f = a.fd[q][s] THEN a.file[f].ref - 1
                                             ELSE a.file[f].ref
  PROVE  Counted(b) /\ FdsAre(b)
<1>1. FdsAre(a)
  BY DEF Base
<1>2. FdsAre(b)
  BY <1>1 DEF FdsAre, SetFd
<1>3. ASSUME NEW f \in 1..NFILE PROVE b.file[f].ref = Cardinality(Refs(b, f))
  <2>1. a.file[f].ref = Cardinality(Refs(a, f))
    BY DEF Counted
  <2>2. Cardinality(Refs(b, f)) =
          IF f = y THEN Cardinality(Refs(a, f)) + 1
          ELSE IF f = a.fd[q][s] THEN Cardinality(Refs(a, f)) - 1
          ELSE Cardinality(Refs(a, f))
    BY <1>1, RefsChange
  <2> QED BY <2>1, <2>2
<1> QED BY <1>2, <1>3 DEF Counted

(* A reference moves, and no count changes. *)
LEMMA MovesKeep ==
  ASSUME NEW a, Base(a), Counted(a), NEW q \in Holder, NEW s \in FdSlot, NEW z \in FdSlot, s # z,
         a.fd[q][z] = NoFile, NEW b, Moved(b, a, q, s, z),
         \A f \in 1..NFILE : b.file[f].ref = a.file[f].ref
  PROVE  Counted(b) /\ FdsAre(b)
<1>1. FdsAre(a)
  BY DEF Base
<1> DEFINE f0 == a.fd[q][s]
           c == [fd |-> [a.fd EXCEPT ![q][z] = f0]]
<1>2. CASE f0 = NoFile
  <2>1. b.fd = a.fd
    BY <1>1, <1>2 DEF Moved, FdsAre
  <2> QED BY <1>1, <2>1 DEF Counted, Refs, FdsAre
<1>3. CASE f0 # NoFile
  <2>1. SetFd(c, a, q, z, f0) /\ f0 \in 0..NFILE /\ f0 # a.fd[q][z]
    BY <1>1, <1>3 DEF SetFd, FdsAre
  <2>2. FdsAre(c) /\ c.fd[q][s] = f0 /\ SetFd(b, c, q, s, NoFile) /\ FdsAre(b)
    <3>1. c.fd = [a.fd EXCEPT ![q][z] = f0]
      OBVIOUS
    <3> HIDE DEF c
    <3>2. FdsAre(c) /\ c.fd[q][s] = f0
      BY <1>1, <2>1, <3>1 DEF FdsAre
    <3>3. b.fd \in [Holder -> [FdSlot -> 0..NFILE]]
      <4> DEFINE g == [i \in FdSlot |-> IF i = z THEN a.fd[q][s] ELSE IF i = s THEN NoFile ELSE a.fd[q][i]]
      <4>1. g \in [FdSlot -> 0..NFILE]
        BY <1>1, SlotsAre DEF FdsAre
      <4>2. b.fd = [a.fd EXCEPT ![q] = g]
        BY DEF Moved
      <4> HIDE DEF g
      <4> QED BY <1>1, <4>1, <4>2 DEF FdsAre
    <3>4. [c.fd EXCEPT ![q][s] = NoFile] \in [Holder -> [FdSlot -> 0..NFILE]]
      BY <3>2, SlotsAre DEF FdsAre
    <3>5. \A x \in Holder : \A i \in FdSlot : b.fd[x][i] = [c.fd EXCEPT ![q][s] = NoFile][x][i]
      BY <1>1, <3>1 DEF Moved, FdsAre
    <3>6. \A x \in Holder : b.fd[x] = [c.fd EXCEPT ![q][s] = NoFile][x]
      BY <3>3, <3>4, <3>5
    <3>7. b.fd = [c.fd EXCEPT ![q][s] = NoFile]
      BY <3>3, <3>4, <3>6
    <3> QED BY <3>2, <3>3, <3>7 DEF SetFd, FdsAre
  <2> HIDE DEF c, f0
  <2>3. ASSUME NEW f \in 1..NFILE PROVE Cardinality(Refs(b, f)) = Cardinality(Refs(a, f))
    <3>1. Cardinality(Refs(c, f)) = IF f = f0 THEN Cardinality(Refs(a, f)) + 1
                                    ELSE Cardinality(Refs(a, f))
      <4>1. f # a.fd[q][z]
        BY SlotsAre
      <4> QED BY <1>1, <2>1, <4>1, RefsChange
    <3>2. Cardinality(Refs(b, f)) = IF f = f0 THEN Cardinality(Refs(c, f)) - 1
                                    ELSE Cardinality(Refs(c, f))
      <4>1. f # NoFile /\ NoFile # c.fd[q][s]
        BY <1>3, <2>2, SlotsAre
      <4> QED BY <2>2, <4>1, RefsChange
    <3> QED BY <3>1, <3>2, RefsFinite
  <2> QED BY <2>2, <2>3 DEF Counted
<1> QED BY <1>2, <1>3

(* A file that is named has a count; one of count one is named once. *)
LEMMA Named ==
  ASSUME NEW a, Good(a), NEW q \in Holder, NEW s \in FdSlot, a.fd[q][s] # NoFile
  PROVE  /\ a.fd[q][s] \in 1..NFILE /\ a.file[a.fd[q][s]].ref \in Nat /\ a.file[a.fd[q][s]].ref > 0
         /\ a.file[a.fd[q][s]].ref = 1 =>
              \A x \in Holder, z \in FdSlot : a.fd[x][z] = a.fd[q][s] => x = q /\ z = s
<1> DEFINE f == a.fd[q][s]
<1>1. f \in 1..NFILE
  BY TablesAssumption DEF Good, Base, FdsAre, NoFile
<1>2. <<q, s>> \in Refs(a, f)
  BY DEF Refs
<1>3. Cardinality(Refs(a, f)) # 0
  BY <1>2, RefsFinite, FS_EmptySet
<1>4. a.file[f].ref = Cardinality(Refs(a, f))
  BY <1>1 DEF Good, Counted
<1>5. ASSUME Cardinality(Refs(a, f)) = 1, NEW x \in Holder, NEW z \in FdSlot, a.fd[x][z] = f
      PROVE  x = q /\ z = s
  <2>1. <<x, z>> \in Refs(a, f)
    BY <1>5 DEF Refs
  <2>2. PICK y : Refs(a, f) = {y}
    BY <1>5, RefsFinite, FS_Singleton
  <2>3. <<x, z>> = <<q, s>>
    BY <1>2, <2>1, <2>2
  <2> QED BY <2>3
<1> QED BY <1>1, <1>3, <1>4, <1>5, RefsFinite

(* One file changes, which q names or nobody. *)
LEMMA FrameIs ==
  ASSUME NEW a, Good(a), NEW q \in Holder, NEW b, NEW f \in 1..NFILE,
         a.file[f].ref = 0 \/ \E s \in FdSlot : a.fd[q][s] = f,
         \A g \in 1..NFILE : g # f => b.file[g] = a.file[g],
         \A x \in Holder : x # q => b.fd[x] = a.fd[x]
  PROVE  Frame(b, a, {q})
<1>1. ASSUME NEW x \in Holder, x # q, NEW s \in FdSlot, a.fd[x][s] # NoFile, a.file[a.fd[x][s]].ref = 1
      PROVE  b.file[a.fd[x][s]] = a.file[a.fd[x][s]]
  <2>1. a.fd[x][s] \in 1..NFILE /\ \A y \in Holder, z \in FdSlot : a.fd[y][z] = a.fd[x][s] => y = x
    BY <1>1, Named
  <2>2. a.fd[x][s] # f
    BY <1>1, <2>1
  <2> QED BY <2>1, <2>2
<1> QED BY <1>1 DEF Frame

LEMMA FrameTwice ==
  ASSUME NEW a, NEW b, NEW c, NEW S, Frame(b, a, S), Frame(c, b, S)
  PROVE  Frame(c, a, S)
BY DEF Frame

(* An entry of the table changes. *)
LEMMA FileChange ==
  ASSUME NEW a, FilesAre(a), NEW f \in 1..NFILE, NEW x, FileIs(x), x.ref \in Nat,
         x.ref = 0 => x.type = "none", NEW b, SetFile(b, a, f, x)
  PROVE  FilesAre(b) /\ \A g \in 1..NFILE : b.file[g] = IF g = f THEN x ELSE a.file[g]
<1>1. b.file = [g \in 1..NFILE |-> IF g = f THEN x ELSE a.file[g]]
  BY DEF FilesAre, SetFile
<1>2. \A g \in 1..NFILE : b.file[g] = IF g = f THEN x ELSE a.file[g]
  BY <1>1
<1>3. b.file = [g \in 1..NFILE |-> b.file[g]]
  BY <1>1
<1> QED BY <1>2, <1>3 DEF FilesAre

LEMMA RefIs ==
  ASSUME NEW a, FilesAre(a), NEW f \in 1..NFILE, NEW i
  PROVE  LET x == [a.file[f] EXCEPT !.ref = i] IN
         /\ FileIs(x) /\ x.ref = i /\ x.type = a.file[f].type
         /\ x.of = a.file[f].of /\ x.writable = a.file[f].writable
<1> DEFINE x == [a.file[f] EXCEPT !.ref = i]
<1>1. FileIs(a.file[f])
  BY DEF FilesAre
<1>2. x = [ref |-> i, type |-> a.file[f].type, of |-> a.file[f].of,
           readable |-> a.file[f].readable, writable |-> a.file[f].writable]
  BY <1>1 DEF FileIs
<1> HIDE DEF x
<1>3. FileIs(x) /\ x.ref = i /\ x.type = a.file[f].type
      /\ x.of = a.file[f].of /\ x.writable = a.file[f].writable
  BY <1>2 DEF FileIs
<1> QED BY <1>3 DEF x

LEMMA EndsKept ==
  ASSUME NEW a, PipesAre(a), EndsAre(a), NEW b, SameEnds(b, a), b.pipe = a.pipe
  PROVE  PipesAre(b) /\ EndsAre(b)
<1>1. PipesAre(b)
  BY DEF PipesAre
<1>2. \A x, v : EndOpen(b, x, v) <=> EndOpen(a, x, v)
  BY DEF EndOpen
<1>3. \A f, x, v : IsEndOf(b, f, x, v) <=> IsEndOf(a, f, x, v)
  BY DEF SameEnds, IsEndOf, IsEnd
<1>4. ASSUME NEW f, IsEnd(b, f)
      PROVE  b.file[f].writable \in BOOLEAN /\ EndOpen(b, b.file[f].of, b.file[f].writable)
  BY <1>2, <1>4 DEF SameEnds, IsEnd, EndsAre
<1>5. \A x, v, f, g : IsEndOf(b, f, x, v) /\ IsEndOf(b, g, x, v) => f = g
  BY <1>3 DEF EndsAre
<1>6. \A x : \A v \in BOOLEAN : EndOpen(b, x, v) => \E f : IsEndOf(b, f, x, v)
  BY <1>2, <1>3 DEF EndsAre
<1> QED BY <1>1, <1>4, <1>5, <1>6 DEF EndsAre

LEMMA FdIs ==
  ASSUME NEW a, KernelIs(a), NEW q, NEW s, NEW y
  PROVE  LET b == [a EXCEPT !.fd[q][s] = y] IN
         /\ KernelIs(b) /\ b.file = a.file /\ b.pipe = a.pipe /\ b.panic = a.panic
         /\ SetFd(b, a, q, s, y)
<1> DEFINE z == [a.fd EXCEPT ![q][s] = y]
           b == [a EXCEPT !.fd = z]
<1>1. [a EXCEPT !.fd[q][s] = y] = b
  OBVIOUS
<1>2. z = [a.fd EXCEPT ![q][s] = y]
  OBVIOUS
<1> HIDE DEF z
<1>3. b = [file |-> a.file, fd |-> z, pipe |-> a.pipe, panic |-> a.panic]
  BY DEF KernelIs
<1> HIDE DEF b
<1>4. /\ KernelIs(b) /\ b.file = a.file /\ b.pipe = a.pipe /\ b.panic = a.panic
      /\ SetFd(b, a, q, s, y)
  BY <1>2, <1>3 DEF KernelIs, SetFd
<1> QED BY <1>1, <1>4

LEMMA EntryIs ==
  ASSUME NEW a, KernelIs(a), NEW f, NEW x
  PROVE  LET b == [a EXCEPT !.file[f] = x] IN
         /\ KernelIs(b) /\ b.fd = a.fd /\ b.pipe = a.pipe /\ b.panic = a.panic
         /\ SetFile(b, a, f, x)
<1> DEFINE z == [a.file EXCEPT ![f] = x]
           b == [a EXCEPT !.file = z]
<1>1. [a EXCEPT !.file[f] = x] = b
  OBVIOUS
<1>2. z = [a.file EXCEPT ![f] = x]
  OBVIOUS
<1> HIDE DEF z
<1>3. b = [file |-> z, fd |-> a.fd, pipe |-> a.pipe, panic |-> a.panic]
  BY DEF KernelIs
<1> HIDE DEF b
<1>4. /\ KernelIs(b) /\ b.fd = a.fd /\ b.pipe = a.pipe /\ b.panic = a.panic
      /\ SetFile(b, a, f, x)
  BY <1>2, <1>3 DEF KernelIs, SetFile
<1> QED BY <1>1, <1>4

LEMMA PipeSetIs ==
  ASSUME NEW a, KernelIs(a), NEW z
  PROVE  LET b == [a EXCEPT !.pipe = z] IN
         /\ KernelIs(b) /\ b.file = a.file /\ b.fd = a.fd /\ b.panic = a.panic /\ b.pipe = z
<1> DEFINE b == [a EXCEPT !.pipe = z]
<1>1. b = [file |-> a.file, fd |-> a.fd, pipe |-> z, panic |-> a.panic]
  BY DEF KernelIs
<1> HIDE DEF b
<1>2. KernelIs(b) /\ b.file = a.file /\ b.fd = a.fd /\ b.panic = a.panic /\ b.pipe = z
  BY <1>1 DEF KernelIs
<1> QED BY <1>2 DEF b

(* One more reference to a file. *)
LEMMA FiledupIs ==
  ASSUME NEW a, Good(a), NEW q \in Holder, NEW s \in FdSlot, a.fd[q][s] = NoFile,
         NEW x \in Holder, NEW z \in FdSlot, a.fd[x][z] # NoFile
  PROVE  LET b == Filedup([a EXCEPT !.fd[q][s] = a.fd[x][z]], a.fd[x][z]) IN
         Good(b) /\ Frame(b, a, {q, x}) /\ SetFd(b, a, q, s, a.fd[x][z])
<1> DEFINE f == a.fd[x][z]
           c == [a EXCEPT !.fd[q][s] = f]
           i == a.file[f].ref + 1
           b == [c EXCEPT !.file[f].ref = i]
           y == [a.file[f] EXCEPT !.ref = i]
<1>1. f \in 1..NFILE /\ a.file[f].ref \in Nat /\ a.file[f].ref > 0 /\ i \in Nat /\ i # 0
  BY Named
<1>2. /\ KernelIs(c) /\ c.file = a.file /\ c.pipe = a.pipe /\ c.panic = a.panic
      /\ SetFd(c, a, q, s, f)
  BY FdIs DEF Good, Base
<1>3. Filedup(c, f) = b
  <2> HIDE DEF c, f
  <2> QED BY <1>1, <1>2 DEF Filedup
<1>4. b = [c EXCEPT !.file[f] = y]
  <2> HIDE DEF c, f
  <2> QED BY <1>2
<1>5. /\ KernelIs(b) /\ b.fd = c.fd /\ b.pipe = a.pipe /\ b.panic = a.panic
      /\ SetFile(b, a, f, y)
  <2> HIDE DEF c, f, y, b
  <2> QED BY <1>2, <1>4, EntryIs DEF SetFile
<1>6. /\ FileIs(y) /\ y.ref = i /\ y.type = a.file[f].type
      /\ y.of = a.file[f].of /\ y.writable = a.file[f].writable
  <2>1. FilesAre(a)
    BY DEF Good, Base
  <2>2. f \in 1..NFILE
    BY <1>1
  <2> HIDE DEF f, i
  <2> QED BY <2>1, <2>2, RefIs
<1> HIDE DEF b, c, y, i
<1>7. FilesAre(b) /\ \A g \in 1..NFILE : b.file[g] = IF g = f THEN y ELSE a.file[g]
  <2> HIDE DEF f
  <2> QED BY <1>1, <1>5, <1>6, FileChange DEF Good, Base
<1>8. SetFd(b, a, q, s, f)
  BY <1>2, <1>5 DEF SetFd
<1>9. Counted(b) /\ FdsAre(b)
  <2>1. f \in 0..NFILE /\ f # a.fd[q][s]
    BY <1>1, SlotsAre
  <2>2. \A g \in 1..NFILE : b.file[g].ref = IF g = f THEN a.file[g].ref + 1
                                            ELSE IF g = a.fd[q][s] THEN a.file[g].ref - 1
                                            ELSE a.file[g].ref
    <3> HIDE DEF f
    <3> QED BY <1>6, <1>7, SlotsAre DEF i
  <2> HIDE DEF f
  <2> QED BY <1>8, <2>1, <2>2, CountsChange DEF Good
<1>10. SameEnds(b, a)
  <2> HIDE DEF f
  <2> QED BY <1>1, <1>6, <1>7 DEF SameEnds, IsEnd
<1>11. Frame(b, a, {q, x})
  <2>1. \A o \in Holder : o # q => b.fd[o] = a.fd[o]
    BY <1>8 DEF SetFd, Good, Base, FdsAre
  <2>2. \A o \in Holder, j \in FdSlot : a.fd[o][j] = f /\ a.file[f].ref = 1 => o = x
    BY Named
  <2>3. \A o \in Holder, j \in FdSlot : a.fd[o][j] # NoFile => a.fd[o][j] \in 1..NFILE
    BY Named
  <2> HIDE DEF f
  <2> QED BY <1>7, <2>1, <2>2, <2>3 DEF Frame
<1>12. Good(b)
  BY <1>5, <1>7, <1>9, <1>10, EndsKept DEF Good, Base
<1> QED BY <1>3, <1>8, <1>11, <1>12 DEF c

LEMMA PipecloseIs ==
  ASSUME NEW a, KernelIs(a), PipesAre(a), NEW x \in DOMAIN a.pipe, NEW v \in BOOLEAN
  PROVE  LET b == Pipeclose(a, x, v) IN
         /\ KernelIs(b) /\ b.file = a.file /\ b.fd = a.fd /\ b.panic = a.panic /\ PipesAre(b)
         /\ \A y : \A u \in BOOLEAN : EndOpen(b, y, u) <=> EndOpen(a, y, u) /\ ~(y = x /\ u = v)
<1> DEFINE p == IF v THEN [a.pipe[x] EXCEPT !.writeopen = FALSE] ELSE [a.pipe[x] EXCEPT !.readopen = FALSE]
           z == [a.pipe EXCEPT ![x] = p]
           c == [a EXCEPT !.pipe = z]
           d == [c EXCEPT !.pipe = Restrict(z, DOMAIN z \ {x})]
           b == IF c.pipe[x].writeopen \/ c.pipe[x].readopen THEN c ELSE d
<1>1. KernelIs(c) /\ c.file = a.file /\ c.fd = a.fd /\ c.panic = a.panic /\ c.pipe = z
  <2> HIDE DEF z
  <2> QED BY PipeSetIs
<1>2. c = IF v THEN [a EXCEPT !.pipe[x].writeopen = FALSE] ELSE [a EXCEPT !.pipe[x].readopen = FALSE]
  OBVIOUS
<1>3. Pipeclose(a, x, v) = b
  <2> HIDE DEF c, z, p
  <2>1. d = [c EXCEPT !.pipe = Restrict(@, DOMAIN @ \ {x})]
    BY <1>1
  <2> HIDE DEF d
  <2> QED BY <1>2, <2>1, Zenon DEF Pipeclose
<1>4. KernelIs(d) /\ d.file = a.file /\ d.fd = a.fd /\ d.panic = a.panic
      /\ d.pipe = Restrict(z, DOMAIN z \ {x})
  <2> DEFINE y == Restrict(z, DOMAIN z \ {x})
  <2> HIDE DEF c, y
  <2> QED BY <1>1, PipeSetIs
<1>5. /\ PipeIs(p)
      /\ p.writeopen <=> (a.pipe[x].writeopen /\ ~v)
      /\ p.readopen <=> (a.pipe[x].readopen /\ v)
  <2>1. PipeIs(a.pipe[x])
    BY DEF PipesAre
  <2>2. CASE v
    <3>1. p = [bytes |-> a.pipe[x].bytes, readopen |-> a.pipe[x].readopen, writeopen |-> FALSE, by |-> a.pipe[x].by]
      BY <2>1, <2>2 DEF PipeIs
    <3> HIDE DEF p
    <3> QED BY <2>1, <2>2, <3>1 DEF PipeIs
  <2>3. CASE ~v
    <3>1. p = [bytes |-> a.pipe[x].bytes, readopen |-> FALSE, writeopen |-> a.pipe[x].writeopen, by |-> a.pipe[x].by]
      BY <2>1, <2>3 DEF PipeIs
    <3> HIDE DEF p
    <3> QED BY <2>1, <2>3, <3>1 DEF PipeIs
  <2> QED BY <2>2, <2>3
<1> HIDE DEF p
<1>6. z = [y \in DOMAIN a.pipe |-> IF y = x THEN p ELSE a.pipe[y]]
  BY DEF PipesAre
<1> HIDE DEF z, c, d
<1>7. CASE p.writeopen \/ p.readopen
  <2>1. b = c /\ c.pipe = z
    BY <1>1, <1>6, <1>7
  <2>2. DOMAIN c.pipe = DOMAIN a.pipe /\ \A y \in DOMAIN c.pipe : c.pipe[y] = IF y = x THEN p ELSE a.pipe[y]
    BY <1>6, <2>1
  <2>3. c.pipe = [y \in DOMAIN c.pipe |-> c.pipe[y]]
    BY <1>6, <2>1
  <2> HIDE DEF b
  <2>4. PipesAre(c)
    <3>1. \A y \in DOMAIN c.pipe : PipeIs(c.pipe[y]) /\ (c.pipe[y].writeopen \/ c.pipe[y].readopen)
      BY <1>5, <1>7, <2>2 DEF PipesAre
    <3> QED BY <2>2, <2>3, <3>1 DEF PipesAre
  <2>5. \A y : \A u \in BOOLEAN : EndOpen(c, y, u) <=> EndOpen(a, y, u) /\ ~(y = x /\ u = v)
    BY <1>5, <2>2 DEF EndOpen
  <2> QED BY <1>1, <1>3, <2>1, <2>4, <2>5
<1>8. CASE ~(p.writeopen \/ p.readopen)
  <2>1. b = d
    BY <1>1, <1>6, <1>8
  <2>2. d.pipe = [y \in DOMAIN a.pipe \ {x} |-> a.pipe[y]]
    BY <1>4, <1>6 DEF Restrict
  <2> DEFINE z2 == d.pipe
  <2>3. DOMAIN z2 = DOMAIN a.pipe \ {x} /\ \A y \in DOMAIN z2 : z2[y] = a.pipe[y]
    BY <2>2
  <2>4. z2 = [y \in DOMAIN z2 |-> z2[y]]
    BY <2>2
  <2>5. PipesAre(d)
    BY <2>3, <2>4 DEF PipesAre
  <2>6. \A y : \A u \in BOOLEAN : EndOpen(d, y, u) <=> EndOpen(a, y, u) /\ ~(y = x /\ u = v)
    BY <1>5, <1>8, <2>3 DEF EndOpen
  <2> HIDE DEF b
  <2> QED BY <1>3, <1>4, <2>1, <2>5, <2>6
<1> QED BY <1>7, <1>8


(* The last file of an end of a pipe goes, and the end with it. *)
LEMMA EndGone ==
  ASSUME NEW a, PipesAre(a), EndsAre(a), NEW f \in 1..NFILE, IsEnd(a, f), NEW b,
         \A g \in 1..NFILE : b.file[g] = IF g = f THEN NoneFile ELSE a.file[g],
         \A y : \A u \in BOOLEAN : EndOpen(b, y, u) <=>
                  EndOpen(a, y, u) /\ ~(y = a.file[f].of /\ u = a.file[f].writable)
  PROVE  EndsAre(b)
<1>1. \A g : IsEnd(b, g) <=> (IsEnd(a, g) /\ g # f)
  BY DEF IsEnd, NoneFile
<1>2. \A g, x, v : IsEndOf(b, g, x, v) <=> (IsEndOf(a, g, x, v) /\ g # f)
  BY <1>1 DEF IsEndOf, IsEnd
<1>3. IsEndOf(a, f, a.file[f].of, a.file[f].writable)
  BY DEF IsEndOf
<1>4. ASSUME NEW g, IsEnd(b, g)
      PROVE  b.file[g].writable \in BOOLEAN /\ EndOpen(b, b.file[g].of, b.file[g].writable)
  <2>1. /\ IsEnd(a, g)
        /\ g # f
        /\ b.file[g] = a.file[g]
        /\ IsEndOf(a, g, a.file[g].of, a.file[g].writable)
    BY <1>1, <1>4 DEF IsEnd, IsEndOf
  <2>2. a.file[g].writable \in BOOLEAN /\ EndOpen(a, a.file[g].of, a.file[g].writable)
    BY <2>1 DEF EndsAre
  <2>3. ~(a.file[g].of = a.file[f].of /\ a.file[g].writable = a.file[f].writable)
    BY <1>3, <2>1, Zenon DEF EndsAre
  <2>4. EndOpen(b, a.file[g].of, a.file[g].writable)
    BY <2>2, <2>3
  <2> QED BY <2>1, <2>2, <2>4
<1>5. \A x, v, g, h : IsEndOf(b, g, x, v) /\ IsEndOf(b, h, x, v) => g = h
  BY <1>2 DEF EndsAre
<1>6. ASSUME NEW x, NEW v \in BOOLEAN, EndOpen(b, x, v) PROVE \E g : IsEndOf(b, g, x, v)
  <2>1. EndOpen(a, x, v) /\ ~(x = a.file[f].of /\ v = a.file[f].writable)
    BY <1>6
  <2>2. PICK g : IsEndOf(a, g, x, v)
    BY <2>1 DEF EndsAre
  <2>3. g # f
    BY <2>1, <2>2 DEF IsEndOf
  <2> QED BY <1>2, <2>2, <2>3
<1> QED BY <1>4, <1>5, <1>6 DEF EndsAre

(* fileclose() of what a slot names. *)
LEMMA DropIs ==
  ASSUME NEW a, Good(a), NEW q \in Holder, NEW s \in FdSlot, a.fd[q][s] # NoFile
  PROVE  LET b == Drop(a, q, s) IN Good(b) /\ Frame(b, a, {q}) /\ SetFd(b, a, q, s, NoFile)
<1> DEFINE f == a.fd[q][s]
           c == [a EXCEPT !.fd[q][s] = NoFile]
           b == Fileclose(c, f)
           i == a.file[f].ref - 1
           y == [a.file[f] EXCEPT !.ref = i]
           new == IF a.file[f].ref > 1 THEN y ELSE NoneFile
<1>1. f \in 1..NFILE /\ a.file[f].ref \in Nat /\ a.file[f].ref > 0 /\ i \in Nat
  BY Named
<1>2. /\ KernelIs(c) /\ c.file = a.file /\ c.pipe = a.pipe /\ c.panic = FALSE
      /\ SetFd(c, a, q, s, NoFile)
  BY FdIs DEF Good, Base
<1>3. Drop(a, q, s) = b
  BY DEF Drop
<1>4. /\ FileIs(y) /\ y.ref = i /\ y.type = a.file[f].type
      /\ y.of = a.file[f].of /\ y.writable = a.file[f].writable
  <2>1. FilesAre(a)
    BY DEF Good, Base
  <2>2. f \in 1..NFILE
    BY <1>1
  <2> HIDE DEF f, i
  <2> QED BY <2>1, <2>2, RefIs
<1>5. f = a.fd[q][s] /\ i = a.file[f].ref - 1 /\ FilesAre(a)
  BY DEF Good, Base
<1> HIDE DEF f, i
<1>6. /\ KernelIs(b) /\ b.fd = c.fd /\ b.panic = FALSE
      /\ SetFile(b, a, f, new)
      /\ PipesAre(b)
      /\ FilesAre(b) /\ (\A g \in 1..NFILE : b.file[g] = IF g = f THEN new ELSE a.file[g])
      /\ EndsAre(b)
  <2>1. CASE a.file[f].ref > 1
    <3>1. new = y
      BY <2>1
    <3>2. b = [c EXCEPT !.file[f].ref = @ - 1]
      <4> HIDE DEF c
      <4> QED BY <1>2, <2>1 DEF Fileclose
    <3>3. b = [c EXCEPT !.file[f] = y]
      <4> HIDE DEF c
      <4> QED BY <1>2, <1>5, <3>2
    <3> HIDE DEF c, y, b, new
    <3>4. /\ KernelIs(b) /\ b.fd = c.fd /\ b.pipe = a.pipe /\ b.panic = FALSE
          /\ SetFile(b, a, f, y)
      BY <1>2, <3>3, EntryIs DEF SetFile
    <3>5. FilesAre(b) /\ \A g \in 1..NFILE : b.file[g] = IF g = f THEN y ELSE a.file[g]
      <4>1. y.ref = 0 => y.type = "none"
        BY <1>1, <1>4, <1>5, <2>1
      <4>2. y.ref \in Nat
        BY <1>1, <1>4
      <4> QED BY <1>1, <1>4, <1>5, <3>4, <4>1, <4>2, FileChange
    <3>6. SameEnds(b, a)
      BY <1>1, <1>4, <1>5, <2>1, <3>5 DEF SameEnds, IsEnd
    <3>7. PipesAre(b) /\ EndsAre(b)
      BY <3>4, <3>6, EndsKept DEF Good
    <3> QED BY <3>1, <3>4, <3>5, <3>7
  <2>2. CASE a.file[f].ref = 1
    <3> DEFINE u == [c EXCEPT !.file[f] = NoneFile]
               x == a.file[f].of
               v == a.file[f].writable
    <3>1. new = NoneFile
      BY <2>2
    <3>2. b = IF a.file[f].type = "pipe" THEN Pipeclose(u, x, v) ELSE u
      <4> HIDE DEF c
      <4> DEFINE w1 == [c EXCEPT !.panic = TRUE]
                 w2 == [c EXCEPT !.file[f].ref = @ - 1]
      <4>1. ~(c.file[f].ref < 1) /\ ~(c.file[f].ref > 1) /\ c.file[f] = a.file[f]
        BY <1>2, <2>2
      <4>2. u = [c EXCEPT !.file[f] = NoneFile]
        OBVIOUS
      <4> HIDE DEF u
      <4>3. b = CASE c.file[f].ref < 1 -> w1
                  [] c.file[f].ref > 1 -> w2
                  [] OTHER -> IF c.file[f].type = "pipe" THEN Pipeclose(u, c.file[f].of, c.file[f].writable) ELSE u
        BY <4>2, Zenon DEF Fileclose
      <4> HIDE DEF b, w1, w2
      <4> QED BY <4>1, <4>3
    <3> HIDE DEF c, y, b, new, u
    <3>3. /\ KernelIs(u) /\ u.fd = c.fd /\ u.pipe = a.pipe /\ u.panic = FALSE
          /\ SetFile(u, a, f, NoneFile)
      BY <1>2, EntryIs DEF SetFile, u
    <3>4. FileIs(NoneFile) /\ NoneFile.ref = 0 /\ NoneFile.ref \in Nat /\ NoneFile.type = "none"
      BY DEF FileIs, NoneFile
    <3>5. FilesAre(u) /\ \A g \in 1..NFILE : u.file[g] = IF g = f THEN NoneFile ELSE a.file[g]
      BY <1>1, <1>5, <3>3, <3>4, FileChange
    <3>6. CASE a.file[f].type # "pipe"
      <4>1. b = u
        BY <3>2, <3>6
      <4>2. SameEnds(u, a)
        BY <3>4, <3>5, <3>6 DEF SameEnds, IsEnd
      <4>3. PipesAre(u) /\ EndsAre(u)
        BY <3>3, <4>2, EndsKept DEF Good
      <4> QED BY <3>1, <3>3, <3>5, <4>1, <4>3
    <3>7. CASE a.file[f].type = "pipe"
      <4>1. b = Pipeclose(u, x, v)
        BY <3>2, <3>7
      <4>2. IsEnd(a, f)
        BY <1>1, <3>7 DEF IsEnd
      <4>3. v \in BOOLEAN /\ x \in DOMAIN a.pipe
        BY <4>2 DEF Good, EndsAre, EndOpen
      <4>4. PipesAre(u) /\ \A z, w2 : EndOpen(u, z, w2) <=> EndOpen(a, z, w2)
        BY <3>3 DEF Good, PipesAre, EndOpen
      <4> HIDE DEF x, v
      <4>5. /\ KernelIs(b) /\ b.file = u.file /\ b.fd = u.fd /\ b.panic = u.panic /\ PipesAre(b)
            /\ \A z : \A w2 \in BOOLEAN : EndOpen(b, z, w2) <=> EndOpen(u, z, w2) /\ ~(z = x /\ w2 = v)
        BY <3>3, <4>1, <4>3, <4>4, PipecloseIs
      <4>6. FilesAre(b) /\ \A g \in 1..NFILE : b.file[g] = IF g = f THEN NoneFile ELSE a.file[g]
        BY <3>5, <4>5 DEF FilesAre
      <4>7. \A z : \A w2 \in BOOLEAN : EndOpen(b, z, w2) <=>
              EndOpen(a, z, w2) /\ ~(z = a.file[f].of /\ w2 = a.file[f].writable)
        BY <4>4, <4>5 DEF x, v
      <4>8. EndsAre(b)
        BY <1>1, <4>2, <4>6, <4>7, EndGone DEF Good
      <4>9. SetFile(b, a, f, NoneFile)
        BY <3>3, <4>5 DEF SetFile
      <4> QED BY <3>1, <3>3, <4>5, <4>6, <4>8, <4>9
    <3> QED BY <3>6, <3>7
  <2>3. a.file[f].ref > 1 \/ a.file[f].ref = 1
    BY <1>1
  <2> HIDE DEF b, new, c
  <2> QED BY <2>1, <2>2, <2>3
<1>7. new.ref = i
  BY <1>1, <1>4, <1>5 DEF NoneFile
<1> HIDE DEF b, c, y, new
<1>8. SetFd(b, a, q, s, NoFile)
  BY <1>2, <1>6 DEF SetFd
<1>9. Counted(b) /\ FdsAre(b)
  <2>1. NoFile \in 0..NFILE /\ NoFile # a.fd[q][s]
    BY SlotsAre
  <2>2. \A g \in 1..NFILE : b.file[g].ref = IF g = NoFile THEN a.file[g].ref + 1
                                            ELSE IF g = a.fd[q][s] THEN a.file[g].ref - 1
                                            ELSE a.file[g].ref
    BY <1>5, <1>6, <1>7, SlotsAre
  <2> QED BY <1>8, <2>1, <2>2, CountsChange DEF Good
<1>10. Frame(b, a, {q})
  <2>1. \A x \in Holder : x # q => b.fd[x] = a.fd[x]
    BY <1>8 DEF SetFd, Good, Base, FdsAre
  <2> QED BY <1>1, <1>5, <1>6, <2>1, FrameIs
<1>11. Good(b)
  BY <1>6, <1>9 DEF Good, Base
<1> QED BY <1>3, <1>8, <1>10, <1>11

LEMMA CloseIs ==
  ASSUME NEW a, Good(a), NEW q \in Holder, NEW d
  PROVE  LET b == Close(a, q, d) IN
         Good(b) /\ Frame(b, a, {q}) /\ \A s \in FdSlot \ FD : b.fd[q][s] = a.fd[q][s]
<1>1. CASE d \notin Opened(a, q)
  BY <1>1 DEF Close, Frame
<1>2. CASE d \in Opened(a, q)
  <2> DEFINE b == Drop(a, q, d)
  <2>1. d \in FD /\ a.fd[q][d] # NoFile /\ Close(a, q, d) = b
    BY <1>2 DEF Opened, FreeFds, Close
  <2>2. Good(b) /\ Frame(b, a, {q}) /\ SetFd(b, a, q, d, NoFile)
    BY <2>1, SlotsAre, DropIs
  <2> HIDE DEF b
  <2>3. \A s \in FdSlot \ FD : b.fd[q][s] = a.fd[q][s]
    BY <2>1, <2>2, SlotsAre DEF SetFd, Good, Base, FdsAre
  <2> QED BY <2>1, <2>2, <2>3
<1> QED BY <1>1, <1>2
-----------------------------------------------------------------------------
(* The least of a set of numbers, and induction over them.                  *)

LEMMA LeastNat ==
  ASSUME NEW S, S \subseteq Nat, S # {}
  PROVE  \E x \in S : \A y \in S : x <= y
<1> DEFINE R == {x \in Nat \X Nat : x[1] < x[2]}
<1>1. R = OpToRel(<, Nat)
  BY Zenon DEF OpToRel
<1>2. IsWellFoundedOn(R, Nat)
  BY <1>1, NatLessThanWellFounded, Zenon
<1>h. HIDE DEF R
<1>3. PICK x \in S : \A y \in S : <<y, x>> \notin R
  BY <1>2, WFMin, Zenon
<1>4. ASSUME NEW y \in S PROVE x <= y
  <2>1. x \in Nat /\ y \in Nat
    OBVIOUS
  <2>2. ~(y < x)
    BY <1>3, <2>1 DEF R
  <2> QED BY <2>1, <2>2
<1> QED BY <1>4

LEMMA Inductive ==
  ASSUME NEW S, 0 \in S, \A i \in Nat : i \in S => i + 1 \in S
  PROVE  Nat \subseteq S
<1> SUFFICES ASSUME Nat \ S # {} PROVE FALSE
  OBVIOUS
<1> DEFINE T == Nat \ S
<1>1. PICK x \in T : \A y \in T : x <= y
  <2>1. T \subseteq Nat /\ T # {}
    OBVIOUS
  <2> HIDE DEF T
  <2> QED BY <2>1, LeastNat
<1>2. x - 1 \in Nat
  OBVIOUS
<1>3. x - 1 \notin T
  BY <1>1, <1>2
<1>4. (x - 1) + 1 \in S
  BY <1>2, <1>3
<1> QED BY <1>4

LEMMA MinIs ==
  ASSUME NEW S, S \subseteq Nat, S # {}
  PROVE  Min(S) \in S
<1>1. \E x \in S : \A y \in S : x <= y
  BY LeastNat
<1> QED BY <1>1, Zenon DEF Min

-----------------------------------------------------------------------------
(* What the calls are made of. *)

Fresh(a, q, s) ==
  a.fd[q][s] # NoFile /\ a.file[a.fd[q][s]].ref = 1 /\ a.file[a.fd[q][s]].type = "none"

LEMMA FreeAre ==
  ASSUME NEW a, NEW q
  PROVE  /\ FreeFds(a, q) # {} => Min(FreeFds(a, q)) \in FD /\ a.fd[q][Min(FreeFds(a, q))] = NoFile
         /\ FreeFiles(a) # {} => Min(FreeFiles(a)) \in 1..NFILE /\ a.file[Min(FreeFiles(a))].ref = 0
         /\ FreePages(a) # {} => Min(FreePages(a)) \in 1..NPAGE /\ Min(FreePages(a)) \notin DOMAIN a.pipe
<1>1. FreeFds(a, q) \subseteq Nat /\ FreeFiles(a) \subseteq Nat /\ FreePages(a) \subseteq Nat
  BY TablesAssumption DEF FreeFds, FreeFiles, FreePages, FD
<1>2. FreeFds(a, q) # {} => Min(FreeFds(a, q)) \in FreeFds(a, q)
  BY <1>1, MinIs
<1>3. FreeFiles(a) # {} => Min(FreeFiles(a)) \in FreeFiles(a)
  BY <1>1, MinIs
<1>4. FreePages(a) # {} => Min(FreePages(a)) \in FreePages(a)
  BY <1>1, MinIs
<1> QED BY <1>2, <1>3, <1>4 DEF FreeFds, FreeFiles, FreePages

ClearedFds(b, a, q, S) ==
  b.fd = [a.fd EXCEPT ![q] = [s \in FdSlot |-> IF s \in S THEN NoFile ELSE a.fd[q][s]]]

LEMMA ClearedIs ==
  ASSUME NEW a, KernelIs(a), NEW q, NEW S
  PROVE  LET b == Cleared(a, q, S) IN
         /\ KernelIs(b) /\ b.file = a.file /\ b.pipe = a.pipe /\ b.panic = a.panic
         /\ ClearedFds(b, a, q, S)
<1> DEFINE y == [a.fd EXCEPT ![q] = [s \in FdSlot |-> IF s \in S THEN NoFile ELSE @[s]]]
           b == [a EXCEPT !.fd = y]
<1>1. Cleared(a, q, S) = b
  BY DEF Cleared
<1>2. y = [a.fd EXCEPT ![q] = [s \in FdSlot |-> IF s \in S THEN NoFile ELSE a.fd[q][s]]]
  OBVIOUS
<1> HIDE DEF y
<1>3. b = [file |-> a.file, fd |-> y, pipe |-> a.pipe, panic |-> a.panic]
  BY DEF KernelIs
<1> HIDE DEF b
<1>4. KernelIs(b) /\ b.file = a.file /\ b.pipe = a.pipe /\ b.panic = a.panic /\ b.fd = y
  BY <1>3 DEF KernelIs
<1> QED BY <1>1, <1>2, <1>4 DEF ClearedFds

LEMMA BecomeIs ==
  ASSUME NEW a, KernelIs(a), FilesAre(a), NEW f \in 1..NFILE, a.file[f].ref # 0,
         NEW type, NEW of, NEW v
  PROVE  LET b == Become(a, f, type, of, v) IN
         /\ KernelIs(b) /\ b.fd = a.fd /\ b.pipe = a.pipe /\ b.panic = a.panic /\ FilesAre(b)
         /\ \A g \in 1..NFILE : g # f => b.file[g] = a.file[g]
         /\ b.file[f].ref = a.file[f].ref /\ b.file[f].type = type
         /\ b.file[f].of = of /\ b.file[f].writable = v
<1> DEFINE y == [ref |-> a.file[f].ref, type |-> type, of |-> of, readable |-> ~v, writable |-> v]
           b == [a EXCEPT !.file[f] = y]
<1>1. Become(a, f, type, of, v) = b
  BY DEF Become
<1>2. /\ FileIs(y) /\ y.ref = a.file[f].ref /\ a.file[f].ref \in Nat
      /\ y.type = type /\ y.of = of /\ y.writable = v
  BY DEF FileIs, FilesAre
<1> HIDE DEF y
<1>3. /\ KernelIs(b) /\ b.fd = a.fd /\ b.pipe = a.pipe /\ b.panic = a.panic
      /\ SetFile(b, a, f, y)
  BY EntryIs
<1> HIDE DEF b
<1>4. FilesAre(b) /\ \A g \in 1..NFILE : b.file[g] = IF g = f THEN y ELSE a.file[g]
  <2>1. y.ref \in Nat /\ (y.ref = 0 => y.type = "none")
    BY <1>2
  <2> QED BY <1>2, <1>3, <2>1, FileChange
<1> QED BY <1>1, <1>2, <1>3, <1>4

(* A reference moves and nothing else changes. *)
LEMMA GoodMoves ==
  ASSUME NEW a, Good(a), NEW q \in Holder, NEW s \in FdSlot, NEW z \in FdSlot, s # z,
         a.fd[q][z] = NoFile, NEW b, Moved(b, a, q, s, z),
         KernelIs(b), b.file = a.file, b.pipe = a.pipe, b.panic = a.panic
  PROVE  Good(b) /\ Frame(b, a, {q})
<1>1. Counted(b) /\ FdsAre(b)
  BY MovesKeep DEF Good
<1>2. SameEnds(b, a)
  BY DEF SameEnds, IsEnd
<1>3. PipesAre(b) /\ EndsAre(b)
  BY <1>2, EndsKept DEF Good
<1>4. FilesAre(b) /\ b.panic = FALSE
  BY DEF Good, Base, FilesAre
<1>5. \A x \in Holder : x # q => b.fd[x] = a.fd[x]
  BY DEF Moved, Good, Base, FdsAre
<1>6. Frame(b, a, {q})
  BY <1>5 DEF Frame
<1> QED BY <1>1, <1>3, <1>4, <1>6 DEF Good, Base

LEMMA DupIs ==
  ASSUME NEW a, Good(a), NEW q \in Holder, NEW d
  PROVE  LET b == Dup(a, q, d) IN
         Good(b) /\ Frame(b, a, {q}) /\ \A s \in FdSlot \ FD : b.fd[q][s] = a.fd[q][s]
<1>1. CASE d \notin Opened(a, q) \/ FreeFds(a, q) = {}
  BY <1>1 DEF Dup, Frame
<1>2. CASE d \in Opened(a, q) /\ FreeFds(a, q) # {}
  <2> DEFINE u == Min(FreeFds(a, q))
             b == Filedup([a EXCEPT !.fd[q][u] = a.fd[q][d]], a.fd[q][d])
  <2>1. u \in FD /\ u \in FdSlot /\ a.fd[q][u] = NoFile
    BY <1>2, FreeAre, SlotsAre
  <2>2. d \in FD /\ d \in FdSlot /\ a.fd[q][d] # NoFile
    BY <1>2, SlotsAre DEF Opened, FreeFds
  <2>3. Dup(a, q, d) = b
    BY <1>2 DEF Dup, Fdalloc
  <2> HIDE DEF u
  <2>4. Good(b) /\ Frame(b, a, {q, q}) /\ SetFd(b, a, q, u, a.fd[q][d])
    BY <2>1, <2>2, FiledupIs
  <2> HIDE DEF b
  <2>5. {q, q} = {q}
    OBVIOUS
  <2>6. \A s \in FdSlot \ FD : b.fd[q][s] = a.fd[q][s]
    BY <2>1, <2>4 DEF SetFd, Good, Base, FdsAre
  <2> QED BY <2>3, <2>4, <2>5, <2>6
<1> QED BY <1>1, <1>2

LEMMA FileallocIs ==
  ASSUME NEW a, Good(a), NEW q \in Holder, NEW s \in FdSlot, a.fd[q][s] = NoFile, FreeFiles(a) # {}
  PROVE  LET b == Filealloc(a, q, s)
             f == Min(FreeFiles(a))
         IN /\ Good(b) /\ Frame(b, a, {q}) /\ b.pipe = a.pipe
            /\ SetFd(b, a, q, s, f) /\ f \in 1..NFILE /\ Fresh(b, q, s)
            /\ \A z \in FdSlot \ {s} : b.fd[q][z] = a.fd[q][z] /\ (Fresh(a, q, z) => Fresh(b, q, z))
<1> DEFINE f == Min(FreeFiles(a))
           y == [a.file[f] EXCEPT !.ref = 1]
           c == [a EXCEPT !.file[f] = y]
           b == [c EXCEPT !.fd[q][s] = f]
<1>1. f \in 1..NFILE /\ a.file[f].ref = 0 /\ FilesAre(a) /\ KernelIs(a) /\ FdsAre(a)
  BY FreeAre DEF Good, Base
<1>2. Filealloc(a, q, s) = b
  <2>1. Filealloc(a, q, s) = [a EXCEPT !.file[f].ref = 1, !.fd[q][s] = f]
    BY DEF Filealloc
  <2> HIDE DEF f
  <2>2. [a EXCEPT !.file[f].ref = 1, !.fd[q][s] = f] = [[a EXCEPT !.file[f].ref = 1] EXCEPT !.fd[q][s] = f]
    BY <1>1 DEF KernelIs
  <2>3. [a EXCEPT !.file[f].ref = 1] = c
    OBVIOUS
  <2> HIDE DEF c
  <2> QED BY <2>1, <2>2, <2>3
<1> HIDE DEF f
<1>3. FileIs(y) /\ y.ref = 1 /\ y.type = a.file[f].type /\ a.file[f].type = "none"
  <2>1. FileIs(y) /\ y.ref = 1 /\ y.type = a.file[f].type
    BY <1>1, RefIs
  <2> HIDE DEF y
  <2> QED BY <1>1, <2>1 DEF FilesAre
<1> HIDE DEF y
<1>4. /\ KernelIs(c) /\ c.fd = a.fd /\ c.pipe = a.pipe /\ c.panic = a.panic
      /\ SetFile(c, a, f, y)
  BY <1>1, EntryIs
<1> HIDE DEF c
<1>5. /\ KernelIs(b) /\ b.file = c.file /\ b.pipe = a.pipe /\ b.panic = FALSE
      /\ SetFd(b, a, q, s, f)
  <2>1. a.panic = FALSE
    BY DEF Good, Base
  <2>2. /\ KernelIs(b) /\ b.file = c.file /\ b.pipe = c.pipe /\ b.panic = c.panic
        /\ SetFd(b, c, q, s, f)
    BY <1>4, FdIs
  <2> HIDE DEF b
  <2> QED BY <1>4, <2>1, <2>2 DEF SetFd
<1> HIDE DEF b
<1>6. FilesAre(b) /\ \A g \in 1..NFILE : b.file[g] = IF g = f THEN y ELSE a.file[g]
  <2>1. SetFile(b, a, f, y)
    BY <1>4, <1>5 DEF SetFile
  <2> QED BY <1>1, <1>3, <2>1, FileChange
<1>7. Counted(b) /\ FdsAre(b)
  <2>1. f \in 0..NFILE /\ f # a.fd[q][s]
    BY <1>1, SlotsAre
  <2>2. \A g \in 1..NFILE : b.file[g].ref = IF g = f THEN a.file[g].ref + 1
                                            ELSE IF g = a.fd[q][s] THEN a.file[g].ref - 1
                                            ELSE a.file[g].ref
    BY <1>1, <1>3, <1>6, SlotsAre
  <2> QED BY <1>5, <2>1, <2>2, CountsChange DEF Good
<1>8. PipesAre(b) /\ EndsAre(b)
  <2>1. SameEnds(b, a)
    BY <1>1, <1>3, <1>6 DEF SameEnds, IsEnd
  <2> QED BY <1>5, <2>1, EndsKept DEF Good
<1>9. Frame(b, a, {q})
  <2>1. \A x \in Holder : x # q => b.fd[x] = a.fd[x]
    BY <1>1, <1>5 DEF SetFd, FdsAre
  <2> QED BY <1>1, <1>6, <2>1, FrameIs
<1>10. Good(b)
  BY <1>5, <1>6, <1>7, <1>8 DEF Good, Base
<1>11. b.fd[q][s] = f /\ \A z \in FdSlot \ {s} : b.fd[q][z] = a.fd[q][z]
  BY <1>1, <1>5 DEF SetFd, FdsAre
<1>12. Fresh(b, q, s)
  BY <1>1, <1>3, <1>6, <1>11, SlotsAre DEF Fresh
<1>13. ASSUME NEW z \in FdSlot \ {s}, Fresh(a, q, z) PROVE Fresh(b, q, z)
  <2>1. a.fd[q][z] \in 1..NFILE /\ a.fd[q][z] # f
    BY <1>1, <1>13, Named DEF Fresh
  <2> QED BY <1>6, <1>11, <1>13, <2>1 DEF Fresh
<1> QED BY <1>1, <1>2, <1>5, <1>9, <1>10, <1>11, <1>12, <1>13 DEF f

(* sys_open(), from the file it has allocated. *)
Installed(a, q, of, v) ==
  Cleared(Become(Fdalloc(a, q, Rf), a.fd[q][Rf], "inode", of, v), q, {Rf})

LEMMA OpenIs ==
  ASSUME NEW a, Good(a), NEW q \in Holder, Fresh(a, q, Rf), a.fd[q][Wf] = NoFile,
         FreeFds(a, q) # {}, NEW of, NEW v
  PROVE  LET b == Installed(a, q, of, v) IN
         Good(b) /\ Frame(b, a, {q}) /\ \A s \in FdSlot \ FD : b.fd[q][s] = NoFile
<1> DEFINE f == a.fd[q][Rf]
           u == Min(FreeFds(a, q))
           c == Fdalloc(a, q, Rf)
           d == Become(c, f, "inode", of, v)
           b == Cleared(d, q, {Rf})
<1>1. u \in FD /\ a.fd[q][u] = NoFile /\ KernelIs(a) /\ FilesAre(a) /\ FdsAre(a) /\ a.panic = FALSE
  BY FreeAre DEF Good, Base
<1>2. f \in 1..NFILE /\ a.file[f].ref = 1 /\ a.file[f].type = "none"
  BY Named, SlotsAre DEF Fresh
<1> HIDE DEF f
<1>3. /\ KernelIs(c) /\ c.file = a.file /\ c.pipe = a.pipe /\ c.panic = a.panic
      /\ SetFd(c, a, q, u, f)
  <2>1. c = [a EXCEPT !.fd[q][u] = a.fd[q][Rf]]
    BY DEF Fdalloc
  <2> HIDE DEF c, u
  <2> QED BY <1>1, <2>1, FdIs DEF f
<1> HIDE DEF c, u
<1>4. /\ KernelIs(d) /\ d.fd = c.fd /\ d.pipe = c.pipe /\ d.panic = c.panic /\ FilesAre(d)
      /\ \A g \in 1..NFILE : g # f => d.file[g] = a.file[g]
      /\ d.file[f].ref = 1 /\ d.file[f].type = "inode"
  <2>1. FilesAre(c) /\ c.file[f].ref # 0
    BY <1>1, <1>2, <1>3 DEF FilesAre
  <2> HIDE DEF d
  <2>2. /\ KernelIs(d) /\ d.fd = c.fd /\ d.pipe = c.pipe /\ d.panic = c.panic /\ FilesAre(d)
        /\ \A g \in 1..NFILE : g # f => d.file[g] = c.file[g]
        /\ d.file[f].ref = c.file[f].ref /\ d.file[f].type = "inode"
    BY <1>2, <1>3, <2>1, BecomeIs DEF d
  <2> QED BY <1>2, <1>3, <2>2
<1> HIDE DEF d
<1>5. /\ KernelIs(b) /\ b.file = d.file /\ b.pipe = d.pipe /\ b.panic = d.panic
      /\ ClearedFds(b, d, q, {Rf})
  BY <1>4, ClearedIs
<1> HIDE DEF b
<1>6. Moved(b, a, q, Rf, u)
  <2>1. d.fd = [a.fd EXCEPT ![q][u] = f]
    BY <1>3, <1>4 DEF SetFd
  <2>2. \A s \in FdSlot : (IF s \in {Rf} THEN NoFile ELSE d.fd[q][s]) =
                        (IF s = u THEN a.fd[q][Rf] ELSE IF s = Rf THEN NoFile ELSE a.fd[q][s])
    BY <1>1, <2>1, SlotsAre DEF FdsAre, f
  <2>3. [s \in FdSlot |-> IF s \in {Rf} THEN NoFile ELSE d.fd[q][s]] =
        [s \in FdSlot |-> IF s = u THEN a.fd[q][Rf] ELSE IF s = Rf THEN NoFile ELSE a.fd[q][s]]
    BY <2>2
  <2>4. \A x : [d.fd EXCEPT ![q] = x] = [a.fd EXCEPT ![q] = x]
    BY <1>1, <2>1 DEF FdsAre
  <2> QED BY <1>5, <2>3, <2>4 DEF Moved, ClearedFds
<1>7. Counted(b) /\ FdsAre(b)
  <2>1. \A g \in 1..NFILE : b.file[g].ref = a.file[g].ref
    BY <1>2, <1>4, <1>5
  <2> QED BY <1>1, <1>6, <2>1, SlotsAre, MovesKeep DEF Good
<1>8. PipesAre(b) /\ EndsAre(b)
  <2>1. SameEnds(b, a)
    BY <1>2, <1>4, <1>5 DEF SameEnds, IsEnd
  <2> QED BY <1>3, <1>4, <1>5, <2>1, EndsKept DEF Good
<1>9. Frame(b, a, {q})
  <2>1. \A x \in Holder : x # q => b.fd[x] = a.fd[x]
    BY <1>1, <1>6 DEF Moved, FdsAre
  <2>2. \E s \in FdSlot : a.fd[q][s] = f
    BY SlotsAre DEF f
  <2>3. \A g \in 1..NFILE : g # f => b.file[g] = a.file[g]
    BY <1>4, <1>5
  <2>4. f \in 1..NFILE
    BY <1>2
  <2> QED BY <2>1, <2>2, <2>3, <2>4, FrameIs
<1>10. FilesAre(b)
  BY <1>4, <1>5 DEF FilesAre
<1>11. Good(b)
  BY <1>1, <1>3, <1>4, <1>5, <1>7, <1>8, <1>10 DEF Good, Base
<1>12. \A s \in FdSlot \ FD : b.fd[q][s] = NoFile
  BY <1>1, <1>6, SlotsAre DEF Moved, FdsAre
<1> QED BY <1>9, <1>11, <1>12 DEF b, d, c, f, Installed

LEMMA FdallocIs ==
  ASSUME NEW a, KernelIs(a), FdsAre(a), NEW q \in Holder, NEW s \in FdSlot, FreeFds(a, q) # {}
  PROVE  LET b == Fdalloc(a, q, s)
             u == Min(FreeFds(a, q))
         IN /\ KernelIs(b) /\ b.file = a.file /\ b.pipe = a.pipe /\ b.panic = a.panic /\ FdsAre(b)
            /\ u \in FD /\ a.fd[q][u] = NoFile /\ SetFd(b, a, q, u, a.fd[q][s])
<1> DEFINE u == Min(FreeFds(a, q))
           b == [a EXCEPT !.fd[q][u] = a.fd[q][s]]
<1>1. Fdalloc(a, q, s) = b
  BY DEF Fdalloc
<1>2. u \in FD /\ a.fd[q][u] = NoFile
  BY FreeAre
<1> HIDE DEF u
<1>3. /\ KernelIs(b) /\ b.file = a.file /\ b.pipe = a.pipe /\ b.panic = a.panic
      /\ SetFd(b, a, q, u, a.fd[q][s])
  BY FdIs
<1> HIDE DEF b
<1>4. FdsAre(b)
  <2>1. a.fd[q][s] \in 0..NFILE /\ u \in FdSlot
    BY <1>2, SlotsAre DEF FdsAre
  <2> QED BY <1>3, <2>1 DEF FdsAre, SetFd
<1> QED BY <1>1, <1>2, <1>3, <1>4 DEF u

(* What was put into free slots is taken out again. *)
LEMMA UndoneIs ==
  ASSUME NEW a, KernelIs(a), FdsAre(a), NEW q \in Holder, NEW S, \A s \in S : a.fd[q][s] = NoFile,
         NEW c, KernelIs(c), c.file = a.file, c.pipe = a.pipe, c.panic = a.panic, FdsAre(c),
         \A x \in Holder : x # q => c.fd[x] = a.fd[x],
         \A s \in FdSlot \ S : c.fd[q][s] = a.fd[q][s]
  PROVE  Cleared(c, q, S) = a
<1> DEFINE b == Cleared(c, q, S)
           y == [s \in FdSlot |-> IF s \in S THEN NoFile ELSE c.fd[q][s]]
<1>1. KernelIs(b) /\ b.file = c.file /\ b.pipe = c.pipe /\ b.panic = c.panic /\ ClearedFds(b, c, q, S)
  BY ClearedIs
<1> HIDE DEF b
<1>2. \A s \in FdSlot : (IF s \in S THEN NoFile ELSE c.fd[q][s]) = a.fd[q][s]
  OBVIOUS
<1>3. a.fd[q] = [s \in FdSlot |-> a.fd[q][s]]
  BY DEF FdsAre
<1>4. y = a.fd[q]
  BY <1>2, <1>3
<1>5. b.fd = [c.fd EXCEPT ![q] = y]
  BY <1>1 DEF ClearedFds
<1> HIDE DEF y
<1>6. b.fd = a.fd
  <2>1. b.fd = [x \in Holder |-> IF x = q THEN y ELSE c.fd[x]]
    BY <1>5 DEF FdsAre
  <2>2. \A x \in Holder : (IF x = q THEN y ELSE c.fd[x]) = a.fd[x]
    BY <1>4
  <2>3. a.fd = [x \in Holder |-> a.fd[x]]
    BY DEF FdsAre
  <2> QED BY <2>1, <2>2, <2>3
<1> QED BY <1>1, <1>6 DEF KernelIs, b

(* sys_pipe(): without a second descriptor, or with a bad address, the      *)
(* descriptors are as they were.                                            *)
LEMMA PipeFdsFail ==
  ASSUME NEW a, Good(a), NEW q \in Holder, FreeFds(a, q) # {}
  PROVE  LET i == Min(FreeFds(a, q))
             c == Fdalloc(a, q, Rf)
             j == Min(FreeFds(c, q))
             d == Fdalloc(c, q, Wf)
         IN /\ Cleared(c, q, {i}) = a
            /\ FreeFds(c, q) # {} /\ a.fd[q][Rf] # NoFile => Cleared(d, q, {i, j}) = a
<1> DEFINE i == Min(FreeFds(a, q))
           c == Fdalloc(a, q, Rf)
           j == Min(FreeFds(c, q))
           d == Fdalloc(c, q, Wf)
<1>1. KernelIs(a) /\ FdsAre(a)
  BY DEF Good, Base
<1>2. /\ KernelIs(c) /\ c.file = a.file /\ c.pipe = a.pipe /\ c.panic = a.panic /\ FdsAre(c)
      /\ i \in FD /\ a.fd[q][i] = NoFile /\ SetFd(c, a, q, i, a.fd[q][Rf])
  BY <1>1, SlotsAre, FdallocIs
<1> HIDE DEF c, i
<1>3. /\ \A x \in Holder : x # q => c.fd[x] = a.fd[x]
      /\ \A s \in FdSlot \ {i} : c.fd[q][s] = a.fd[q][s]
      /\ c.fd[q][i] = a.fd[q][Rf]
  BY <1>1, <1>2, SlotsAre DEF SetFd, FdsAre
<1>4. Cleared(c, q, {i}) = a
  <2>1. \A s \in {i} : a.fd[q][s] = NoFile
    BY <1>2
  <2> QED BY <1>1, <1>2, <1>3, <2>1, UndoneIs
<1>5. ASSUME FreeFds(c, q) # {}, a.fd[q][Rf] # NoFile PROVE Cleared(d, q, {i, j}) = a
  <2>1. /\ KernelIs(d) /\ d.file = c.file /\ d.pipe = c.pipe /\ d.panic = c.panic /\ FdsAre(d)
        /\ j \in FD /\ c.fd[q][j] = NoFile /\ SetFd(d, c, q, j, c.fd[q][Wf])
    BY <1>2, <1>5, SlotsAre, FdallocIs
  <2> HIDE DEF d, j
  <2>2. /\ \A x \in Holder : x # q => d.fd[x] = a.fd[x]
        /\ \A s \in FdSlot \ {i, j} : d.fd[q][s] = a.fd[q][s]
    BY <1>2, <1>3, <2>1, SlotsAre DEF SetFd, FdsAre
  <2>3. \A s \in {i, j} : a.fd[q][s] = NoFile
    BY <1>2, <1>3, <1>5, <2>1, SlotsAre
  <2>4. d.file = a.file /\ d.pipe = a.pipe /\ d.panic = a.panic
    BY <1>2, <2>1
  <2> QED BY <1>1, <2>1, <2>2, <2>3, <2>4, UndoneIs
<1> QED BY <1>4, <1>5 DEF c, d, i, j

(* sys_pipe(): both ends go to descriptors. *)
LEMMA PipeFdsDone ==
  ASSUME NEW a, Good(a), NEW q \in Holder, FreeFds(a, q) # {}, a.fd[q][Rf] # NoFile,
         FreeFds(Fdalloc(a, q, Rf), q) # {}
  PROVE  LET b == Cleared(Fdalloc(Fdalloc(a, q, Rf), q, Wf), q, {Rf, Wf}) IN
         Good(b) /\ Frame(b, a, {q}) /\ \A s \in FdSlot \ FD : b.fd[q][s] = NoFile
<1> DEFINE i == Min(FreeFds(a, q))
           c == Fdalloc(a, q, Rf)
           j == Min(FreeFds(c, q))
           d == Fdalloc(c, q, Wf)
           b == Cleared(d, q, {Rf, Wf})
           mid == Cleared(c, q, {Rf})
<1>1. KernelIs(a) /\ FdsAre(a)
  BY DEF Good, Base
<1>2. /\ KernelIs(c) /\ c.file = a.file /\ c.pipe = a.pipe /\ c.panic = a.panic /\ FdsAre(c)
      /\ i \in FD /\ a.fd[q][i] = NoFile /\ SetFd(c, a, q, i, a.fd[q][Rf])
  BY <1>1, SlotsAre, FdallocIs
<1>3. FreeFds(c, q) # {}
  OBVIOUS
<1> HIDE DEF c, i
<1>4. /\ KernelIs(d) /\ d.file = c.file /\ d.pipe = c.pipe /\ d.panic = c.panic /\ FdsAre(d)
      /\ j \in FD /\ c.fd[q][j] = NoFile /\ SetFd(d, c, q, j, c.fd[q][Wf])
  BY <1>2, <1>3, SlotsAre, FdallocIs
<1> HIDE DEF d, j
<1>5. /\ KernelIs(mid) /\ mid.file = c.file /\ mid.pipe = c.pipe /\ mid.panic = c.panic
      /\ ClearedFds(mid, c, q, {Rf})
  BY <1>2, ClearedIs
<1>6. /\ KernelIs(b) /\ b.file = d.file /\ b.pipe = d.pipe /\ b.panic = d.panic
      /\ ClearedFds(b, d, q, {Rf, Wf})
  BY <1>4, ClearedIs
<1> HIDE DEF b, mid
<1>7. Moved(mid, a, q, Rf, i)
  <2>1. \A s \in FdSlot : (IF s \in {Rf} THEN NoFile ELSE c.fd[q][s]) =
                        (IF s = i THEN a.fd[q][Rf] ELSE IF s = Rf THEN NoFile ELSE a.fd[q][s])
    BY <1>1, <1>2, SlotsAre DEF FdsAre, SetFd
  <2>2. [s \in FdSlot |-> IF s \in {Rf} THEN NoFile ELSE c.fd[q][s]] =
        [s \in FdSlot |-> IF s = i THEN a.fd[q][Rf] ELSE IF s = Rf THEN NoFile ELSE a.fd[q][s]]
    BY <2>1
  <2>3. \A x : [c.fd EXCEPT ![q] = x] = [a.fd EXCEPT ![q] = x]
    BY <1>1, <1>2 DEF FdsAre, SetFd
  <2> QED BY <1>5, <2>2, <2>3 DEF Moved, ClearedFds
<1>8. Good(mid) /\ Frame(mid, a, {q})
  <2>1. mid.file = a.file /\ mid.pipe = a.pipe /\ mid.panic = a.panic /\ Rf # i /\ i \in FdSlot /\ Rf \in FdSlot
    BY <1>2, <1>5, SlotsAre
  <2> QED BY <1>2, <1>5, <1>7, <2>1, GoodMoves
<1>9. /\ mid.fd[q] = [s \in FdSlot |-> IF s \in {Rf} THEN NoFile ELSE c.fd[q][s]]
      /\ \A x \in Holder : x # q => mid.fd[x] = c.fd[x]
  BY <1>2, <1>5 DEF ClearedFds, FdsAre
<1>10. c.fd[q][i] = a.fd[q][Rf] /\ j # i
  BY <1>1, <1>2, <1>4, SlotsAre DEF FdsAre, SetFd
<1>11. Moved(b, mid, q, Wf, j)
  <2>1. \A s \in FdSlot : (IF s \in {Rf, Wf} THEN NoFile ELSE d.fd[q][s]) =
                        (IF s = j THEN mid.fd[q][Wf] ELSE IF s = Wf THEN NoFile ELSE mid.fd[q][s])
    BY <1>2, <1>4, <1>9, SlotsAre DEF FdsAre, SetFd
  <2>2. [s \in FdSlot |-> IF s \in {Rf, Wf} THEN NoFile ELSE d.fd[q][s]] =
        [s \in FdSlot |-> IF s = j THEN mid.fd[q][Wf] ELSE IF s = Wf THEN NoFile ELSE mid.fd[q][s]]
    BY <2>1
  <2>3. \A x : [d.fd EXCEPT ![q] = x] = [mid.fd EXCEPT ![q] = x]
    <3>1. FdsAre(mid)
      BY <1>8 DEF Good, Base
    <3> SUFFICES ASSUME NEW x PROVE [d.fd EXCEPT ![q] = x] = [mid.fd EXCEPT ![q] = x]
      OBVIOUS
    <3>2. [d.fd EXCEPT ![q] = x] = [y \in Holder |-> IF y = q THEN x ELSE c.fd[y]]
      BY <1>2, <1>4 DEF FdsAre, SetFd
    <3>3. [mid.fd EXCEPT ![q] = x] = [y \in Holder |-> IF y = q THEN x ELSE c.fd[y]]
      BY <1>9, <3>1 DEF FdsAre
    <3> QED BY <3>2, <3>3
  <2> QED BY <1>6, <2>2, <2>3 DEF Moved, ClearedFds
<1>12. Good(b) /\ Frame(b, mid, {q})
  <2>1. b.file = mid.file /\ b.pipe = mid.pipe /\ b.panic = mid.panic /\ Wf # j /\ j \in FdSlot /\ Wf \in FdSlot
    BY <1>4, <1>5, <1>6, SlotsAre
  <2>2. mid.fd[q][j] = NoFile
    BY <1>4, <1>9, SlotsAre
  <2> QED BY <1>6, <1>8, <1>11, <2>1, <2>2, GoodMoves
<1>13. \A s \in FdSlot \ FD : b.fd[q][s] = NoFile
  <2>1. b.fd[q] = [s \in FdSlot |-> IF s \in {Rf, Wf} THEN NoFile ELSE d.fd[q][s]]
    BY <1>4, <1>6 DEF ClearedFds, FdsAre
  <2> QED BY <2>1, SlotsAre
<1> QED BY <1>8, <1>12, <1>13, FrameTwice DEF b, d, c

(* pipealloc(): a page becomes a pipe, and the two files its ends. *)
LEMMA PipeallocIs ==
  ASSUME NEW a, Good(a), NEW q \in Holder, Fresh(a, q, Rf), Fresh(a, q, Wf), FreePages(a) # {}, NEW by
  PROVE  LET b == Pipealloc(a, q, by) IN Good(b) /\ Frame(b, a, {q}) /\ b.fd = a.fd
<1> DEFINE f == a.fd[q][Rf]
           g == a.fd[q][Wf]
           x == Min(FreePages(a))
           p == [bytes |-> 0, readopen |-> TRUE, writeopen |-> TRUE, by |-> by]
           z == [y \in DOMAIN a.pipe \cup {x} |-> IF y = x THEN p ELSE a.pipe[y]]
           c == [a EXCEPT !.pipe = z]
           d == Become(c, f, "pipe", x, FALSE)
           b == Become(d, g, "pipe", x, TRUE)
<1>1. /\ f \in 1..NFILE /\ a.file[f].ref = 1 /\ a.file[f].type = "none"
      /\ g \in 1..NFILE /\ a.file[g].ref = 1 /\ a.file[g].type = "none"
      /\ f # g
  BY Named, SlotsAre DEF Fresh
<1>2. /\ KernelIs(a) /\ FilesAre(a) /\ FdsAre(a) /\ a.panic = FALSE /\ PipesAre(a) /\ EndsAre(a)
      /\ x \in 1..NPAGE /\ x \notin DOMAIN a.pipe
  BY FreeAre DEF Good, Base
<1>3. Pipealloc(a, q, by) = b
  <2>1. c = [a EXCEPT !.pipe = [y \in DOMAIN @ \cup {x} |-> IF y = x THEN p ELSE @[y]]]
    OBVIOUS
  <2> HIDE DEF c
  <2> QED BY <2>1, Zenon DEF Pipealloc
<1>4. PipeIs(p) /\ p.writeopen = TRUE /\ p.readopen = TRUE
  BY DEF PipeIs
<1> HIDE DEF p, x
<1>5. DOMAIN z = DOMAIN a.pipe \cup {x} /\ \A y \in DOMAIN z : z[y] = IF y = x THEN p ELSE a.pipe[y]
  OBVIOUS
<1>6. z = [y \in DOMAIN z |-> z[y]]
  OBVIOUS
<1> HIDE DEF z
<1>7. KernelIs(c) /\ c.file = a.file /\ c.fd = a.fd /\ c.panic = a.panic /\ c.pipe = z
  BY <1>2, PipeSetIs
<1> HIDE DEF c, f, g
<1>8. /\ KernelIs(d) /\ d.fd = c.fd /\ d.pipe = c.pipe /\ d.panic = c.panic /\ FilesAre(d)
      /\ \A o \in 1..NFILE : o # f => d.file[o] = a.file[o]
      /\ d.file[f].ref = 1 /\ d.file[f].type = "pipe" /\ d.file[f].of = x /\ d.file[f].writable = FALSE
  <2>1. FilesAre(c) /\ c.file[f].ref # 0 /\ c.file[f].ref = 1
    BY <1>1, <1>2, <1>7 DEF FilesAre
  <2>0. PICK v : v = FALSE
    OBVIOUS
  <2>3. d = Become(c, f, "pipe", x, v)
    BY <2>0
  <2> HIDE DEF d
  <2>2. /\ KernelIs(d) /\ d.fd = c.fd /\ d.pipe = c.pipe /\ d.panic = c.panic /\ FilesAre(d)
        /\ \A o \in 1..NFILE : o # f => d.file[o] = c.file[o]
        /\ d.file[f].ref = c.file[f].ref /\ d.file[f].type = "pipe"
        /\ d.file[f].of = x /\ d.file[f].writable = v
    BY <1>1, <1>7, <2>1, <2>3, BecomeIs
  <2> QED BY <1>1, <1>7, <2>0, <2>1, <2>2
<1> HIDE DEF d
<1>9. /\ KernelIs(b) /\ b.fd = d.fd /\ b.pipe = d.pipe /\ b.panic = d.panic /\ FilesAre(b)
      /\ \A o \in 1..NFILE : o # g => b.file[o] = d.file[o]
      /\ b.file[g].ref = 1 /\ b.file[g].type = "pipe" /\ b.file[g].of = x /\ b.file[g].writable = TRUE
  <2>1. d.file[g].ref # 0 /\ d.file[g].ref = 1
    BY <1>1, <1>8
  <2>0. PICK v : v = TRUE
    OBVIOUS
  <2>3. b = Become(d, g, "pipe", x, v)
    BY <2>0
  <2> HIDE DEF b
  <2>2. /\ KernelIs(b) /\ b.fd = d.fd /\ b.pipe = d.pipe /\ b.panic = d.panic /\ FilesAre(b)
        /\ \A o \in 1..NFILE : o # g => b.file[o] = d.file[o]
        /\ b.file[g].ref = d.file[g].ref /\ b.file[g].type = "pipe"
        /\ b.file[g].of = x /\ b.file[g].writable = v
    <3>1. KernelIs(d) /\ FilesAre(d) /\ g \in 1..NFILE /\ d.file[g].ref # 0
      BY <1>1, <1>8, <2>1
    <3> QED BY <2>3, <3>1, BecomeIs
  <2> QED BY <1>1, <1>8, <2>0, <2>1, <2>2
<1> HIDE DEF b
<1>10. /\ b.fd = a.fd /\ b.pipe = z /\ b.panic = FALSE
       /\ \A o \in 1..NFILE : o # f /\ o # g => b.file[o] = a.file[o]
       /\ b.file[f].ref = 1 /\ b.file[f].type = "pipe" /\ b.file[f].of = x /\ b.file[f].writable = FALSE
       /\ b.file[g].ref = 1 /\ b.file[g].type = "pipe" /\ b.file[g].of = x /\ b.file[g].writable = TRUE
  BY <1>1, <1>2, <1>7, <1>8, <1>9
<1>11. Counted(b) /\ FdsAre(b)
  <2>1. \A o \in 1..NFILE : b.file[o].ref = a.file[o].ref
    BY <1>1, <1>10
  <2>2. \A o : Refs(b, o) = Refs(a, o)
    BY <1>10 DEF Refs
  <2> QED BY <1>2, <1>10, <2>1, <2>2 DEF Good, Counted, FdsAre
<1>12. PipesAre(b)
  <2>1. b.pipe = [y \in DOMAIN b.pipe |-> b.pipe[y]] /\ DOMAIN b.pipe \subseteq 1..NPAGE
    BY <1>2, <1>5, <1>6, <1>10 DEF PipesAre
  <2>2. ASSUME NEW y \in DOMAIN b.pipe
        PROVE  PipeIs(b.pipe[y]) /\ (b.pipe[y].writeopen \/ b.pipe[y].readopen)
    <3>1. b.pipe[y] = IF y = x THEN p ELSE a.pipe[y]
      BY <1>5, <1>10
    <3>2. y # x => y \in DOMAIN a.pipe
      BY <1>5, <1>10
    <3> QED BY <1>2, <1>4, <3>1, <3>2 DEF PipesAre
  <2> QED BY <2>1, <2>2 DEF PipesAre
<1>13. EndsAre(b)
  <2>1. \A y : \A u \in BOOLEAN : EndOpen(b, y, u) <=> (EndOpen(a, y, u) \/ y = x)
    BY <1>2, <1>4, <1>5, <1>10 DEF EndOpen
  <2>2. \A o : IsEnd(b, o) <=> (IsEnd(a, o) \/ o = f \/ o = g)
    BY <1>1, <1>10 DEF IsEnd
  <2>3. ~IsEnd(a, f) /\ ~IsEnd(a, g)
    BY <1>1 DEF IsEnd
  <2>4. ASSUME NEW o, IsEnd(a, o) PROVE a.file[o].of # x /\ b.file[o] = a.file[o]
    <3>1. a.file[o].of \in DOMAIN a.pipe
      BY <1>2, <2>4 DEF EndsAre, EndOpen
    <3>2. o # f /\ o # g /\ o \in 1..NFILE
      BY <2>3, <2>4 DEF IsEnd
    <3> QED BY <1>2, <1>10, <3>1, <3>2
  <2>5. \A o, y, u : IsEndOf(b, o, y, u) <=> \/ IsEndOf(a, o, y, u)
                                              \/ (o = f /\ y = x /\ u = FALSE)
                                              \/ (o = g /\ y = x /\ u = TRUE)
    <3> SUFFICES ASSUME NEW o, NEW y, NEW u
                 PROVE  IsEndOf(b, o, y, u) <=> \/ IsEndOf(a, o, y, u)
                                                \/ (o = f /\ y = x /\ u = FALSE)
                                                \/ (o = g /\ y = x /\ u = TRUE)
      OBVIOUS
    <3>1. CASE IsEnd(a, o)
      <4>1. o # f /\ o # g /\ IsEnd(b, o) /\ b.file[o] = a.file[o]
        BY <2>2, <2>3, <2>4, <3>1
      <4> QED BY <3>1, <4>1 DEF IsEndOf
    <3>2. CASE o = f
      <4>1. ~IsEnd(a, o) /\ IsEnd(b, o) /\ o # g
        BY <1>1, <2>2, <2>3, <3>2
      <4> QED BY <1>10, <3>2, <4>1 DEF IsEndOf
    <3>3. CASE o = g
      <4>1. ~IsEnd(a, o) /\ IsEnd(b, o) /\ o # f
        BY <1>1, <2>2, <2>3, <3>3
      <4> QED BY <1>10, <3>3, <4>1 DEF IsEndOf
    <3>4. CASE ~IsEnd(a, o) /\ o # f /\ o # g
      BY <2>2, <3>4 DEF IsEndOf
    <3> QED BY <3>1, <3>2, <3>3, <3>4
  <2>6. \A o, y, u : IsEndOf(a, o, y, u) => y # x
    BY <2>4 DEF IsEndOf
  <2>7. ASSUME NEW o, IsEnd(b, o)
        PROVE  b.file[o].writable \in BOOLEAN /\ EndOpen(b, b.file[o].of, b.file[o].writable)
    <3>1. CASE o = f \/ o = g
      BY <1>10, <2>1, <3>1
    <3>2. CASE IsEnd(a, o)
      <4>1. a.file[o].writable \in BOOLEAN /\ EndOpen(a, a.file[o].of, a.file[o].writable)
        BY <1>2, <3>2 DEF EndsAre
      <4> QED BY <2>1, <2>4, <3>2, <4>1
    <3> QED BY <2>2, <2>7, <3>1, <3>2
  <2>8. \A y, u, o, o2 : IsEndOf(b, o, y, u) /\ IsEndOf(b, o2, y, u) => o = o2
    <3> SUFFICES ASSUME NEW y, NEW u, NEW o, NEW o2, IsEndOf(b, o, y, u), IsEndOf(b, o2, y, u)
                 PROVE  o = o2
      OBVIOUS
    <3>1. CASE y = x
      BY <2>5, <2>6, <3>1
    <3>2. CASE y # x
      <4>1. IsEndOf(a, o, y, u) /\ IsEndOf(a, o2, y, u)
        BY <2>5, <3>2
      <4> QED BY <1>2, <4>1 DEF EndsAre
    <3> QED BY <3>1, <3>2
  <2>9. ASSUME NEW y, NEW u \in BOOLEAN, EndOpen(b, y, u) PROVE \E o : IsEndOf(b, o, y, u)
    <3>1. CASE y = x
      BY <2>5, <3>1
    <3>2. CASE y # x
      <4>1. EndOpen(a, y, u)
        BY <2>1, <2>9, <3>2
      <4> QED BY <1>2, <2>5, <4>1 DEF EndsAre
    <3> QED BY <3>1, <3>2
  <2> QED BY <2>7, <2>8, <2>9 DEF EndsAre
<1>14. Frame(b, a, {q})
  <2>1. ASSUME NEW o \in Holder, o # q, NEW s \in FdSlot, a.fd[o][s] # NoFile
        PROVE  b.file[a.fd[o][s]] = a.file[a.fd[o][s]]
    <3>1. a.fd[o][s] \in 1..NFILE
      BY <2>1, Named
    <3>2. a.fd[o][s] # f /\ a.fd[o][s] # g
      BY <1>1, <2>1, Named, SlotsAre DEF f, g, Fresh
    <3> QED BY <1>10, <3>1, <3>2
  <2> QED BY <1>10, <2>1 DEF Frame
<1>15. Good(b)
  BY <1>9, <1>10, <1>11, <1>12, <1>13 DEF Good, Base
<1> QED BY <1>3, <1>10, <1>14, <1>15

(* Bytes come and go. *)
LEMMA BytesIs ==
  ASSUME NEW a, Good(a), NEW x, NEW i
  PROVE  LET b == [a EXCEPT !.pipe[x].bytes = i] IN Good(b) /\ b.file = a.file /\ b.fd = a.fd
<1> DEFINE z == [a.pipe EXCEPT ![x].bytes = i]
           b == [a EXCEPT !.pipe = z]
<1>1. [a EXCEPT !.pipe[x].bytes = i] = b
  OBVIOUS
<1>2. KernelIs(a) /\ PipesAre(a) /\ EndsAre(a)
  BY DEF Good, Base
<1>3. /\ DOMAIN z = DOMAIN a.pipe
      /\ z = [y \in DOMAIN z |-> z[y]]
      /\ \A y \in DOMAIN z : z[y] = IF y = x THEN [a.pipe[y] EXCEPT !.bytes = i] ELSE a.pipe[y]
  BY <1>2 DEF PipesAre
<1>4. ASSUME NEW y \in DOMAIN z
      PROVE  PipeIs(z[y]) /\ z[y].readopen = a.pipe[y].readopen /\ z[y].writeopen = a.pipe[y].writeopen
  <2> DEFINE p == [a.pipe[y] EXCEPT !.bytes = i]
  <2>1. PipeIs(a.pipe[y])
    BY <1>2, <1>3 DEF PipesAre
  <2>2. p = [bytes |-> i, readopen |-> a.pipe[y].readopen, writeopen |-> a.pipe[y].writeopen, by |-> a.pipe[y].by]
    BY <2>1 DEF PipeIs
  <2> HIDE DEF p
  <2>3. PipeIs(p) /\ p.readopen = a.pipe[y].readopen /\ p.writeopen = a.pipe[y].writeopen
    BY <2>1, <2>2 DEF PipeIs
  <2>4. z[y] = p \/ z[y] = a.pipe[y]
    BY <1>3 DEF p
  <2> HIDE DEF z
  <2> QED BY <2>1, <2>3, <2>4
<1> HIDE DEF z
<1>5. KernelIs(b) /\ b.file = a.file /\ b.fd = a.fd /\ b.panic = a.panic /\ b.pipe = z
  BY <1>2, PipeSetIs
<1> HIDE DEF b
<1>6. PipesAre(b)
  BY <1>2, <1>3, <1>4, <1>5 DEF PipesAre
<1>7. \A y, u : EndOpen(b, y, u) <=> EndOpen(a, y, u)
  BY <1>3, <1>4, <1>5 DEF EndOpen
<1>8. \A f, y, u : (IsEnd(b, f) <=> IsEnd(a, f)) /\ (IsEndOf(b, f, y, u) <=> IsEndOf(a, f, y, u))
  BY <1>5 DEF IsEnd, IsEndOf
<1>9. EndsAre(b)
  <2>1. \A f : IsEnd(b, f) => b.file[f].writable \in BOOLEAN /\ EndOpen(b, b.file[f].of, b.file[f].writable)
    BY <1>2, <1>5, <1>7, <1>8 DEF EndsAre
  <2>2. \A y, u, f, g : IsEndOf(b, f, y, u) /\ IsEndOf(b, g, y, u) => f = g
    BY <1>2, <1>8 DEF EndsAre
  <2>3. \A y : \A u \in BOOLEAN : EndOpen(b, y, u) => \E f : IsEndOf(b, f, y, u)
    BY <1>2, <1>7, <1>8 DEF EndsAre
  <2> QED BY <2>1, <2>2, <2>3 DEF EndsAre
<1>10. Good(b)
  <2>1. Counted(b) /\ FilesAre(b) /\ FdsAre(b) /\ b.panic = FALSE
    BY <1>5 DEF Good, Base, Counted, Refs, FilesAre, FdsAre
  <2> QED BY <1>5, <1>6, <1>9, <2>1 DEF Good, Base
<1> QED BY <1>1, <1>5, <1>10

LEMMA ReadIs ==
  ASSUME NEW a, Good(a), NEW q, NEW d
  PROVE  /\ Good(Read(a, q, d)) /\ Read(a, q, d).file = a.file /\ Read(a, q, d).fd = a.fd
         /\ Good(Write(a, q, d)) /\ Write(a, q, d).file = a.file /\ Write(a, q, d).fd = a.fd
<1> DEFINE x == FileAt(a, q, d).of
           Fine(b) == Good(b) /\ b.file = a.file /\ b.fd = a.fd
<1>1. Read(a, q, d) = a \/ Read(a, q, d) = [a EXCEPT !.pipe[x].bytes = a.pipe[x].bytes - 1]
  BY Zenon DEF Read
<1>2. Write(a, q, d) = a \/ Write(a, q, d) = [a EXCEPT !.pipe[x].bytes = a.pipe[x].bytes + 1]
  BY Zenon DEF Write
<1>3. \A i : Fine([a EXCEPT !.pipe[x].bytes = i])
  BY BytesIs
<1>4. Fine(a)
  OBVIOUS
<1> HIDE DEF x, Fine
<1>5. Fine(Read(a, q, d)) /\ Fine(Write(a, q, d))
  BY <1>1, <1>2, <1>3, <1>4, Zenon
<1> QED BY <1>5, Zenon DEF Fine

-----------------------------------------------------------------------------
(* The loop of kfork(), as a function of the descriptor it has come to.     *)

Given(c, q, child, d) == Filedup([c EXCEPT !.fd[child][d] = c.fd[q][d]], c.fd[q][d])
IsGiving(h, a, q, child, last) ==
  h = [i \in 0..last |-> IF i = 0 THEN a
                         ELSE IF a.fd[q][i - 1] = NoFile THEN h[i - 1]
                         ELSE Given(h[i - 1], q, child, i - 1)]
Passed(c, a, q, child, i) ==
  /\ Good(c) /\ Frame(c, a, {child, q}) /\ c.fd[q] = a.fd[q]
  /\ \A s \in FdSlot : s >= i => c.fd[child][s] = NoFile

LEMMA GivingExists ==
  ASSUME NEW a, NEW q, NEW child
  PROVE  \A i \in Nat : \E h : IsGiving(h, a, q, child, i)
<1> DEFINE S == {i \in Nat : \E h : IsGiving(h, a, q, child, i)}
<1>1. 0 \in S
  <2> DEFINE h == [i \in 0..0 |-> a]
  <2>1. \A i \in 0..0 : i = 0
    OBVIOUS
  <2>2. IsGiving(h, a, q, child, 0)
    BY <2>1 DEF IsGiving
  <2> QED BY <2>2
<1>2. ASSUME NEW i \in Nat, i \in S PROVE i + 1 \in S
  <2>1. PICK h : IsGiving(h, a, q, child, i)
    BY <1>2
  <2> DEFINE g == [j \in 0..(i + 1) |-> IF j = 0 THEN a
                                        ELSE IF a.fd[q][j - 1] = NoFile THEN h[j - 1]
                                        ELSE Given(h[j - 1], q, child, j - 1)]
  <2>2. \A j \in 0..i : g[j] = h[j]
    BY <2>1 DEF IsGiving
  <2>3. \A j \in 0..(i + 1) : j # 0 => j - 1 \in 0..i
    OBVIOUS
  <2>4. \A j \in 0..(i + 1) : j # 0 => g[j - 1] = h[j - 1]
    BY <2>2, <2>3
  <2>5. IsGiving(g, a, q, child, i + 1)
    BY <2>4, Zenon DEF IsGiving
  <2> QED BY <2>5
<1> HIDE DEF S
<1>3. Nat \subseteq S
  BY <1>1, <1>2, Inductive
<1> QED BY <1>3 DEF S

LEMMA Round ==
  ASSUME NEW a, NEW q \in Holder, NEW child \in Holder, q # child, NEW i \in FD,
         NEW c, Passed(c, a, q, child, i)
  PROVE  /\ a.fd[q][i] = NoFile => Passed(c, a, q, child, i + 1)
         /\ a.fd[q][i] # NoFile => Passed(Given(c, q, child, i), a, q, child, i + 1)
<1>1. /\ Good(c) /\ c.fd[q] = a.fd[q] /\ i \in Nat /\ i \in FdSlot
      /\ c.fd[child][i] = NoFile /\ FdSlot \subseteq Int
  BY SlotsAre, TablesAssumption DEF Passed, FD, FdSlot
<1>2. \A s \in FdSlot : s >= i + 1 => s >= i /\ s # i
  <2>1. i \in Int
    BY <1>1
  <2>2. \A s \in Int : s >= i + 1 => s >= i /\ s # i
    BY <2>1
  <2> QED BY <1>1, <2>2
<1>3. CASE a.fd[q][i] = NoFile
  <2>1. \A s \in FdSlot : s >= i + 1 => c.fd[child][s] = NoFile
    BY <1>2 DEF Passed
  <2> QED BY <1>3, <2>1 DEF Passed
<1>4. CASE a.fd[q][i] # NoFile
  <2> DEFINE b == Given(c, q, child, i)
  <2>1. Good(b) /\ Frame(b, c, {child, q}) /\ SetFd(b, c, child, i, c.fd[q][i])
    BY <1>1, <1>4, FiledupIs DEF Given
  <2> HIDE DEF b
  <2>2. Frame(b, a, {child, q})
    BY <2>1, FrameTwice DEF Passed
  <2>3. b.fd[q] = a.fd[q] /\ \A s \in FdSlot : s # i => b.fd[child][s] = c.fd[child][s]
    BY <1>1, <2>1 DEF SetFd, Good, Base, FdsAre
  <2>4. \A s \in FdSlot : s >= i + 1 => b.fd[child][s] = NoFile
    BY <1>2, <2>3 DEF Passed
  <2> QED BY <1>4, <2>1, <2>2, <2>3, <2>4 DEF Passed, b
<1> QED BY <1>3, <1>4

LEMMA ForkFilesIs ==
  ASSUME NEW a, Good(a), NEW q \in Holder, NEW child \in Holder, q # child,
         \A s \in FdSlot : a.fd[child][s] = NoFile
  PROVE  LET b == ForkFiles(a, q, child) IN
         /\ Good(b) /\ Frame(b, a, {child, q}) /\ b.fd[q] = a.fd[q]
         /\ \A s \in FdSlot \ FD : b.fd[child][s] = NoFile
<1> DEFINE h == CHOOSE h : IsGiving(h, a, q, child, NOFILE)
<1>1. ForkFiles(a, q, child) = h[NOFILE]
  BY Zenon DEF ForkFiles, IsGiving, Given
<1>2. IsGiving(h, a, q, child, NOFILE)
  <2>1. \E g : IsGiving(g, a, q, child, NOFILE)
    BY GivingExists, TablesAssumption
  <2> QED BY <2>1, Zenon
<1> HIDE DEF h
<1> DEFINE S == {i \in Nat : i <= NOFILE => Passed(h[i], a, q, child, i)}
<1>3. 0 \in S
  <2>1. h[0] = a
    BY <1>2, TablesAssumption DEF IsGiving
  <2>2. Passed(a, a, q, child, 0)
    BY DEF Passed, Frame
  <2> QED BY <2>1, <2>2
<1>4. ASSUME NEW i \in Nat, i \in S PROVE i + 1 \in S
  <2> SUFFICES ASSUME i + 1 <= NOFILE PROVE Passed(h[i + 1], a, q, child, i + 1)
    OBVIOUS
  <2>1. i \in FD /\ i + 1 \in 0..NOFILE /\ i + 1 # 0 /\ (i + 1) - 1 = i
    BY TablesAssumption DEF FD
  <2>2. Passed(h[i], a, q, child, i)
    BY <1>4, TablesAssumption
  <2>3. h[i + 1] = IF a.fd[q][i] = NoFile THEN h[i] ELSE Given(h[i], q, child, i)
    <3>1. h[i + 1] = IF i + 1 = 0 THEN a
                     ELSE IF a.fd[q][(i + 1) - 1] = NoFile THEN h[(i + 1) - 1]
                     ELSE Given(h[(i + 1) - 1], q, child, (i + 1) - 1)
      BY <1>2, <2>1, Zenon DEF IsGiving
    <3> QED BY <2>1, <3>1
  <2> QED BY <2>1, <2>2, <2>3, Round
<1> HIDE DEF S
<1>5. Nat \subseteq S
  BY <1>3, <1>4, Inductive
<1>6. Passed(h[NOFILE], a, q, child, NOFILE)
  BY <1>5, TablesAssumption DEF S
<1>7. \A s \in FdSlot \ FD : s >= NOFILE
  BY TablesAssumption DEF FdSlot, FD
<1> QED BY <1>1, <1>6, <1>7 DEF Passed

-----------------------------------------------------------------------------
(* The processes.                                                          *)

InCall == {"user", "second", "page", "fds", "undo"}
(* What a process holds, by where in a call it is. *)
PlaceIs(a, i, q) ==
  /\ i = "user" => \A s \in FdSlot \ FD : a.fd[q][s] = NoFile
  /\ i = "second" => Fresh(a, q, Rf) /\ a.fd[q][Wf] = NoFile
  /\ i = "page" => Fresh(a, q, Rf) /\ Fresh(a, q, Wf)
  /\ i = "fds" => a.fd[q][Rf] # NoFile

(* Besides the counts: a process in a call holds what it has allocated, and *)
(* nobody else does; one that does not run has no file, so the child that   *)
(* fork() fills starts with none.                                           *)
ShellInv ==
  /\ Good(k)
  /\ state \in [Task -> {"unused", "run", "zombie"}] /\ place \in [Task -> InCall]
  /\ \A q \in Task : PlaceIs(k, place[q], q)
  /\ \A q \in Task : state[q] # "run" => place[q] = "user" /\ Opened(k, q) = {}

LEMMA InitCounts == ShellInit => Good(k) /\ \A q \in Holder : \A s \in FdSlot \ FD : k.fd[q][s] = NoFile
<1> SUFFICES ASSUME ShellInit PROVE Good(k) /\ \A q \in Holder : \A s \in FdSlot \ FD : k.fd[q][s] = NoFile
  OBVIOUS
<1> DEFINE console == [ref |-> 6, type |-> "device", of |-> {}, readable |-> TRUE, writable |-> TRUE]
           entry(f) == IF f > 1 THEN NoneFile ELSE console
           fds == [q \in Holder |-> [d \in FdSlot |-> IF d < 3 /\ q \in {Initproc, Shell} THEN 1 ELSE NoFile]]
<1>1. k = [file |-> [f \in 1..NFILE |-> entry(f)], fd |-> fds, pipe |-> <<>>, panic |-> FALSE]
  BY DEF ShellInit, Holder
<1>2. /\ KernelIs(k) /\ k.panic = FALSE /\ k.file = [f \in 1..NFILE |-> entry(f)]
      /\ k.fd = fds /\ k.pipe = <<>>
  <2> HIDE DEF entry, fds
  <2> QED BY <1>1 DEF KernelIs
<1>3. FdsAre(k)
  BY <1>2, TablesAssumption DEF FdsAre, NoFile
<1>4. FilesAre(k) /\ \A f \in 1..NFILE : k.file[f].type # "pipe"
  <2>1. \A f : FileIs(entry(f)) /\ entry(f).ref \in Nat /\ (entry(f).ref = 0 => entry(f).type = "none")
               /\ entry(f).type # "pipe"
    <3>1. FileIs(console) /\ console.ref = 6 /\ console.type = "device"
      BY DEF FileIs
    <3>2. FileIs(NoneFile) /\ NoneFile.ref = 0 /\ NoneFile.type = "none"
      BY DEF FileIs, NoneFile
    <3> HIDE DEF console
    <3> QED BY <3>1, <3>2
  <2> HIDE DEF entry
  <2> QED BY <1>2, <2>1 DEF FilesAre
<1>5. ASSUME NEW f \in 1..NFILE PROVE k.file[f].ref = Cardinality(Refs(k, f))
  <2>1. CASE f = 1
    <3>1. k.file[f].ref = 6
      BY <1>2, <2>1
    <3>2. Refs(k, f) = (0..1) \X (0..2)
      <4>1. Initproc = 0 /\ Shell = 1 /\ 1 \in Task /\ 0..2 \subseteq FdSlot /\ FdSlot \subseteq Nat
        BY TablesAssumption, TasksAssumption DEF Initproc, Shell, Task, FdSlot
      <4>2. 0..1 = {0, 1} /\ 0..1 \subseteq Holder
        BY <4>1 DEF Holder
      <4>3. ASSUME NEW x \in Holder, NEW d \in FdSlot
            PROVE  (k.fd[x][d] = 1) <=> (x \in 0..1 /\ d \in 0..2)
        BY <1>2, <4>1, <4>2 DEF NoFile
      <4>4. Refs(k, f) = {x \in Holder \X FdSlot : x[1] \in 0..1 /\ x[2] \in 0..2}
        BY <2>1, <4>3 DEF Refs
      <4>5. 0..1 \subseteq Holder /\ 0..2 \subseteq FdSlot
        BY <4>1, <4>2
      <4> QED BY <4>4, <4>5
    <3>3. IsFiniteSet(0..1) /\ Cardinality(0..1) = 2
      BY FS_Interval, 0 \in Int, 1 \in Int, ~(0 > 1), 1 - 0 + 1 = 2
    <3>4. IsFiniteSet(0..2) /\ Cardinality(0..2) = 3
      BY FS_Interval, 0 \in Int, 2 \in Int, ~(0 > 2), 2 - 0 + 1 = 3
    <3>5. Cardinality((0..1) \X (0..2)) = 2 * 3
      BY <3>3, <3>4, FS_Product
    <3> QED BY <3>1, <3>2, <3>5
  <2>2. CASE f # 1
    <3>1. k.file[f].ref = 0
      BY <1>2, <2>2 DEF NoneFile
    <3>2. Refs(k, f) = {}
      BY <1>2, <2>2 DEF Refs, NoFile
    <3> QED BY <3>1, <3>2, FS_EmptySet
  <2> QED BY <2>1, <2>2
<1>6. PipesAre(k)
  BY <1>2 DEF PipesAre
<1>7. EndsAre(k)
  <2>1. \A f : ~IsEnd(k, f)
    BY <1>4 DEF IsEnd
  <2>2. \A x, v : ~EndOpen(k, x, v)
    BY <1>2 DEF EndOpen
  <2> QED BY <2>1, <2>2 DEF EndsAre, IsEndOf
<1>8. ASSUME NEW q \in Holder, NEW s \in FdSlot \ FD PROVE k.fd[q][s] = NoFile
  BY <1>2, TablesAssumption DEF FdSlot, FD
<1> QED BY <1>2, <1>3, <1>4, <1>5, <1>6, <1>7, <1>8 DEF Good, Base, Counted

LEMMA ShellInitInv == ShellInit => ShellInv
<1> SUFFICES ASSUME ShellInit PROVE ShellInv
  OBVIOUS
<1>1. Good(k) /\ \A q \in Holder : \A s \in FdSlot \ FD : k.fd[q][s] = NoFile
  BY InitCounts
<1>2. state = [q \in Task |-> IF q = Shell THEN "run" ELSE "unused"] /\ place = [q \in Task |-> "user"]
  BY DEF ShellInit
<1>3. ASSUME NEW q \in Task, q # Shell PROVE Opened(k, q) = {}
  <2>1. k.fd[q] = [d \in FdSlot |-> NoFile]
    BY <1>3, TasksAssumption DEF ShellInit, Task, Initproc
  <2> QED BY <2>1, SlotsAre DEF Opened, FreeFds
<1>4. \A q \in Task : PlaceIs(k, place[q], q)
  BY <1>1, <1>2 DEF PlaceIs, Holder
<1> QED BY <1>1, <1>2, <1>3, <1>4 DEF ShellInv, InCall

(* What others do leaves a process where it is. *)
LEMMA OthersKeep ==
  ASSUME ShellInv, NEW S, Frame(k', k, S), NEW q \in Task, q \notin S
  PROVE  PlaceIs(k', place[q], q) /\ Opened(k', q) = Opened(k, q)
<1>1. q \in Holder \ S
  BY DEF Holder
<1>2. k'.fd[q] = k.fd[q]
  BY <1>1 DEF Frame
<1>3. ASSUME NEW s \in FdSlot, Fresh(k, q, s) PROVE Fresh(k', q, s)
  BY <1>1, <1>2, <1>3 DEF Frame, Fresh
<1>4. PlaceIs(k, place[q], q)
  BY DEF ShellInv
<1> QED BY <1>2, <1>3, <1>4, SlotsAre DEF PlaceIs, Opened, FreeFds

(* A step of q within the kernel. *)
LEMMA KernelStep ==
  ASSUME ShellInv, NEW q \in Task, state[q] = "run", state' = state, NEW i \in InCall,
         place' = [place EXCEPT ![q] = i], Good(k'), Frame(k', k, {q}), PlaceIs(k', i, q)
  PROVE  ShellInv'
<1>1. place' \in [Task -> InCall] /\ place'[q] = i /\ \A x \in Task : x # q => place'[x] = place[x]
  BY DEF ShellInv
<1>2. ASSUME NEW x \in Task, x # q PROVE PlaceIs(k', place'[x], x) /\ Opened(k', x) = Opened(k, x)
  BY <1>1, <1>2, OthersKeep
<1> QED BY <1>1, <1>2 DEF ShellInv

(* A step of q that stays where it is. *)
LEMMA StayStep ==
  ASSUME ShellInv, NEW q \in Task, state[q] = "run", state' = state, place' = place,
         Good(k'), Frame(k', k, {q}), PlaceIs(k', place[q], q)
  PROVE  ShellInv'
<1>1. place' = [place EXCEPT ![q] = place[q]] /\ place[q] \in InCall
  BY DEF ShellInv
<1> QED BY <1>1, KernelStep

LEMMA FilesKeep ==
  ASSUME ShellInv, NEW q \in Task, FilesStep(q) PROVE ShellInv'
<1>1. Good(k) /\ q \in Holder /\ PlaceIs(k, place[q], q)
  BY DEF ShellInv, Holder
<1>2. state[q] = "run" /\ state' = state /\ place' = place /\ place[q] = "user"
  BY DEF FilesStep, At
<1>3. PICK d : k' = Close(k, q, d) \/ k' = Dup(k, q, d)
  BY Zenon DEF FilesStep
<1>4. Good(k') /\ Frame(k', k, {q}) /\ \A s \in FdSlot \ FD : k'.fd[q][s] = k.fd[q][s]
  <2>1. CASE k' = Close(k, q, d)
    BY <1>1, <2>1, CloseIs
  <2>2. CASE k' = Dup(k, q, d)
    BY <1>1, <2>2, DupIs
  <2> QED BY <1>3, <2>1, <2>2
<1>5. PlaceIs(k', "user", q)
  BY <1>1, <1>2, <1>4 DEF PlaceIs
<1> QED BY <1>2, <1>4, <1>5, StayStep

(* A step that leaves the files alone, on the way to the clean-up. *)
LEMMA UndoKeeps ==
  ASSUME ShellInv, NEW q \in Task, state[q] = "run", state' = state, k' = k,
         place' = [place EXCEPT ![q] = "undo"]
  PROVE  ShellInv'
<1>1. Good(k') /\ Frame(k', k, {q}) /\ PlaceIs(k', "undo", q) /\ "undo" \in InCall
  BY DEF ShellInv, PlaceIs, InCall, Frame
<1> QED BY <1>1, KernelStep

LEMMA OpenKeeps ==
  ASSUME ShellInv, NEW q \in Task, OpenStep(q) PROVE ShellInv'
<1> DEFINE c == Filealloc(k, q, Rf)
           f == c.fd[q][Rf]
           of == {Arg(q).file}
           v == Arg(q).writable
           b == Cleared(Become(Fdalloc(c, q, Rf), f, "inode", of, v), q, {Rf})
<1>1. Good(k) /\ q \in Holder /\ PlaceIs(k, place[q], q)
  BY DEF ShellInv, Holder
<1>2. state[q] = "run" /\ state' = state /\ place[q] = "user"
  BY DEF OpenStep, At
<1>3. k.fd[q][Rf] = NoFile /\ k.fd[q][Wf] = NoFile
  BY <1>1, <1>2, SlotsAre DEF PlaceIs
<1>4. \/ k' = k /\ place' = [place EXCEPT ![q] = "user"]
      \/ FreeFiles(k) # {} /\ k' = c /\ place' = [place EXCEPT ![q] = "undo"]
      \/ FreeFiles(k) # {} /\ FreeFds(k, q) # {} /\ k' = b /\ place' = [place EXCEPT ![q] = "user"]
  BY Zenon DEF OpenStep, Fail, Undo, Return, Enter
<1> HIDE DEF b
<1>5. CASE k' = k /\ place' = [place EXCEPT ![q] = "user"]
  BY <1>1, <1>2, <1>5, KernelStep DEF Frame, InCall
<1>6. CASE FreeFiles(k) # {} /\ k' # k
  <2>1. /\ Good(c) /\ Frame(c, k, {q}) /\ Fresh(c, q, Rf) /\ SetFd(c, k, q, Rf, Min(FreeFiles(k)))
        /\ \A z \in FdSlot \ {Rf} : c.fd[q][z] = k.fd[q][z]
    <3>1. Rf \in FdSlot
      BY SlotsAre
    <3> QED BY <1>1, <1>3, <1>6, <3>1, FileallocIs
  <2> HIDE DEF c
  <2>2. CASE k' = c /\ place' = [place EXCEPT ![q] = "undo"]
    <3>1. PlaceIs(k', "undo", q) /\ "undo" \in InCall
      BY DEF PlaceIs, InCall
    <3>2. Good(k') /\ Frame(k', k, {q})
      BY <2>1, <2>2
    <3> QED BY <1>2, <2>2, <3>1, <3>2, KernelStep
  <2>3. CASE FreeFds(k, q) # {} /\ k' = b /\ place' = [place EXCEPT ![q] = "user"]
    <3>1. FreeFds(c, q) # {} /\ c.fd[q][Wf] = NoFile
      BY <1>3, <2>1, <2>3, SlotsAre DEF FreeFds
    <3>2. Good(b) /\ Frame(b, c, {q}) /\ \A s \in FdSlot \ FD : b.fd[q][s] = NoFile
      <4> HIDE DEF of, v
      <4>1. b = Installed(c, q, of, v)
        BY DEF b, Installed
      <4> QED BY <1>1, <2>1, <3>1, <4>1, OpenIs
    <3>3. Frame(b, k, {q})
      BY <2>1, <3>2, FrameTwice
    <3>4. PlaceIs(b, "user", q) /\ "user" \in InCall
      BY <3>2 DEF PlaceIs, InCall
    <3>5. Good(k') /\ Frame(k', k, {q}) /\ PlaceIs(k', "user", q)
      BY <2>3, <3>2, <3>3, <3>4
    <3> QED BY <1>2, <2>3, <3>4, <3>5, KernelStep
  <2> QED BY <1>4, <1>6, <2>2, <2>3
<1>7. CASE k' = k /\ place' = [place EXCEPT ![q] = "undo"]
  BY <1>2, <1>7, UndoKeeps
<1> HIDE DEF c
<1> QED BY <1>1, <1>4, <1>5, <1>6, <1>7

(* pipealloc(), a file for each end. *)
LEMMA FilesOfPipe ==
  ASSUME ShellInv, NEW q \in Task, PipeFirst(q) \/ PipeSecond(q) PROVE ShellInv'
<1>1. Good(k) /\ q \in Holder /\ PlaceIs(k, place[q], q) /\ state[q] = "run" /\ state' = state
  BY DEF ShellInv, Holder, PipeFirst, PipeSecond, At, In
<1>2. \/ k' = k /\ (place' = [place EXCEPT ![q] = "undo"] \/ (place' = [place EXCEPT ![q] = "user"] /\ place[q] = "user"))
      \/ /\ FreeFiles(k) # {} /\ k' = Filealloc(k, q, Rf)
         /\ place' = [place EXCEPT ![q] = "second"] /\ place[q] = "user"
      \/ /\ FreeFiles(k) # {} /\ k' = Filealloc(k, q, Wf)
         /\ place' = [place EXCEPT ![q] = "page"] /\ place[q] = "second"
  <2>1. CASE PipeFirst(q)
    BY <2>1, Zenon DEF PipeFirst, At, Fail, Enter
  <2>2. CASE PipeSecond(q)
    <3>1. place[q] = "second"
      BY <2>2 DEF PipeSecond, In
    <3>2. \/ k' = k /\ place' = [place EXCEPT ![q] = "undo"]
          \/ FreeFiles(k) # {} /\ k' = Filealloc(k, q, Wf) /\ place' = [place EXCEPT ![q] = "page"]
      BY <2>2, Zenon DEF PipeSecond, Undo, Enter
    <3> QED BY <3>1, <3>2
  <2> QED BY <2>1, <2>2
<1>3. CASE k' = k /\ (place' = [place EXCEPT ![q] = "undo"] \/ (place' = [place EXCEPT ![q] = "user"] /\ place[q] = "user"))
  <2>1. PlaceIs(k', "undo", q) /\ "undo" \in InCall /\ "user" \in InCall /\ Frame(k', k, {q}) /\ Good(k')
    BY <1>1, <1>3 DEF PlaceIs, InCall, Frame
  <2>2. place[q] = "user" => PlaceIs(k', "user", q)
    BY <1>1, <1>3
  <2> QED BY <1>1, <1>3, <2>1, <2>2, KernelStep
<1>4. CASE /\ FreeFiles(k) # {} /\ k' = Filealloc(k, q, Rf)
           /\ place' = [place EXCEPT ![q] = "second"] /\ place[q] = "user"
  <2>1. k.fd[q][Rf] = NoFile /\ k.fd[q][Wf] = NoFile
    BY <1>1, <1>4, SlotsAre DEF PlaceIs
  <2>2. Good(k') /\ Frame(k', k, {q}) /\ Fresh(k', q, Rf) /\ \A z \in FdSlot \ {Rf} : k'.fd[q][z] = k.fd[q][z]
    <3>1. Rf \in FdSlot
      BY SlotsAre
    <3> QED BY <1>1, <1>4, <2>1, <3>1, FileallocIs
  <2>3. PlaceIs(k', "second", q) /\ "second" \in InCall
    BY <2>1, <2>2, SlotsAre DEF PlaceIs, InCall
  <2> QED BY <1>1, <1>4, <2>2, <2>3, KernelStep
<1>5. CASE /\ FreeFiles(k) # {} /\ k' = Filealloc(k, q, Wf)
           /\ place' = [place EXCEPT ![q] = "page"] /\ place[q] = "second"
  <2>1. Fresh(k, q, Rf) /\ k.fd[q][Wf] = NoFile
    BY <1>1, <1>5 DEF PlaceIs
  <2>2. /\ Good(k') /\ Frame(k', k, {q}) /\ Fresh(k', q, Wf)
        /\ \A z \in FdSlot \ {Wf} : Fresh(k, q, z) => Fresh(k', q, z)
    BY <1>1, <1>5, <2>1, SlotsAre, FileallocIs
  <2>3. PlaceIs(k', "page", q) /\ "page" \in InCall
    BY <2>1, <2>2, SlotsAre DEF PlaceIs, InCall
  <2> QED BY <1>1, <1>5, <2>2, <2>3, KernelStep
<1> QED BY <1>2, <1>3, <1>4, <1>5

LEMMA PageKeeps ==
  ASSUME ShellInv, NEW q \in Task, PipePage(q) PROVE ShellInv'
<1>1. /\ Good(k) /\ q \in Holder /\ PlaceIs(k, place[q], q)
      /\ state[q] = "run" /\ state' = state /\ place[q] = "page"
  BY DEF ShellInv, Holder, PipePage, In
<1>2. \/ k' = k /\ place' = [place EXCEPT ![q] = "undo"]
      \/ /\ FreePages(k) # {} /\ k' = Pipealloc(k, q, Arg(q).by)
         /\ place' = [place EXCEPT ![q] = "fds"]
  BY Zenon DEF PipePage, Undo, Enter
<1>3. CASE FreePages(k) # {} /\ k' = Pipealloc(k, q, Arg(q).by) /\ place' = [place EXCEPT ![q] = "fds"]
  <2>1. Fresh(k, q, Rf) /\ Fresh(k, q, Wf)
    BY <1>1 DEF PlaceIs
  <2>2. Good(k') /\ Frame(k', k, {q}) /\ k'.fd = k.fd
    BY <1>1, <1>3, <2>1, PipeallocIs
  <2>3. PlaceIs(k', "fds", q) /\ "fds" \in InCall
    BY <2>1, <2>2 DEF PlaceIs, InCall, Fresh
  <2> QED BY <1>1, <1>3, <2>2, <2>3, KernelStep
<1> QED BY <1>1, <1>2, <1>3, UndoKeeps

LEMMA FdsKeep ==
  ASSUME ShellInv, NEW q \in Task, PipeFds(q) PROVE ShellInv'
<1> DEFINE i == Min(FreeFds(k, q))
           c == Fdalloc(k, q, Rf)
           j == Min(FreeFds(c, q))
           d == Fdalloc(c, q, Wf)
           b == Cleared(d, q, {Rf, Wf})
<1>1. /\ Good(k) /\ q \in Holder /\ PlaceIs(k, place[q], q)
      /\ state[q] = "run" /\ state' = state /\ place[q] = "fds"
  BY DEF ShellInv, Holder, PipeFds, In
<1>2. \/ k' = k /\ place' = [place EXCEPT ![q] = "undo"]
      \/ FreeFds(k, q) # {} /\ k' = Cleared(c, q, {i}) /\ place' = [place EXCEPT ![q] = "undo"]
      \/ /\ FreeFds(k, q) # {} /\ FreeFds(c, q) # {}
         /\ k' = Cleared(d, q, {i, j}) /\ place' = [place EXCEPT ![q] = "undo"]
      \/ /\ FreeFds(k, q) # {} /\ FreeFds(c, q) # {}
         /\ k' = b /\ place' = [place EXCEPT ![q] = "user"]
  BY Zenon DEF PipeFds, Undo, Return, Enter
<1>3. k.fd[q][Rf] # NoFile
  BY <1>1 DEF PlaceIs
<1>4. FreeFds(k, q) # {} => Cleared(c, q, {i}) = k /\ (FreeFds(c, q) # {} => Cleared(d, q, {i, j}) = k)
  BY <1>1, <1>3, PipeFdsFail
<1>5. FreeFds(k, q) # {} /\ FreeFds(c, q) # {} =>
        Good(b) /\ Frame(b, k, {q}) /\ \A s \in FdSlot \ FD : b.fd[q][s] = NoFile
  BY <1>1, <1>3, PipeFdsDone
<1> HIDE DEF b, c, d, i, j
<1>6. CASE k' = k /\ place' = [place EXCEPT ![q] = "undo"]
  BY <1>1, <1>6, UndoKeeps
<1>7. CASE FreeFds(k, q) # {} /\ FreeFds(c, q) # {} /\ k' = b /\ place' = [place EXCEPT ![q] = "user"]
  <2>1. Good(k') /\ Frame(k', k, {q}) /\ PlaceIs(k', "user", q) /\ "user" \in InCall
    BY <1>5, <1>7 DEF PlaceIs, InCall
  <2> QED BY <1>1, <1>7, <2>1, KernelStep
<1> QED BY <1>2, <1>4, <1>6, <1>7

(* The clean-up, one file at a time. *)
LEMMA CleanUpKeeps ==
  ASSUME ShellInv, NEW q \in Task, UndoStep(q) PROVE ShellInv'
<1>1. /\ Good(k) /\ q \in Holder /\ PlaceIs(k, place[q], q)
      /\ state[q] = "run" /\ state' = state /\ place[q] = "undo"
  BY DEF ShellInv, Holder, UndoStep, In
<1>2. CASE Held(k, q) = {}
  <2>1. k' = k /\ place' = [place EXCEPT ![q] = "user"]
    BY <1>2, Zenon DEF UndoStep, Fail, Enter
  <2>2. Good(k') /\ Frame(k', k, {q}) /\ PlaceIs(k', "user", q) /\ "user" \in InCall
    BY <1>1, <1>2, <2>1, SlotsAre DEF PlaceIs, InCall, Frame, Held
  <2> QED BY <1>1, <2>1, <2>2, KernelStep
<1>3. CASE Held(k, q) # {}
  <2>1. k' = Drop(k, q, Min(Held(k, q))) /\ place' = place
    BY <1>3, Zenon DEF UndoStep
  <2>2. Min(Held(k, q)) \in Held(k, q)
    <3>1. Held(k, q) \subseteq Nat
      BY TablesAssumption DEF Held, Rf, Wf
    <3> QED BY <1>3, <3>1, MinIs
  <2>3. Min(Held(k, q)) \in FdSlot /\ k.fd[q][Min(Held(k, q))] # NoFile
    BY <2>2, SlotsAre DEF Held
  <2>4. Good(k') /\ Frame(k', k, {q})
    BY <1>1, <2>1, <2>3, DropIs
  <2>5. PlaceIs(k', place[q], q)
    BY <1>1 DEF PlaceIs
  <2> QED BY <1>1, <2>1, <2>4, <2>5, StayStep
<1> QED BY <1>2, <1>3

LEMMA ForkKeeps ==
  ASSUME ShellInv, NEW q \in Task, ForkStep(q) PROVE ShellInv'
<1> DEFINE unused == {c \in Task : state[c] = "unused"}
           child == Min(unused)
<1>1. state[q] = "run" /\ place[q] = "user" /\ PlaceIs(k, place[q], q)
  BY DEF ForkStep, At, ShellInv
<1>2. CASE unused = {}
  <2>1. k' = k /\ state' = state /\ place' = [place EXCEPT ![q] = "user"]
    BY <1>2, Zenon DEF ForkStep, Fail, Enter
  <2>2. Good(k') /\ Frame(k', k, {q}) /\ PlaceIs(k', "user", q) /\ "user" \in InCall
    BY <1>1, <2>1 DEF ShellInv, Frame, InCall
  <2> QED BY <1>1, <2>1, <2>2, KernelStep
<1>3. CASE unused # {}
  <2>1. k' = ForkFiles(k, q, child) /\ state' = [state EXCEPT ![child] = "run"] /\ place' = place
    BY <1>3 DEF ForkStep
  <2>2. child \in unused
    <3>1. unused \subseteq Nat
      BY TasksAssumption DEF Task
    <3> QED BY <1>3, <3>1, MinIs
  <2>3. child \in Task /\ state[child] = "unused" /\ place[child] = "user"
    BY <2>2 DEF ShellInv
  <2> HIDE DEF child
  <2>4. Good(k) /\ q # child /\ q \in Holder /\ child \in Holder /\ \A s \in FdSlot : k.fd[child][s] = NoFile
    BY <1>1, <2>3, SlotsAre DEF ShellInv, Holder, PlaceIs, Opened, FreeFds
  <2>5. /\ Good(k') /\ Frame(k', k, {child, q}) /\ k'.fd[q] = k.fd[q]
        /\ \A s \in FdSlot \ FD : k'.fd[child][s] = NoFile
    BY <2>1, <2>4, ForkFilesIs
  <2>6. ASSUME NEW x \in Task, x \notin {child, q}
        PROVE  PlaceIs(k', place'[x], x) /\ Opened(k', x) = Opened(k, x)
    BY <2>1, <2>5, <2>6, OthersKeep
  <2>7. PlaceIs(k', place'[q], q) /\ PlaceIs(k', place'[child], child)
    BY <1>1, <2>1, <2>3, <2>5 DEF PlaceIs
  <2>8. state'[child] = "run" /\ \A x \in Task : x # child => state'[x] = state[x]
    BY <2>1, <2>3 DEF ShellInv
  <2> QED BY <1>1, <2>1, <2>3, <2>5, <2>6, <2>7, <2>8 DEF ShellInv
<1> QED BY <1>2, <1>3

LEMMA ExitKeeps ==
  ASSUME ShellInv, NEW q \in Task, ExitStep(q) PROVE ShellInv'
<1>1. /\ Good(k) /\ q \in Holder /\ PlaceIs(k, place[q], q)
      /\ state[q] = "run" /\ place[q] = "user" /\ place' = place
  BY DEF ExitStep, At, ShellInv, Holder
<1>2. CASE Opened(k, q) # {}
  <2>1. k' = Close(k, q, Min(Opened(k, q))) /\ state' = state
    BY <1>2 DEF ExitStep
  <2>2. Good(k') /\ Frame(k', k, {q}) /\ \A s \in FdSlot \ FD : k'.fd[q][s] = k.fd[q][s]
    BY <1>1, <2>1, CloseIs
  <2>3. PlaceIs(k', place[q], q)
    BY <1>1, <2>2 DEF PlaceIs
  <2> QED BY <1>1, <2>1, <2>2, <2>3, StayStep
<1>3. CASE Opened(k, q) = {}
  <2>1. k' = k /\ state' = [state EXCEPT ![q] = "zombie"]
    BY <1>3 DEF ExitStep
  <2> QED BY <1>1, <1>3, <2>1 DEF ShellInv
<1> QED BY <1>2, <1>3

LEMMA BytesKeep ==
  ASSUME ShellInv, NEW q \in Task, ReadStep(q) \/ WriteStep(q) PROVE ShellInv'
<1>1. /\ Good(k) /\ q \in Holder /\ PlaceIs(k, place[q], q)
      /\ state[q] = "run" /\ place[q] = "user" /\ place' = place /\ state' = state
  BY DEF ReadStep, WriteStep, At, ShellInv, Holder
<1>2. k' = k \/ k' = Read(k, q, 0) \/ k' = Write(k, q, 1)
  BY Zenon DEF ReadStep, WriteStep
<1>3. Good(k') /\ k'.file = k.file /\ k'.fd = k.fd
  BY <1>1, <1>2, ReadIs
<1>4. Frame(k', k, {q}) /\ PlaceIs(k', place[q], q)
  BY <1>1, <1>3 DEF Frame, PlaceIs, Fresh
<1> QED BY <1>1, <1>3, <1>4, StayStep

LEMMA ShellStep ==
  ASSUME ShellInv, NEW q \in Task, Step(q) PROVE ShellInv'
<1>1. CASE WaitStep(q)
  <2>1. k' = k /\ place' = place
        /\ (state' = state \/ \E c \in Task : state[c] = "zombie" /\ state' = [state EXCEPT ![c] = "unused"])
    BY <1>1 DEF WaitStep
  <2> QED BY <2>1 DEF ShellInv
<1>2. CASE InitReaps(q)
  BY <1>2 DEF InitReaps, ShellInv
<1>3. CASE RunStep(q) \/ ExecStep(q) \/ AnyStep(q)
  <2>1. k' = k /\ state' = state /\ place' = place
    BY <1>3 DEF RunStep, ExecStep, AnyStep
  <2> QED BY <2>1 DEF ShellInv
<1> QED BY <1>1, <1>2, <1>3, FilesKeep, OpenKeeps, FilesOfPipe, PageKeeps, FdsKeep, CleanUpKeeps,
           ForkKeeps, ExitKeeps, BytesKeep DEF Step

(* The counts of open files and the processes that may hold them, over every *)
(* call the shell and its programs make (kernel/file.c, user/sh.c).          *)
THEOREM ShellInvariant == ShellSpec => []ShellInv
<1>1. ShellInit => ShellInv
  BY ShellInitInv
<1>2. ShellInv /\ [ShellNext]_shellVars => ShellInv'
  <2> SUFFICES ASSUME ShellInv, [ShellNext]_shellVars PROVE ShellInv'
    OBVIOUS
  <2>1. CASE ShellNext
    BY <2>1, ShellStep DEF ShellNext
  <2>2. CASE UNCHANGED shellVars
    BY <2>2 DEF ShellInv, shellVars
  <2> QED BY <2>1, <2>2
<1> QED BY <1>1, <1>2, PTL DEF ShellSpec

LEMMA EndCounted ==
  ASSUME Good(k), NEW x, NEW v \in BOOLEAN
  PROVE  Cardinality(Ends(x, v)) = IF EndOpen(k, x, v) THEN 1 ELSE 0
<1>1. \A f : f \in Ends(x, v) <=> IsEndOf(k, f, x, v)
  BY DEF Ends, IsEndOf, IsEnd
<1>2. CASE EndOpen(k, x, v)
  <2>1. PICK f : IsEndOf(k, f, x, v)
    BY <1>2 DEF Good, EndsAre
  <2>2. Ends(x, v) = {f}
    BY <1>1, <2>1 DEF Good, EndsAre
  <2> QED BY <1>2, <2>2, FS_Singleton
<1>3. CASE ~EndOpen(k, x, v)
  <2>1. Ends(x, v) = {}
    BY <1>1, <1>3 DEF Good, EndsAre, IsEndOf
  <2> QED BY <1>3, <2>1, FS_EmptySet
<1> QED BY <1>2, <1>3

(* file.c:46-83, pipe.c:48-56, sysfile.c:344-350 and :483-502: whatever is   *)
(* typed, however many processes, files, descriptors and pages there are,    *)
(* and at whichever step a fork, a dup, an open or a pipe finds no room and  *)
(* closes again what it has: each count in the file table is the number of   *)
(* descriptors and pointers that name the entry, a call that is over holds   *)
(* nothing, and a pipe's end is open just as long as one file is that end.   *)
THEOREM ShellFilesCounted == ShellSpec => []FilesCounted
<1>1. ShellInv => FilesCounted
  <2> SUFFICES ASSUME ShellInv PROVE FilesCounted
    OBVIOUS
  <2>1. DOMAIN k.fd = Holder /\ k.panic = FALSE /\ Good(k)
    BY DEF ShellInv, Good, Base, FdsAre
  <2>2. \A f \in 1..NFILE :
          k.file[f].ref = Cardinality({x \in (DOMAIN k.fd) \X FdSlot : k.fd[x[1]][x[2]] = f})
    BY <2>1 DEF Good, Counted, Refs
  <2>3. \A q \in Task : Held(k, q) # {} => place[q] # "user"
    BY SlotsAre DEF ShellInv, PlaceIs, Held
  <2>4. ASSUME NEW x \in 1..NPAGE, NEW writable \in BOOLEAN
        PROVE  Cardinality(Ends(x, writable)) =
                 IF x \in DOMAIN k.pipe /\ (IF writable THEN k.pipe[x].writeopen ELSE k.pipe[x].readopen)
                 THEN 1 ELSE 0
    BY <2>1, EndCounted DEF EndOpen
  <2>5. \A x \in DOMAIN k.pipe : x \in 1..NPAGE /\ (k.pipe[x].writeopen \/ k.pipe[x].readopen)
    BY <2>1 DEF Good, PipesAre
  <2> QED BY <2>1, <2>2, <2>3, <2>4, <2>5 DEF FilesCounted
<1> QED BY <1>1, ShellInvariant, PTL
=============================================================================
