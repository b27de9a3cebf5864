------------------------------ MODULE LogProofs ------------------------------
(***************************************************************************)
(* The redo log keeps its promises for every number of processes, of       *)
(* blocks, of contents and every size of the log: each logged block has    *)
(* exactly one pin, a transaction never finds the log full, and the log    *)
(* with its crashes implements the abstract disk of AtomicDisk.            *)
(***************************************************************************)
EXTENDS Log, FiniteSetTheorems, SequenceTheorems, TLAPS

(* The processes between begin_op() and end_op(). *)
Open == {p \in Proc : pc[p] = "op"}
InPhase(l) == \E p \in Proc : pc[p] = l

(* Transactions and the commit exclude each other, and there is one commit. *)
Phases ==
  /\ committing <=> \E p \in Proc : pc[p] \in CommitLabels
  /\ \A p, q \in Proc : pc[p] \in CommitLabels /\ pc[q] \in CommitLabels => p = q
  /\ committing => Open = {}
  /\ boot # "up" => (\A p \in Proc : pc[p] = "idle") /\ ~committing

Counted == outstanding = Cardinality(Open)

(* The loops over the log start at 1 and stay inside it. *)
Loops ==
  /\ \A i, j \in 1..Len(lh) : lh[i] = lh[j] => i = j
  /\ InPhase("write_log") \/ InPhase("install") \/ boot = "recover" => tail <= Len(lh)
  /\ InPhase("write_head") \/ InPhase("clear") => lh # <<>>
  /\ InPhase("committed") \/ boot = "read_head" => lh = <<>>
  /\ ~(InPhase("write_log") \/ InPhase("install") \/ boot = "recover") => tail = 1

(* The header on the disk names blocks only from its write to its clearing. *)
Header ==
  /\ \A i, j \in 1..Len(head) : head[i] = head[j] => i = j
  /\ InPhase("install") \/ InPhase("clear") \/ boot \in {"recover", "erase"} => head = lh
  /\ boot = "up" /\ ~InPhase("install") /\ ~InPhase("clear") => head = <<>>

(* Where the loops over the log are with its i-th block. *)
Installed(i) ==
  \/ (InPhase("install") \/ boot = "recover") /\ i < tail
  \/ InPhase("clear") \/ boot = "erase"
Logged(i) ==
  \/ InPhase("write_log") /\ i < tail
  \/ InPhase("write_head") \/ InPhase("install")

(* The buffer of b, if there is one, holds what the disk holds. *)
Clean(b) == cache[b] \in {NotCached, home[b]} /\ pins[b] = 0

(* Where the contents of a block are: those of a logged block in its buffer,
   which is pinned, and from write_log() on in the log too; those of an
   installed block, and of all others, at the home location. *)
Copies ==
  /\ \A b \in Block : ~InLh(b) => Clean(b)
  /\ \A i \in 1..Len(lh) : Installed(i) => Clean(lh[i]) /\ home[lh[i]] = logged[i]
  /\ \A i \in 1..Len(lh) : ~Installed(i) =>
       IF boot = "up" THEN pins[lh[i]] = 1 /\ cache[lh[i]] # NotCached ELSE Clean(lh[i])
  /\ \A i \in 1..Len(lh) : ~Installed(i) /\ Logged(i) => logged[i] = cache[lh[i]]

(* The inductive invariant. *)
LogInv == TypeOK /\ Phases /\ Counted /\ Loops /\ Header /\ Copies

(* What each open transaction has written. *)
Pairs == {x \in Open \X Block : x[2] \in wrote[x[1]]}

(* What the open transactions may still write is left in the log. *)
Space ==
  /\ \A p \in Proc : IsFiniteSet(wrote[p]) /\ Cardinality(wrote[p]) <= OpBlocks
  /\ \A p \in Open : \A b \in wrote[p] : InLh(b)
  /\ \A p \in Proc \ Open : wrote[p] = {}
  /\ IsFiniteSet(Pairs)
  /\ Len(lh) + outstanding * MAXOPBLOCKS - Cardinality(Pairs) <= LOGBLOCKS

LEMMA OpenFinite == IsFiniteSet(Open) /\ Cardinality(Open) \in Nat
<1>1. Open \subseteq Proc
  BY DEF Open
<1> QED BY <1>1, ProcAssumption, FS_Subset, FS_CardinalityType

LEMMA FirstRound == 1 \in 1..(LOGBLOCKS + 1)
  BY SizeAssumption

LEMMA StartCallInv ==
  ASSUME LogInv, NEW p \in Proc, StartCall(p) PROVE LogInv'
<1> USE ValAssumption, SizeAssumption DEF LogInv, At, Go, InPhase, CommitLabels, Labels, logLock, StartCall
<1>1. TypeOK'
  BY DEF TypeOK, Loops, Header
<1>2. Phases'
  BY DEF TypeOK, Phases, Loops, Header, Open
<1>3. Counted'
  <2>1. Open' = Open
    BY DEF TypeOK, Open
  <2> QED BY <2>1 DEF Counted
<1>4. Loops'
  BY DEF TypeOK, Phases, Loops, Header
<1>5. Header'
  BY DEF TypeOK, Phases, Loops, Header
<1>6. Copies'
  BY DEF TypeOK, Phases, Loops, Header, Copies, Clean, Installed, Logged, InLh
<1> QED BY <1>1, <1>2, <1>3, <1>4, <1>5, <1>6

LEMMA BeginSleepInv ==
  ASSUME LogInv, NEW p \in Proc, BeginSleep(p) PROVE LogInv'
<1> USE ValAssumption, SizeAssumption DEF LogInv, At, Go, InPhase, CommitLabels, Labels, logLock, BeginSleep
<1>1. TypeOK'
  BY DEF TypeOK, Loops, Header
<1>2. Phases'
  BY DEF TypeOK, Phases, Loops, Header, Open
<1>3. Counted'
  <2>1. Open' = Open
    BY DEF TypeOK, Open
  <2> QED BY <2>1 DEF Counted
<1>4. Loops'
  BY DEF TypeOK, Phases, Loops, Header
<1>5. Header'
  BY DEF TypeOK, Phases, Loops, Header
<1>6. Copies'
  BY DEF TypeOK, Phases, Loops, Header, Copies, Clean, Installed, Logged, InLh
<1> QED BY <1>1, <1>2, <1>3, <1>4, <1>5, <1>6

LEMMA BeginOpInv ==
  ASSUME LogInv, NEW p \in Proc, BeginOp(p) PROVE LogInv'
<1> USE ValAssumption, SizeAssumption DEF LogInv, At, Go, InPhase, CommitLabels, Labels, logLock, BeginOp
<1>1. TypeOK'
  BY DEF TypeOK, Loops, Header
<1>2. Phases'
  BY DEF TypeOK, Phases, Loops, Header, Open
<1>3. Counted'
  <2>1. Open' = Open \cup {p} /\ p \notin Open
    BY DEF TypeOK, Open
  <2> QED BY <2>1, OpenFinite, FS_AddElement DEF Counted, TypeOK
<1>4. Loops'
  BY DEF TypeOK, Phases, Loops, Header
<1>5. Header'
  BY DEF TypeOK, Phases, Loops, Header
<1>6. Copies'
  BY DEF TypeOK, Phases, Loops, Header, Copies, Clean, Installed, Logged, InLh
<1> QED BY <1>1, <1>2, <1>3, <1>4, <1>5, <1>6

LEMMA LogWriteInv ==
  ASSUME LogInv, NEW p \in Proc, NEW b \in Block, NEW v \in Val, LogWrite(p, b, v) PROVE LogInv'
<1> USE DEF LogInv
<1>1. /\ boot = "up" /\ pc[p] = "op" /\ Len(lh) < LOGBLOCKS
      /\ UNCHANGED <<home, logged, head, outstanding, committing, pc, tail, boot>>
      /\ cache' = [cache EXCEPT ![b] = v]
      /\ wrote' = [wrote EXCEPT ![p] = @ \cup {b}]
  BY DEF LogWrite, At
<1>2. /\ lh \in Seq(Block) /\ Len(lh) \in 0..LOGBLOCKS /\ Len(lh) \in Nat /\ DOMAIN lh = 1..Len(lh)
      /\ \A i \in 1..Len(lh) : lh[i] \in Block
  BY LenProperties, ElementOfSeq, SizeAssumption DEF TypeOK
<1>3. \A l \in CommitLabels : ~InPhase(l)
  BY <1>1 DEF Phases, Open, InPhase
<1>4. /\ lh' \in Seq(Block) /\ Len(lh') <= LOGBLOCKS /\ Len(lh') \in Nat /\ DOMAIN lh' = 1..Len(lh')
      /\ \A c : (\E i \in 1..Len(lh') : lh'[i] = c) <=> InLh(c) \/ c = b
      /\ \A i, j \in 1..Len(lh') : lh'[i] = lh'[j] => i = j
      /\ pins' \in [Block -> Nat]
      /\ \A c \in Block \ {b} : pins'[c] = pins[c]
      /\ pins'[b] = 1
  <2>1. CASE InLh(b)
    <3>1. UNCHANGED <<lh, pins>>
      BY <2>1 DEF LogWrite
    <3>2. pins[b] = 1
      <4>1. PICK i \in 1..Len(lh) : lh[i] = b
        BY <1>2, <2>1 DEF InLh
      <4>2. ~Installed(i)
        BY <1>1, <1>3 DEF Installed, CommitLabels
      <4> QED BY <1>1, <4>1, <4>2 DEF Copies
    <3> QED BY <1>1, <1>2, <2>1, <3>1, <3>2 DEF TypeOK, Loops, InLh
  <2>2. CASE ~InLh(b)
    <3>1. lh' = Append(lh, b) /\ pins' = [pins EXCEPT ![b] = @ + 1]
      BY <2>2 DEF LogWrite
    <3>2. pins[b] = 0
      BY <2>2 DEF Copies, Clean
    <3>3. /\ Append(lh, b) \in Seq(Block) /\ Len(Append(lh, b)) = Len(lh) + 1
          /\ \A i \in 1..Len(lh) : Append(lh, b)[i] = lh[i]
          /\ Append(lh, b)[Len(lh) + 1] = b
      BY <1>2, AppendProperties
    <3>4. DOMAIN lh' = 1..(Len(lh) + 1)
      BY <3>1, <3>3, LenProperties
    <3>5. \A c : (\E i \in 1..Len(lh') : lh'[i] = c) <=> InLh(c) \/ c = b
      BY <1>2, <3>1, <3>3, <3>4 DEF InLh
    <3>6. \A i, j \in 1..Len(lh') : lh'[i] = lh'[j] => i = j
      <4>1. \A i \in 1..Len(lh) : lh[i] # b
        BY <1>2, <2>2 DEF InLh
      <4>2. Len(lh') = Len(lh) + 1 /\ lh'[Len(lh) + 1] = b /\ \A i \in 1..Len(lh) : lh'[i] = lh[i]
        BY <3>1, <3>3
      <4>3. ASSUME NEW i \in 1..(Len(lh) + 1) PROVE i \in 1..Len(lh) \/ i = Len(lh) + 1
        BY <1>2
      <4>4. \A i, j \in 1..Len(lh) : lh[i] = lh[j] => i = j
        BY DEF Loops
      <4> QED BY <4>1, <4>2, <4>3, <4>4
    <3>7. lh' \in Seq(Block) /\ Len(lh') = Len(lh) + 1
      BY <3>1, <3>3
    <3>8. Len(lh') <= LOGBLOCKS /\ Len(lh') \in Nat /\ DOMAIN lh' = 1..Len(lh')
      BY <1>1, <1>2, <3>4, <3>7, SizeAssumption
    <3>9. /\ pins' \in [Block -> Nat] /\ pins'[b] = 1
          /\ \A c \in Block \ {b} : pins'[c] = pins[c]
      BY <3>1, <3>2 DEF TypeOK
    <3> QED BY <3>5, <3>6, <3>7, <3>8, <3>9
  <2> QED BY <2>1, <2>2
<1>5. TypeOK'
  <2>1. cache' \in [Block -> Val \cup {NotCached}] /\ wrote' \in [Proc -> SUBSET Block]
    BY <1>1 DEF TypeOK
  <2> QED BY <1>1, <1>4, <2>1 DEF TypeOK
<1>6. Phases' /\ Counted'
  BY <1>1 DEF Phases, Counted, Open
<1>7. Loops' /\ Header'
  BY <1>1, <1>3, <1>4 DEF Loops, Header, InPhase, CommitLabels
<1>8. Copies'
  <2>1. ASSUME NEW c \in Block, ~InLh(c)' PROVE Clean(c)'
    BY <1>1, <1>4, <2>1 DEF Copies, Clean, InLh, TypeOK
  <2>2. ASSUME NEW i \in 1..Len(lh') PROVE pins'[lh'[i]] = 1 /\ cache'[lh'[i]] # NotCached
    <3>1. lh'[i] \in Block /\ (lh'[i] # b => InLh(lh'[i]))
      BY <1>4, ElementOfSeq
    <3>2. CASE lh'[i] = b
      BY <1>1, <1>4, <3>2, ValAssumption DEF TypeOK
    <3>3. CASE lh'[i] # b
      <4>1. PICK j \in 1..Len(lh) : lh[j] = lh'[i]
        BY <1>2, <1>4, <3>1, <3>3 DEF InLh
      <4>2. pins[lh[j]] = 1 /\ cache[lh[j]] # NotCached
        BY <1>1, <1>3 DEF Copies, Installed, CommitLabels
      <4> QED BY <1>1, <1>4, <3>1, <3>3, <4>1, <4>2 DEF TypeOK
    <3> QED BY <3>2, <3>3
  <2>3. \A i : ~Installed(i)' /\ ~Logged(i)'
    BY <1>1, <1>3 DEF Installed, Logged, InPhase, CommitLabels
  <2> QED BY <1>1, <2>1, <2>2, <2>3 DEF Copies
<1> QED BY <1>5, <1>6, <1>7, <1>8

LEMMA EndOpInv ==
  ASSUME LogInv, NEW p \in Proc, EndOp(p) PROVE LogInv'
<1> USE ValAssumption, SizeAssumption DEF LogInv, At, Go, InPhase, CommitLabels, Labels, logLock, EndOp, WakeupAnd
<1>1. TypeOK'
  BY DEF TypeOK, Loops, Header
<1>2. Phases'
  BY DEF TypeOK, Phases, Loops, Header, Open
<1>3. Counted'
  <2>1. Open' = Open \ {p} /\ p \in Open
    BY DEF TypeOK, Open
  <2> QED BY <2>1, OpenFinite, FS_RemoveElement DEF Counted, TypeOK
<1>4. Loops'
  BY DEF TypeOK, Phases, Loops, Header
<1>5. Header'
  BY DEF TypeOK, Phases, Loops, Header
<1>6. Copies'
  BY DEF TypeOK, Phases, Loops, Header, Copies, Clean, Installed, Logged, InLh
<1> QED BY <1>1, <1>2, <1>3, <1>4, <1>5, <1>6

LEMMA LeaveOpen ==
  ASSUME TypeOK, NEW p \in Proc, EndOpLast(p) PROVE Open' = Open \ {p} /\ p \in Open
<1>1. PICK l \in {"committed", "write_log"} : pc' = [pc EXCEPT ![p] = l]
  BY DEF EndOpLast, Go
<1>2. pc[p] = "op"
  BY DEF EndOpLast, At
<1> QED BY <1>1, <1>2 DEF TypeOK, Open

LEMMA EndOpLastInv ==
  ASSUME LogInv, NEW p \in Proc, EndOpLast(p) PROVE LogInv'
<1>open. Open' = Open \ {p} /\ p \in Open
  BY LeaveOpen DEF LogInv
<1>count. Cardinality(Open \ {p}) = Cardinality(Open) - 1
  BY <1>open, OpenFinite, FS_RemoveElement
<1> USE ValAssumption, SizeAssumption DEF LogInv, At, Go, InPhase, CommitLabels, Labels, logLock, EndOpLast
<1>1. TypeOK'
  BY DEF TypeOK, Loops, Header
<1>2. Phases'
  <2>1. p \in Open /\ \E q : Open = {q}
    BY OpenFinite, FS_Singleton DEF Counted, Open, TypeOK
  <2>3. Open = {p}
    BY <2>1
  <2> QED BY <2>3 DEF TypeOK, Phases, Open
<1>3. Counted'
  <2>1. Cardinality(Open) = 1 /\ outstanding' = 0
    BY DEF Counted
  <2> QED BY <1>open, <1>count, <2>1 DEF Counted
<1>4. Loops'
  BY DEF TypeOK, Phases, Loops, Header
<1>5. Header'
  BY DEF TypeOK, Phases, Loops, Header
<1>6. Copies'
  BY DEF TypeOK, Phases, Loops, Header, Copies, Clean, Installed, Logged, InLh
<1> QED BY <1>1, <1>2, <1>3, <1>4, <1>5, <1>6

LEMMA WriteLogInv ==
  ASSUME LogInv, NEW p \in Proc, WriteLog(p) PROVE LogInv'
<1> USE DEF LogInv
<1>1. /\ boot = "up" /\ pc[p] = "write_log"
      /\ UNCHANGED <<home, head, pins, lh, outstanding, committing, wrote, boot>>
  BY DEF WriteLog, At, logLock
<1>2. /\ lh \in Seq(Block) /\ Len(lh) \in 0..LOGBLOCKS /\ Len(lh) \in Nat /\ DOMAIN lh = 1..Len(lh)
      /\ \A i \in 1..Len(lh) : lh[i] \in Block
  BY LenProperties, ElementOfSeq, SizeAssumption DEF TypeOK
<1>3. tail \in 1..Len(lh) /\ tail \in 1..LOGBLOCKS
  <2>1. tail \in 1..Len(lh)
    BY <1>1, <1>2, SizeAssumption DEF TypeOK, Loops, InPhase
  <2> QED BY <1>2, <2>1, SizeAssumption
<1>4. /\ \A l \in CommitLabels : InPhase(l) <=> l = "write_log"
      /\ \A q \in Proc : q # p => pc[q] \notin CommitLabels
  BY <1>1 DEF Phases, InPhase, CommitLabels
<1>5. cache[lh[tail]] # NotCached /\ Bread(lh[tail]) = cache[lh[tail]] /\ cache[lh[tail]] \in Val
  <2>1. cache[lh[tail]] # NotCached
    BY <1>1, <1>3, <1>4 DEF Copies, Installed, CommitLabels
  <2> QED BY <2>1, <1>2, <1>3 DEF Bread, TypeOK
<1>6. logged' = [logged EXCEPT ![tail] = cache[lh[tail]]] /\ cache' = cache
  BY <1>2, <1>3, <1>5 DEF WriteLog, TypeOK
<1>7. logged' \in [1..LOGBLOCKS -> Val]
  BY <1>2, <1>3, <1>5, <1>6 DEF TypeOK
<1>8. \A i \in 1..Len(lh) : i <= tail => logged'[i] = cache[lh[i]]
  <2>1. ASSUME NEW i \in 1..Len(lh), i < tail PROVE logged[i] = cache[lh[i]]
    BY <1>1, <1>3, <1>4, <2>1 DEF Copies, Installed, Logged, CommitLabels
  <2>2. \A i \in 1..Len(lh) : i \in 1..LOGBLOCKS
    BY <1>2, SizeAssumption
  <2> QED BY <1>2, <1>3, <1>6, <2>1, <2>2 DEF TypeOK
<1>9. \A b : InLh(b)' <=> InLh(b)
  BY <1>1 DEF InLh
<1>10. CASE tail = Len(lh)
  <2>1. tail' = 1 /\ pc' = [pc EXCEPT ![p] = "write_head"]
    BY <1>10 DEF WriteLog, LoopTo, Go
  <2>2. \A l \in CommitLabels : InPhase(l)' <=> l = "write_head"
    BY <1>1, <1>4, <2>1 DEF InPhase, TypeOK, CommitLabels
  <2>3. TypeOK' /\ Open' = Open
    BY <1>1, <1>6, <1>7, <2>1, SizeAssumption DEF TypeOK, Labels, CommitLabels, Open
  <2>4. Phases' /\ Counted'
    BY <1>1, <2>1, <2>3 DEF Phases, Counted, TypeOK, CommitLabels
  <2>5. lh # <<>>
    BY <1>3, EmptySeq
  <2>7. Loops' /\ Header'
    BY <1>1, <1>4, <2>1, <2>2, <2>5 DEF Loops, Header, CommitLabels
  <2>6. Copies'
    BY <1>1, <1>4, <1>6, <1>8, <1>9, <1>10, <2>2 DEF Copies, Clean, Installed, Logged, CommitLabels
  <2> QED BY <2>3, <2>4, <2>6, <2>7
<1>11. CASE tail # Len(lh)
  <2>1. tail' = tail + 1 /\ UNCHANGED pc
    BY <1>11 DEF WriteLog, LoopTo
  <2>2. \A l : InPhase(l)' <=> InPhase(l)
    BY <2>1 DEF InPhase
  <2>3. TypeOK' /\ Open' = Open
    <3>1. tail' \in 1..(LOGBLOCKS + 1)
      BY <1>3, <2>1, SizeAssumption
    <3> QED BY <1>1, <1>6, <1>7, <2>1, <3>1 DEF TypeOK, Open
  <2>4. Phases' /\ Counted'
    BY <1>1, <2>1, <2>3 DEF Phases, Counted
  <2>5. Header'
    BY <1>1, <2>2 DEF Header
  <2>7. Loops'
    <3>1. tail' <= Len(lh)
      <4>0. Len(lh) \in Nat
        BY <1>2
      <4>1. tail \in Nat /\ tail <= Len(lh)
        BY <1>3, <4>0
      <4>2. tail' = tail + 1
        BY <2>1
      <4> QED BY <1>11, <4>0, <4>1, <4>2
    <3> QED BY <1>1, <1>4, <2>2, <3>1 DEF Loops, CommitLabels
  <2>6. Copies'
    BY <1>1, <1>2, <1>3, <1>4, <1>6, <1>8, <1>9, <2>1, <2>2 DEF Copies, Clean, Installed, Logged, CommitLabels
  <2> QED BY <2>3, <2>4, <2>5, <2>6, <2>7
<1> QED BY <1>10, <1>11

LEMMA WriteHeadInv ==
  ASSUME LogInv, NEW p \in Proc, WriteHead(p) PROVE LogInv'
<1> USE ValAssumption, SizeAssumption DEF LogInv, At, Go, InPhase, CommitLabels, Labels, logLock, WriteHead
<1>1. TypeOK'
  BY DEF TypeOK, Loops, Header
<1>2. Phases'
  BY DEF TypeOK, Phases, Loops, Header, Open
<1>3. Counted'
  <2>1. Open' = Open
    BY DEF TypeOK, Open
  <2> QED BY <2>1 DEF Counted
<1>4. Loops'
  BY DEF TypeOK, Phases, Loops, Header
<1>5. Header'
  BY DEF TypeOK, Phases, Loops, Header
<1>6. Copies'
  BY DEF TypeOK, Phases, Loops, Header, Copies, Clean, Installed, Logged, InLh
<1> QED BY <1>1, <1>2, <1>3, <1>4, <1>5, <1>6

LEMMA InstallTransInv ==
  ASSUME LogInv, NEW p \in Proc, InstallTrans(p) PROVE LogInv'
<1> USE DEF LogInv
<1>1. /\ boot = "up" /\ pc[p] = "install"
      /\ UNCHANGED <<logged, head, lh, outstanding, committing, wrote, boot>>
      /\ home' = [home EXCEPT ![lh[tail]] = logged[tail]]
      /\ cache' = [cache EXCEPT ![lh[tail]] = logged[tail]]
      /\ pins' = [pins EXCEPT ![lh[tail]] = @ - 1]
  BY DEF InstallTrans, InstallBlock, At, logLock
<1>2. /\ lh \in Seq(Block) /\ Len(lh) \in 0..LOGBLOCKS /\ Len(lh) \in Nat /\ DOMAIN lh = 1..Len(lh)
      /\ \A i \in 1..Len(lh) : lh[i] \in Block
  BY LenProperties, ElementOfSeq, SizeAssumption DEF TypeOK
<1>3. tail \in 1..Len(lh) /\ logged[tail] \in Val
  <2>1. tail \in 1..Len(lh)
    BY <1>1, <1>2, SizeAssumption DEF TypeOK, Loops, InPhase
  <2>2. tail \in 1..LOGBLOCKS
    BY <1>2, <2>1, SizeAssumption
  <2> QED BY <2>1, <2>2 DEF TypeOK
<1>4. /\ \A l \in CommitLabels : InPhase(l) <=> l = "install"
      /\ \A q \in Proc : q # p => pc[q] \notin CommitLabels
  BY <1>1 DEF Phases, InPhase, CommitLabels
<1>5. pins[lh[tail]] = 1
  BY <1>1, <1>3, <1>4 DEF Copies, Installed, CommitLabels
<1>6. home' \in [Block -> Val] /\ cache' \in [Block -> Val \cup {NotCached}] /\ pins' \in [Block -> Nat]
  BY <1>1, <1>2, <1>3, <1>5 DEF TypeOK
<1>7. \A i \in 1..Len(lh) : i <= tail => Clean(lh[i])' /\ home'[lh[i]] = logged[i]
  BY <1>1, <1>2, <1>3, <1>4, <1>5 DEF Copies, Clean, Installed, TypeOK, Loops, CommitLabels
<1>8. \A i \in 1..Len(lh) : i > tail => lh[i] # lh[tail]
  BY <1>2, <1>3 DEF Loops
<1>9. \A b \in Block : b # lh[tail] => home'[b] = home[b] /\ cache'[b] = cache[b] /\ pins'[b] = pins[b]
  BY <1>1 DEF TypeOK
<1>10. \A b \in Block : ~InLh(b)' => Clean(b)'
  BY <1>1, <1>2, <1>3, <1>9 DEF Copies, Clean, InLh
<1>11. CASE tail = Len(lh)
  <2>1. tail' = 1 /\ pc' = [pc EXCEPT ![p] = "clear"]
    BY <1>11 DEF InstallTrans, LoopTo, Go
  <2>2. \A l \in CommitLabels : InPhase(l)' <=> l = "clear"
    BY <1>1, <1>4, <2>1 DEF InPhase, TypeOK, CommitLabels
  <2>3. TypeOK' /\ Open' = Open
    BY <1>1, <1>6, <2>1, SizeAssumption DEF TypeOK, Labels, CommitLabels, Open
  <2>4. Phases' /\ Counted'
    BY <1>1, <2>1, <2>3 DEF Phases, Counted, TypeOK, CommitLabels
  <2>5. lh # <<>>
    BY <1>3, EmptySeq
  <2>7. Loops' /\ Header'
    BY <1>1, <1>4, <2>1, <2>2, <2>5 DEF Loops, Header, CommitLabels
  <2>6. Copies'
    BY <1>1, <1>2, <1>7, <1>10, <1>11, <2>2 DEF Copies, Installed, Logged, CommitLabels
  <2> QED BY <2>3, <2>4, <2>6, <2>7
<1>12. CASE tail # Len(lh)
  <2>1. tail' = tail + 1 /\ UNCHANGED pc
    BY <1>12 DEF InstallTrans, LoopTo
  <2>2. \A l : InPhase(l)' <=> InPhase(l)
    BY <2>1 DEF InPhase
  <2>3. TypeOK' /\ Open' = Open
    <3>1. tail' \in 1..(LOGBLOCKS + 1)
      BY <1>2, <1>3, <2>1, SizeAssumption
    <3> QED BY <1>1, <1>6, <2>1, <3>1 DEF TypeOK, Open
  <2>4. Phases' /\ Counted'
    BY <1>1, <2>1, <2>3 DEF Phases, Counted
  <2>5. Header'
    BY <1>1, <2>2 DEF Header
  <2>7. Loops'
    <3>1. tail' <= Len(lh)
      <4>0. Len(lh) \in Nat
        BY <1>2
      <4>1. tail \in Nat /\ tail <= Len(lh)
        BY <1>3, <4>0
      <4>2. tail' = tail + 1
        BY <2>1
      <4> QED BY <1>12, <4>0, <4>1, <4>2
    <3> QED BY <1>1, <1>4, <2>2, <3>1 DEF Loops, CommitLabels
  <2>6. Copies'
    <3>1. \A i \in 1..Len(lh) : Installed(i)' <=> i <= tail
      BY <1>1, <1>2, <1>3, <1>4, <2>1, <2>2 DEF Installed, CommitLabels
    <3>2. ASSUME NEW i \in 1..Len(lh), i > tail
          PROVE  pins'[lh[i]] = 1 /\ cache'[lh[i]] # NotCached /\ logged[i] = cache'[lh[i]]
      BY <1>1, <1>2, <1>3, <1>4, <1>8, <1>9, <3>2 DEF Copies, Installed, Logged, CommitLabels
    <3> QED BY <1>1, <1>2, <1>3, <1>7, <1>10, <3>1, <3>2 DEF Copies
  <2> QED BY <2>3, <2>4, <2>5, <2>6, <2>7
<1> QED BY <1>11, <1>12

LEMMA ClearHeadInv ==
  ASSUME LogInv, NEW p \in Proc, ClearHead(p) PROVE LogInv'
<1> USE ValAssumption, SizeAssumption DEF LogInv, At, Go, InPhase, CommitLabels, Labels, logLock, ClearHead
<1>1. TypeOK'
  BY DEF TypeOK, Loops, Header
<1>2. Phases'
  BY DEF TypeOK, Phases, Loops, Header, Open
<1>3. Counted'
  <2>1. Open' = Open
    BY DEF TypeOK, Open
  <2> QED BY <2>1 DEF Counted
<1>4. Loops'
  BY DEF TypeOK, Phases, Loops, Header
<1>5. Header'
  BY DEF TypeOK, Phases, Loops, Header
<1>6. Copies'
  BY DEF TypeOK, Phases, Loops, Header, Copies, Clean, Installed, Logged, InLh
<1> QED BY <1>1, <1>2, <1>3, <1>4, <1>5, <1>6

LEMMA EndCommitInv ==
  ASSUME LogInv, NEW p \in Proc, EndCommit(p) PROVE LogInv'
<1> USE ValAssumption, SizeAssumption DEF LogInv, At, Go, InPhase, CommitLabels, Labels, logLock, EndCommit, WakeupAnd
<1>1. TypeOK'
  BY DEF TypeOK, Loops, Header
<1>2. Phases'
  BY DEF TypeOK, Phases, Loops, Header, Open
<1>3. Counted'
  <2>1. Open' = Open
    BY DEF TypeOK, Open
  <2> QED BY <2>1 DEF Counted
<1>4. Loops'
  BY DEF TypeOK, Phases, Loops, Header
<1>5. Header'
  BY DEF TypeOK, Phases, Loops, Header
<1>6. Copies'
  BY DEF TypeOK, Phases, Loops, Header, Copies, Clean, Installed, Logged, InLh
<1> QED BY <1>1, <1>2, <1>3, <1>4, <1>5, <1>6

LEMMA EvictInv ==
  ASSUME LogInv, NEW b \in Block, Evict(b) PROVE LogInv'
<1> USE ValAssumption, SizeAssumption DEF LogInv, At, Go, InPhase, CommitLabels, Labels, logLock, Evict
<1>1. TypeOK'
  BY DEF TypeOK, Loops, Header
<1>2. Phases'
  BY DEF TypeOK, Phases, Loops, Header, Open
<1>3. Counted'
  <2>1. Open' = Open
    BY DEF TypeOK, Open
  <2> QED BY <2>1 DEF Counted
<1>4. Loops'
  BY DEF TypeOK, Phases, Loops, Header
<1>5. Header'
  BY DEF TypeOK, Phases, Loops, Header
<1>6. Copies'
  BY DEF TypeOK, Phases, Loops, Header, Copies, Clean, Installed, Logged, InLh
<1> QED BY <1>1, <1>2, <1>3, <1>4, <1>5, <1>6

LEMMA CrashInv ==
  ASSUME LogInv, Crash PROVE LogInv'
<1>1. TypeOK'
  <2>1. /\ cache' \in [Block -> Val \cup {NotCached}] /\ pins' \in [Block -> Nat]
        /\ pc' \in [Proc -> Labels] /\ wrote' \in [Proc -> SUBSET Block]
    BY DEF Crash, Labels
  <2>2. lh' \in Seq(Block) /\ Len(lh') <= LOGBLOCKS
    BY EmptySeq, SizeAssumption DEF Crash
  <2>3. tail' \in 1..(LOGBLOCKS + 1) /\ outstanding' \in Nat
    BY FirstRound DEF Crash
  <2> QED BY <2>1, <2>2, <2>3 DEF Crash, TypeOK, LogInv
<1> USE ValAssumption, SizeAssumption DEF LogInv, At, Go, InPhase, CommitLabels, Labels, logLock, Crash
<1>2. Phases'
  BY DEF TypeOK, Phases, Loops, Header, Open
<1>3. Counted'
  <2>1. Open' = {}
    BY DEF Open
  <2> QED BY <2>1, FS_EmptySet DEF Counted
<1>4. Loops'
  BY DEF TypeOK, Phases, Loops, Header
<1>5. Header'
  BY DEF TypeOK, Phases, Loops, Header
<1>6. Copies'
  BY DEF TypeOK, Phases, Loops, Header, Copies, Clean, Installed, Logged, InLh
<1> QED BY <1>1, <1>2, <1>3, <1>4, <1>5, <1>6

LEMMA ReadHeadInv ==
  ASSUME LogInv, ReadHead PROVE LogInv'
<1> USE ValAssumption, SizeAssumption DEF LogInv, At, Go, InPhase, CommitLabels, Labels, logLock, ReadHead
<1>1. TypeOK'
  BY DEF TypeOK, Loops, Header
<1>2. Phases'
  BY DEF TypeOK, Phases, Loops, Header, Open
<1>3. Counted'
  <2>1. Open' = Open
    BY DEF TypeOK, Open
  <2> QED BY <2>1 DEF Counted
<1>4. Loops'
  BY DEF TypeOK, Phases, Loops, Header
<1>5. Header'
  BY DEF TypeOK, Phases, Loops, Header
<1>6. Copies'
  BY DEF TypeOK, Phases, Loops, Header, Copies, Clean, Installed, Logged, InLh
<1> QED BY <1>1, <1>2, <1>3, <1>4, <1>5, <1>6

LEMMA RecoverBlockInv ==
  ASSUME LogInv, RecoverBlock PROVE LogInv'
<1> USE ValAssumption, SizeAssumption DEF LogInv, At, Go, InPhase, CommitLabels, Labels, logLock, RecoverBlock, InstallBlock
<1>1. TypeOK'
  BY DEF TypeOK, Loops, Header
<1>2. Phases'
  BY DEF TypeOK, Phases, Loops, Header, Open
<1>3. Counted'
  <2>1. Open' = Open
    BY DEF TypeOK, Open
  <2> QED BY <2>1 DEF Counted
<1>4. Loops'
  BY DEF TypeOK, Phases, Loops, Header
<1>5. Header'
  BY DEF TypeOK, Phases, Loops, Header
<1>6. Copies'
  BY DEF TypeOK, Phases, Loops, Header, Copies, Clean, Installed, Logged, InLh
<1> QED BY <1>1, <1>2, <1>3, <1>4, <1>5, <1>6

LEMMA EraseHeadInv ==
  ASSUME LogInv, EraseHead PROVE LogInv'
<1> USE ValAssumption, SizeAssumption DEF LogInv, At, Go, InPhase, CommitLabels, Labels, logLock, EraseHead
<1>1. TypeOK'
  BY DEF TypeOK, Loops, Header
<1>2. Phases'
  BY DEF TypeOK, Phases, Loops, Header, Open
<1>3. Counted'
  <2>1. Open' = Open
    BY DEF TypeOK, Open
  <2> QED BY <2>1 DEF Counted
<1>4. Loops'
  BY DEF TypeOK, Phases, Loops, Header
<1>5. Header'
  BY DEF TypeOK, Phases, Loops, Header
<1>6. Copies'
  BY DEF TypeOK, Phases, Loops, Header, Copies, Clean, Installed, Logged, InLh
<1> QED BY <1>1, <1>2, <1>3, <1>4, <1>5, <1>6

LEMMA InitInv == Init => LogInv
<1> SUFFICES ASSUME Init PROVE LogInv
  OBVIOUS
<1>1. TypeOK
  <2>1. lh \in Seq(Block) /\ Len(lh) = 0 /\ head \in Seq(Block) /\ Len(head) = 0
    BY EmptySeq DEF Init
  <2>2. outstanding \in Nat /\ tail \in 1..(LOGBLOCKS + 1)
    BY FirstRound DEF Init
  <2>3. Len(lh) <= LOGBLOCKS /\ Len(head) <= LOGBLOCKS
    BY <2>1, SizeAssumption
  <2>4. /\ home \in [Block -> Val] /\ logged \in [1..LOGBLOCKS -> Val]
        /\ cache \in [Block -> Val \cup {NotCached}] /\ pins \in [Block -> Nat]
        /\ pc \in [Proc -> Labels] /\ wrote \in [Proc -> SUBSET Block]
    BY ValAssumption DEF Init, Labels
  <2> QED BY <2>1, <2>2, <2>3, <2>4 DEF Init, TypeOK
<1>2. /\ \A p \in Proc : pc[p] = "idle"
      /\ lh = <<>> /\ head = <<>> /\ Len(lh) = 0 /\ Len(head) = 0 /\ boot = "read_head" /\ tail = 1
      /\ \A b \in Block : cache[b] = NotCached /\ pins[b] = 0
      /\ ~committing /\ outstanding = 0
  BY EmptySeq DEF Init
<1>3. Phases
  BY <1>2 DEF Phases, Open, CommitLabels
<1>4. Counted
  <2>1. Open = {}
    BY <1>2 DEF Open
  <2> QED BY <1>2, <2>1, FS_EmptySet DEF Counted
<1>5. Loops /\ Header
  BY <1>2 DEF Loops, Header, InPhase
<1>6. Copies
  BY <1>2 DEF Copies, Clean, InLh
<1> QED BY <1>1, <1>3, <1>4, <1>5, <1>6 DEF LogInv

LEMMA StutterInv == LogInv /\ UNCHANGED vars => LogInv'
<1> SUFFICES ASSUME LogInv, UNCHANGED vars PROVE LogInv'
  OBVIOUS
<1>1. UNCHANGED <<home, logged, head, cache, pins, lh, outstanding, committing, pc, wrote, tail, boot>>
  BY DEF vars
<1>2. TypeOK' /\ Phases' /\ Counted'
  BY <1>1 DEF LogInv, TypeOK, Phases, Counted, Open
<1>3. Loops' /\ Header'
  BY <1>1 DEF LogInv, Loops, Header, InPhase
<1>4. Copies'
  BY <1>1 DEF LogInv, Copies, Clean, Installed, Logged, InLh, InPhase
<1> QED BY <1>2, <1>3, <1>4 DEF LogInv

LEMMA LogInvStep == LogInv /\ [Next]_vars => LogInv'
<1> SUFFICES ASSUME LogInv, [Next]_vars PROVE LogInv'
  OBVIOUS
<1>1. ASSUME NEW p \in Proc, Run(p) PROVE LogInv'
  <2>1. CASE StartCall(p) \/ BeginSleep(p) \/ BeginOp(p)
    BY <2>1, StartCallInv, BeginSleepInv, BeginOpInv
  <2>2. CASE EndAny(p)
    BY <2>2, EndOpInv, EndOpLastInv DEF EndAny
  <2>3. CASE Commit(p)
    BY <2>3, WriteLogInv, WriteHeadInv, InstallTransInv, ClearHeadInv, EndCommitInv DEF Commit
  <2>4. CASE \E b \in Block, v \in Val : LogWrite(p, b, v)
    BY <2>4, LogWriteInv
  <2> QED BY <1>1, <2>1, <2>2, <2>3, <2>4 DEF Run
<1>2. CASE \E b \in Block : Evict(b)
  BY <1>2, EvictInv
<1>3. CASE Recover
  BY <1>3, ReadHeadInv, RecoverBlockInv, EraseHeadInv DEF Recover
<1>4. CASE Crash
  BY <1>4, CrashInv
<1>5. CASE UNCHANGED vars
  BY <1>5, StutterInv
<1> QED BY <1>1, <1>2, <1>3, <1>4, <1>5 DEF Next

(* Whatever step the log takes - a transaction, a block of the commit, a
   buffer that the cache drops, a crash, a block of the recovery - the
   invariant holds after it. *)
THEOREM LogInvariant == Spec => []LogInv
  BY InitInv, LogInvStep, PTL DEF Spec

(* The log's variables keep their types, through crashes and recovery. *)
THEOREM LogTypeOK == Spec => []TypeOK
<1>1. LogInv => TypeOK
  BY DEF LogInv
<1> QED BY <1>1, LogInvariant, PTL

(* log_write() pins a block once, however often it is absorbed, and
   install_trans() gives the pin back: no buffer is lost to the log. *)
THEOREM LogPinsMatch == Spec => []PinsMatch
<1>1. LogInv => PinsMatch
  <2> SUFFICES ASSUME LogInv, boot = "up", NEW b \in Block
               PROVE  pins[b] = Cardinality({i \in DOMAIN lh :
                        lh[i] = b /\ ((\E p \in Proc : pc[p] = "install") => i >= tail)
                                 /\ ~\E p \in Proc : pc[p] = "clear"})
    BY DEF PinsMatch
  <2> DEFINE I == {i \in DOMAIN lh :
                     lh[i] = b /\ ((\E p \in Proc : pc[p] = "install") => i >= tail)
                              /\ ~\E p \in Proc : pc[p] = "clear"}
  <2>1. DOMAIN lh = 1..Len(lh) /\ tail \in Int
    BY LenProperties, SizeAssumption DEF LogInv, TypeOK
  <2>2. I = {i \in 1..Len(lh) : lh[i] = b /\ ~Installed(i)}
    BY <2>1 DEF Installed, InPhase
  <2> HIDE DEF I
  <2>3. CASE I = {}
    <3>1. pins[b] = 0
      BY <2>1, <2>2, <2>3 DEF LogInv, Copies, Clean, InLh
    <3> QED BY <2>3, <3>1, FS_EmptySet DEF I
  <2>4. CASE I # {}
    <3>1. PICK i \in 1..Len(lh) : lh[i] = b /\ ~Installed(i)
      BY <2>2, <2>4
    <3>2. pins[b] = 1
      BY <3>1 DEF LogInv, Copies
    <3>3. I = {i}
      BY <2>2, <3>1 DEF LogInv, Loops
    <3>4. Cardinality(I) = 1
      BY <3>3, FS_Singleton
    <3> QED BY <3>2, <3>4 DEF I
  <2> QED BY <2>3, <2>4
<1> QED BY <1>1, LogInvariant, PTL

-----------------------------------------------------------------------------
LEMMA NobodyOpen ==
  ASSUME LogInv', Open' = {}, \A p \in Proc : wrote'[p] = {} PROVE Space'
<1>1. Pairs' = {}
  BY DEF Pairs
<1>2. outstanding' = 0 /\ Len(lh') <= LOGBLOCKS /\ Len(lh') \in Nat
  BY FS_EmptySet, LenProperties DEF LogInv, Counted, TypeOK
<1>3. \A p \in Proc : IsFiniteSet(wrote'[p]) /\ Cardinality(wrote'[p]) <= OpBlocks
  BY FS_EmptySet, SizeAssumption
<1>4. outstanding' * MAXOPBLOCKS = 0 /\ Cardinality(Pairs') = 0 /\ IsFiniteSet(Pairs')
  BY <1>1, <1>2, FS_EmptySet, SizeAssumption
<1>5. Len(lh') + outstanding' * MAXOPBLOCKS - Cardinality(Pairs') <= LOGBLOCKS
  BY <1>2, <1>4, SizeAssumption
<1> QED BY <1>3, <1>4, <1>5 DEF Space

LEMMA SameOpen ==
  ASSUME Space, UNCHANGED <<lh, outstanding, wrote>>, Open' = Open PROVE Space'
<1>1. Pairs' = Pairs
  BY DEF Pairs
<1> QED BY <1>1 DEF Space, InLh

LEMMA BeginOpSpace ==
  ASSUME LogInv, Space, NEW p \in Proc, BeginOp(p) PROVE Space'
<1>1. Open' = Open \cup {p} /\ p \notin Open
  BY DEF LogInv, TypeOK, Open, BeginOp, At, Go
<1>2. UNCHANGED <<wrote, lh>> /\ outstanding' = outstanding + 1
  BY DEF BeginOp
<1>3. wrote[p] = {}
  BY <1>1 DEF Space
<1>4. Pairs' = Pairs
  BY <1>1, <1>2, <1>3 DEF Pairs
<1>5. Len(lh) + outstanding' * MAXOPBLOCKS <= LOGBLOCKS
  BY <1>2, SizeAssumption, LenProperties DEF BeginOp, NoSpace, LogInv, TypeOK
<1>6. Cardinality(Pairs) \in Nat
  BY FS_CardinalityType DEF Space
<1>7. Len(lh') + outstanding' * MAXOPBLOCKS - Cardinality(Pairs') <= LOGBLOCKS
  <2>1. Len(lh) \in Nat /\ outstanding' * MAXOPBLOCKS \in Int /\ LOGBLOCKS \in Int
    BY <1>2, SizeAssumption, LenProperties DEF LogInv, TypeOK
  <2> QED BY <1>2, <1>4, <1>5, <1>6, <2>1
<1> QED BY <1>1, <1>2, <1>3, <1>4, <1>7 DEF Space, InLh

LEMMA LogWriteSpace ==
  ASSUME LogInv, Space, NEW p \in Proc, NEW b \in Block, NEW v \in Val, LogWrite(p, b, v) PROVE Space'
<1>1. /\ pc' = pc /\ p \in Open /\ outstanding' = outstanding
      /\ wrote' = [wrote EXCEPT ![p] = @ \cup {b}] /\ MayWrite(p, b)
  BY DEF LogWrite, At, Open
<1>2. Open' = Open
  BY <1>1 DEF Open
<1>3. /\ wrote'[p] = wrote[p] \cup {b} /\ \A q \in Proc : q # p => wrote'[q] = wrote[q]
      /\ Open \subseteq Proc
  BY <1>1 DEF LogInv, TypeOK, Open
<1>4. Pairs' = Pairs \cup {<<p, b>>}
  BY <1>1, <1>2, <1>3 DEF Pairs
<1>5. \A q \in Proc : IsFiniteSet(wrote'[q]) /\ Cardinality(wrote'[q]) <= OpBlocks
  <2>1. IsFiniteSet(wrote[p] \cup {b})
    BY FS_AddElement DEF Space
  <2>2. IsFiniteSet(wrote'[p]) /\ Cardinality(wrote'[p]) <= OpBlocks
    BY <1>1, <1>3, <2>1 DEF MayWrite
  <2> QED BY <1>3, <2>2 DEF Space
<1>6. lh \in Seq(Block) /\ Len(lh) \in Nat /\ DOMAIN lh = 1..Len(lh)
  BY LenProperties DEF LogInv, TypeOK
<1>7. \A c : InLh(c) \/ c = b => InLh(c)'
  <2>1. CASE InLh(b)
    BY <2>1 DEF LogWrite, InLh
  <2>2. CASE ~InLh(b)
    <3>1. lh' = Append(lh, b)
      BY <2>2 DEF LogWrite
    <3>2. /\ DOMAIN lh' = 1..(Len(lh) + 1) /\ lh'[Len(lh) + 1] = b
          /\ \A i \in 1..Len(lh) : lh'[i] = lh[i]
      BY <1>6, <3>1, AppendProperties, LenProperties
    <3>3. 1..Len(lh) \subseteq 1..(Len(lh) + 1) /\ Len(lh) + 1 \in 1..(Len(lh) + 1)
      BY <1>6
    <3> QED BY <1>6, <3>2, <3>3 DEF InLh
  <2> QED BY <2>1, <2>2
<1>8. \A q \in Open' : \A c \in wrote'[q] : InLh(c)'
  BY <1>2, <1>3, <1>7 DEF Space
<1>9. \A q \in Proc \ Open' : wrote'[q] = {}
  BY <1>1, <1>2, <1>3 DEF Space
<1>10. /\ IsFiniteSet(Pairs') /\ Cardinality(Pairs) \in Nat
       /\ Cardinality(Pairs') = IF <<p, b>> \in Pairs THEN Cardinality(Pairs) ELSE Cardinality(Pairs) + 1
  BY <1>4, FS_AddElement, FS_CardinalityType DEF Space
<1>11. Len(lh') - Cardinality(Pairs') <= Len(lh) - Cardinality(Pairs)
  <2>1. CASE InLh(b)
    <3>1. lh' = lh
      BY <2>1 DEF LogWrite
    <3> QED BY <1>6, <1>10, <3>1
  <2>2. CASE ~InLh(b)
    <3>1. lh' = Append(lh, b)
      BY <2>2 DEF LogWrite
    <3>2. Len(lh') = Len(lh) + 1
      BY <1>6, <3>1, AppendProperties
    <3>3. <<p, b>> \notin Pairs
      BY <2>2 DEF Pairs, Space
    <3> QED BY <1>6, <1>10, <3>2, <3>3
  <2> QED BY <2>1, <2>2
<1>12. Len(lh') + outstanding' * MAXOPBLOCKS - Cardinality(Pairs') <= LOGBLOCKS
  <2>1. outstanding * MAXOPBLOCKS \in Int /\ LOGBLOCKS \in Int
    BY SizeAssumption DEF LogInv, TypeOK
  <2>2. Len(lh') \in Int /\ Cardinality(Pairs') \in Int
    BY <1>6, <1>10, AppendProperties DEF LogWrite
  <2>3. Len(lh) + outstanding * MAXOPBLOCKS - Cardinality(Pairs) <= LOGBLOCKS
    BY DEF Space
  <2> HIDE DEF Space
  <2> QED BY <1>1, <1>6, <1>10, <1>11, <2>1, <2>2, <2>3
<1> QED BY <1>5, <1>8, <1>9, <1>10, <1>12 DEF Space

LEMMA EndOpSpace ==
  ASSUME LogInv, Space, NEW p \in Proc, EndOp(p) PROVE Space'
<1>1. /\ pc[p] = "op" /\ outstanding' = outstanding - 1 /\ lh' = lh
      /\ wrote' = [wrote EXCEPT ![p] = {}]
  BY DEF EndOp, At
<1>2. Open' = Open \ {p} /\ p \in Open /\ Open \subseteq Proc
  BY <1>1 DEF EndOp, WakeupAnd, Open
<1>3. wrote'[p] = {} /\ \A q \in Proc : q # p => wrote'[q] = wrote[q]
  BY <1>1 DEF LogInv, TypeOK
<1> DEFINE P == {p} \X wrote[p]
<1>4. Pairs' = Pairs \ P /\ Pairs \cap P = P
  BY <1>2, <1>3 DEF Pairs, LogInv, TypeOK
<1>5. IsFiniteSet(P) /\ Cardinality(P) = Cardinality(wrote[p]) /\ Cardinality(wrote[p]) \in Nat
  <2>1. IsFiniteSet({p}) /\ Cardinality({p}) = 1 /\ IsFiniteSet(wrote[p])
    BY FS_Singleton DEF Space
  <2>2. Cardinality(wrote[p]) \in Nat
    BY <2>1, FS_CardinalityType DEF Space
  <2>3. IsFiniteSet(P) /\ Cardinality(P) = Cardinality({p}) * Cardinality(wrote[p])
    BY <2>1, FS_Product
  <2> QED BY <2>1, <2>2, <2>3
<1> HIDE DEF P
<1>6. /\ IsFiniteSet(Pairs') /\ Cardinality(Pairs) \in Nat
      /\ Cardinality(Pairs') = Cardinality(Pairs) - Cardinality(wrote[p])
  <2>1. IsFiniteSet(Pairs)
    BY DEF Space
  <2>2. Cardinality(Pairs) \in Nat
    BY <2>1, FS_CardinalityType
  <2>3. IsFiniteSet(Pairs \ P) /\ Cardinality(Pairs \ P) = Cardinality(Pairs) - Cardinality(Pairs \cap P)
    BY <2>1, FS_Difference
  <2> QED BY <1>4, <1>5, <2>2, <2>3
<1>7. Cardinality(wrote[p]) <= MAXOPBLOCKS
  BY <1>5, SizeAssumption DEF Space
<1>8. outstanding' * MAXOPBLOCKS = outstanding * MAXOPBLOCKS - MAXOPBLOCKS
  BY <1>1, SizeAssumption DEF LogInv, TypeOK
<1>9. Len(lh') + outstanding' * MAXOPBLOCKS - Cardinality(Pairs') <= LOGBLOCKS
  <2>1. /\ outstanding * MAXOPBLOCKS \in Int /\ LOGBLOCKS \in Int /\ MAXOPBLOCKS \in Int
        /\ Len(lh) \in Int
    BY SizeAssumption, LenProperties DEF LogInv, TypeOK
  <2>2. Len(lh) + outstanding * MAXOPBLOCKS - Cardinality(Pairs) <= LOGBLOCKS
    BY DEF Space
  <2> QED BY <1>1, <1>5, <1>6, <1>7, <1>8, <2>1, <2>2
<1>10. ASSUME NEW q \in Proc PROVE IsFiniteSet(wrote'[q]) /\ Cardinality(wrote'[q]) <= OpBlocks
  <2>1. IsFiniteSet({}) /\ Cardinality({}) <= OpBlocks
    BY FS_EmptySet, SizeAssumption
  <2> QED BY <1>3, <2>1 DEF Space
<1> QED BY <1>1, <1>2, <1>3, <1>6, <1>9, <1>10 DEF Space, InLh

LEMMA PairsBound ==
  ASSUME \A p \in Open : IsFiniteSet(wrote[p]) /\ Cardinality(wrote[p]) <= OpBlocks
  PROVE  Cardinality(Pairs) <= Cardinality(Open) * OpBlocks
<1>1. ASSUME NEW p \in Open
      PROVE  \E g : \A b \in wrote[p] : \E i \in 1..OpBlocks : g[i] = b
  <2>1. Cardinality(wrote[p]) \in Nat /\ ExistsBijection(1..Cardinality(wrote[p]), wrote[p])
    BY FS_CardinalityType
  <2>2. PICK g \in [1..Cardinality(wrote[p]) -> wrote[p]] :
              \A b \in wrote[p] : \E i \in 1..Cardinality(wrote[p]) : g[i] = b
    BY <2>1 DEF ExistsBijection, Bijection, Surjection
  <2>3. 1..Cardinality(wrote[p]) \subseteq 1..OpBlocks
    BY <2>1, SizeAssumption
  <2> QED BY <2>2, <2>3
<1> DEFINE G == [p \in Open |-> CHOOSE g : \A b \in wrote[p] : \E i \in 1..OpBlocks : g[i] = b]
           F == [x \in Pairs |-> <<x[1], CHOOSE i \in 1..OpBlocks : G[x[1]][i] = x[2]>>]
<1>2. \A p \in Open : \A b \in wrote[p] : \E i \in 1..OpBlocks : G[p][i] = b
  BY <1>1
<1> HIDE DEF G
<1>3. ASSUME NEW x \in Pairs
      PROVE  /\ x \in Open \X Block /\ F[x] = <<x[1], F[x][2]>>
             /\ F[x][2] \in 1..OpBlocks /\ G[x[1]][F[x][2]] = x[2]
  BY <1>2 DEF Pairs
<1>4. F \in [Pairs -> Open \X (1..OpBlocks)]
  <2>1. F = [x \in Pairs |-> F[x]]
    OBVIOUS
  <2> HIDE DEF F
  <2>2. ASSUME NEW x \in Pairs PROVE F[x] \in Open \X (1..OpBlocks)
    <3>1. x[1] \in Open /\ F[x][2] \in 1..OpBlocks /\ F[x] = <<x[1], F[x][2]>>
      BY <1>3
    <3> QED BY <3>1
  <2> QED BY <2>1, <2>2
<1> HIDE DEF F
<1>5. \A x, y \in Pairs : F[x] = F[y] => x = y
  <2> SUFFICES ASSUME NEW x \in Pairs, NEW y \in Pairs, F[x] = F[y] PROVE x = y
    OBVIOUS
  <2>1. x[1] = y[1] /\ F[x][2] = F[y][2]
    BY <1>3
  <2>2. x[2] = y[2]
    BY <1>3, <2>1
  <2> QED BY <1>3, <2>1, <2>2
<1>6. F \in Injection(Pairs, Open \X (1..OpBlocks))
  BY <1>4, <1>5 DEF Injection, IsInjective
<1>7. /\ IsFiniteSet(Open \X (1..OpBlocks))
      /\ Cardinality(Open \X (1..OpBlocks)) = Cardinality(Open) * OpBlocks
  <2>1. OpBlocks \in Int /\ OpBlocks >= 0
    BY SizeAssumption
  <2>2. IsFiniteSet(1..OpBlocks) /\ Cardinality(1..OpBlocks) = IF 1 > OpBlocks THEN 0 ELSE OpBlocks - 1 + 1
    BY <2>1, FS_Interval
  <2>3. Cardinality(1..OpBlocks) = OpBlocks
    BY <2>1, <2>2
  <2> QED BY <2>2, <2>3, OpenFinite, FS_Product
<1> QED BY <1>6, <1>7, FS_Injection

LEMMA InitSpace == Init => Space
<1> SUFFICES ASSUME Init PROVE Space
  OBVIOUS
<1>1. Open = {} /\ Pairs = {} /\ \A p \in Proc : wrote[p] = {}
  BY DEF Init, Open, Pairs
<1>2. outstanding * MAXOPBLOCKS = 0 /\ Len(lh) = 0 /\ LOGBLOCKS >= 0 /\ OpBlocks >= 0
  <2>1. outstanding = 0 /\ Len(lh) = 0
    BY EmptySeq DEF Init
  <2> QED BY <2>1, SizeAssumption
<1>3. IsFiniteSet({}) /\ Cardinality({}) = 0
  BY FS_EmptySet
<1>4. /\ \A p \in Proc : IsFiniteSet(wrote[p]) /\ Cardinality(wrote[p]) <= OpBlocks
      /\ IsFiniteSet(Pairs) /\ Cardinality(Pairs) = 0
  BY <1>1, <1>2, <1>3
<1>5. Len(lh) + outstanding * MAXOPBLOCKS - Cardinality(Pairs) <= LOGBLOCKS
  BY <1>2, <1>4, SizeAssumption
<1> QED BY <1>1, <1>4, <1>5 DEF Space

LEMMA NobodyWrites == LogInv /\ Space /\ (boot # "up" \/ committing) => Open = {} /\ \A p \in Proc : wrote[p] = {}
  BY DEF LogInv, Phases, Open, Space

LEMMA CommitSpace ==
  ASSUME LogInv, Space, NEW p \in Proc, Commit(p), LogInv' PROVE Space'
<1>1. /\ UNCHANGED wrote
      /\ \E l \in {"write_log", "write_head", "install", "clear", "committed"} : pc[p] = l
  BY DEF Commit, WriteLog, WriteHead, InstallTrans, ClearHead, EndCommit, At
<1>2. Open = {} /\ \A q \in Proc : wrote[q] = {}
  BY <1>1, NobodyWrites DEF LogInv, Phases, CommitLabels
<1>3. \A q \in Proc : pc[q] # "op" => pc'[q] # "op"
  BY DEF Commit, WriteLog, WriteHead, InstallTrans, ClearHead, EndCommit, LoopTo, Go, WakeupAnd, LogInv, TypeOK
<1>4. Open' = {}
  BY <1>2, <1>3 DEF Open
<1> QED BY <1>1, <1>2, <1>4, NobodyOpen

(* begin_op() never admits more than the log can hold, whatever has been
   absorbed: the reservations, less what the open transactions have already
   put into the log, fit. *)
THEOREM LogSpaceReserved == Spec => [](LogInv /\ Space)
<1>1. LogInv /\ Space /\ [Next]_vars => Space'
  <2> SUFFICES ASSUME LogInv, Space, [Next]_vars PROVE Space'
    OBVIOUS
  <2>0. LogInv'
    BY LogInvStep
  <2>1. ASSUME NEW p \in Proc, Run(p) PROVE Space'
    <3>1. CASE StartCall(p) \/ BeginSleep(p)
      BY <3>1, SameOpen DEF StartCall, BeginSleep, At, Go, Open, logLock, LogInv, TypeOK
    <3>2. CASE BeginOp(p)
      BY <3>2, BeginOpSpace
    <3>3. CASE EndOp(p)
      BY <3>3, EndOpSpace
    <3>4. CASE EndOpLast(p)
      <4>1. Open' = {}
        BY <2>0, <3>4, OpenFinite, FS_EmptySet DEF EndOpLast, LogInv, Counted, Phases
      <4>2. \A q \in Proc : wrote'[q] = {}
        <5>1. Open \subseteq {p} /\ wrote' = [wrote EXCEPT ![p] = {}]
          BY <3>4, <4>1, LeaveOpen DEF LogInv, EndOpLast
        <5> QED BY <5>1 DEF Space, LogInv, TypeOK
      <4> QED BY <2>0, <4>1, <4>2, NobodyOpen
    <3>5. CASE Commit(p)
      BY <2>0, <3>5, CommitSpace
    <3>6. CASE \E b \in Block, v \in Val : LogWrite(p, b, v)
      BY <3>6, LogWriteSpace
    <3> QED BY <2>1, <3>1, <3>2, <3>3, <3>4, <3>5, <3>6 DEF Run, EndAny
  <2>2. CASE \E b \in Block : Evict(b)
    BY <2>2, SameOpen DEF Evict, Open, logLock
  <2>3. CASE Recover
    <3>1. Open = {} /\ \A p \in Proc : wrote[p] = {}
      BY <2>3, NobodyWrites DEF Recover, ReadHead, RecoverBlock, EraseHead
    <3>2. UNCHANGED <<pc, wrote>>
      BY <2>3 DEF Recover, ReadHead, RecoverBlock, EraseHead
    <3> QED BY <2>0, <3>1, <3>2, NobodyOpen DEF Open
  <2>4. CASE Crash
    BY <2>0, <2>4, NobodyOpen DEF Crash, Open
  <2>5. CASE UNCHANGED vars
    BY <2>5, SameOpen DEF vars, Open
  <2> QED BY <2>1, <2>2, <2>3, <2>4, <2>5 DEF Next
<1> QED BY InitInv, InitSpace, LogInvStep, <1>1, PTL DEF Spec

(* log_write() never finds the log full, provided that a system call writes
   fewer blocks than begin_op() reserves for it: the check comes before the
   absorption, so a call at its bound may panic on a block already logged. *)
THEOREM LogNoPanic ==
  ASSUME OpBlocks < MAXOPBLOCKS PROVE Spec => []NoLogPanic
<1>1. LogInv /\ Space => NoLogPanic
  <2> SUFFICES ASSUME LogInv, Space, NEW p \in Proc, At(p, "op")
               PROVE  Len(lh) < LOGBLOCKS /\ outstanding >= 1 /\ ~committing
    BY DEF NoLogPanic
  <2>1. p \in Open
    BY DEF At, Open
  <2>2. outstanding \in Nat /\ outstanding # 0 /\ outstanding = Cardinality(Open)
    BY <2>1, OpenFinite, FS_EmptySet DEF LogInv, Counted
  <2>3. Cardinality(Pairs) <= outstanding * OpBlocks
    BY <2>2, PairsBound DEF Space, Open
  <2>4. outstanding * OpBlocks < outstanding * MAXOPBLOCKS
    BY <2>2, SizeAssumption
  <2>5. Len(lh) < LOGBLOCKS
    <3>1. /\ Len(lh) \in Int /\ LOGBLOCKS \in Int /\ outstanding * OpBlocks \in Int
          /\ outstanding * MAXOPBLOCKS \in Int /\ Cardinality(Pairs) \in Int
      BY <2>2, SizeAssumption, LenProperties, FS_CardinalityType DEF LogInv, TypeOK, Space
    <3>2. Len(lh) + outstanding * MAXOPBLOCKS - Cardinality(Pairs) <= LOGBLOCKS
      BY DEF Space
    <3> QED BY <2>3, <2>4, <3>1, <3>2
  <2> QED BY <2>1, <2>2, <2>5 DEF LogInv, Phases
<1> QED BY <1>1, LogSpaceReserved, PTL

-----------------------------------------------------------------------------
(* Refinement of AtomicDisk *)

(* What recovery makes of the home blocks hm, the log lg and its header hd. *)
Recovered(hm, lg, hd) ==
  [b \in Block |-> IF \E i \in DOMAIN hd : hd[i] = b
                   THEN lg[CHOOSE i \in DOMAIN hd : hd[i] = b]
                   ELSE hm[b]]

LEMMA RecoveredValue ==
  ASSUME NEW hm, NEW lg, NEW hd \in Seq(Block), \A i, j \in 1..Len(hd) : hd[i] = hd[j] => i = j
  PROVE  /\ \A i \in 1..Len(hd) : Recovered(hm, lg, hd)[hd[i]] = lg[i]
         /\ \A b \in Block : (\A i \in 1..Len(hd) : hd[i] # b) => Recovered(hm, lg, hd)[b] = hm[b]
<1>1. DOMAIN hd = 1..Len(hd) /\ \A i \in 1..Len(hd) : hd[i] \in Block
  BY LenProperties, ElementOfSeq
<1>2. ASSUME NEW i \in 1..Len(hd) PROVE Recovered(hm, lg, hd)[hd[i]] = lg[i]
  <2>1. (CHOOSE j \in DOMAIN hd : hd[j] = hd[i]) = i
    BY <1>1
  <2> QED BY <1>1, <2>1 DEF Recovered
<1> QED BY <1>1, <1>2 DEF Recovered

LEMMA DurableLogged ==
  ASSUME LogInv, head = lh
  PROVE  /\ \A i \in 1..Len(lh) : Durable[lh[i]] = logged[i]
         /\ \A b \in Block : ~InLh(b) => Durable[b] = home[b]
<1>1. Durable = Recovered(home, logged, lh)
  BY DEF Durable, Recovered
<1>2. DOMAIN lh = 1..Len(lh)
  BY LenProperties DEF LogInv, TypeOK
<1>3. lh \in Seq(Block) /\ \A i, j \in 1..Len(lh) : lh[i] = lh[j] => i = j
  BY DEF LogInv, TypeOK, Loops
<1>4. /\ \A i \in 1..Len(lh) : Recovered(home, logged, lh)[lh[i]] = logged[i]
      /\ \A b \in Block : (\A i \in 1..Len(lh) : lh[i] # b) => Recovered(home, logged, lh)[b] = home[b]
  BY <1>3, RecoveredValue
<1> QED BY <1>1, <1>2, <1>4 DEF InLh

LEMMA DurableHome == head = <<>> => Durable = [b \in Block |-> home[b]]
  BY DEF Durable

LEMMA MemValue ==
  ASSUME LogInv
  PROVE  /\ \A b \in Block : ~InLh(b) => Bread(b) = home[b]
         /\ \A i \in 1..Len(lh) : Installed(i) => Bread(lh[i]) = home[lh[i]] /\ home[lh[i]] = logged[i]
         /\ \A i \in 1..Len(lh) : ~Installed(i) /\ boot = "up" => Bread(lh[i]) = cache[lh[i]]
  BY DEF LogInv, Copies, Clean, Bread

(* The step of the log does not show. *)
Hidden == UNCHANGED <<Mem, Durable, Open, committing>>

LEMMA QuietStep ==
  ASSUME UNCHANGED <<home, logged, head, cache, committing, boot>>
  PROVE  UNCHANGED <<Mem, Durable, committing>>
  BY DEF Mem, Durable, Bread

LEMMA BeginCase == ASSUME LogInv, NEW p \in Proc, BeginOp(p) PROVE Disk!AbsBegin(p)
<1>1. Open' = Open \cup {p} /\ p \notin Open
  BY DEF LogInv, TypeOK, Open, BeginOp, At, Go
<1> QED BY <1>1, QuietStep DEF BeginOp, Disk!AbsBegin, Open

LEMMA WriteCase ==
  ASSUME LogInv, NEW p \in Proc, NEW b \in Block, NEW v \in Val, LogWrite(p, b, v)
  PROVE  Disk!AbsWrite(p, b, v)
<1>1. /\ boot = "up" /\ boot' = "up" /\ p \in Open /\ cache' = [cache EXCEPT ![b] = v]
      /\ UNCHANGED <<home, logged, head, pc, committing>>
  BY DEF LogWrite, At, Open
<1>2. Durable' = Durable /\ Open' = Open
  BY <1>1 DEF Durable, Open
<1>3. \A c \in Block : Bread(c)' = IF c = b THEN v ELSE Bread(c)
  BY <1>1, ValAssumption DEF LogInv, TypeOK, Bread
<1>4. Mem' = [Mem EXCEPT ![b] = v]
  BY <1>1, <1>3 DEF Mem
<1> QED BY <1>1, <1>2, <1>4 DEF Disk!AbsWrite, Open

LEMMA EndCase ==
  ASSUME LogInv, LogInv', NEW p \in Proc, EndAny(p) PROVE Disk!AbsEnd(p)
<1>1. UNCHANGED <<home, logged, head, cache, boot>> /\ p \in Open
  BY DEF EndAny, EndOp, EndOpLast, At, Open
<1>2. Open' = Open \ {p}
  BY LeaveOpen DEF EndAny, EndOp, WakeupAnd, Open, LogInv
<1>3. committing' = (Open' = {})
  <2>1. CASE EndOp(p)
    <3>1. outstanding' # 0 /\ committing' = FALSE
      BY <2>1 DEF EndOp, LogInv, TypeOK
    <3>2. Open' # {}
      BY <3>1, FS_EmptySet DEF LogInv, Counted
    <3> QED BY <3>1, <3>2
  <2>2. CASE EndOpLast(p)
    BY <2>2 DEF EndOpLast, LogInv, Phases
  <2> QED BY <2>1, <2>2 DEF EndAny
<1>4. UNCHANGED <<Mem, Durable>>
  BY <1>1 DEF Mem, Durable, Bread
<1> QED BY <1>1, <1>2, <1>3, <1>4 DEF Disk!AbsEnd, Open

(* Where p is, the commit is, and nobody else. *)
LEMMA CommitPhase ==
  ASSUME LogInv, NEW l \in CommitLabels, NEW p \in Proc, At(p, l)
  PROVE  /\ \A k \in CommitLabels : InPhase(k) <=> k = l
         /\ boot = "up" /\ committing /\ Open = {}
  BY DEF LogInv, Phases, InPhase, At

LEMMA WriteLogCase == ASSUME LogInv, NEW p \in Proc, WriteLog(p) PROVE Hidden
<1>1. /\ boot = "up" /\ committing /\ head = <<>> /\ Open = {}
      /\ UNCHANGED <<home, head, committing, boot>>
      /\ \A k \in CommitLabels : InPhase(k) <=> k = "write_log"
  BY CommitPhase DEF WriteLog, At, logLock, LogInv, Header, CommitLabels
<1>2. tail \in 1..Len(lh) /\ lh[tail] \in Block
  <2>1. tail <= Len(lh)
    BY <1>1 DEF LogInv, Loops, CommitLabels
  <2>2. tail \in Nat /\ tail >= 1 /\ Len(lh) \in Nat /\ lh \in Seq(Block)
    BY LenProperties, SizeAssumption DEF LogInv, TypeOK
  <2> QED BY <2>1, <2>2, ElementOfSeq
<1>3. Bread(lh[tail]) = cache[lh[tail]]
  BY <1>1, <1>2, MemValue DEF Installed, CommitLabels
<1>4. cache' = cache
  BY <1>2, <1>3 DEF WriteLog, LogInv, TypeOK
<1>5. Durable' = Durable
  BY <1>1, DurableHome DEF Durable
<1>6. Open' = {}
  BY <1>1 DEF Open, WriteLog, LoopTo, Go, LogInv, TypeOK
<1> QED BY <1>1, <1>4, <1>5, <1>6 DEF Hidden, Mem, Bread

LEMMA WriteHeadCase == ASSUME LogInv, NEW p \in Proc, WriteHead(p), LogInv' PROVE Disk!AbsCommit
<1>1. /\ boot = "up" /\ committing /\ Open = {}
      /\ UNCHANGED <<home, logged, cache, lh, committing, boot>> /\ head' = lh
      /\ \A k \in CommitLabels : InPhase(k) <=> k = "write_head"
  BY CommitPhase DEF WriteHead, At, logLock, CommitLabels
<1>2. lh \in Seq(Block) /\ DOMAIN lh = 1..Len(lh) /\ \A i \in 1..Len(lh) : lh[i] \in Block
  BY LenProperties, ElementOfSeq DEF LogInv, TypeOK
<1>3. Durable' = Recovered(home, logged, lh)
  BY <1>1 DEF Durable, Recovered
<1>4. /\ \A i \in 1..Len(lh) : Durable'[lh[i]] = logged[i]
      /\ \A b \in Block : ~InLh(b) => Durable'[b] = home[b]
  BY <1>2, <1>3, RecoveredValue DEF LogInv, Loops, InLh
<1>5. \A i \in 1..Len(lh) : Bread(lh[i]) = logged[i]
  BY <1>1, MemValue DEF Installed, Logged, CommitLabels, LogInv, Copies
<1>6. \A b \in Block : Durable'[b] = Bread(b)
  BY <1>2, <1>4, <1>5, MemValue DEF InLh
<1>7. Durable' = Mem
  BY <1>1, <1>3, <1>6 DEF Mem, Recovered
<1>8. Mem' = Mem
  BY <1>1 DEF Mem, Bread
<1>9. Open' = {}
  BY <1>1 DEF Open, WriteHead, Go, LogInv, TypeOK
<1> QED BY <1>1, <1>7, <1>8, <1>9 DEF Disk!AbsCommit, Open

(* Installing a block that the header names changes nothing durable. *)
LEMMA InstallDurable ==
  ASSUME LogInv, head = lh, tail \in 1..Len(lh), InstallBlock(lh[tail]), UNCHANGED <<logged, head>>
  PROVE  Durable' = Durable
<1>1. home' = [home EXCEPT ![lh[tail]] = logged[tail]] /\ DOMAIN lh = 1..Len(lh)
  BY LenProperties DEF InstallBlock, LogInv, TypeOK
<1>2. \A b \in Block : (~\E i \in DOMAIN head : head[i] = b) => home'[b] = home[b]
  BY <1>1 DEF LogInv, TypeOK
<1> QED BY <1>2 DEF Durable

LEMMA InstallCase == ASSUME LogInv, NEW p \in Proc, InstallTrans(p) PROVE Hidden
<1>1. /\ boot = "up" /\ committing /\ head = lh /\ Open = {}
      /\ UNCHANGED <<logged, head, lh, committing, boot>> /\ InstallBlock(lh[tail])
      /\ \A k \in CommitLabels : InPhase(k) <=> k = "install"
  BY CommitPhase DEF InstallTrans, At, logLock, LogInv, Header, CommitLabels
<1>2. tail \in 1..Len(lh) /\ lh[tail] \in Block
  <2>1. tail <= Len(lh)
    BY <1>1 DEF LogInv, Loops, CommitLabels
  <2>2. tail \in Nat /\ tail >= 1 /\ Len(lh) \in Nat /\ lh \in Seq(Block)
    BY LenProperties, SizeAssumption DEF LogInv, TypeOK
  <2> QED BY <2>1, <2>2, ElementOfSeq
<1>3. Bread(lh[tail]) = logged[tail] /\ Bread(lh[tail]) = cache[lh[tail]] /\ cache[lh[tail]] # NotCached
  <2>1. ~Installed(tail) /\ Logged(tail)
    BY <1>1, <1>2 DEF Installed, Logged, CommitLabels
  <2> QED BY <1>1, <1>2, <2>1, MemValue DEF LogInv, Copies
<1>4. \A b \in Block : Bread(b)' = Bread(b)
  <2>1. \A b \in Block : b # lh[tail] => home'[b] = home[b] /\ cache'[b] = cache[b]
    BY <1>1 DEF InstallBlock, LogInv, TypeOK
  <2>2. cache'[lh[tail]] = logged[tail]
    BY <1>1, <1>2 DEF InstallBlock, LogInv, TypeOK
  <2> QED BY <1>3, <2>1, <2>2 DEF Bread
<1>5. Durable' = Durable
  BY <1>1, <1>2, InstallDurable
<1>6. Open' = {}
  BY <1>1 DEF Open, InstallTrans, LoopTo, Go, LogInv, TypeOK
<1> QED BY <1>1, <1>4, <1>5, <1>6 DEF Hidden, Mem

LEMMA ClearCase == ASSUME LogInv, NEW p \in Proc, ClearHead(p) PROVE Hidden
<1>1. /\ boot = "up" /\ committing /\ head = lh /\ Open = {} /\ head' = <<>>
      /\ UNCHANGED <<home, cache, committing, boot>>
      /\ \A k \in CommitLabels : InPhase(k) <=> k = "clear"
  BY CommitPhase DEF ClearHead, At, LogInv, Header, CommitLabels
<1>2. \A b \in Block : Durable[b] = home[b]
  <2>1. \A i \in 1..Len(lh) : Durable[lh[i]] = home[lh[i]]
    BY <1>1, DurableLogged, MemValue DEF Installed, CommitLabels
  <2>2. DOMAIN lh = 1..Len(lh)
    BY LenProperties DEF LogInv, TypeOK
  <2> QED BY <1>1, <2>1, <2>2, DurableLogged DEF InLh
<1>3. Durable' = [b \in Block |-> home[b]]
  BY <1>1 DEF Durable
<1>4. Durable' = Durable
  BY <1>2, <1>3 DEF Durable
<1>5. Open' = {}
  BY <1>1 DEF Open, ClearHead, Go, LogInv, TypeOK
<1> QED BY <1>1, <1>4, <1>5 DEF Hidden, Mem, Bread

LEMMA EndCommitCase == ASSUME LogInv, NEW p \in Proc, EndCommit(p) PROVE Disk!AbsClosed
<1>1. /\ boot = "up" /\ committing /\ head = <<>> /\ lh = <<>> /\ Open = {}
      /\ UNCHANGED <<home, logged, head, cache, boot>> /\ committing' = FALSE
  BY CommitPhase DEF EndCommit, At, LogInv, Loops, Header, CommitLabels, InPhase
<1>2. UNCHANGED <<Mem, Durable>>
  BY <1>1 DEF Mem, Durable, Bread
<1>3. \A b \in Block : Bread(b) = home[b]
  BY <1>1, MemValue DEF InLh
<1>4. Durable = Mem
  BY <1>1, <1>3, DurableHome DEF Mem
<1>5. Open' = {}
  BY <1>1 DEF Open, EndCommit, WakeupAnd
<1> QED BY <1>1, <1>2, <1>4, <1>5 DEF Disk!AbsClosed, Open

LEMMA EvictCase == ASSUME LogInv, NEW b \in Block, Evict(b) PROVE Hidden
<1>1. /\ UNCHANGED <<home, logged, head, pc, boot, committing>>
      /\ cache' = [cache EXCEPT ![b] = NotCached] /\ pins[b] = 0
  BY DEF Evict, logLock
<1>2. Durable' = Durable /\ Open' = Open
  BY <1>1 DEF Durable, Open
<1>3. CASE boot = "up"
  <2>1. cache[b] \in {NotCached, home[b]}
    <3>1. CASE ~InLh(b)
      BY <3>1 DEF LogInv, Copies, Clean
    <3>2. CASE InLh(b)
      <4>1. PICK i \in 1..Len(lh) : lh[i] = b
        BY <3>2, LenProperties DEF LogInv, TypeOK, InLh
      <4>2. Installed(i)
        BY <1>1, <1>3, <4>1 DEF LogInv, Copies
      <4> QED BY <4>1, <4>2 DEF LogInv, Copies, Clean
    <3> QED BY <3>1, <3>2
  <2>2. \A c \in Block : Bread(c)' = Bread(c)
    BY <1>1, <2>1 DEF Bread, LogInv, TypeOK
  <2> QED BY <1>1, <1>2, <1>3, <2>2 DEF Hidden, Mem
<1>4. CASE boot # "up"
  BY <1>1, <1>2, <1>4 DEF Hidden, Mem
<1> QED BY <1>3, <1>4

LEMMA CrashCase == ASSUME Crash PROVE Disk!AbsCrash
<1>1. Durable' = Durable /\ Mem' = Durable
  BY DEF Crash, Durable, Mem
<1>2. Open' = {}
  BY DEF Crash, Open
<1> QED BY <1>1, <1>2 DEF Crash, Disk!AbsCrash, Open

LEMMA RecoverCase == ASSUME LogInv, Recover PROVE Hidden
<1>1. UNCHANGED <<logged, pc, committing>> /\ Open' = Open
  BY DEF Recover, ReadHead, RecoverBlock, EraseHead, logLock, Open
<1>2. CASE ReadHead
  <2>1. Durable' = Durable /\ boot # "up" /\ boot' # "up"
    BY <1>2 DEF ReadHead, Durable
  <2> QED BY <1>1, <2>1 DEF Hidden, Mem
<1>3. CASE RecoverBlock
  <2>1. /\ boot = "recover" /\ boot' # "up" /\ head = lh /\ head' = head
        /\ InstallBlock(lh[tail]) /\ tail <= Len(lh)
    BY <1>3 DEF RecoverBlock, LogInv, Loops, Header
  <2>2. tail \in Nat /\ tail >= 1 /\ Len(lh) \in Nat
    BY LenProperties, SizeAssumption DEF LogInv, TypeOK
  <2>3. Durable' = Durable
    BY <1>1, <2>1, <2>2, InstallDurable
  <2> QED BY <1>1, <2>1, <2>3 DEF Hidden, Mem
<1>4. CASE EraseHead
  <2>1. /\ boot = "erase" /\ boot' = "up" /\ head = lh /\ head' = <<>>
        /\ UNCHANGED <<home, cache>>
    BY <1>4 DEF EraseHead, LogInv, Header
  <2>2. \A i \in 1..Len(lh) : Installed(i)
    BY <2>1 DEF Installed
  <2>3. \A b \in Block : Durable[b] = home[b] /\ Bread(b) = home[b]
    <3>1. DOMAIN lh = 1..Len(lh)
      BY LenProperties DEF LogInv, TypeOK
    <3> QED BY <2>1, <2>2, <3>1, DurableLogged, MemValue DEF InLh
  <2>4. Durable' = [b \in Block |-> home[b]] /\ Mem' = [b \in Block |-> Bread(b)]
    BY <2>1 DEF Durable, Mem, Bread
  <2>5. Durable = [b \in Block |-> home[b]] /\ Mem = Durable
    <3>1. Durable = [b \in Block |-> Durable[b]]
      BY DEF Durable
    <3> QED BY <2>1, <2>3, <3>1 DEF Mem
  <2>6. Mem' = Mem /\ Durable' = Durable
    BY <2>3, <2>4, <2>5
  <2> QED BY <1>1, <2>6 DEF Hidden
<1> QED BY <1>2, <1>3, <1>4 DEF Recover

LEMMA InitCase == Init => Disk!AbsInit
<1> SUFFICES ASSUME Init PROVE Disk!AbsInit
  OBVIOUS
<1>1. Durable = [b \in Block |-> Blank] /\ Mem = Durable
  BY DEF Init, Durable, Mem
<1>2. {p \in Proc : pc[p] = "op"} = {}
  BY DEF Init
<1> QED BY <1>1, <1>2 DEF Init, Disk!AbsInit

LEMMA HiddenStep == Hidden => UNCHANGED Disk!absVars
  BY DEF Hidden, Disk!absVars, Open

LEMMA RunCase ==
  ASSUME LogInv, LogInv', NEW p \in Proc, Run(p) PROVE Disk!AbsNext \/ UNCHANGED Disk!absVars
<1>1. CASE StartCall(p) \/ BeginSleep(p)
  <2>1. UNCHANGED <<home, logged, head, cache, committing, boot>> /\ Open' = Open
    BY <1>1 DEF StartCall, BeginSleep, At, Go, Open, logLock, LogInv, TypeOK
  <2> QED BY <2>1, QuietStep, HiddenStep DEF Hidden
<1>2. CASE BeginOp(p)
  BY <1>2, BeginCase DEF Disk!AbsNext
<1>3. CASE EndAny(p)
  BY <1>3, EndCase DEF Disk!AbsNext
<1>4. CASE WriteLog(p) \/ InstallTrans(p) \/ ClearHead(p)
  BY <1>4, WriteLogCase, InstallCase, ClearCase, HiddenStep
<1>5. CASE WriteHead(p)
  BY <1>5, WriteHeadCase DEF Disk!AbsNext
<1>6. CASE EndCommit(p)
  BY <1>6, EndCommitCase DEF Disk!AbsNext
<1>7. CASE \E b \in Block, v \in Val : LogWrite(p, b, v)
  BY <1>7, WriteCase DEF Disk!AbsNext
<1> QED BY <1>1, <1>2, <1>3, <1>4, <1>5, <1>6, <1>7 DEF Run, Commit

LEMMA NextCase == LogInv /\ LogInv' /\ [Next]_vars => [Disk!AbsNext]_(Disk!absVars)
<1> SUFFICES ASSUME LogInv, LogInv', [Next]_vars
             PROVE  Disk!AbsNext \/ UNCHANGED Disk!absVars
  OBVIOUS
<1>1. CASE \E p \in Proc : Run(p)
  BY <1>1, RunCase
<1>2. CASE \E b \in Block : Evict(b)
  BY <1>2, EvictCase, HiddenStep
<1>3. CASE Recover
  BY <1>3, RecoverCase, HiddenStep
<1>4. CASE Crash
  BY <1>4, CrashCase DEF Disk!AbsNext
<1>5. CASE UNCHANGED vars
  <2>1. UNCHANGED <<home, logged, head, cache, committing, boot, pc>>
    BY <1>5 DEF vars
  <2>2. Open' = Open
    BY <2>1 DEF Open
  <2> QED BY <2>1, <2>2, QuietStep, HiddenStep DEF Hidden
<1> QED BY <1>1, <1>2, <1>3, <1>4, <1>5 DEF Next

(* The log implements the abstract disk: a transaction writes memory only,
   write_head() makes all of the group durable in one step, end_op() returns
   after that, and a crash - in commit() and in recovery too - falls back on
   the last durable image.  Every other step is invisible. *)
THEOREM LogCrashAtomic == Spec => CrashAtomic
<1>1. Spec => Disk!AbsInit /\ [][Disk!AbsNext]_(Disk!absVars)
  BY InitCase, NextCase, LogInvariant, PTL DEF Spec
<1> QED BY <1>1 DEF CrashAtomic, Disk!AbsSpec
=============================================================================
