----------------------------- MODULE FileProofs -----------------------------
(***************************************************************************)
(* Theorems about FileBlocks: its inductive invariant, that every block    *)
(* has one owner whatever fails or crashes where, that a transaction logs  *)
(* no more than it has reserved, and that files are the sequences of bytes *)
(* of OpenFiles.                                                           *)
(*                                                                         *)
(* FileInv is what the code relies on: who holds ip->lock and where his    *)
(* call is (Basic), the owners of the blocks, with those that an itrunc()  *)
(* under way has freed taken off its file (OwnedInv), files without holes  *)
(* (NoHoles), what a file held when its lock was last free against what    *)
(* its blocks hold now (Remembered), and the blocks that a transaction     *)
(* under way may have logged (LogFits).                                    *)
(***************************************************************************)
EXTENDS FileBlocks, Sequences, FiniteSetTheorems, TLAPS

BlockOrNone == Block \cup {NoBlock}
AnyByte == Byte \cup {Zero, None}

BlockType == [bytes : [0..(BSIZE - 1) -> AnyByte],
              ptrs : [0..(NINDIRECT - 1) -> BlockOrNone]]
NodeType == [size : Nat, addrs : [0..NDIRECT -> BlockOrNone]]
DiskType == [used : SUBSET Block, blk : [Block -> BlockType], node : [File -> NodeType]]
CallType == [d : Desc, byte : Byte \cup {None}]

Locked == {"write", "update", "trunc"}

FileTypeOK ==
  /\ disk \in DiskType /\ com \in DiskType
  /\ mem \in [File -> NodeType]
  /\ lock \in [File -> Process \cup {None}]
  /\ off \in [Desc -> Nat]
  /\ pc \in [Process -> {"idle", "chunk", "open"} \cup Locked]
  /\ call \in [Process -> CallType \cup {None}]
  /\ left \in [Process -> Nat] /\ tot \in [Process -> Nat]

(* Who holds ip->lock, and what is known of his call. *)
Holders ==
  /\ \A f \in File : lock[f] # None => pc[lock[f]] \in Locked /\ FileOf(lock[f]) = f
  /\ \A p \in Process : pc[p] \in Locked => lock[FileOf(p)] = p

InCall ==
  \A p \in Process :
    /\ pc[p] # "idle" => call[p] \in CallType
    /\ pc[p] \in {"chunk", "write", "update"} => call[p].byte \in Byte /\ left[p] >= 1
    /\ pc[p] \notin Locked => tot[p] = 0
    /\ pc[p] \in {"write", "update"} =>
         /\ tot[p] <= N1(p)
         /\ off[call[p].d] <= mem[FileOf(p)].size
         /\ off[call[p].d] + N1(p) <= MAXFILE * BSIZE
    /\ pc[p] = "write" => tot[p] < N1(p)
    /\ pc[p] = "trunc" => tot[p] <= MAXFILE

(* An inode in memory differs from that on the disk only while it is locked. *)
Written == \A f \in File : lock[f] = None => mem[f] = disk.node[f]

(* The places of a file that itrunc() has freed: those below this one. *)
Truncating(f) == lock[f] # None /\ pc[lock[f]] = "trunc"
Freed(f) == IF Truncating(f) THEN tot[lock[f]] ELSE 0

(* The block that each place of each file names. *)
Names == [f \in File |-> [i \in 0..MAXFILE |->
            IF i < Freed(f) THEN NoBlock ELSE BlockIn(mem[f], disk.blk, i)]]
ComNames == [f \in File |-> [i \in 0..MAXFILE |-> BlockIn(com.node[f], com.blk, i)]]

OwnedOnce(names, used) ==
  /\ \A f \in File, i \in 0..MAXFILE : names[f][i] # NoBlock => names[f][i] \in used
  /\ \A b \in used : \E f \in File, i \in 0..MAXFILE : names[f][i] = b
  /\ \A f, g \in File, i, j \in 0..MAXFILE :
       names[f][i] # NoBlock /\ names[f][i] = names[g][j] => f = g /\ i = j

(* So it is on the disk, and so it was at the last commit. *)
OwnedInv == OwnedOnce(Names, disk.used) /\ OwnedOnce(ComNames, com.used)

(* A file has blocks for its first n bytes. *)
Whole(node, blk, n) ==
  /\ n <= MAXFILE * BSIZE
  /\ \A i \in 0..(n - 1) : BlockAt(node, blk, i \div BSIZE) # NoBlock

NoHoles ==
  /\ \A f \in File : ~Truncating(f) => Whole(mem[f], disk.blk, mem[f].size)
  /\ \A p \in Process : pc[p] \in {"write", "update"} => Whole(mem[FileOf(p)], disk.blk, At(p))
  /\ \A f \in File : Whole(com.node[f], com.blk, com.node[f].size)

(* What a file holds, against what it held when its lock was last free. *)
Remembered ==
  /\ seen \in [File -> Seq(AnyByte)]
  /\ \A f \in File : lock[f] = None => seen[f] = Content(mem[f], disk.blk)
  /\ \A p \in Process : pc[p] \in {"write", "update"} =>
       LET f == FileOf(p) o == off[call[p].d] IN
       /\ Len(seen[f]) = mem[f].size
       /\ \A i \in 0..(MAXFILE * BSIZE - 1) :
            i < mem[f].size \/ i < At(p) =>
              ByteAt(mem[f], disk.blk, i) = IF i >= o /\ i < o + tot[p] THEN call[p].byte
                                            ELSE seen[f][i + 1]

(* The blocks of the file that a transaction has to do with. *)
First(p) == off[call[p].d] \div BSIZE
FirstNew(p) == IF off[call[p].d] % BSIZE = 0 THEN First(p) ELSE First(p) + 1
Last(p) == (off[call[p].d] + N1(p) - 1) \div BSIZE
Touched(p) ==
  LET f == FileOf(p) IN
    (IF mem[f].addrs[NDIRECT] = NoBlock THEN {}
     ELSE {Data(mem[f].addrs[NDIRECT]), Bitmap(mem[f].addrs[NDIRECT])})
    \cup {Data(BlockAt(mem[f], disk.blk, k)) :
            k \in {j \in First(p)..Last(p) : BlockAt(mem[f], disk.blk, j) # NoBlock}}
    \cup {Bitmap(BlockAt(mem[f], disk.blk, k)) :
            k \in {j \in FirstNew(p)..Last(p) : BlockAt(mem[f], disk.blk, j) # NoBlock}}
LogFits ==
  /\ logged = [p \in Process |-> logged[p]]
  /\ \A p \in Process :
       /\ pc[p] \in {"write", "update"} => logged[p] \subseteq Touched(p)
       /\ pc[p] = "trunc" => logged[p] \subseteq {Bitmap(b) : b \in Block}
       /\ pc[p] \notin Locked => IsFiniteSet(logged[p]) /\ Cardinality(logged[p]) <= MAXOPBLOCKS

Basic == FileTypeOK /\ Holders /\ InCall /\ Written

FileInv ==
  /\ Basic /\ OwnedInv
  /\ NoHoles /\ Remembered /\ LogFits

-----------------------------------------------------------------------------
(* Arithmetic. *)

(* A set of natural numbers has a least element. *)
LEMMA Least ==
  ASSUME NEW S \in SUBSET Nat, S # {}
  PROVE  \E x \in S : \A y \in S : x <= y
<1> DEFINE R == OpToRel(<, Nat)
<1>1. \A x, y \in Nat : <<x, y>> \in R <=> x < y
  BY DEF OpToRel
<1>2. IsWellFoundedOn(R, Nat)
  BY NatLessThanWellFounded
<1> HIDE DEF R
<1>3. S \subseteq Nat
  OBVIOUS
<1>4. PICK x \in S : \A y \in S : ~ (<<y, x>> \in R)
  BY <1>2, <1>3, WFMin, Zenon
<1>5. ASSUME NEW y \in S PROVE x <= y
  <2>1. x \in Nat /\ y \in Nat /\ ~(y < x)
    BY <1>1, <1>4
  <2> QED BY <2>1
<1> QED BY <1>5

(* Where a byte lies: its block and its place in the block. *)
LEMMA DivMod ==
  ASSUME NEW a \in Nat
  PROVE  /\ a \div BSIZE \in Nat /\ a % BSIZE \in 0..(BSIZE - 1)
         /\ a = BSIZE * (a \div BSIZE) + (a % BSIZE)
BY FileAssumption, SMT

(* That block and place are the only ones. *)
LEMMA DivUnique ==
  ASSUME NEW q \in Int, NEW r \in Int, NEW s \in Int, NEW t \in Int,
         BSIZE * q + r = BSIZE * s + t, 0 <= r, r < BSIZE, 0 <= t, t < BSIZE
  PROVE  q = s /\ r = t
<1>1. BSIZE * (q - s) = t - r BY FileAssumption
<1>2. CASE q - s >= 1
  <2>1. BSIZE * (q - s) >= BSIZE BY <1>2, FileAssumption
  <2> QED BY <2>1, <1>1, FileAssumption
<1>3. CASE q - s <= -1
  <2>1. BSIZE * (q - s) <= -BSIZE BY <1>3, FileAssumption
  <2> QED BY <2>1, <1>1, FileAssumption
<1> QED BY <1>1, <1>2, <1>3, FileAssumption

(* m bytes from a, all in one block, are m places of that block. *)
LEMMA InBlock ==
  ASSUME NEW a \in Nat, NEW i \in Nat, NEW m \in Nat, (a % BSIZE) + m <= BSIZE
  PROVE  (i >= a /\ i < a + m) <=>
           (i \div BSIZE = a \div BSIZE /\ i % BSIZE >= a % BSIZE /\ i % BSIZE < (a % BSIZE) + m)
<1> DEFINE q == a \div BSIZE  r == a % BSIZE  s == i \div BSIZE  t == i % BSIZE
<1>1. /\ q \in Nat /\ r \in 0..(BSIZE - 1) /\ a = BSIZE * q + r
      /\ s \in Nat /\ t \in 0..(BSIZE - 1) /\ i = BSIZE * s + t
  BY DivMod
<1>2. ASSUME i >= a, i < a + m PROVE s = q /\ t = r + (i - a)
  <2>1. BSIZE * s + t = BSIZE * q + (r + (i - a)) BY <1>1, <1>2, FileAssumption
  <2>2. BSIZE \in Nat \ {0} BY FileAssumption
  <2> HIDE DEF q, r, s, t
  <2>3. CASE r + (i - a) < BSIZE
    BY <1>1, <1>2, <2>1, <2>2, <2>3, DivUnique
  <2>4. r + (i - a) < BSIZE
    BY <1>2, <1>1, <2>2 DEF r
  <2> QED BY <2>3, <2>4
<1> QED BY <1>1, <1>2, FileAssumption

(* The bytes of m blocks lie in blocks below m. *)
LEMMA DivBelow ==
  ASSUME NEW a \in Nat, NEW m \in Nat, a < m * BSIZE
  PROVE  a \div BSIZE < m
<1>1. /\ a \div BSIZE \in Nat /\ a % BSIZE \in 0..(BSIZE - 1)
      /\ a = BSIZE * (a \div BSIZE) + (a % BSIZE)
  BY DivMod
<1>2. CASE a \div BSIZE >= m
  <2>1. BSIZE * (a \div BSIZE) >= BSIZE * m BY <1>1, <1>2, FileAssumption
  <2> QED BY <1>1, <2>1, FileAssumption
<1> QED BY <1>1, <1>2

(* Bytes in order lie in blocks in order. *)
LEMMA DivMonotone ==
  ASSUME NEW a \in Nat, NEW b \in Nat, a <= b
  PROVE  a \div BSIZE <= b \div BSIZE
<1>1. /\ a \div BSIZE \in Nat /\ a % BSIZE \in 0..(BSIZE - 1)
      /\ a = BSIZE * (a \div BSIZE) + (a % BSIZE)
  BY DivMod
<1>2. /\ b \div BSIZE \in Nat /\ b % BSIZE \in 0..(BSIZE - 1)
      /\ b = BSIZE * (b \div BSIZE) + (b % BSIZE)
  BY DivMod
<1>3. b < ((b \div BSIZE) + 1) * BSIZE BY <1>2, FileAssumption
<1>4. a < ((b \div BSIZE) + 1) * BSIZE BY <1>3, <1>2, FileAssumption
<1>5. a \div BSIZE < (b \div BSIZE) + 1 BY <1>4, <1>2, DivBelow
<1> QED BY <1>5, <1>1, <1>2

(* filewrite() writes at least a block at a time. *)
LEMMA Chunks ==
  /\ MaxChunk \in Nat /\ MaxChunk >= 1
  /\ (MAXOPBLOCKS - 1 - 1 - 2) \div 2 \in Nat \ {0}
<1>1. (MAXOPBLOCKS - 1 - 1 - 2) \div 2 \in Nat \ {0}
  BY ChunkAssumption
<1>2. ASSUME NEW m \in Nat \ {0} PROVE m * BSIZE \in Nat /\ m * BSIZE >= 1
  BY FileAssumption
<1> QED BY <1>1, <1>2 DEF MaxChunk

-----------------------------------------------------------------------------
(* Blocks of a file. *)

(* MAXFILE counts the direct blocks and more. *)
LEMMA MaxFileNat == MAXFILE \in Nat /\ NDIRECT <= MAXFILE /\ NDIRECT \in 0..NDIRECT
  BY FileAssumption DEF MAXFILE

(* bmap() finds a block or none. *)
LEMMA BlockAtType ==
  ASSUME NEW node \in NodeType, NEW blk \in [Block -> BlockType], NEW i \in 0..(MAXFILE - 1)
  PROVE  BlockAt(node, blk, i) \in BlockOrNone
BY FileAssumption DEF BlockAt, NodeType, BlockType, BlockOrNone, MAXFILE, Block, NoBlock

(* A place of an inode names a block or none. *)
LEMMA BlockInType ==
  ASSUME NEW node \in NodeType, NEW blk \in [Block -> BlockType], NEW i \in 0..MAXFILE
  PROVE  BlockIn(node, blk, i) \in BlockOrNone
BY FileAssumption, BlockAtType, MaxFileNat DEF BlockIn, NodeType

(* A byte of a file is one that was written or a zero. *)
LEMMA ByteAtType ==
  ASSUME NEW node \in NodeType, NEW blk \in [Block -> BlockType],
         NEW i \in 0..(MAXFILE * BSIZE - 1)
  PROVE  ByteAt(node, blk, i) \in AnyByte
<1>1. i \div BSIZE \in 0..(MAXFILE - 1) /\ i % BSIZE \in 0..(BSIZE - 1)
  <2>1. i \in Nat /\ i < MAXFILE * BSIZE BY FileAssumption, MaxFileNat
  <2> QED BY <2>1, DivMod, DivBelow, MaxFileNat
<1>2. BlockAt(node, blk, i \div BSIZE) \in BlockOrNone
  BY <1>1, BlockAtType
<1> HIDE DEF Block
<1> QED BY <1>1, <1>2 DEF ByteAt, BlockType, BlockOrNone, AnyByte

(* What a file holds is a sequence as long as its size. *)
LEMMA ContentLen ==
  ASSUME NEW node \in NodeType, NEW blk \in [Block -> BlockType],
         node.size <= MAXFILE * BSIZE
  PROVE  /\ Content(node, blk) \in Seq(AnyByte)
         /\ Len(Content(node, blk)) = node.size
         /\ \A i \in 1..node.size : Content(node, blk)[i] = ByteAt(node, blk, i - 1)
<1>1. node.size \in Nat BY DEF NodeType
<1>2. \A i \in 1..node.size : ByteAt(node, blk, i - 1) \in AnyByte
  BY <1>1, ByteAtType, MaxFileNat, FileAssumption
<1> QED BY <1>1, <1>2 DEF Content

-----------------------------------------------------------------------------
(* Types, locks and what is known of a call. *)

(* What is assumed of the constants, and MAXFILE and filewrite()'s max. *)
LEMMA Constants ==
  /\ InodeOf \in [Desc -> File] /\ None \notin Process /\ NBLOCKS \in Nat /\ BSIZE \in Nat \ {0}
  /\ NDIRECT \in Nat /\ NINDIRECT \in Nat /\ Sizes \subseteq Nat \ {0}
  /\ MAXFILE \in Nat /\ NDIRECT <= MAXFILE
  /\ MaxChunk \in Nat /\ MaxChunk >= 1
BY FileAssumption, Chunks, MaxFileNat

(* What is known of a process in the middle of a write. *)
LEMMA Writer ==
  ASSUME Basic, NEW p \in Process, pc[p] \in {"write", "update"}
  PROVE  /\ FileOf(p) \in File /\ lock[FileOf(p)] = p
         /\ call[p] \in CallType /\ call[p].d \in Desc /\ call[p].byte \in Byte
         /\ off[call[p].d] \in Nat /\ tot[p] \in Nat /\ left[p] \in Nat /\ left[p] >= 1
         /\ N1(p) \in Nat /\ N1(p) >= 1 /\ N1(p) <= MaxChunk /\ N1(p) <= left[p]
         /\ At(p) \in Nat /\ At(p) = off[call[p].d] + tot[p]
         /\ At(p) <= MAXFILE * BSIZE
         /\ tot[p] <= N1(p)
         /\ off[call[p].d] <= mem[FileOf(p)].size
         /\ off[call[p].d] + N1(p) <= MAXFILE * BSIZE
         /\ MAXFILE * BSIZE \in Nat
         /\ pc[p] = "write" => At(p) < MAXFILE * BSIZE /\ tot[p] < N1(p)
         /\ mem[FileOf(p)] \in NodeType
<1>1. call[p] \in CallType /\ call[p].d \in Desc /\ call[p].byte \in Byte /\ left[p] >= 1
  BY DEF Basic, InCall, CallType
<1>2. FileOf(p) \in File
  BY <1>1, Constants DEF FileOf
<1>3. MAXFILE * BSIZE \in Nat
  BY Constants
<1>4. off[call[p].d] \in Nat /\ tot[p] \in Nat /\ left[p] \in Nat /\ mem[FileOf(p)] \in NodeType
  BY <1>1, <1>2 DEF Basic, FileTypeOK
<1>5. N1(p) \in Nat /\ N1(p) >= 1 /\ N1(p) <= MaxChunk /\ N1(p) <= left[p]
  BY <1>1, <1>4, Constants DEF N1
<1>6. /\ lock[FileOf(p)] = p /\ tot[p] <= N1(p) /\ off[call[p].d] <= mem[FileOf(p)].size
      /\ off[call[p].d] + N1(p) <= MAXFILE * BSIZE
      /\ pc[p] = "write" => tot[p] < N1(p)
  BY DEF Basic, InCall, Holders, Locked
<1> QED BY <1>1, <1>2, <1>3, <1>4, <1>5, <1>6 DEF At

(* A process that locks no file has the same to show after a step of another
   on a file that is not its own. *)
LEMMA BasicWriteStart ==
  ASSUME Basic, NEW p \in Process, WriteStart(p)
  PROVE  Basic'
<1>1. PICK d \in Desc, n \in Sizes, v \in Byte :
        /\ call' = [call EXCEPT ![p] = [d |-> d, byte |-> v]]
        /\ left' = [left EXCEPT ![p] = n]
  BY DEF WriteStart
<1>2. /\ pc[p] = "idle" /\ pc' = [pc EXCEPT ![p] = "chunk"]
      /\ UNCHANGED <<disk, com, mem, lock, off, tot>>
  BY DEF WriteStart, Goto
<1>3. [d |-> d, byte |-> v] \in CallType /\ n \in Nat /\ n >= 1
  BY Constants DEF CallType
<1>4. FileTypeOK'
  BY <1>1, <1>2, <1>3 DEF Basic, FileTypeOK, Locked
<1>5. \A q \in Process : q # p => call'[q] = call[q] /\ left'[q] = left[q] /\ pc'[q] = pc[q]
  BY <1>1, <1>2 DEF Basic, FileTypeOK
<1>6. pc'[p] = "chunk" /\ call'[p] = [d |-> d, byte |-> v] /\ left'[p] = n
  BY <1>1, <1>2 DEF Basic, FileTypeOK
<1>7. Holders'
  BY <1>2, <1>5, <1>6, Constants DEF Basic, FileTypeOK, Holders, FileOf, Locked
<1>8. InCall'
  BY <1>2, <1>3, <1>5, <1>6 DEF Basic, InCall, FileOf, Locked, N1, At
<1>9. Written'
  BY <1>2 DEF Basic, Written
<1> QED BY <1>4, <1>7, <1>8, <1>9 DEF Basic

(* So does open() with O_TRUNC. *)
LEMMA BasicTruncStart ==
  ASSUME Basic, NEW p \in Process, TruncStart(p)
  PROVE  Basic'
<1>1. PICK d \in Desc : call' = [call EXCEPT ![p] = [d |-> d, byte |-> None]]
  BY DEF TruncStart
<1>2. /\ pc[p] = "idle" /\ pc' = [pc EXCEPT ![p] = "open"]
      /\ UNCHANGED <<disk, com, mem, lock, off, left, tot>>
  BY DEF TruncStart, Goto
<1>3. [d |-> d, byte |-> None] \in CallType
  BY DEF CallType
<1>4. FileTypeOK'
  BY <1>1, <1>2, <1>3 DEF Basic, FileTypeOK, Locked
<1>5. \A q \in Process : q # p => call'[q] = call[q] /\ pc'[q] = pc[q]
  BY <1>1, <1>2 DEF Basic, FileTypeOK
<1>6. pc'[p] = "open" /\ call'[p] = [d |-> d, byte |-> None]
  BY <1>1, <1>2 DEF Basic, FileTypeOK
<1>7. Holders'
  BY <1>2, <1>5, <1>6, Constants DEF Basic, FileTypeOK, Holders, FileOf, Locked
<1>8. InCall'
  BY <1>2, <1>3, <1>5, <1>6 DEF Basic, InCall, FileOf, Locked, N1, At
<1>9. Written'
  BY <1>2 DEF Basic, Written
<1> QED BY <1>4, <1>7, <1>8, <1>9 DEF Basic

(* end_op() commits the disk as it was, or as it is. *)
LEMMA EndOpType ==
  ASSUME Basic, NEW p \in Process, EndOp(p), disk' \in DiskType
  PROVE  com' \in DiskType
BY DEF EndOp, Basic, FileTypeOK

(* The tests of writei() leave what is known of the locks and calls. *)
LEMMA BasicWriteChunk ==
  ASSUME Basic, NEW p \in Process, WriteChunk(p)
  PROVE  Basic'
<1> DEFINE f == FileOf(p)  o == off[call[p].d]
<1>1. /\ pc[p] = "chunk" /\ lock[f] = None /\ UNCHANGED <<disk, mem, off>>
  BY DEF WriteChunk
<1>2. /\ call[p] \in CallType /\ call[p].d \in Desc /\ f \in File /\ o \in Nat
      /\ call[p].byte \in Byte /\ left[p] >= 1 /\ left[p] \in Nat /\ tot[p] = 0
      /\ mem[f] \in NodeType /\ mem[f].size \in Nat
  BY <1>1, Constants DEF Basic, FileTypeOK, InCall, CallType, FileOf, Locked, NodeType
<1>3. CASE o > mem[f].size \/ o + N1(p) > MAXFILE * BSIZE
  <2>1. /\ EndOp(p) /\ UNCHANGED <<lock, tot>>
        /\ pc' = [pc EXCEPT ![p] = "idle"] /\ call' = [call EXCEPT ![p] = None]
        /\ left' = [left EXCEPT ![p] = 0]
    BY <1>3 DEF WriteChunk, Return, Goto
  <2>2. FileTypeOK'
    BY <1>1, <2>1, EndOpType DEF Basic, FileTypeOK
  <2>3. \A q \in Process : q # p => call'[q] = call[q] /\ pc'[q] = pc[q] /\ left'[q] = left[q]
    BY <2>1 DEF Basic, FileTypeOK
  <2>4. pc'[p] = "idle"
    BY <2>1 DEF Basic, FileTypeOK
  <2>5. Holders'
    BY <1>1, <2>1, <2>3, <2>4, Constants DEF Basic, FileTypeOK, Holders, FileOf, Locked
  <2>6. InCall'
    BY <1>1, <1>2, <2>1, <2>3, <2>4 DEF Basic, InCall, FileOf, Locked, N1
  <2>7. Written'
    BY <1>1, <2>1 DEF Basic, Written
  <2> QED BY <2>2, <2>5, <2>6, <2>7 DEF Basic
<1>4. CASE ~(o > mem[f].size \/ o + N1(p) > MAXFILE * BSIZE)
  <2>1. /\ lock' = [lock EXCEPT ![f] = p] /\ tot' = [tot EXCEPT ![p] = 0]
        /\ pc' = [pc EXCEPT ![p] = "write"] /\ UNCHANGED <<com, call, left>>
    BY <1>4 DEF WriteChunk, Goto
  <2>2. FileTypeOK'
    BY <1>1, <1>2, <2>1 DEF Basic, FileTypeOK, Locked
  <2>3. \A q \in Process : q # p => pc'[q] = pc[q] /\ tot'[q] = tot[q]
    BY <2>1 DEF Basic, FileTypeOK
  <2>4. pc'[p] = "write" /\ tot'[p] = 0
    BY <2>1 DEF Basic, FileTypeOK
  <2>5. lock'[f] = p /\ \A g \in File : g # f => lock'[g] = lock[g]
    BY <1>2, <2>1 DEF Basic, FileTypeOK
  <2>6. Holders'
    BY <1>1, <1>2, <2>1, <2>3, <2>4, <2>5, Constants DEF Basic, FileTypeOK, Holders, FileOf, Locked
  <2>7. N1(p)' = N1(p) /\ N1(p) \in Nat /\ N1(p) >= 1
    BY <1>2, <2>1, Constants DEF N1
  <2>8. o <= mem[f].size /\ o + N1(p) <= MAXFILE * BSIZE
    BY <1>2, <1>4, <2>7, Constants
  <2>9. InCall'
    BY <1>1, <1>2, <2>1, <2>3, <2>4, <2>7, <2>8 DEF Basic, InCall, FileOf, Locked, N1
  <2>10. Written'
    BY <1>1, <1>2, <2>1, <2>5, Constants DEF Basic, Written
  <2> QED BY <2>2, <2>6, <2>9, <2>10 DEF Basic
<1> QED BY <1>3, <1>4

-----------------------------------------------------------------------------
(* balloc() for bmap(). *)

(* balloc() finds a block that is free. *)
LEMMA LowestFree ==
  ASSUME Free # {} PROVE Lowest \in Block /\ Lowest \notin disk.used
<1>1. \E x \in Free : \A y \in Free : x <= y
  <2>1. Free \in SUBSET Nat
    BY Constants DEF Free, Block
  <2> QED BY <2>1, Least
<1>2. Lowest \in Free
  BY <1>1 DEF Lowest
<1> QED BY <1>2 DEF Free

(* bzero() leaves a block. *)
LEMMA ZeroBlockType == ZeroBlock \in BlockType
  BY DEF ZeroBlock, BlockType, AnyByte, BlockOrNone

(* A new indirect block names no block. *)
LEMMA ZeroPtrs == \A j \in 0..(NINDIRECT - 1) : ZeroBlock.ptrs[j] = NoBlock
  BY DEF ZeroBlock

(* No free block is a file's indirect block. *)
LEMMA IndirectUsed ==
  ASSUME Basic, OwnedOnce(Names, disk.used), NEW g \in File
  PROVE  /\ mem[g].addrs[NDIRECT] \in BlockOrNone
         /\ mem[g].addrs[NDIRECT] # NoBlock =>
              /\ mem[g].addrs[NDIRECT] \in Block
              /\ mem[g].addrs[NDIRECT] \in disk.used
              /\ \A h \in File : mem[h].addrs[NDIRECT] = mem[g].addrs[NDIRECT] => h = g
<1>1. \A h \in File : /\ mem[h] \in NodeType /\ Freed(h) \in Nat /\ Freed(h) <= MAXFILE
  <2> TAKE h \in File
  <2>1. mem[h] \in NodeType /\ lock[h] \in Process \cup {None}
    BY DEF Basic, FileTypeOK
  <2>2. CASE lock[h] # None /\ pc[lock[h]] = "trunc"
    BY <2>1, <2>2 DEF Freed, Truncating, Basic, FileTypeOK, InCall
  <2> QED BY <2>1, <2>2, Constants DEF Freed, Truncating
<1>2. \A h \in File : Names[h][MAXFILE] = mem[h].addrs[NDIRECT]
  BY <1>1, Constants DEF Names, BlockIn
<1>3. \A h \in File : mem[h].addrs[NDIRECT] \in BlockOrNone
  BY <1>1, Constants DEF NodeType
<1>4. MAXFILE \in 0..MAXFILE
  BY Constants
<1> QED
  BY <1>2, <1>3, <1>4 DEF OwnedOnce, BlockOrNone

(* balloc() in bmap(): a free block is named by one place of the file,      *)
(* which named none before; all else is named as before.                    *)
LEMMA AllocEffect ==
  ASSUME Basic, OwnedOnce(Names, disk.used), NEW p \in Process, WriteAlloc(p), Free # {}
  PROVE  \E b \in Block \ disk.used, w \in 0..MAXFILE :
           /\ disk' \in DiskType /\ mem' \in [File -> NodeType]
           /\ disk'.used = disk.used \cup {b} /\ disk'.node = disk.node
           /\ \A g \in File : mem'[g].size = mem[g].size /\ (g # FileOf(p) => mem'[g] = mem[g])
           /\ \A c \in Block : c # b => disk'.blk[c].bytes = disk.blk[c].bytes
           /\ BlockIn(mem[FileOf(p)], disk.blk, w) = NoBlock
           /\ \A g \in File, i \in 0..MAXFILE :
                BlockIn(mem'[g], disk'.blk, i) =
                  IF g = FileOf(p) /\ i = w THEN b ELSE BlockIn(mem[g], disk.blk, i)
           /\ w = At(p) \div BSIZE \/ (w = MAXFILE /\ mem[FileOf(p)].addrs[NDIRECT] = NoBlock)
           /\ w \in NDIRECT..(MAXFILE - 1) => mem[FileOf(p)].addrs[NDIRECT] # NoBlock
           /\ logged' = [logged EXCEPT ![p] = @ \cup {Bitmap(b), Data(b)} \cup
                           (IF w \in NDIRECT..(MAXFILE - 1)
                            THEN {Data(mem[FileOf(p)].addrs[NDIRECT])} ELSE {})]
           /\ UNCHANGED <<com, lock, off, pc, call, left, tot>>
<1> DEFINE f == FileOf(p)  b == Lowest  bn == At(p) \div BSIZE
           indirect == mem[f].addrs[NDIRECT]
           got == [disk EXCEPT !.used = @ \cup {b}, !.blk[b] = ZeroBlock]
<1>1. /\ pc[p] = "write" /\ BlockAt(mem[f], disk.blk, bn) = NoBlock /\ Alloc(p)
      /\ UNCHANGED <<com, lock, off, pc, call, left, tot>>
  BY DEF WriteAlloc
<1>2. b \in Block /\ b \notin disk.used /\ b # NoBlock
  BY LowestFree, Constants DEF Block, NoBlock
<1>3. /\ f \in File /\ At(p) \in Nat /\ At(p) < MAXFILE * BSIZE /\ mem[f] \in NodeType
  BY <1>1, Writer
<1>4. bn \in 0..(MAXFILE - 1) /\ bn \in 0..MAXFILE /\ bn # MAXFILE
  <2>1. bn \in Nat
    BY <1>3, DivMod
  <2>2. bn < MAXFILE
    BY <1>3, DivBelow, Constants
  <2> HIDE DEF bn
  <2> QED BY <2>1, <2>2, Constants
<1>5. disk \in DiskType /\ mem \in [File -> NodeType]
  BY DEF Basic, FileTypeOK
<1>6. \A g \in File : mem[g].addrs[NDIRECT] # b
  BY <1>2, IndirectUsed
<1>7. /\ indirect \in BlockOrNone
      /\ indirect # NoBlock =>
           indirect \in Block /\ \A h \in File : mem[h].addrs[NDIRECT] = indirect => h = f
  BY <1>3, IndirectUsed
<1> HIDE DEF f, b, bn
<1>8. /\ got \in DiskType /\ got.used = disk.used \cup {b} /\ got.node = disk.node
      /\ got.blk = [disk.blk EXCEPT ![b] = ZeroBlock]
      /\ got.blk[b] = ZeroBlock /\ \A c \in Block : c # b => got.blk[c] = disk.blk[c]
  BY <1>2, <1>5, ZeroBlockType DEF DiskType
<1> HIDE DEF got
<1>9. \A g \in File, i \in 0..MAXFILE : BlockIn(mem[g], got.blk, i) = BlockIn(mem[g], disk.blk, i)
  <2> TAKE g \in File, i \in 0..MAXFILE
  <2>1. mem[g].addrs[NDIRECT] \in BlockOrNone
    BY <1>5, Constants DEF NodeType
  <2> QED BY <1>6, <1>8, <2>1 DEF BlockIn, BlockAt, BlockOrNone
<1>10. CASE bn < NDIRECT
  <2>1. /\ disk' = got /\ mem' = [mem EXCEPT ![f].addrs[bn] = b]
        /\ logged' = [logged EXCEPT ![p] = @ \cup {Bitmap(b), Data(b)}]
    BY <1>1, <1>10 DEF Alloc, LogWrite, got, f, b, bn
  <2>2. /\ mem' \in [File -> NodeType] /\ \A g \in File : g # f => mem'[g] = mem[g]
        /\ mem'[f].size = mem[f].size
        /\ mem'[f].addrs = [mem[f].addrs EXCEPT ![bn] = b]
    BY <2>1, <1>2, <1>3, <1>4, <1>5, <1>10, Constants DEF NodeType, BlockOrNone
  <2>3. mem[f].addrs \in [0..NDIRECT -> BlockOrNone]
    BY <1>3 DEF NodeType
  <2>4. BlockIn(mem[f], disk.blk, bn) = NoBlock
    BY <1>1, <1>4 DEF BlockIn, f, bn
  <2>5. \A i \in 0..MAXFILE : BlockIn(mem'[f], got.blk, i) = IF i = bn THEN b ELSE BlockIn(mem[f], got.blk, i)
    BY <2>2, <2>3, <1>4, <1>10, Constants DEF BlockIn, BlockAt
  <2>6. bn \notin NDIRECT..(MAXFILE - 1)
    BY <1>4, <1>10, Constants
  <2> b \in Block \ disk.used /\ bn \in 0..MAXFILE
    BY <1>2, <1>4
  <2> WITNESS b \in Block \ disk.used, bn \in 0..MAXFILE
  <2>7. \A g \in File, i \in 0..MAXFILE :
          BlockIn(mem'[g], disk'.blk, i) = IF g = f /\ i = bn THEN b ELSE BlockIn(mem[g], disk.blk, i)
    BY <2>1, <2>2, <2>5, <1>9
  <2>8. /\ disk' \in DiskType /\ disk'.used = disk.used \cup {b} /\ disk'.node = disk.node
        /\ \A c \in Block : c # b => disk'.blk[c].bytes = disk.blk[c].bytes
    BY <2>1, <1>8
  <2>9. logged' = [logged EXCEPT ![p] = @ \cup {Bitmap(b), Data(b)} \cup {}]
    BY <2>1
  <2> QED BY <2>2, <2>4, <2>6, <2>7, <2>8, <2>9, <1>1 DEF f, bn
<1>11. CASE bn >= NDIRECT /\ indirect = NoBlock
  <2>1. /\ disk' = got /\ mem' = [mem EXCEPT ![f].addrs[NDIRECT] = b]
        /\ logged' = [logged EXCEPT ![p] = @ \cup {Bitmap(b), Data(b)}]
    BY <1>1, <1>11, <1>4, Constants DEF Alloc, LogWrite, got, f, b, bn
  <2>2. /\ mem' \in [File -> NodeType] /\ \A g \in File : g # f => mem'[g] = mem[g]
        /\ mem'[f].size = mem[f].size
        /\ mem'[f].addrs = [mem[f].addrs EXCEPT ![NDIRECT] = b]
    BY <2>1, <1>2, <1>3, <1>5, Constants DEF NodeType, BlockOrNone
  <2>3. mem[f].addrs \in [0..NDIRECT -> BlockOrNone]
    BY <1>3 DEF NodeType
  <2>4. BlockIn(mem[f], disk.blk, MAXFILE) = NoBlock
    BY <1>11 DEF BlockIn
  <2>5. \A i \in 0..MAXFILE : BlockIn(mem'[f], got.blk, i) = IF i = MAXFILE THEN b ELSE BlockIn(mem[f], got.blk, i)
    <3> TAKE i \in 0..MAXFILE
    <3>1. CASE i = MAXFILE
      BY <3>1, <2>2, <2>3, Constants DEF BlockIn
    <3>2. CASE i < NDIRECT /\ i # MAXFILE
      BY <3>2, <2>2, <2>3, Constants DEF BlockIn, BlockAt
    <3>3. CASE i >= NDIRECT /\ i # MAXFILE
      <4>1. i - NDIRECT \in 0..(NINDIRECT - 1)
        BY <3>3, Constants DEF MAXFILE
      <4>2. got.blk[b].ptrs[i - NDIRECT] = NoBlock
        BY <4>1, <1>8, ZeroPtrs
      <4>3. mem'[f].addrs[NDIRECT] = b /\ b # NoBlock /\ ~(i < NDIRECT)
        BY <2>2, <2>3, <1>2, <3>3, Constants
      <4> QED BY <4>2, <4>3, <3>3, <1>11 DEF BlockIn, BlockAt
    <3> QED BY <3>1, <3>2, <3>3, Constants
  <2>6. MAXFILE \notin NDIRECT..(MAXFILE - 1) /\ MAXFILE \in 0..MAXFILE
    BY Constants
  <2> b \in Block \ disk.used /\ MAXFILE \in 0..MAXFILE
    BY <1>2, Constants
  <2> WITNESS b \in Block \ disk.used, MAXFILE \in 0..MAXFILE
  <2>7. \A g \in File, i \in 0..MAXFILE :
          BlockIn(mem'[g], disk'.blk, i) = IF g = f /\ i = MAXFILE THEN b ELSE BlockIn(mem[g], disk.blk, i)
    BY <2>1, <2>2, <2>5, <1>9
  <2>8. /\ disk' \in DiskType /\ disk'.used = disk.used \cup {b} /\ disk'.node = disk.node
        /\ \A c \in Block : c # b => disk'.blk[c].bytes = disk.blk[c].bytes
    BY <2>1, <1>8
  <2>9. logged' = [logged EXCEPT ![p] = @ \cup {Bitmap(b), Data(b)} \cup {}]
    BY <2>1
  <2> QED BY <2>2, <2>4, <2>6, <2>7, <2>8, <2>9, <1>1, <1>11 DEF f, bn
<1>12. CASE bn >= NDIRECT /\ indirect # NoBlock
  <2>1. /\ disk' = [got EXCEPT !.blk[indirect].ptrs[bn - NDIRECT] = b] /\ mem' = mem
        /\ logged' = [logged EXCEPT ![p] = @ \cup {Bitmap(b), Data(b), Data(indirect)}]
    BY <1>1, <1>12, <1>4, Constants DEF Alloc, LogWrite, got, f, b, bn
  <2>2. indirect \in Block /\ indirect # b /\ bn - NDIRECT \in 0..(NINDIRECT - 1)
    <3>1. indirect \in Block /\ indirect # b
      BY <1>12, <1>7, <1>6, <1>3
    <3>2. bn - NDIRECT \in 0..(NINDIRECT - 1)
      BY <1>12, <1>4, Constants DEF MAXFILE
    <3> QED BY <3>1, <3>2
  <2>3. got.blk[indirect] \in BlockType
    BY <2>2, <1>8 DEF DiskType
  <2>4. /\ disk' \in DiskType /\ disk'.used = got.used /\ disk'.node = got.node
        /\ \A c \in Block : disk'.blk[c].bytes = got.blk[c].bytes
        /\ \A c \in Block : c # indirect => disk'.blk[c] = got.blk[c]
        /\ disk'.blk[indirect].ptrs = [got.blk[indirect].ptrs EXCEPT ![bn - NDIRECT] = b]
    BY <2>1, <2>2, <2>3, <1>8, <1>2 DEF DiskType, BlockType, BlockOrNone
  <2>5. BlockIn(mem[f], disk.blk, bn) = NoBlock
    BY <1>1, <1>4 DEF BlockIn, f, bn
  <2>6. \A g \in File, i \in 0..MAXFILE :
          BlockIn(mem[g], disk'.blk, i) = IF g = f /\ i = bn THEN b ELSE BlockIn(mem[g], got.blk, i)
    <3> TAKE g \in File, i \in 0..MAXFILE
    <3>1. mem[g].addrs[NDIRECT] \in BlockOrNone
      BY <1>5, Constants DEF NodeType
    <3>2. CASE i < NDIRECT \/ i = MAXFILE
      BY <3>2, <1>4, <1>12, Constants DEF BlockIn, BlockAt
    <3>3. CASE g # f
      <4>1. mem[g].addrs[NDIRECT] # indirect
        BY <3>3, <1>7, <1>12
      <4> QED BY <4>1, <3>1, <2>4, <3>3 DEF BlockIn, BlockAt, BlockOrNone
    <3>4. CASE g = f /\ i >= NDIRECT /\ i # MAXFILE
      <4>1. i - NDIRECT \in 0..(NINDIRECT - 1) /\ ~(i < NDIRECT)
        BY <3>4, Constants DEF MAXFILE
      <4>2. BlockIn(mem[g], disk'.blk, i) = disk'.blk[indirect].ptrs[i - NDIRECT]
        BY <3>4, <4>1, <1>12 DEF BlockIn, BlockAt
      <4>3. BlockIn(mem[g], got.blk, i) = got.blk[indirect].ptrs[i - NDIRECT]
        BY <3>4, <4>1, <1>12 DEF BlockIn, BlockAt
      <4>4. i = bn <=> i - NDIRECT = bn - NDIRECT
        BY <1>4, <3>4, Constants
      <4>5. got.blk[indirect].ptrs \in [0..(NINDIRECT - 1) -> BlockOrNone]
        BY <2>3 DEF BlockType
      <4> QED BY <4>1, <4>2, <4>3, <4>4, <4>5, <2>4, <3>4, <2>2
    <3> QED BY <3>2, <3>3, <3>4, Constants
  <2>7. bn \in NDIRECT..(MAXFILE - 1)
    BY <1>4, <1>12, Constants
  <2> b \in Block \ disk.used /\ bn \in 0..MAXFILE
    BY <1>2, <1>4
  <2> WITNESS b \in Block \ disk.used, bn \in 0..MAXFILE
  <2>8. \A g \in File, i \in 0..MAXFILE :
          BlockIn(mem'[g], disk'.blk, i) = IF g = f /\ i = bn THEN b ELSE BlockIn(mem[g], disk.blk, i)
    BY <2>1, <2>6, <1>9
  <2>9. /\ disk' \in DiskType /\ disk'.used = disk.used \cup {b} /\ disk'.node = disk.node
        /\ \A c \in Block : c # b => disk'.blk[c].bytes = disk.blk[c].bytes
    BY <2>4, <1>8
  <2>10. logged' = [logged EXCEPT ![p] = @ \cup {Bitmap(b), Data(b)} \cup {Data(indirect)}]
    <3>1. {Bitmap(b), Data(b), Data(indirect)} = {Bitmap(b), Data(b)} \cup {Data(indirect)}
      OBVIOUS
    <3>2. logged[p] \cup {Bitmap(b), Data(b), Data(indirect)}
          = logged[p] \cup {Bitmap(b), Data(b)} \cup {Data(indirect)}
      OBVIOUS
    <3> QED BY <2>1, <3>2
  <2> QED BY <2>1, <2>5, <2>7, <2>8, <2>9, <2>10, <1>1, <1>5, <1>12 DEF f, bn
<1> QED BY <1>10, <1>11, <1>12, <1>4, Constants

(* balloc() in bmap() leaves what is known of the locks and calls. *)
LEMMA BasicWriteAlloc ==
  ASSUME Basic, OwnedOnce(Names, disk.used), NEW p \in Process, WriteAlloc(p)
  PROVE  Basic'
<1> DEFINE f == FileOf(p)
<1>1. pc[p] = "write" /\ UNCHANGED <<com, lock, off, call, left, tot>>
  BY DEF WriteAlloc
<1>2. f \in File /\ lock[f] = p
  BY <1>1, Writer
<1>3. CASE Free = {}
  <2>1. pc' = [pc EXCEPT ![p] = "update"] /\ UNCHANGED <<disk, mem, logged>>
    BY <1>3 DEF WriteAlloc, Goto
  <2>2. FileTypeOK'
    BY <1>1, <2>1 DEF Basic, FileTypeOK, Locked
  <2>3. pc'[p] = "update" /\ \A q \in Process : q # p => pc'[q] = pc[q]
    BY <2>1 DEF Basic, FileTypeOK
  <2>4. Holders'
    BY <1>1, <1>2, <2>1, <2>3, Constants DEF Basic, FileTypeOK, Holders, FileOf, Locked
  <2>5. InCall'
    BY <1>1, <1>2, <2>1, <2>3 DEF Basic, InCall, FileOf, Locked, N1
  <2>6. Written'
    BY <1>1, <2>1 DEF Basic, Written
  <2> QED BY <2>2, <2>4, <2>5, <2>6 DEF Basic
<1>4. CASE Free # {}
  <2>1. /\ disk' \in DiskType /\ mem' \in [File -> NodeType] /\ disk'.node = disk.node
        /\ \A g \in File : mem'[g].size = mem[g].size /\ (g # f => mem'[g] = mem[g])
        /\ pc' = pc
    BY <1>4, AllocEffect
  <2>2. FileTypeOK'
    BY <1>1, <2>1 DEF Basic, FileTypeOK
  <2>3. Holders'
    BY <1>1, <2>1 DEF Basic, Holders, FileOf, Locked
  <2>4. \A q \in Process : call[q] \in CallType => FileOf(q) \in File
    BY Constants DEF CallType, FileOf
  <2>5. InCall'
    BY <1>1, <2>1, <2>4 DEF Basic, InCall, FileOf, Locked, N1
  <2>6. Written'
    BY <1>1, <1>2, <2>1, Constants DEF Basic, Written
  <2> QED BY <2>2, <2>3, <2>5, <2>6 DEF Basic
<1> QED BY <1>3, <1>4

-----------------------------------------------------------------------------
(* A block is written. *)

CopyBlock(p) == BlockAt(mem[FileOf(p)], disk.blk, At(p) \div BSIZE)
CopyFrom(p) == At(p) % BSIZE
CopyLen(p) == IF N1(p) - tot[p] < BSIZE - CopyFrom(p) THEN N1(p) - tot[p] ELSE BSIZE - CopyFrom(p)

(* What is copied lies in one block of the file and in what is left of      *)
(* the chunk.                                                               *)
LEMMA CopyRange ==
  ASSUME Basic, NEW p \in Process, pc[p] = "write", CopyBlock(p) # NoBlock
  PROVE  /\ CopyBlock(p) \in Block
         /\ CopyFrom(p) \in 0..(BSIZE - 1)
         /\ CopyLen(p) \in Nat /\ CopyLen(p) >= 1 /\ CopyFrom(p) + CopyLen(p) <= BSIZE
         /\ tot[p] + CopyLen(p) <= N1(p)
         /\ At(p) \div BSIZE \in 0..(MAXFILE - 1)
<1>1. /\ FileOf(p) \in File /\ At(p) \in Nat /\ At(p) < MAXFILE * BSIZE /\ mem[FileOf(p)] \in NodeType
      /\ tot[p] < N1(p) /\ tot[p] \in Nat /\ N1(p) \in Nat
  BY Writer
<1>2. At(p) \div BSIZE \in Nat /\ At(p) % BSIZE \in 0..(BSIZE - 1)
  BY <1>1, DivMod
<1>3. At(p) \div BSIZE < MAXFILE
  BY <1>1, DivBelow, Constants
<1>4. At(p) \div BSIZE \in 0..(MAXFILE - 1)
  BY <1>2, <1>3, Constants
<1>5. CopyBlock(p) \in BlockOrNone
  <2>1. disk.blk \in [Block -> BlockType]
    BY DEF Basic, FileTypeOK, DiskType
  <2> QED BY <1>1, <1>4, <2>1, BlockAtType DEF CopyBlock
<1>6. CopyFrom(p) \in 0..(BSIZE - 1)
  BY <1>2 DEF CopyFrom
<1>7. /\ CopyLen(p) \in Nat /\ CopyLen(p) >= 1 /\ CopyFrom(p) + CopyLen(p) <= BSIZE
      /\ tot[p] + CopyLen(p) <= N1(p)
  BY <1>1, <1>6, Constants DEF CopyLen
<1> QED BY <1>4, <1>5, <1>6, <1>7 DEF BlockOrNone

(* The copy changes these bytes of this block, or nothing. *)
LEMMA CopyEffect ==
  ASSUME Basic, NEW p \in Process, WriteCopy(p)
  PROVE  /\ pc[p] = "write" /\ CopyBlock(p) # NoBlock
         /\ UNCHANGED <<com, mem, lock, off, call, left>>
         /\ \/ pc' = [pc EXCEPT ![p] = "update"] /\ UNCHANGED <<disk, tot, logged>>
            \/ /\ disk' \in DiskType /\ disk'.used = disk.used /\ disk'.node = disk.node
               /\ \A c \in Block : disk'.blk[c].ptrs = disk.blk[c].ptrs
               /\ \A c \in Block : c # CopyBlock(p) => disk'.blk[c].bytes = disk.blk[c].bytes
               /\ \A i \in 0..(BSIZE - 1) :
                    disk'.blk[CopyBlock(p)].bytes[i] =
                      IF i >= CopyFrom(p) /\ i < CopyFrom(p) + CopyLen(p) THEN call[p].byte
                      ELSE disk.blk[CopyBlock(p)].bytes[i]
               /\ tot' = [tot EXCEPT ![p] = @ + CopyLen(p)]
               /\ logged' = [logged EXCEPT ![p] = @ \cup {Data(CopyBlock(p))}]
               /\ pc' = [pc EXCEPT ![p] = IF tot[p] + CopyLen(p) = N1(p) THEN "update" ELSE "write"]
<1>1. /\ pc[p] = "write" /\ CopyBlock(p) # NoBlock
      /\ UNCHANGED <<com, mem, lock, off, call, left>>
  BY DEF WriteCopy, CopyBlock
<1> DEFINE b == CopyBlock(p)
           new == [i \in 0..(BSIZE - 1) |->
                     IF i >= CopyFrom(p) /\ i < CopyFrom(p) + CopyLen(p) THEN call[p].byte
                     ELSE disk.blk[b].bytes[i]]
<1>2. \/ pc' = [pc EXCEPT ![p] = "update"] /\ UNCHANGED <<disk, tot, logged>>
      \/ /\ disk' = [disk EXCEPT !.blk[b].bytes = new]
         /\ tot' = [tot EXCEPT ![p] = @ + CopyLen(p)]
         /\ logged' = [logged EXCEPT ![p] = @ \cup {Data(b)}]
         /\ pc' = [pc EXCEPT ![p] = IF tot[p] + CopyLen(p) = N1(p) THEN "update" ELSE "write"]
  BY DEF WriteCopy, CopyBlock, CopyFrom, CopyLen, Goto, LogWrite
<1>3. b \in Block
  BY <1>1, CopyRange
<1>4. disk \in DiskType /\ disk.blk[b] \in BlockType
  BY <1>3 DEF Basic, FileTypeOK, DiskType
<1>5. call[p].byte \in AnyByte
  BY <1>1, Writer DEF AnyByte
<1>6. new \in [0..(BSIZE - 1) -> AnyByte]
  BY <1>4, <1>5 DEF BlockType
<1>7. \A i \in 0..(BSIZE - 1) :
        new[i] = IF i >= CopyFrom(p) /\ i < CopyFrom(p) + CopyLen(p) THEN call[p].byte
                 ELSE disk.blk[b].bytes[i]
  OBVIOUS
<1> HIDE DEF b, new
<1>8. ASSUME disk' = [disk EXCEPT !.blk[b].bytes = new]
      PROVE  /\ disk' \in DiskType /\ disk'.used = disk.used /\ disk'.node = disk.node
             /\ \A c \in Block : disk'.blk[c].ptrs = disk.blk[c].ptrs
             /\ \A c \in Block : c # b => disk'.blk[c].bytes = disk.blk[c].bytes
             /\ disk'.blk[b].bytes = new
  BY <1>3, <1>4, <1>6, <1>8 DEF DiskType, BlockType
<1> QED BY <1>1, <1>2, <1>7, <1>8 DEF b

(* The copy leaves what is known of the locks and calls. *)
LEMMA BasicWriteCopy ==
  ASSUME Basic, NEW p \in Process, WriteCopy(p)
  PROVE  Basic'
<1> DEFINE f == FileOf(p)
<1>1. /\ pc[p] = "write" /\ CopyBlock(p) # NoBlock
      /\ UNCHANGED <<com, mem, lock, off, call, left>>
  BY CopyEffect
<1>2. f \in File /\ lock[f] = p /\ tot[p] \in Nat /\ N1(p) \in Nat
  BY <1>1, Writer
<1>3. /\ disk' \in DiskType /\ disk'.node = disk.node
      /\ \/ pc' = [pc EXCEPT ![p] = "update"] /\ tot' = tot
         \/ /\ tot' = [tot EXCEPT ![p] = @ + CopyLen(p)]
            /\ pc' = [pc EXCEPT ![p] = IF tot[p] + CopyLen(p) = N1(p) THEN "update" ELSE "write"]
  <2>1. disk \in DiskType
    BY DEF Basic, FileTypeOK
  <2> QED BY <2>1, CopyEffect
<1>4. CopyLen(p) \in Nat /\ tot[p] + CopyLen(p) <= N1(p)
  BY <1>1, CopyRange
<1>5. FileTypeOK'
  BY <1>1, <1>2, <1>3, <1>4 DEF Basic, FileTypeOK, Locked
<1>6. /\ pc'[p] \in {"write", "update"} /\ tot'[p] <= N1(p) /\ tot'[p] \in Nat
      /\ pc'[p] = "write" => tot'[p] < N1(p)
      /\ \A q \in Process : q # p => pc'[q] = pc[q] /\ tot'[q] = tot[q]
  BY <1>2, <1>3, <1>4 DEF Basic, FileTypeOK
<1>7. Holders'
  BY <1>1, <1>2, <1>6, Constants DEF Basic, FileTypeOK, Holders, FileOf, Locked
<1>8. InCall'
  BY <1>1, <1>2, <1>6 DEF Basic, InCall, FileOf, Locked, N1
<1>9. Written'
  BY <1>1, <1>3 DEF Basic, Written
<1> QED BY <1>5, <1>7, <1>8, <1>9 DEF Basic

-----------------------------------------------------------------------------
(* The end of a chunk, and a read. *)

(* The end of a chunk: the size, the inode on the disk, the offset and      *)
(* the lock.                                                                *)
LEMMA DoneEffect ==
  ASSUME Basic, NEW p \in Process, WriteDone(p)
  PROVE  /\ pc[p] = "update" /\ NewNode(p) \in NodeType
         /\ NewNode(p).addrs = mem[FileOf(p)].addrs
         /\ NewNode(p).size = IF At(p) > mem[FileOf(p)].size THEN At(p) ELSE mem[FileOf(p)].size
         /\ mem' = [mem EXCEPT ![FileOf(p)] = NewNode(p)]
         /\ disk' \in DiskType /\ disk'.used = disk.used /\ disk'.blk = disk.blk
         /\ disk'.node = [disk.node EXCEPT ![FileOf(p)] = NewNode(p)]
         /\ logged' = [logged EXCEPT ![p] = @ \cup {<<"inode", FileOf(p)>>}]
         /\ off' = [off EXCEPT ![call[p].d] = At(p)]
         /\ lock' = [lock EXCEPT ![FileOf(p)] = None]
         /\ tot' = [tot EXCEPT ![p] = 0]
         /\ EndOp(p) /\ com' \in DiskType
         /\ \/ /\ tot[p] = N1(p) /\ left[p] > tot[p] /\ pc' = [pc EXCEPT ![p] = "chunk"]
               /\ left' = [left EXCEPT ![p] = @ - tot[p]] /\ UNCHANGED call
            \/ /\ pc' = [pc EXCEPT ![p] = "idle"] /\ left' = [left EXCEPT ![p] = 0]
               /\ call' = [call EXCEPT ![p] = None]
<1>1. pc[p] = "update"
  BY DEF WriteDone
<1>2. /\ FileOf(p) \in File /\ At(p) \in Nat /\ mem[FileOf(p)] \in NodeType
  BY <1>1, Writer
<1>3. /\ NewNode(p) \in NodeType /\ NewNode(p).addrs = mem[FileOf(p)].addrs
      /\ NewNode(p).size = IF At(p) > mem[FileOf(p)].size THEN At(p) ELSE mem[FileOf(p)].size
  BY <1>2 DEF NewNode, NodeType
<1>4. /\ disk' = [disk EXCEPT !.node[FileOf(p)] = NewNode(p)]
      /\ mem' = [mem EXCEPT ![FileOf(p)] = NewNode(p)]
      /\ logged' = [logged EXCEPT ![p] = @ \cup {<<"inode", FileOf(p)>>}]
      /\ off' = [off EXCEPT ![call[p].d] = At(p)]
      /\ lock' = [lock EXCEPT ![FileOf(p)] = None]
      /\ tot' = [tot EXCEPT ![p] = 0] /\ EndOp(p)
  BY DEF WriteDone, Iupdate, LogWrite, NewOff
<1>5. /\ disk' \in DiskType /\ disk'.used = disk.used /\ disk'.blk = disk.blk
      /\ disk'.node = [disk.node EXCEPT ![FileOf(p)] = NewNode(p)]
  <2>1. disk \in DiskType
    BY DEF Basic, FileTypeOK
  <2> QED BY <1>2, <1>3, <1>4, <2>1 DEF DiskType
<1>6. com' \in DiskType
  BY <1>4, <1>5, EndOpType
<1>7. \/ /\ tot[p] = N1(p) /\ left[p] > tot[p] /\ pc' = [pc EXCEPT ![p] = "chunk"]
         /\ left' = [left EXCEPT ![p] = @ - tot[p]] /\ UNCHANGED call
      \/ /\ pc' = [pc EXCEPT ![p] = "idle"] /\ left' = [left EXCEPT ![p] = 0]
         /\ call' = [call EXCEPT ![p] = None]
  BY DEF WriteDone, Return, Goto
<1> QED BY <1>1, <1>3, <1>4, <1>5, <1>6, <1>7

(* The end of a chunk leaves what is known of the locks and calls. *)
LEMMA BasicWriteDone ==
  ASSUME Basic, NEW p \in Process, WriteDone(p)
  PROVE  Basic'
<1> DEFINE f == FileOf(p)  d == call[p].d
<1>1. /\ f \in File /\ lock[f] = p /\ call[p] \in CallType /\ d \in Desc /\ InodeOf[d] = f
      /\ call[p].byte \in Byte /\ At(p) \in Nat /\ tot[p] \in Nat /\ left[p] \in Nat
  BY DoneEffect, Writer DEF FileOf
<1>a. /\ NewNode(p) \in NodeType /\ mem' = [mem EXCEPT ![f] = NewNode(p)]
      /\ disk' \in DiskType /\ disk'.node = [disk.node EXCEPT ![f] = NewNode(p)]
      /\ off' = [off EXCEPT ![d] = At(p)] /\ lock' = [lock EXCEPT ![f] = None]
      /\ tot' = [tot EXCEPT ![p] = 0] /\ com' \in DiskType
  BY DoneEffect
<1>b. \/ /\ left[p] > tot[p] /\ pc' = [pc EXCEPT ![p] = "chunk"]
         /\ left' = [left EXCEPT ![p] = @ - tot[p]] /\ UNCHANGED call
      \/ /\ pc' = [pc EXCEPT ![p] = "idle"] /\ left' = [left EXCEPT ![p] = 0]
         /\ call' = [call EXCEPT ![p] = None]
  BY DoneEffect
<1>c. /\ disk \in DiskType /\ mem \in [File -> NodeType] /\ lock \in [File -> Process \cup {None}]
      /\ off \in [Desc -> Nat] /\ pc \in [Process -> {"idle", "chunk", "open"} \cup Locked]
      /\ call \in [Process -> CallType \cup {None}]
      /\ left \in [Process -> Nat] /\ tot \in [Process -> Nat]
  BY DEF Basic, FileTypeOK
<1> HIDE DEF f, d
<1>2. FileTypeOK'
  <2>1. pc' \in [Process -> {"idle", "chunk", "open"} \cup Locked]
    BY <1>b, <1>c
  <2>2. left' \in [Process -> Nat]
    BY <1>b, <1>c, <1>1
  <2>3. call' \in [Process -> CallType \cup {None}]
    BY <1>b, <1>c
  <2> QED BY <1>a, <1>c, <1>1, <2>1, <2>2, <2>3 DEF FileTypeOK
<1>3. \A q \in Process : q # p => /\ call'[q] = call[q] /\ pc'[q] = pc[q] /\ left'[q] = left[q]
                                  /\ tot'[q] = tot[q]
  BY <1>a, <1>b, <1>c
<1>4. /\ tot'[p] = 0
      /\ \/ pc'[p] = "idle"
         \/ pc'[p] = "chunk" /\ call'[p] = call[p] /\ left'[p] >= 1
  BY <1>1, <1>a, <1>b, <1>c
<1>5. /\ lock'[f] = None /\ mem'[f] = NewNode(p) /\ disk'.node[f] = NewNode(p)
      /\ \A g \in File : g # f => /\ lock'[g] = lock[g] /\ mem'[g] = mem[g]
                                  /\ disk'.node[g] = disk.node[g]
  <2>1. disk.node \in [File -> NodeType]
    BY <1>c DEF DiskType
  <2> QED BY <1>1, <1>a, <1>c, <2>1
<1>6. \A e \in Desc : InodeOf[e] # f => off'[e] = off[e]
  BY <1>1, <1>a, <1>c
<1>7. ASSUME NEW q \in Process, q # p, pc[q] \in Locked
      PROVE  FileOf(q) # f /\ FileOf(q) \in File /\ call[q].d \in Desc
  BY <1>1, <1>7, Constants DEF Basic, Holders, InCall, FileOf, CallType, Locked
<1>8. Holders'
  <2>1. \A g \in File : lock'[g] # None => pc'[lock'[g]] \in Locked /\ InodeOf[call'[lock'[g]].d] = g
    <3> TAKE g \in File
    <3> HAVE lock'[g] # None
    <3>1. g # f /\ lock'[g] = lock[g] /\ lock[g] # p
      BY <1>1, <1>5 DEF Basic, Holders
    <3>2. lock[g] \in Process /\ pc[lock[g]] \in Locked /\ FileOf(lock[g]) = g
      BY <3>1, <1>c DEF Basic, Holders
    <3>3. /\ pc'[lock[g]] = pc[lock[g]] /\ call'[lock[g]] = call[lock[g]]
      BY <3>1, <3>2, <1>3
    <3> QED BY <3>1, <3>2, <3>3 DEF FileOf
  <2>2. \A q \in Process : pc'[q] \in Locked => lock'[InodeOf[call'[q].d]] = q
    <3> TAKE q \in Process
    <3> HAVE pc'[q] \in Locked
    <3>1. q # p /\ pc[q] \in Locked /\ call'[q] = call[q]
      BY <1>3, <1>4 DEF Locked
    <3>2. FileOf(q) # f /\ FileOf(q) \in File /\ lock[FileOf(q)] = q
      BY <3>1, <1>7 DEF Basic, Holders
    <3>3. lock'[FileOf(q)] = q
      BY <3>2, <1>5
    <3> QED BY <3>1, <3>3 DEF FileOf
  <2> QED BY <2>1, <2>2 DEF Holders, FileOf
<1>9. InCall'
  <2> SUFFICES ASSUME NEW q \in Process
      PROVE /\ pc'[q] # "idle" => call'[q] \in CallType
            /\ pc'[q] \in {"chunk", "write", "update"} => call'[q].byte \in Byte /\ left'[q] >= 1
            /\ pc'[q] \notin Locked => tot'[q] = 0
            /\ pc'[q] \in {"write", "update"} =>
                 /\ tot'[q] <= N1(q)'
                 /\ off'[call'[q].d] <= mem'[FileOf(q)'].size
                 /\ off'[call'[q].d] + N1(q)' <= MAXFILE * BSIZE
            /\ pc'[q] = "write" => tot'[q] < N1(q)'
            /\ pc'[q] = "trunc" => tot'[q] <= MAXFILE
    BY DEF InCall
  <2>1. CASE q = p
    BY <2>1, <1>1, <1>4 DEF Locked
  <2>2. CASE q # p /\ pc[q] \in Locked
    <3>1. FileOf(q) # f /\ FileOf(q) \in File /\ call[q].d \in Desc
      BY <2>2, <1>7
    <3>2. off'[call[q].d] = off[call[q].d] /\ mem'[FileOf(q)] = mem[FileOf(q)]
      BY <3>1, <1>5, <1>6 DEF FileOf
    <3>3. N1(q)' = N1(q) /\ FileOf(q)' = FileOf(q) /\ call'[q] = call[q] /\ pc'[q] = pc[q]
          /\ tot'[q] = tot[q] /\ left'[q] = left[q]
      BY <2>2, <1>3 DEF N1, FileOf
    <3> QED BY <3>2, <3>3 DEF Basic, InCall
  <2>3. CASE q # p /\ pc[q] \notin Locked
    BY <2>3, <1>3 DEF Basic, InCall, Locked
  <2> QED BY <2>1, <2>2, <2>3
<1>10. Written'
  BY <1>5 DEF Basic, Written
<1> QED BY <1>2, <1>8, <1>9, <1>10 DEF Basic

(* So does read(): no offset of a file that is being written moves. *)
LEMMA BasicRead ==
  ASSUME Basic, NEW p \in Process, Read(p)
  PROVE  Basic'
<1>1. PICK d \in Desc, n \in Sizes :
        /\ lock[InodeOf[d]] = None /\ off[d] < mem[InodeOf[d]].size
        /\ off' = [off EXCEPT ![d] = IF @ + n > mem[InodeOf[d]].size THEN mem[InodeOf[d]].size ELSE @ + n]
  BY DEF Read
<1>2. UNCHANGED <<disk, com, mem, lock, pc, call, left, tot, logged>>
  BY DEF Read, procVars
<1>3. off' \in [Desc -> Nat] /\ \A e \in Desc : e # d => off'[e] = off[e]
  <2>1. mem[InodeOf[d]].size \in Nat /\ n \in Nat /\ off \in [Desc -> Nat]
    BY Constants DEF Basic, FileTypeOK, NodeType
  <2> QED BY <1>1, <2>1
<1>4. FileTypeOK'
  BY <1>2, <1>3 DEF Basic, FileTypeOK
<1>5. Holders' /\ Written'
  BY <1>2 DEF Basic, Holders, Written, FileOf
<1>6. ASSUME NEW q \in Process, pc[q] \in Locked PROVE off'[call[q].d] = off[call[q].d]
  BY <1>1, <1>3, <1>6, Constants DEF Basic, Holders, InCall, FileOf, CallType, Locked
<1>7. InCall'
  BY <1>2, <1>6 DEF Basic, InCall, FileOf, Locked, N1
<1> QED BY <1>4, <1>5, <1>7 DEF Basic

-----------------------------------------------------------------------------
(* open() with O_TRUNC, and itrunc(). *)

(* So does the start of itrunc(). *)
LEMMA BasicTruncLock ==
  ASSUME Basic, NEW p \in Process, TruncLock(p)
  PROVE  Basic'
<1> DEFINE f == FileOf(p)  d == call[p].d
<1>1. /\ pc[p] = "open" /\ lock[f] = None
      /\ off' = [off EXCEPT ![d] = 0] /\ lock' = [lock EXCEPT ![f] = p]
      /\ pc' = [pc EXCEPT ![p] = "trunc"]
      /\ UNCHANGED <<disk, com, mem, call, left, tot>>
  BY DEF TruncLock, Goto
<1>2. /\ call[p] \in CallType /\ d \in Desc /\ f \in File /\ InodeOf[d] = f /\ tot[p] = 0
  BY <1>1, Constants DEF Basic, InCall, CallType, FileOf, Locked
<1> HIDE DEF f, d
<1>3. FileTypeOK'
  BY <1>1, <1>2 DEF Basic, FileTypeOK, Locked
<1>4. /\ pc'[p] = "trunc" /\ \A q \in Process : q # p => pc'[q] = pc[q]
  BY <1>1 DEF Basic, FileTypeOK
<1>5. lock'[f] = p /\ \A g \in File : g # f => lock'[g] = lock[g]
  BY <1>1, <1>2 DEF Basic, FileTypeOK
<1>6. \A e \in Desc : InodeOf[e] # f => off'[e] = off[e]
  BY <1>1, <1>2 DEF Basic, FileTypeOK
<1>7. ASSUME NEW q \in Process, q # p, pc[q] \in Locked
      PROVE  FileOf(q) # f /\ FileOf(q) \in File /\ call[q].d \in Desc
  BY <1>1, <1>7, Constants DEF Basic, Holders, InCall, FileOf, CallType, Locked, f
<1>8. Holders'
  BY <1>1, <1>2, <1>4, <1>5, <1>7, Constants DEF Basic, FileTypeOK, Holders, FileOf, Locked, f, d
<1>9. InCall'
  BY <1>1, <1>2, <1>4, <1>6, <1>7, Constants DEF Basic, InCall, FileOf, Locked, N1
<1>10. Written'
  BY <1>1, <1>2, <1>5, Constants DEF Basic, Written
<1> QED BY <1>3, <1>8, <1>9, <1>10 DEF Basic

(* bfree() in itrunc(): the first block that is left, which is not free. *)
LEMMA FreeEffect ==
  ASSUME Basic, OwnedOnce(Names, disk.used), NEW p \in Process, TruncFree(p)
  PROVE  /\ pc[p] = "trunc" /\ FileOf(p) \in File /\ lock[FileOf(p)] = p /\ tot[p] \in Nat
         /\ UNCHANGED <<com, lock, off, pc, call, left>>
         /\ mem' \in [File -> NodeType] /\ disk' \in DiskType
         /\ disk'.blk = disk.blk /\ disk'.node = disk.node
         /\ \A g \in File : g # FileOf(p) => mem'[g] = mem[g]
         /\ \E i \in tot[p]..(MAXFILE - 1), b \in Block :
              /\ b = BlockIn(mem[FileOf(p)], disk.blk, i) /\ b \in disk.used
              /\ \A j \in tot[p]..(i - 1) : BlockIn(mem[FileOf(p)], disk.blk, j) = NoBlock
              /\ disk'.used = disk.used \ {b}
              /\ tot' = [tot EXCEPT ![p] = i + 1]
              /\ logged' = [logged EXCEPT ![p] = @ \cup {Bitmap(b)}]
              /\ \A j \in 0..MAXFILE : j > i =>
                   BlockIn(mem'[FileOf(p)], disk.blk, j) = BlockIn(mem[FileOf(p)], disk.blk, j)
<1> DEFINE f == FileOf(p)
           i == CHOOSE i \in Remaining(p) : \A j \in Remaining(p) : i <= j
           b == BlockAt(mem[f], disk.blk, i)
<1>1. /\ pc[p] = "trunc" /\ Remaining(p) # {}
      /\ IF b \in disk.used THEN UNCHANGED pc ELSE Goto(p, "panic")
      /\ disk' = [disk EXCEPT !.used = @ \ {b}]
      /\ mem' = IF i < NDIRECT THEN [mem EXCEPT ![f].addrs[i] = NoBlock] ELSE mem
      /\ tot' = [tot EXCEPT ![p] = i + 1]
      /\ logged' = [logged EXCEPT ![p] = @ \cup {Bitmap(b)}]
      /\ UNCHANGED <<com, lock, off, call, left>>
  BY DEF TruncFree, LogWrite
<1>2. /\ f \in File /\ lock[f] = p /\ tot[p] \in Nat /\ tot[p] <= MAXFILE /\ mem[f] \in NodeType
      /\ disk \in DiskType /\ mem \in [File -> NodeType]
  BY <1>1, Constants DEF Basic, FileTypeOK, InCall, Holders, CallType, FileOf, Locked
<1>3. i \in Remaining(p) /\ \A j \in Remaining(p) : i <= j
  <2>1. Remaining(p) \in SUBSET Nat
    BY <1>2, Constants DEF Remaining
  <2>2. \E x \in Remaining(p) : \A y \in Remaining(p) : x <= y
    BY <1>1, <2>1, Least
  <2> QED BY <2>2
<1> HIDE DEF i
<1>4. i \in tot[p]..(MAXFILE - 1) /\ b # NoBlock
  BY <1>3 DEF Remaining
<1>5. b = BlockIn(mem[f], disk.blk, i) /\ i \in 0..(MAXFILE - 1) /\ i \in 0..MAXFILE
  BY <1>2, <1>4, Constants DEF BlockIn
<1>6. b \in Block
  <2>1. disk.blk \in [Block -> BlockType]
    BY <1>2 DEF DiskType
  <2>2. b \in BlockOrNone
    BY <1>2, <1>5, <2>1, BlockAtType
  <2> QED BY <2>2, <1>4 DEF BlockOrNone
<1> HIDE DEF b
<1>7. b \in disk.used
  <2>1. Freed(f) = tot[p]
    BY <1>1, <1>2, Constants DEF Freed, Truncating
  <2>2. Names[f][i] = b
    BY <1>2, <1>4, <1>5, <2>1, Constants DEF Names
  <2> QED BY <2>2, <1>2, <1>4, <1>5 DEF OwnedOnce
<1>8. \A j \in tot[p]..(i - 1) : BlockIn(mem[f], disk.blk, j) = NoBlock
  <2> TAKE j \in tot[p]..(i - 1)
  <2>1. j \notin Remaining(p) /\ j \in tot[p]..(MAXFILE - 1) /\ j # MAXFILE
    BY <1>2, <1>3, <1>4, Constants
  <2> QED BY <2>1 DEF Remaining, BlockIn
<1>9. /\ mem' \in [File -> NodeType] /\ \A g \in File : g # f => mem'[g] = mem[g]
      /\ mem'[f].addrs = IF i < NDIRECT THEN [mem[f].addrs EXCEPT ![i] = NoBlock] ELSE mem[f].addrs
  BY <1>1, <1>2, <1>5, Constants DEF NodeType, BlockOrNone
<1>10. \A j \in 0..MAXFILE : j > i => BlockIn(mem'[f], disk.blk, j) = BlockIn(mem[f], disk.blk, j)
  <2>1. mem[f].addrs \in [0..NDIRECT -> BlockOrNone]
    BY <1>2 DEF NodeType
  <2>2. \A j \in 0..NDIRECT : j > i => mem'[f].addrs[j] = mem[f].addrs[j]
    BY <1>5, <1>9, <2>1, Constants
  <2>3. mem'[f].addrs[NDIRECT] = mem[f].addrs[NDIRECT]
    BY <1>5, <1>9, <2>1, Constants
  <2> QED BY <2>2, <2>3, Constants DEF BlockIn, BlockAt
<1>11. /\ disk' \in DiskType /\ disk'.blk = disk.blk /\ disk'.node = disk.node
       /\ disk'.used = disk.used \ {b}
  BY <1>1, <1>2 DEF DiskType
<1>12. UNCHANGED pc
  BY <1>1, <1>7
<1> QED BY <1>1, <1>2, <1>4, <1>5, <1>6, <1>7, <1>8, <1>9, <1>10, <1>11, <1>12

(* It leaves what is known of the locks and calls. *)
LEMMA BasicTruncFree ==
  ASSUME Basic, OwnedOnce(Names, disk.used), NEW p \in Process, TruncFree(p)
  PROVE  Basic'
<1> DEFINE f == FileOf(p)
<1>1. /\ pc[p] = "trunc" /\ f \in File /\ lock[f] = p
      /\ UNCHANGED <<com, lock, off, pc, call, left>>
      /\ mem' \in [File -> NodeType] /\ disk' \in DiskType /\ disk'.node = disk.node
      /\ \A g \in File : g # f => mem'[g] = mem[g]
  BY FreeEffect
<1>2. PICK i \in tot[p]..(MAXFILE - 1) : tot' = [tot EXCEPT ![p] = i + 1]
  BY FreeEffect
<1>3. tot \in [Process -> Nat] /\ i + 1 \in Nat /\ i + 1 <= MAXFILE
  BY <1>2, Constants DEF Basic, FileTypeOK
<1>4. FileTypeOK'
  BY <1>1, <1>2, <1>3 DEF Basic, FileTypeOK
<1>5. tot'[p] = i + 1 /\ \A q \in Process : q # p => tot'[q] = tot[q]
  BY <1>2, <1>3
<1>6. Holders'
  BY <1>1 DEF Basic, Holders, FileOf
<1>7. \A q \in Process : pc[q] \in {"write", "update"} => FileOf(q) \in File /\ FileOf(q) # f
  BY <1>1, Constants DEF Basic, InCall, Holders, FileOf, CallType, Locked
<1>8. InCall'
  BY <1>1, <1>3, <1>5, <1>7 DEF Basic, InCall, FileOf, Locked, N1
<1>9. Written'
  BY <1>1, Constants DEF Basic, Written
<1> QED BY <1>4, <1>6, <1>8, <1>9 DEF Basic

Gone(p) == {mem[FileOf(p)].addrs[NDIRECT]} \ {NoBlock}

(* The end of itrunc(): the indirect block and the inode. *)
LEMMA TruncDoneEffect ==
  ASSUME Basic, NEW p \in Process, TruncDone(p)
  PROVE  /\ pc[p] = "trunc" /\ Remaining(p) = {} /\ EmptyNode \in NodeType
         /\ FileOf(p) \in File /\ lock[FileOf(p)] = p
         /\ mem' = [mem EXCEPT ![FileOf(p)] = EmptyNode]
         /\ disk' \in DiskType /\ disk'.blk = disk.blk
         /\ disk'.used = disk.used \ Gone(p)
         /\ disk'.node = [disk.node EXCEPT ![FileOf(p)] = EmptyNode]
         /\ logged' = [logged EXCEPT ![p] = @ \cup {Bitmap(b) : b \in Gone(p)} \cup {<<"inode", FileOf(p)>>}]
         /\ lock' = [lock EXCEPT ![FileOf(p)] = None]
         /\ tot' = [tot EXCEPT ![p] = 0]
         /\ EndOp(p) /\ com' \in DiskType
         /\ pc' = [pc EXCEPT ![p] = "idle"] /\ left' = [left EXCEPT ![p] = 0]
         /\ call' = [call EXCEPT ![p] = None] /\ UNCHANGED off
<1>1. pc[p] = "trunc"
  BY DEF TruncDone
<1>2. /\ FileOf(p) \in File /\ lock[FileOf(p)] = p /\ disk \in DiskType
  BY <1>1, Constants DEF Basic, FileTypeOK, InCall, Holders, CallType, FileOf, Locked
<1>3. EmptyNode \in NodeType
  BY DEF EmptyNode, NodeType, BlockOrNone
<1>4. /\ disk' = [disk EXCEPT !.used = @ \ Gone(p), !.node[FileOf(p)] = EmptyNode]
      /\ logged' = [logged EXCEPT ![p] = @ \cup ({Bitmap(b) : b \in Gone(p)} \cup {<<"inode", FileOf(p)>>})]
  BY DEF TruncDone, Gone, LogWrite
<1>5. /\ disk' \in DiskType /\ disk'.blk = disk.blk
      /\ disk'.used = disk.used \ Gone(p)
      /\ disk'.node = [disk.node EXCEPT ![FileOf(p)] = EmptyNode]
  BY <1>2, <1>3, <1>4 DEF DiskType
<1>6. /\ Remaining(p) = {} /\ mem' = [mem EXCEPT ![FileOf(p)] = EmptyNode]
      /\ lock' = [lock EXCEPT ![FileOf(p)] = None] /\ tot' = [tot EXCEPT ![p] = 0] /\ EndOp(p)
      /\ pc' = [pc EXCEPT ![p] = "idle"] /\ left' = [left EXCEPT ![p] = 0]
      /\ call' = [call EXCEPT ![p] = None] /\ UNCHANGED off
  BY DEF TruncDone, Return, Goto
<1>7. logged' = [logged EXCEPT ![p] = @ \cup {Bitmap(b) : b \in Gone(p)} \cup {<<"inode", FileOf(p)>>}]
  <2>1. logged[p] \cup ({Bitmap(b) : b \in Gone(p)} \cup {<<"inode", FileOf(p)>>})
        = logged[p] \cup {Bitmap(b) : b \in Gone(p)} \cup {<<"inode", FileOf(p)>>}
    OBVIOUS
  <2> QED BY <1>4, <2>1
<1>8. com' \in DiskType
  BY <1>5, <1>6, EndOpType
<1> QED BY <1>1, <1>2, <1>3, <1>5, <1>6, <1>7, <1>8

(* It leaves what is known of the locks and calls. *)
LEMMA BasicTruncDone ==
  ASSUME Basic, NEW p \in Process, TruncDone(p)
  PROVE  Basic'
<1> DEFINE f == FileOf(p)
<1>1. /\ pc[p] = "trunc" /\ EmptyNode \in NodeType /\ f \in File /\ lock[f] = p
      /\ mem' = [mem EXCEPT ![f] = EmptyNode] /\ disk' \in DiskType
      /\ disk'.node = [disk.node EXCEPT ![f] = EmptyNode]
      /\ lock' = [lock EXCEPT ![f] = None] /\ tot' = [tot EXCEPT ![p] = 0] /\ com' \in DiskType
      /\ pc' = [pc EXCEPT ![p] = "idle"] /\ left' = [left EXCEPT ![p] = 0]
      /\ call' = [call EXCEPT ![p] = None] /\ UNCHANGED off
  BY TruncDoneEffect
<1>2. FileTypeOK'
  BY <1>1 DEF Basic, FileTypeOK
<1>3. \A q \in Process : q # p => /\ call'[q] = call[q] /\ pc'[q] = pc[q] /\ left'[q] = left[q]
                                  /\ tot'[q] = tot[q]
  BY <1>1 DEF Basic, FileTypeOK
<1>4. pc'[p] = "idle" /\ tot'[p] = 0
  BY <1>1 DEF Basic, FileTypeOK
<1>5. /\ lock'[f] = None /\ mem'[f] = EmptyNode /\ disk'.node[f] = EmptyNode
      /\ \A g \in File : g # f => /\ lock'[g] = lock[g] /\ mem'[g] = mem[g]
                                  /\ disk'.node[g] = disk.node[g]
  <2>1. /\ disk.node \in [File -> NodeType] /\ lock \in [File -> Process \cup {None}]
        /\ mem \in [File -> NodeType]
    BY DEF Basic, FileTypeOK, DiskType
  <2> QED BY <1>1, <2>1
<1>6. ASSUME NEW q \in Process, q # p, pc[q] \in Locked
      PROVE  FileOf(q) # f /\ FileOf(q) \in File /\ call[q].d \in Desc
  BY <1>1, <1>6, Constants DEF Basic, Holders, InCall, FileOf, CallType, Locked
<1> HIDE DEF f
<1>7. Holders'
  <2>1. \A g \in File : lock'[g] # None => pc'[lock'[g]] \in Locked /\ InodeOf[call'[lock'[g]].d] = g
    <3> TAKE g \in File
    <3> HAVE lock'[g] # None
    <3>1. g # f /\ lock'[g] = lock[g] /\ lock[g] # p
      BY <1>1, <1>5 DEF Basic, Holders, f
    <3>2. lock[g] \in Process /\ pc[lock[g]] \in Locked /\ FileOf(lock[g]) = g
      BY <3>1 DEF Basic, Holders, FileTypeOK
    <3>3. pc'[lock[g]] = pc[lock[g]] /\ call'[lock[g]] = call[lock[g]]
      BY <3>1, <3>2, <1>3
    <3> QED BY <3>1, <3>2, <3>3 DEF FileOf
  <2>2. \A q \in Process : pc'[q] \in Locked => lock'[InodeOf[call'[q].d]] = q
    <3> TAKE q \in Process
    <3> HAVE pc'[q] \in Locked
    <3>1. q # p /\ pc[q] \in Locked /\ call'[q] = call[q]
      BY <1>3, <1>4 DEF Locked
    <3>2. FileOf(q) # f /\ FileOf(q) \in File /\ lock[FileOf(q)] = q
      BY <3>1, <1>6 DEF Basic, Holders
    <3>3. lock'[FileOf(q)] = q
      BY <3>2, <1>5
    <3> QED BY <3>1, <3>3 DEF FileOf
  <2> QED BY <2>1, <2>2 DEF Holders, FileOf
<1>8. InCall'
  <2>1. \A q \in Process : q # p /\ pc[q] \in {"write", "update"} => mem'[FileOf(q)] = mem[FileOf(q)]
    BY <1>5, <1>6 DEF Locked
  <2> QED BY <1>1, <1>3, <1>4, <2>1 DEF Basic, InCall, FileOf, Locked, N1
<1>9. Written'
  BY <1>5 DEF Basic, Written
<1> QED BY <1>2, <1>7, <1>8, <1>9 DEF Basic

(* So does a crash. *)
LEMMA BasicCrash ==
  ASSUME Basic, Crash
  PROVE  Basic'
<1>1. FileTypeOK'
  BY DEF Crash, Basic, FileTypeOK, DiskType
<1>2. Holders' /\ Written'
  BY Constants DEF Crash, Basic, Holders, Written, Locked
<1>3. InCall'
  BY DEF Crash, Basic, InCall, Locked
<1> QED BY <1>1, <1>2, <1>3 DEF Basic

-----------------------------------------------------------------------------
(* Who owns which block. *)

(* The owners are those of the names alone. *)
LEMMA OwnedSame ==
  ASSUME NEW N, NEW M, NEW used, OwnedOnce(N, used),
         \A g \in File, i \in 0..MAXFILE : M[g][i] = N[g][i]
  PROVE  OwnedOnce(M, used)
BY DEF OwnedOnce

(* A free block may be named by a place that named none. *)
LEMMA OwnedGive ==
  ASSUME NEW N, NEW M, NEW used, OwnedOnce(N, used),
         NEW f \in File, NEW w \in 0..MAXFILE, NEW b, b \notin used, b # NoBlock, NoBlock \notin used,
         N[f][w] = NoBlock,
         \A g \in File, i \in 0..MAXFILE : M[g][i] = IF g = f /\ i = w THEN b ELSE N[g][i]
  PROVE  OwnedOnce(M, used \cup {b})
<1>1. \A g \in File, i \in 0..MAXFILE : M[g][i] # NoBlock => M[g][i] \in used \cup {b}
  BY DEF OwnedOnce
<1>2. \A c \in used \cup {b} : \E g \in File, i \in 0..MAXFILE : M[g][i] = c
  <2>1. ASSUME NEW c \in used PROVE \E g \in File, i \in 0..MAXFILE : M[g][i] = c
    <3>1. PICK g \in File, i \in 0..MAXFILE : N[g][i] = c
      BY DEF OwnedOnce
    <3>3. ~(g = f /\ i = w)
      BY <3>1
    <3> QED BY <3>1, <3>3
  <2>2. M[f][w] = b
    OBVIOUS
  <2> QED BY <2>1, <2>2
<1>3. \A g, h \in File, i, j \in 0..MAXFILE :
        M[g][i] # NoBlock /\ M[g][i] = M[h][j] => g = h /\ i = j
  <2> TAKE g, h \in File, i, j \in 0..MAXFILE
  <2>1. CASE (g = f /\ i = w) /\ ~(h = f /\ j = w)
    <3>1. M[g][i] = b /\ M[h][j] = N[h][j]
      BY <2>1
    <3>2. N[h][j] # b
      BY DEF OwnedOnce
    <3> QED BY <3>1, <3>2
  <2>2. CASE ~(g = f /\ i = w) /\ (h = f /\ j = w)
    <3>1. M[h][j] = b /\ M[g][i] = N[g][i]
      BY <2>2
    <3>2. N[g][i] # b
      BY DEF OwnedOnce
    <3> QED BY <3>1, <3>2
  <2>3. CASE ~(g = f /\ i = w) /\ ~(h = f /\ j = w)
    <3>1. M[h][j] = N[h][j] /\ M[g][i] = N[g][i]
      BY <2>3
    <3> QED BY <3>1 DEF OwnedOnce
  <2> QED BY <2>1, <2>2, <2>3
<1> QED BY <1>1, <1>2, <1>3 DEF OwnedOnce

(* A block may be freed if its place no longer names it. *)
LEMMA OwnedTake ==
  ASSUME NEW N, NEW M, NEW used, OwnedOnce(N, used),
         NEW f \in File, NEW w \in 0..MAXFILE, N[f][w] # NoBlock,
         \A g \in File, i \in 0..MAXFILE : M[g][i] = IF g = f /\ i = w THEN NoBlock ELSE N[g][i]
  PROVE  OwnedOnce(M, used \ {N[f][w]})
<1>1. \A g \in File, i \in 0..MAXFILE : M[g][i] # NoBlock => M[g][i] \in used \ {N[f][w]}
  BY DEF OwnedOnce
<1>2. \A c \in used \ {N[f][w]} : \E g \in File, i \in 0..MAXFILE : M[g][i] = c
  <2> TAKE c \in used \ {N[f][w]}
  <2>1. PICK g \in File, i \in 0..MAXFILE : N[g][i] = c
    BY DEF OwnedOnce
  <2>2. M[g][i] = c
    BY <2>1
  <2> QED BY <2>2
<1>3. \A g, h \in File, i, j \in 0..MAXFILE :
        M[g][i] # NoBlock /\ M[g][i] = M[h][j] => g = h /\ i = j
  <2> TAKE g, h \in File, i, j \in 0..MAXFILE
  <2> HAVE M[g][i] # NoBlock /\ M[g][i] = M[h][j]
  <2>1. M[g][i] = N[g][i]
    OBVIOUS
  <2>2. M[h][j] = N[h][j]
    OBVIOUS
  <2>3. N[g][i] # NoBlock /\ N[g][i] = N[h][j]
    BY <2>1, <2>2
  <2> QED BY <2>3 DEF OwnedOnce
<1> QED BY <1>1, <1>2, <1>3 DEF OwnedOnce

(* The places freed change for the file a step locks only. *)
LEMMA FreedOthers ==
  ASSUME Basic, NEW p \in Process, NEW g \in File, lock'[g] = lock[g], lock[g] # p,
         \A q \in Process : q # p => pc'[q] = pc[q] /\ tot'[q] = tot[q]
  PROVE  Freed(g)' = Freed(g)
<1>1. lock[g] \in Process \cup {None}
  BY DEF Basic, FileTypeOK
<1> QED BY <1>1 DEF Freed, Truncating

(* A step that leaves the bitmap and the names leaves the owners. *)
LEMMA SameNames ==
  ASSUME OwnedOnce(Names, disk.used), disk'.used = disk.used,
         \A g \in File : Freed(g)' = Freed(g),
         \A g \in File, i \in 0..MAXFILE :
           BlockIn(mem'[g], disk'.blk, i) = BlockIn(mem[g], disk.blk, i)
  PROVE  OwnedOnce(Names, disk.used)'
<1>1. \A g \in File, i \in 0..MAXFILE : Names'[g][i] = Names[g][i]
  BY DEF Names
<1>2. OwnedOnce(Names', disk.used)
  BY <1>1, OwnedSame
<1> QED BY <1>2 DEF OwnedOnce

(* A commit takes the disk as it is, with no file locked; or there is none. *)
LEMMA Commits ==
  ASSUME Basic, Basic', NEW p \in Process, EndOp(p), pc'[p] \notin Locked,
         \A q \in Process : q # p => pc'[q] = pc[q]
  PROVE  \/ com' = com
         \/ com' = disk' /\ \A g \in File : lock'[g] = None /\ mem'[g] = disk'.node[g]
<1>1. CASE \E q \in Process \ {p} : InOp(q)
  BY <1>1 DEF EndOp
<1>2. CASE ~ \E q \in Process \ {p} : InOp(q)
  <2>1. com' = disk'
    BY <1>2 DEF EndOp
  <2>2. ASSUME NEW g \in File PROVE lock'[g] = None
    <3>1. lock'[g] \in Process \cup {None}
      BY DEF Basic, FileTypeOK
    <3>2. CASE lock'[g] \in Process
      <4>1. pc'[lock'[g]] \in Locked
        BY <3>2, Constants DEF Basic, Holders
      <4>2. lock'[g] # p /\ pc[lock'[g]] \in Locked
        BY <4>1, <3>2
      <4>3. InOp(lock'[g])
        BY <4>2 DEF InOp, Locked
      <4> QED BY <1>2, <3>2, <4>2, <4>3
    <3> QED BY <3>1, <3>2
  <2>3. \A g \in File : mem'[g] = disk'.node[g]
    BY <2>2 DEF Basic, Written
  <2> QED BY <2>1, <2>2, <2>3
<1> QED BY <1>1, <1>2

(* A commit takes the owners over. *)
LEMMA CommitOwned ==
  ASSUME Basic, Basic', NEW p \in Process, EndOp(p), pc'[p] \notin Locked,
         \A q \in Process : q # p => pc'[q] = pc[q],
         OwnedOnce(ComNames, com.used), OwnedOnce(Names, disk.used)'
  PROVE  OwnedOnce(ComNames, com.used)'
<1>1. CASE com' = com
  BY <1>1 DEF ComNames
<1>2. CASE com' = disk' /\ \A g \in File : lock'[g] = None /\ mem'[g] = disk'.node[g]
  <2>1. \A g \in File : Freed(g)' = 0
    BY <1>2 DEF Freed, Truncating
  <2>2. \A g \in File, i \in 0..MAXFILE : ComNames'[g][i] = Names'[g][i]
    BY <1>2, <2>1, Constants DEF ComNames, Names
  <2>3. OwnedOnce(Names', com'.used)
    BY <1>2 DEF OwnedOnce
  <2>4. OwnedOnce(ComNames', com'.used)
    BY <2>2, <2>3, OwnedSame
  <2> QED BY <2>4 DEF OwnedOnce
<1> QED BY <1>1, <1>2, Commits


(* The first step of a call changes no owner. *)
LEMMA OwnedStart ==
  ASSUME Basic, OwnedInv, NEW p \in Process, WriteStart(p) \/ TruncStart(p) \/ Read(p)
  PROVE  OwnedInv'
<1>1. UNCHANGED <<disk, com, mem, lock, tot>> /\ pc[p] = "idle" /\ \A q \in Process : q # p => pc'[q] = pc[q]
  BY DEF WriteStart, TruncStart, Read, Goto, procVars, Basic, FileTypeOK
<1>2. \A g \in File : lock[g] # p
  BY <1>1, Constants DEF Basic, Holders, Locked
<1>3. \A g \in File : Freed(g)' = Freed(g)
  BY <1>1, <1>2, FreedOthers
<1>4. OwnedOnce(Names, disk.used)'
  BY <1>1, <1>3, SameNames DEF OwnedInv
<1> QED BY <1>1, <1>4 DEF OwnedInv, ComNames

(* A write that fails the tests may commit what others have done. *)
LEMMA OwnedWriteChunk ==
  ASSUME Basic, OwnedInv, NEW p \in Process, WriteChunk(p)
  PROVE  OwnedInv'
<1>0. Basic'
  BY BasicWriteChunk
<1>1. /\ pc[p] = "chunk" /\ lock[FileOf(p)] = None /\ UNCHANGED <<disk, mem>>
      /\ \/ EndOp(p) /\ pc'[p] = "idle" /\ UNCHANGED <<lock, tot>>
         \/ /\ lock' = [lock EXCEPT ![FileOf(p)] = p] /\ tot' = [tot EXCEPT ![p] = 0]
            /\ pc'[p] = "write" /\ com' = com
      /\ \A q \in Process : q # p => pc'[q] = pc[q]
  BY DEF WriteChunk, Return, Goto, Basic, FileTypeOK
<1>2. \A g \in File : lock[g] # p
  BY <1>1, Constants DEF Basic, Holders, Locked
<1>3. \A q \in Process : q # p => tot'[q] = tot[q]
  BY <1>1 DEF Basic, FileTypeOK
<1>4. \A g \in File : Freed(g)' = Freed(g)
  <2> TAKE g \in File
  <2>1. CASE lock'[g] = lock[g]
    BY <1>1, <1>2, <1>3, <2>1, FreedOthers
  <2>2. CASE lock'[g] # lock[g]
    <3>1. g = FileOf(p) /\ lock[g] = None /\ lock'[g] = p /\ pc'[p] = "write"
      BY <1>1, <2>2 DEF Basic, FileTypeOK
    <3> QED BY <3>1 DEF Freed, Truncating
  <2> QED BY <2>1, <2>2
<1>5. OwnedOnce(Names, disk.used)'
  BY <1>1, <1>4, SameNames DEF OwnedInv
<1>6. CASE com' = com
  BY <1>5, <1>6 DEF OwnedInv, ComNames
<1>7. CASE EndOp(p) /\ pc'[p] = "idle"
  <2>1. pc'[p] \notin Locked
    BY <1>7 DEF Locked
  <2> QED BY <1>0, <1>1, <1>5, <1>7, <2>1, CommitOwned DEF OwnedInv
<1> QED BY <1>1, <1>6, <1>7

(* balloc() gives a free block to one place (fs.c:72). *)
LEMMA OwnedWriteAlloc ==
  ASSUME Basic, OwnedInv, NEW p \in Process, WriteAlloc(p)
  PROVE  OwnedInv'
<1>1. pc[p] = "write" /\ UNCHANGED <<com, lock, tot>>
  BY DEF WriteAlloc
<1>f. FileOf(p) \in File
  BY <1>1, Writer
<1> PICK f \in File : f = FileOf(p)
  BY <1>f
<1>2. f \in File /\ lock[f] = p
  BY <1>1, Writer
<1>3. /\ pc'[p] \in {"write", "update"} /\ \A q \in Process : q # p => pc'[q] = pc[q]
  <2>1. pc' = pc \/ pc' = [pc EXCEPT ![p] = "update"]
    BY DEF WriteAlloc, Goto
  <2> QED BY <2>1, <1>1 DEF Basic, FileTypeOK
<1>4. \A g \in File : Freed(g)' = Freed(g)
  <2> TAKE g \in File
  <2>1. CASE lock[g] = p
    BY <1>1, <1>3, <2>1 DEF Freed, Truncating
  <2>2. CASE lock[g] # p
    BY <1>1, <1>3, <2>2, FreedOthers
  <2> QED BY <2>1, <2>2
<1>5. OwnedOnce(Names, disk.used)'
  <2>1. CASE Free = {}
    <3>1. UNCHANGED <<disk, mem>>
      BY <2>1 DEF WriteAlloc
    <3> QED BY <3>1, <1>4, SameNames DEF OwnedInv
  <2>2. CASE Free # {}
    <3>1. PICK b \in Block \ disk.used, w \in 0..MAXFILE :
            /\ disk'.used = disk.used \cup {b}
            /\ BlockIn(mem[f], disk.blk, w) = NoBlock
            /\ \A g \in File, i \in 0..MAXFILE :
                 BlockIn(mem'[g], disk'.blk, i) =
                   IF g = f /\ i = w THEN b ELSE BlockIn(mem[g], disk.blk, i)
      BY <2>2, AllocEffect DEF OwnedInv
    <3>2. Freed(f) = 0
      BY <1>1, <1>2 DEF Freed, Truncating
    <3>3. Names[f][w] = NoBlock
      BY <1>2, <3>1, <3>2 DEF Names
    <3>4. \A g \in File, i \in 0..MAXFILE : Names'[g][i] = IF g = f /\ i = w THEN b ELSE Names[g][i]
      BY <1>2, <1>4, <3>1, <3>2 DEF Names
    <3>5. b \notin disk.used /\ b # NoBlock /\ NoBlock \notin disk.used
      BY Constants DEF Block, NoBlock, Basic, FileTypeOK, DiskType
    <3>6. OwnedOnce(Names', disk.used \cup {b})
      BY <1>2, <3>3, <3>4, <3>5, OwnedGive DEF OwnedInv
    <3> QED BY <3>1, <3>6 DEF OwnedOnce
  <2> QED BY <2>1, <2>2
<1> QED BY <1>1, <1>5 DEF OwnedInv, ComNames

(* A copy changes no owner. *)
LEMMA OwnedWriteCopy ==
  ASSUME Basic, OwnedInv, NEW p \in Process, WriteCopy(p)
  PROVE  OwnedInv'
<1>1. /\ pc[p] = "write" /\ UNCHANGED <<com, mem, lock>> /\ disk'.used = disk.used
      /\ \A c \in Block : disk'.blk[c].ptrs = disk.blk[c].ptrs
      /\ pc'[p] \in {"write", "update"}
      /\ \A q \in Process : q # p => pc'[q] = pc[q] /\ tot'[q] = tot[q]
  <2>1. pc \in [Process -> {"idle", "chunk", "open"} \cup Locked] /\ tot \in [Process -> Nat]
    BY DEF Basic, FileTypeOK
  <2> QED BY <2>1, CopyEffect
<1>2. \A g \in File : Freed(g)' = Freed(g)
  <2> TAKE g \in File
  <2>1. CASE lock[g] = p
    BY <1>1, <2>1 DEF Freed, Truncating
  <2>2. CASE lock[g] # p
    BY <1>1, <2>2, FreedOthers
  <2> QED BY <2>1, <2>2
<1>3. \A g \in File, i \in 0..MAXFILE : BlockIn(mem'[g], disk'.blk, i) = BlockIn(mem[g], disk.blk, i)
  <2> TAKE g \in File, i \in 0..MAXFILE
  <2>1. mem[g].addrs[NDIRECT] \in BlockOrNone
    BY Constants DEF Basic, FileTypeOK, NodeType
  <2> QED BY <1>1, <2>1 DEF BlockIn, BlockAt, BlockOrNone
<1>4. OwnedOnce(Names, disk.used)'
  BY <1>1, <1>2, <1>3, SameNames DEF OwnedInv
<1> QED BY <1>1, <1>4 DEF OwnedInv, ComNames

(* The end of a chunk may commit, with the inode as it is in memory. *)
LEMMA OwnedWriteDone ==
  ASSUME Basic, OwnedInv, NEW p \in Process, WriteDone(p)
  PROVE  OwnedInv'
<1> DEFINE f == FileOf(p)
<1>0. Basic'
  BY BasicWriteDone
<1>1. /\ pc[p] = "update" /\ NewNode(p).addrs = mem[f].addrs
      /\ mem' = [mem EXCEPT ![f] = NewNode(p)] /\ disk'.used = disk.used /\ disk'.blk = disk.blk
      /\ lock' = [lock EXCEPT ![f] = None] /\ tot' = [tot EXCEPT ![p] = 0] /\ EndOp(p)
      /\ pc' = [pc EXCEPT ![p] = "chunk"] \/ pc' = [pc EXCEPT ![p] = "idle"]
  BY DoneEffect
<1>2. f \in File /\ lock[f] = p
  BY <1>1, Writer
<1>3. /\ pc'[p] \notin Locked /\ \A q \in Process : q # p => pc'[q] = pc[q] /\ tot'[q] = tot[q]
  BY <1>1 DEF Basic, FileTypeOK, Locked
<1>4. \A g \in File : Freed(g)' = Freed(g)
  <2> TAKE g \in File
  <2>1. CASE g = f
    BY <1>1, <1>2, <2>1 DEF Freed, Truncating, Basic, FileTypeOK
  <2>2. CASE g # f
    <3>1. lock'[g] = lock[g] /\ lock[g] # p
      BY <1>1, <1>2, <2>2, Constants DEF Basic, FileTypeOK, Holders
    <3> QED BY <1>3, <3>1, FreedOthers
  <2> QED BY <2>1, <2>2
<1>5. \A g \in File, i \in 0..MAXFILE : BlockIn(mem'[g], disk'.blk, i) = BlockIn(mem[g], disk.blk, i)
  <2>1. \A g \in File : mem'[g].addrs = mem[g].addrs
    BY <1>1, <1>2 DEF Basic, FileTypeOK
  <2> QED BY <1>1, <2>1 DEF BlockIn, BlockAt
<1>6. OwnedOnce(Names, disk.used)'
  BY <1>1, <1>4, <1>5, SameNames DEF OwnedInv
<1>7. OwnedOnce(ComNames, com.used)'
  BY <1>0, <1>1, <1>3, <1>6, CommitOwned DEF OwnedInv
<1> QED BY <1>6, <1>7 DEF OwnedInv

(* itrunc() starts with nothing freed. *)
LEMMA OwnedTruncLock ==
  ASSUME Basic, OwnedInv, NEW p \in Process, TruncLock(p)
  PROVE  OwnedInv'
<1> DEFINE f == FileOf(p)
<1>1. /\ pc[p] = "open" /\ lock[f] = None /\ UNCHANGED <<disk, com, mem, tot>>
      /\ lock' = [lock EXCEPT ![f] = p] /\ pc' = [pc EXCEPT ![p] = "trunc"]
  BY DEF TruncLock, Goto
<1>2. tot[p] = 0
  BY <1>1 DEF Basic, InCall, Locked
<1>3. \A g \in File : Freed(g)' = Freed(g)
  <2> TAKE g \in File
  <2>1. CASE g = f
    BY <1>1, <1>2, <2>1, Constants DEF Freed, Truncating, Basic, FileTypeOK
  <2>2. CASE g # f
    <3>1. lock'[g] = lock[g] /\ lock[g] # p
      BY <1>1, <2>2, Constants DEF Basic, FileTypeOK, Holders, Locked
    <3>2. \A q \in Process : q # p => pc'[q] = pc[q] /\ tot'[q] = tot[q]
      BY <1>1 DEF Basic, FileTypeOK
    <3> QED BY <3>1, <3>2, FreedOthers
  <2> QED BY <2>1, <2>2
<1>4. OwnedOnce(Names, disk.used)'
  BY <1>1, <1>3, SameNames DEF OwnedInv
<1> QED BY <1>1, <1>4 DEF OwnedInv, ComNames

(* bfree() takes the block of one place, which counts as freed. *)
LEMMA OwnedTruncFree ==
  ASSUME Basic, OwnedInv, NEW p \in Process, TruncFree(p)
  PROVE  OwnedInv'
<1>0. FileOf(p) \in File
  BY FreeEffect DEF OwnedInv
<1> PICK f \in File : f = FileOf(p)
  BY <1>0
<1>1. /\ pc[p] = "trunc" /\ f \in File /\ lock[f] = p /\ tot[p] \in Nat
      /\ UNCHANGED <<com, lock, pc>> /\ disk'.blk = disk.blk
      /\ \A g \in File : g # f => mem'[g] = mem[g]
  BY FreeEffect DEF OwnedInv
<1>2. PICK i \in tot[p]..(MAXFILE - 1), b \in Block :
        /\ b = BlockIn(mem[f], disk.blk, i)
        /\ \A j \in tot[p]..(i - 1) : BlockIn(mem[f], disk.blk, j) = NoBlock
        /\ disk'.used = disk.used \ {b}
        /\ tot' = [tot EXCEPT ![p] = i + 1]
        /\ \A j \in 0..MAXFILE : j > i =>
             BlockIn(mem'[f], disk.blk, j) = BlockIn(mem[f], disk.blk, j)
  BY FreeEffect DEF OwnedInv
<1>3. i \in 0..MAXFILE /\ i \in Nat /\ b # NoBlock
  BY <1>1, <1>2, Constants DEF Block, NoBlock
<1>4. Freed(f) = tot[p] /\ Freed(f)' = i + 1
  <2>1. tot'[p] = i + 1
    BY <1>2 DEF Basic, FileTypeOK
  <2> QED BY <1>1, <2>1, Constants DEF Freed, Truncating
<1>5. \A g \in File : g # f => Freed(g)' = Freed(g)
  <2> TAKE g \in File
  <2> HAVE g # f
  <2>1. lock[g] # p /\ lock'[g] = lock[g]
    BY <1>1, Constants DEF Basic, Holders
  <2>2. \A q \in Process : q # p => pc'[q] = pc[q] /\ tot'[q] = tot[q]
    BY <1>1, <1>2 DEF Basic, FileTypeOK
  <2> QED BY <2>1, <2>2, FreedOthers
<1>6. Names[f][i] = b
  BY <1>1, <1>2, <1>3, <1>4 DEF Names
<1>7. \A g \in File, j \in 0..MAXFILE : Names'[g][j] = IF g = f /\ j = i THEN NoBlock ELSE Names[g][j]
  <2> TAKE g \in File, j \in 0..MAXFILE
  <2>1. CASE g # f
    BY <1>1, <1>5, <2>1 DEF Names
  <2>2. CASE g = f
    <3>1. Names[g][j] = IF j < tot[p] THEN NoBlock ELSE BlockIn(mem[f], disk.blk, j)
      BY <2>2, <1>4 DEF Names
    <3>2. Names'[g][j] = IF j < i + 1 THEN NoBlock ELSE BlockIn(mem'[f], disk.blk, j)
      <4>1. Names'[g][j] = IF j < Freed(f)' THEN NoBlock ELSE BlockIn(mem'[f], disk'.blk, j)
        BY <2>2 DEF Names
      <4> QED BY <4>1, <1>1, <1>4
    <3>3. CASE j < tot[p]
      BY <3>1, <3>2, <3>3, <1>1, <1>3, <1>2
    <3>4. CASE j >= tot[p] /\ j < i
      BY <3>1, <3>2, <3>4, <1>1, <1>2, <1>3
    <3>5. CASE j = i
      BY <3>2, <3>5, <2>2, <1>3
    <3>6. CASE j > i
      BY <3>1, <3>2, <3>6, <1>1, <1>2, <1>3
    <3> QED BY <3>3, <3>4, <3>5, <3>6, <1>1, <1>3
  <2> QED BY <2>1, <2>2
<1>8. OwnedOnce(Names', disk.used \ {b})
  BY <1>1, <1>3, <1>6, <1>7, OwnedTake DEF OwnedInv
<1>9. OwnedOnce(Names, disk.used)'
  BY <1>2, <1>8 DEF OwnedOnce
<1> QED BY <1>1, <1>9 DEF OwnedInv, ComNames

(* The inode on the disk forgets the places when all are free (fs.c:430). *)
LEMMA OwnedTruncDone ==
  ASSUME Basic, OwnedInv, NEW p \in Process, TruncDone(p)
  PROVE  OwnedInv'
<1>f. FileOf(p) \in File
  BY TruncDoneEffect
<1> PICK f \in File : f = FileOf(p)
  BY <1>f
<1>0. Basic'
  BY BasicTruncDone
<1>1. /\ pc[p] = "trunc" /\ Remaining(p) = {} /\ f \in File /\ lock[f] = p
      /\ mem' = [mem EXCEPT ![f] = EmptyNode] /\ disk'.blk = disk.blk
      /\ disk'.used = disk.used \ Gone(p) /\ lock' = [lock EXCEPT ![f] = None]
      /\ tot' = [tot EXCEPT ![p] = 0] /\ EndOp(p) /\ pc' = [pc EXCEPT ![p] = "idle"]
  BY TruncDoneEffect
<1>2. /\ pc'[p] \notin Locked /\ \A q \in Process : q # p => pc'[q] = pc[q] /\ tot'[q] = tot[q]
  BY <1>1 DEF Basic, FileTypeOK, Locked
<1>3. \A g \in File : g # f => Freed(g)' = Freed(g) /\ mem'[g] = mem[g]
  <2> TAKE g \in File
  <2> HAVE g # f
  <2>1. lock'[g] = lock[g] /\ lock[g] # p /\ mem'[g] = mem[g]
    BY <1>1, Constants DEF Basic, FileTypeOK, Holders
  <2> QED BY <1>2, <2>1, FreedOthers
<1>4. Freed(f) = tot[p] /\ tot[p] \in Nat /\ tot[p] <= MAXFILE /\ Freed(f)' = 0 /\ mem'[f] = EmptyNode
  <2>1. tot[p] \in Nat /\ tot[p] <= MAXFILE
    BY <1>1 DEF Basic, FileTypeOK, InCall
  <2>2. lock'[f] = None /\ mem'[f] = EmptyNode
    BY <1>1 DEF Basic, FileTypeOK
  <2> QED BY <1>1, <2>1, <2>2, Constants DEF Freed, Truncating
<1>5. \A j \in 0..MAXFILE : Names'[f][j] = NoBlock
  <2>1. \A j \in 0..MAXFILE : BlockIn(EmptyNode, disk.blk, j) = NoBlock
    BY Constants DEF BlockIn, BlockAt, EmptyNode
  <2> QED BY <1>1, <1>4, <2>1 DEF Names
<1>6. \A j \in 0..MAXFILE : Names[f][j] = IF j = MAXFILE THEN mem[f].addrs[NDIRECT] ELSE NoBlock
  <2> TAKE j \in 0..MAXFILE
  <2>1. CASE j = MAXFILE
    BY <2>1, <1>1, <1>4, Constants DEF Names, BlockIn
  <2>2. CASE j # MAXFILE /\ j < tot[p]
    BY <2>2, <1>1, <1>4 DEF Names
  <2>3. CASE j # MAXFILE /\ ~(j < tot[p])
    <3>1. j \in tot[p]..(MAXFILE - 1)
      BY <2>3, <1>4, Constants
    <3>2. BlockAt(mem[f], disk.blk, j) = NoBlock
      BY <3>1, <1>1 DEF Remaining
    <3> QED BY <3>2, <2>3, <1>1, <1>4 DEF Names, BlockIn
  <2> QED BY <2>1, <2>2, <2>3
<1>7. \A g \in File, j \in 0..MAXFILE : g # f => Names'[g][j] = Names[g][j]
  BY <1>1, <1>3 DEF Names
<1>8. MAXFILE \in 0..MAXFILE
  BY Constants
<1>9. OwnedOnce(Names, disk.used)'
  <2>1. CASE mem[f].addrs[NDIRECT] = NoBlock
    <3>1. disk'.used = disk.used
      BY <2>1, <1>1 DEF Gone
    <3>2. \A g \in File, j \in 0..MAXFILE : Names'[g][j] = Names[g][j]
      BY <1>5, <1>6, <1>7, <2>1
    <3>3. OwnedOnce(Names', disk.used)
      BY <3>2, OwnedSame DEF OwnedInv
    <3> QED BY <3>1, <3>3 DEF OwnedOnce
  <2>2. CASE mem[f].addrs[NDIRECT] # NoBlock
    <3>1. Names[f][MAXFILE] # NoBlock /\ disk'.used = disk.used \ {Names[f][MAXFILE]}
      BY <2>2, <1>1, <1>6, <1>8 DEF Gone
    <3>2. \A g \in File, j \in 0..MAXFILE :
            Names'[g][j] = IF g = f /\ j = MAXFILE THEN NoBlock ELSE Names[g][j]
      BY <1>5, <1>6, <1>7
    <3>3. OwnedOnce(Names', disk.used \ {Names[f][MAXFILE]})
      BY <1>1, <1>8, <3>1, <3>2, OwnedTake DEF OwnedInv
    <3> QED BY <3>1, <3>3 DEF OwnedOnce
  <2> QED BY <2>1, <2>2
<1>10. OwnedOnce(ComNames, com.used)'
  BY <1>0, <1>1, <1>2, <1>9, CommitOwned DEF OwnedInv
<1> QED BY <1>9, <1>10 DEF OwnedInv

(* A crash goes back to the owners of the last commit. *)
LEMMA OwnedCrash ==
  ASSUME Basic, OwnedInv, Crash
  PROVE  OwnedInv'
<1>1. disk' = com /\ mem' = com.node /\ com' = com /\ lock' = [f \in File |-> None]
  BY DEF Crash
<1>2. \A g \in File : Freed(g)' = 0
  BY <1>1 DEF Freed, Truncating
<1>3. \A g \in File, i \in 0..MAXFILE : Names'[g][i] = ComNames[g][i]
  BY <1>1, <1>2, Constants DEF Names, ComNames
<1>4. OwnedOnce(Names', com.used)
  BY <1>3, OwnedSame DEF OwnedInv
<1>5. OwnedOnce(Names, disk.used)'
  BY <1>1, <1>4 DEF OwnedOnce
<1> QED BY <1>1, <1>5 DEF OwnedInv, ComNames

-----------------------------------------------------------------------------
(* A step that works on one file leaves the others alone. *)

FileStep(p) == \/ WriteChunk(p) \/ WriteAlloc(p) \/ WriteCopy(p) \/ WriteDone(p)
               \/ TruncLock(p) \/ TruncFree(p) \/ TruncDone(p)

(* The step is one of a call, whose file the process has locked or nobody   *)
(* has.                                                                     *)
LEMMA StepOfCall ==
  ASSUME Basic, NEW p \in Process, FileStep(p)
  PROVE  /\ FileOf(p) \in File /\ call[p] \in CallType /\ call[p].d \in Desc
         /\ pc[p] \in {"chunk", "write", "update", "open", "trunc"}
         /\ lock[FileOf(p)] \in {None, p}
         /\ lock[FileOf(p)] = None => pc[p] \notin Locked
<1>1. pc[p] \in {"chunk", "write", "update", "open", "trunc"}
  BY DEF FileStep, WriteChunk, WriteAlloc, WriteCopy, WriteDone, TruncLock, TruncFree, TruncDone
<1>2. call[p] \in CallType
  BY <1>1 DEF Basic, InCall
<1>3. FileOf(p) \in File /\ call[p].d \in Desc
  BY <1>2, Constants DEF CallType, FileOf
<1>4. pc[p] \in Locked => lock[FileOf(p)] = p
  BY DEF Basic, Holders
<1>5. pc[p] \in {"chunk", "open"} => lock[FileOf(p)] = None
  BY DEF FileStep, WriteChunk, WriteAlloc, WriteCopy, WriteDone, TruncLock, TruncFree, TruncDone
<1> QED BY <1>1, <1>2, <1>3, <1>4, <1>5, Constants DEF Locked

(* What the step does to the variables of the other processes. *)
LEMMA OtherProcesses ==
  ASSUME Basic, OwnedInv, NEW p \in Process, FileStep(p), NEW q \in Process, q # p
  PROVE  pc'[q] = pc[q] /\ call'[q] = call[q] /\ tot'[q] = tot[q] /\ left'[q] = left[q]
<1> USE DEF Basic, FileTypeOK
<1>1. CASE WriteChunk(p)
  BY <1>1 DEF WriteChunk, Return, Goto
<1>2. CASE WriteAlloc(p)
  BY <1>2 DEF WriteAlloc, Goto
<1>3. CASE WriteCopy(p)
  <2>1. UNCHANGED <<call, left>>
    BY <1>3 DEF WriteCopy
  <2>2. /\ pc' = pc \/ \E w \in {"write", "update"} : pc' = [pc EXCEPT ![p] = w]
        /\ tot' = tot \/ tot' = [tot EXCEPT ![p] = @ + CopyLen(p)]
    BY <1>3, CopyEffect
  <2> QED BY <2>1, <2>2
<1>4. CASE WriteDone(p)
  <2>1. pc' = [pc EXCEPT ![p] = "chunk"] \/ pc' = [pc EXCEPT ![p] = "idle"]
    BY <1>4 DEF WriteDone, Return, Goto
  <2>2. tot' = [tot EXCEPT ![p] = 0]
    BY <1>4 DEF WriteDone
  <2>3. call' = call \/ call' = [call EXCEPT ![p] = None]
    BY <1>4 DEF WriteDone, Return
  <2>4. left' = [left EXCEPT ![p] = @ - tot[p]] \/ left' = [left EXCEPT ![p] = 0]
    BY <1>4 DEF WriteDone, Return
  <2> QED BY <2>1, <2>2, <2>3, <2>4
<1>5. CASE TruncLock(p)
  BY <1>5 DEF TruncLock, Goto
<1>6. CASE TruncFree(p)
  <2>1. UNCHANGED <<call, left, pc>>
    BY <1>6, FreeEffect DEF OwnedInv
  <2>2. PICK i : tot' = [tot EXCEPT ![p] = i + 1]
    BY <1>6 DEF TruncFree
  <2> QED BY <2>1, <2>2
<1>7. CASE TruncDone(p)
  BY <1>7 DEF TruncDone, Return, Goto
<1> QED BY <1>1, <1>2, <1>3, <1>4, <1>5, <1>6, <1>7 DEF FileStep

(* And to the other files. *)
LEMMA OtherFiles ==
  ASSUME Basic, OwnedInv, NEW p \in Process, FileStep(p), NEW g \in File, g # FileOf(p)
  PROVE  /\ lock'[g] = lock[g] /\ lock[g] # p /\ mem'[g] = mem[g]
         /\ Truncating(g)' <=> Truncating(g)
         /\ \A i \in 0..MAXFILE : BlockIn(mem[g], disk'.blk, i) = BlockIn(mem[g], disk.blk, i)
<1> DEFINE f == FileOf(p)
<1>0. f \in File /\ lock[f] \in {None, p} /\ (lock[f] = None => pc[p] \notin Locked)
  BY StepOfCall
<1>1. lock[g] # p
  BY <1>0, Constants DEF Basic, Holders
<1>2. lock' \in {lock, [lock EXCEPT ![f] = p], [lock EXCEPT ![f] = None]}
  BY DEF FileStep, WriteChunk, WriteAlloc, WriteCopy, WriteDone, TruncLock, TruncFree, TruncDone
<1>3. lock'[g] = lock[g]
  BY <1>2 DEF Basic, FileTypeOK
<1>4. Truncating(g)' <=> Truncating(g)
  <2>1. lock[g] \in Process \cup {None}
    BY DEF Basic, FileTypeOK
  <2>2. CASE lock[g] = None
    BY <2>2, <1>3 DEF Truncating
  <2>3. CASE lock[g] \in Process
    <3>1. pc'[lock[g]] = pc[lock[g]]
      BY <1>1, <2>3, OtherProcesses
    <3> QED BY <3>1, <1>3 DEF Truncating
  <2> QED BY <2>1, <2>2, <2>3
<1>5. CASE WriteAlloc(p)
  <2>1. CASE Free = {}
    <3>1. UNCHANGED <<disk, mem>>
      BY <1>5, <2>1 DEF WriteAlloc
    <3> QED BY <1>1, <1>3, <1>4, <3>1
  <2>2. CASE Free # {}
    <3>1. /\ mem'[g] = mem[g]
          /\ \A i \in 0..MAXFILE : BlockIn(mem'[g], disk'.blk, i) = BlockIn(mem[g], disk.blk, i)
      BY <1>5, <2>2, AllocEffect DEF OwnedInv
    <3> QED BY <1>1, <1>3, <1>4, <3>1
  <2> QED BY <2>1, <2>2
<1>6. CASE WriteCopy(p)
  <2>1. mem' = mem /\ \A c \in Block : disk'.blk[c].ptrs = disk.blk[c].ptrs
    BY <1>6, CopyEffect
  <2>2. mem[g].addrs[NDIRECT] \in BlockOrNone
    BY Constants DEF Basic, FileTypeOK, NodeType
  <2>3. \A i \in 0..MAXFILE : BlockIn(mem[g], disk'.blk, i) = BlockIn(mem[g], disk.blk, i)
    BY <2>1, <2>2 DEF BlockIn, BlockAt, BlockOrNone
  <2> QED BY <1>1, <1>3, <1>4, <2>1, <2>3
<1>7. CASE ~WriteAlloc(p) /\ ~WriteCopy(p)
  <2>1. disk'.blk = disk.blk
    <3>1. CASE WriteChunk(p) \/ TruncLock(p)
      BY <3>1 DEF WriteChunk, TruncLock
    <3>2. CASE WriteDone(p)
      BY <3>2, DoneEffect
    <3>3. CASE TruncFree(p)
      BY <3>3, FreeEffect DEF OwnedInv
    <3>4. CASE TruncDone(p)
      BY <3>4, TruncDoneEffect
    <3> QED BY <1>7, <3>1, <3>2, <3>3, <3>4 DEF FileStep
  <2>2. mem'[g] = mem[g]
    <3>1. CASE WriteChunk(p) \/ TruncLock(p)
      BY <3>1 DEF WriteChunk, TruncLock
    <3>2. CASE WriteDone(p)
      BY <3>2, DoneEffect DEF Basic, FileTypeOK
    <3>3. CASE TruncFree(p)
      BY <3>3, FreeEffect DEF OwnedInv
    <3>4. CASE TruncDone(p)
      BY <3>4 DEF TruncDone, Basic, FileTypeOK
    <3> QED BY <1>7, <3>1, <3>2, <3>3, <3>4 DEF FileStep
  <2> QED BY <1>1, <1>3, <1>4, <2>1, <2>2
<1> QED BY <1>5, <1>6, <1>7

(* A file whose blocks are all its own keeps their bytes. *)
LEMMA OtherBytes ==
  ASSUME Basic, OwnedInv, NEW p \in Process, FileStep(p),
         NEW g \in File, g # FileOf(p), ~Truncating(g), NEW i \in 0..(MAXFILE * BSIZE - 1)
  PROVE  ByteAt(mem'[g], disk'.blk, i) = ByteAt(mem[g], disk.blk, i)
<1> DEFINE f == FileOf(p)  k == i \div BSIZE  c == BlockAt(mem[g], disk.blk, k)
<1>0. f \in File
  BY StepOfCall
<1>1. k \in 0..(MAXFILE - 1) /\ k \in 0..MAXFILE /\ k # MAXFILE /\ i % BSIZE \in 0..(BSIZE - 1)
  <2>1. i \in Nat /\ i < MAXFILE * BSIZE
    BY Constants
  <2>2. k \in Nat /\ k < MAXFILE /\ i % BSIZE \in 0..(BSIZE - 1)
    BY <2>1, DivMod, DivBelow, Constants
  <2> HIDE DEF k
  <2> QED BY <2>2, Constants
<1>2. mem'[g] = mem[g] /\ BlockAt(mem'[g], disk'.blk, k) = c
  <2>1. mem'[g] = mem[g] /\ BlockIn(mem[g], disk'.blk, k) = BlockIn(mem[g], disk.blk, k)
    BY <1>1, OtherFiles
  <2> QED BY <2>1, <1>1 DEF BlockIn
<1> HIDE DEF k
<1>3. CASE c = NoBlock
  BY <1>2, <1>3 DEF ByteAt, k
<1>4. CASE c # NoBlock
  <2>1. Names[g][k] = c /\ c \in disk.used /\ c \in Block
    <3>1. Names[g][k] = BlockIn(mem[g], disk.blk, k)
      BY <1>1 DEF Names, Freed
    <3>2. Names[g][k] = c
      BY <3>1, <1>1 DEF BlockIn
    <3>3. c \in disk.used
      BY <3>2, <1>1, <1>4 DEF OwnedInv, OwnedOnce
    <3>4. disk.used \in SUBSET Block
      BY DEF Basic, FileTypeOK, DiskType
    <3> QED BY <3>2, <3>3, <3>4
  <2> HIDE DEF c
  <2>2. disk'.blk[c].bytes = disk.blk[c].bytes
    <3>1. CASE WriteAlloc(p)
      <4>1. CASE Free = {}
        BY <3>1, <4>1 DEF WriteAlloc
      <4>2. CASE Free # {}
        <5>1. PICK b \in Block \ disk.used, w \in 0..MAXFILE :
                \A e \in Block : e # b => disk'.blk[e].bytes = disk.blk[e].bytes
          BY <3>1, <4>2, AllocEffect DEF OwnedInv
        <5> QED BY <5>1, <2>1
      <4> QED BY <4>1, <4>2
    <3>2. CASE WriteCopy(p)
      <4>1. /\ pc[p] = "write" /\ CopyBlock(p) # NoBlock
            /\ \A e \in Block : e # CopyBlock(p) => disk'.blk[e].bytes = disk.blk[e].bytes
        BY <3>2, CopyEffect
      <4> DEFINE j == At(p) \div BSIZE
      <4>2. j \in 0..(MAXFILE - 1)
        BY <4>1, CopyRange
      <4> HIDE DEF j
      <4>3. Names[f][j] = CopyBlock(p)
        <5>1. lock[f] = p
          BY <4>1, Writer
        <5>2. Freed(f) = 0
          BY <4>1, <5>1 DEF Freed, Truncating
        <5>3. Names[f][j] = BlockIn(mem[f], disk.blk, j)
          BY <1>0, <4>2, <5>2, Constants DEF Names
        <5>4. j # MAXFILE
          BY <4>2, Constants
        <5> QED BY <5>3, <5>4 DEF BlockIn, CopyBlock, j
      <4>4. c # CopyBlock(p)
        <5>1. j \in 0..MAXFILE
          BY <4>2, Constants
        <5> QED BY <1>0, <1>1, <1>4, <2>1, <4>3, <5>1 DEF OwnedInv, OwnedOnce
      <4> QED BY <2>1, <4>1, <4>4
    <3>3. CASE WriteChunk(p) \/ TruncLock(p)
      BY <3>3 DEF WriteChunk, TruncLock
    <3>4. CASE WriteDone(p)
      BY <3>4, DoneEffect
    <3>5. CASE TruncFree(p)
      BY <3>5, FreeEffect DEF OwnedInv
    <3>6. CASE TruncDone(p)
      BY <3>6, TruncDoneEffect
    <3> QED BY <3>1, <3>2, <3>3, <3>4, <3>5, <3>6 DEF FileStep
  <2>3. BlockAt(mem'[g], disk'.blk, i \div BSIZE) = c /\ BlockAt(mem[g], disk.blk, i \div BSIZE) = c
    BY <1>2 DEF c, k
  <2> QED BY <2>2, <2>3, <1>4 DEF ByteAt
<1> QED BY <1>3, <1>4

(* And what others know of their offsets and chunks. *)
LEMMA OtherOffsets ==
  ASSUME Basic, OwnedInv, NEW p \in Process, FileStep(p), NEW q \in Process, q # p, pc[q] \in Locked
  PROVE  /\ pc'[q] = pc[q] /\ call'[q] = call[q] /\ tot'[q] = tot[q]
         /\ FileOf(q) \in File /\ FileOf(q)' = FileOf(q) /\ FileOf(q) # FileOf(p) /\ lock[FileOf(q)] = q
         /\ call[q].d \in Desc /\ off'[call[q].d] = off[call[q].d]
         /\ At(q)' = At(q) /\ N1(q)' = N1(q)
<1>1. pc'[q] = pc[q] /\ call'[q] = call[q] /\ tot'[q] = tot[q] /\ left'[q] = left[q]
  BY OtherProcesses
<1>2. call[q] \in CallType /\ call[q].d \in Desc /\ FileOf(q) \in File /\ lock[FileOf(q)] = q
  BY Constants DEF Basic, InCall, Holders, CallType, FileOf, Locked
<1>3. FileOf(q) # FileOf(p) /\ call[p].d \in Desc /\ InodeOf[call[q].d] # InodeOf[call[p].d]
  BY <1>2, StepOfCall, Constants DEF FileOf
<1>4. off' \in {off, [off EXCEPT ![call[p].d] = At(p)], [off EXCEPT ![call[p].d] = 0]}
  BY DEF FileStep, WriteChunk, WriteAlloc, WriteCopy, WriteDone, TruncLock, TruncFree, TruncDone, NewOff
<1>5. off'[call[q].d] = off[call[q].d]
  BY <1>2, <1>3, <1>4 DEF Basic, FileTypeOK
<1> QED BY <1>1, <1>2, <1>3, <1>5 DEF FileOf, At, N1

-----------------------------------------------------------------------------
(* Files have no holes. *)

(* A byte of a file lies in a direct block or one named in the indirect     *)
(* block.                                                                   *)
LEMMA ByteBlock ==
  ASSUME NEW i \in 0..(MAXFILE * BSIZE - 1)
  PROVE  /\ i \div BSIZE \in 0..(MAXFILE - 1) /\ i \div BSIZE \in 0..MAXFILE
         /\ i \div BSIZE # MAXFILE /\ i % BSIZE \in 0..(BSIZE - 1)
<1> DEFINE k == i \div BSIZE
<1>1. i \in Nat /\ i < MAXFILE * BSIZE
  BY Constants
<1>2. k \in Nat /\ k < MAXFILE /\ i % BSIZE \in 0..(BSIZE - 1)
  BY <1>1, DivMod, DivBelow, Constants
<1> HIDE DEF k
<1>3. k \in 0..(MAXFILE - 1) /\ k \in 0..MAXFILE /\ k # MAXFILE
  BY <1>2, Constants
<1> QED BY <1>2, <1>3 DEF k

(* A file that loses no block keeps its bytes' blocks. *)
LEMMA WholeKept ==
  ASSUME NEW node, NEW blk, NEW node2, NEW blk2, NEW n \in Nat, Whole(node, blk, n),
         \A k \in 0..(MAXFILE - 1) : BlockAt(node, blk, k) # NoBlock => BlockAt(node2, blk2, k) # NoBlock
  PROVE  Whole(node2, blk2, n)
<1>1. n <= MAXFILE * BSIZE /\ MAXFILE * BSIZE \in Nat
  BY Constants DEF Whole
<1>2. ASSUME NEW i \in 0..(n - 1) PROVE BlockAt(node2, blk2, i \div BSIZE) # NoBlock
  <2>1. i \in 0..(MAXFILE * BSIZE - 1)
    BY <1>1
  <2>2. i \div BSIZE \in 0..(MAXFILE - 1)
    BY <2>1, ByteBlock
  <2>3. BlockAt(node, blk, i \div BSIZE) # NoBlock
    BY DEF Whole
  <2> QED BY <2>2, <2>3
<1> QED BY <1>1, <1>2 DEF Whole

(* A file that has blocks for n bytes has them for fewer. *)
LEMMA WholeLess ==
  ASSUME NEW node, NEW blk, NEW n \in Nat, NEW m \in Nat, Whole(node, blk, n), m <= n
  PROVE  Whole(node, blk, m)
<1>1. n <= MAXFILE * BSIZE /\ \A i \in 0..(n - 1) : BlockAt(node, blk, i \div BSIZE) # NoBlock
  BY DEF Whole
<1>2. m <= MAXFILE * BSIZE
  <2>1. MAXFILE * BSIZE \in Nat
    BY Constants
  <2> QED BY <1>1, <2>1
<1>3. \A i \in 0..(m - 1) : i \in 0..(n - 1)
  OBVIOUS
<1> QED BY <1>1, <1>2, <1>3, Zenon DEF Whole

(* A chunk starts at or below the size. *)
LEMMA HolesWriteChunk ==
  ASSUME Basic, NoHoles, NEW p \in Process, WriteChunk(p), NEW f \in File, f = FileOf(p)
  PROVE  /\ Whole(mem'[f], disk'.blk, mem'[f].size)
         /\ pc'[p] \in {"write", "update"} => call'[p] = call[p] /\ Whole(mem'[f], disk'.blk, At(p)')
<1>1. /\ pc[p] = "chunk" /\ lock[f] = None /\ UNCHANGED <<disk, mem, off>>
  BY DEF WriteChunk
<1>2. Whole(mem[f], disk.blk, mem[f].size)
  BY <1>1 DEF NoHoles, Truncating
<1>3. CASE off[call[p].d] > mem[f].size \/ off[call[p].d] + N1(p) > MAXFILE * BSIZE
  <2>1. pc' = [pc EXCEPT ![p] = "idle"]
    BY <1>3 DEF WriteChunk, Return, Goto
  <2>2. pc'[p] = "idle"
    BY <2>1 DEF Basic, FileTypeOK
  <2> QED BY <1>1, <1>2, <2>2
<1>4. CASE ~(off[call[p].d] > mem[f].size \/ off[call[p].d] + N1(p) > MAXFILE * BSIZE)
  <2>1. tot' = [tot EXCEPT ![p] = 0] /\ UNCHANGED call
    BY <1>4 DEF WriteChunk
  <2>2. off[call[p].d] \in Nat /\ mem[f].size \in Nat /\ tot'[p] = 0
    <3>1. call[p].d \in Desc
      BY <1>1 DEF Basic, InCall, CallType
    <3> QED BY <2>1, <3>1 DEF Basic, FileTypeOK, NodeType
  <2>3. At(p)' = off[call[p].d] /\ off[call[p].d] <= mem[f].size
    BY <1>1, <1>4, <2>1, <2>2 DEF At
  <2>4. Whole(mem[f], disk.blk, off[call[p].d])
    BY <1>2, <2>2, <2>3, WholeLess
  <2> QED BY <1>1, <1>2, <2>1, <2>3, <2>4
<1> QED BY <1>3, <1>4

(* balloc() takes no block away. *)
LEMMA HolesWriteAlloc ==
  ASSUME Basic, OwnedInv, NoHoles, NEW p \in Process, WriteAlloc(p), NEW f \in File, f = FileOf(p)
  PROVE  /\ Whole(mem'[f], disk'.blk, mem'[f].size)
         /\ call'[p] = call[p] /\ Whole(mem'[f], disk'.blk, At(p)')
<1>1. /\ pc[p] = "write" /\ UNCHANGED <<call, off, tot>>
  BY DEF WriteAlloc
<1>2. At(p)' = At(p) /\ At(p) \in Nat /\ lock[f] = p /\ mem[f].size \in Nat
  BY <1>1, Writer DEF At, NodeType
<1>3. Whole(mem[f], disk.blk, mem[f].size) /\ Whole(mem[f], disk.blk, At(p))
  BY <1>1, <1>2 DEF NoHoles, Truncating
<1>4. /\ mem'[f].size = mem[f].size
      /\ \A k \in 0..(MAXFILE - 1) :
           BlockAt(mem[f], disk.blk, k) # NoBlock => BlockAt(mem'[f], disk'.blk, k) # NoBlock
  <2>1. CASE Free = {}
    BY <2>1 DEF WriteAlloc
  <2>2. CASE Free # {}
    <3>1. PICK b \in Block \ disk.used, w \in 0..MAXFILE :
            /\ \A g \in File : mem'[g].size = mem[g].size
            /\ \A g \in File, i \in 0..MAXFILE :
                 BlockIn(mem'[g], disk'.blk, i) =
                   IF g = f /\ i = w THEN b ELSE BlockIn(mem[g], disk.blk, i)
      BY <2>2, AllocEffect DEF OwnedInv
    <3>2. b # NoBlock
      BY Constants DEF Block, NoBlock
    <3>3. \A k \in 0..(MAXFILE - 1) :
            /\ k \in 0..MAXFILE
            /\ BlockAt(mem[f], disk.blk, k) = BlockIn(mem[f], disk.blk, k)
            /\ BlockAt(mem'[f], disk'.blk, k) = BlockIn(mem'[f], disk'.blk, k)
      BY Constants DEF BlockIn
    <3> QED BY <3>1, <3>2, <3>3
  <2> QED BY <2>1, <2>2
<1>5. Whole(mem'[f], disk'.blk, mem[f].size) /\ Whole(mem'[f], disk'.blk, At(p))
  BY <1>2, <1>3, <1>4, WholeKept
<1> QED BY <1>1, <1>2, <1>4, <1>5

(* What is copied goes to a block that is there. *)
LEMMA HolesWriteCopy ==
  ASSUME Basic, NoHoles, NEW p \in Process, WriteCopy(p), NEW f \in File, f = FileOf(p)
  PROVE  /\ Whole(mem'[f], disk'.blk, mem'[f].size)
         /\ call'[p] = call[p] /\ Whole(mem'[f], disk'.blk, At(p)')
<1>1. /\ pc[p] = "write" /\ UNCHANGED <<mem, call, off>> /\ CopyBlock(p) # NoBlock
      /\ \A c \in Block : disk'.blk[c].ptrs = disk.blk[c].ptrs
  BY CopyEffect
<1>2. /\ At(p) \in Nat /\ At(p) = off[call[p].d] + tot[p] /\ lock[f] = p /\ mem[f].size \in Nat
      /\ tot[p] \in Nat /\ off[call[p].d] \in Nat /\ mem[f] \in NodeType
      /\ off[call[p].d] + N1(p) <= MAXFILE * BSIZE /\ N1(p) \in Nat
  BY <1>1, Writer DEF NodeType
<1>3. Whole(mem[f], disk.blk, mem[f].size) /\ Whole(mem[f], disk.blk, At(p))
  BY <1>1, <1>2 DEF NoHoles, Truncating
<1>4. \A k \in 0..(MAXFILE - 1) : BlockAt(mem[f], disk'.blk, k) = BlockAt(mem[f], disk.blk, k)
  <2>1. mem[f].addrs[NDIRECT] \in BlockOrNone
    BY <1>2, Constants DEF NodeType
  <2> QED BY <1>1, <2>1 DEF BlockAt, BlockOrNone
<1>5. Whole(mem[f], disk'.blk, mem[f].size) /\ Whole(mem[f], disk'.blk, At(p))
  BY <1>2, <1>3, <1>4, WholeKept
<1>6. CASE tot' = tot
  BY <1>1, <1>5, <1>6 DEF At
<1>7. CASE tot' = [tot EXCEPT ![p] = @ + CopyLen(p)]
  <2>1. tot'[p] = tot[p] + CopyLen(p)
    BY <1>7 DEF Basic, FileTypeOK
  <2>2. /\ CopyLen(p) \in Nat /\ CopyFrom(p) + CopyLen(p) <= BSIZE /\ tot[p] + CopyLen(p) <= N1(p)
        /\ At(p) \div BSIZE \in 0..(MAXFILE - 1)
    BY <1>1, CopyRange
  <2>3. At(p)' = At(p) + CopyLen(p) /\ At(p) + CopyLen(p) <= MAXFILE * BSIZE /\ MAXFILE * BSIZE \in Nat
    BY <1>1, <1>2, <2>1, <2>2, Constants DEF At
  <2>4. ASSUME NEW i \in 0..(At(p) + CopyLen(p) - 1)
        PROVE  BlockAt(mem[f], disk'.blk, i \div BSIZE) # NoBlock
    <3>1. CASE i < At(p)
      BY <3>1, <1>2, <1>5 DEF Whole
    <3>2. CASE i >= At(p)
      <4>1. i \in Nat /\ (At(p) % BSIZE) + CopyLen(p) <= BSIZE
        BY <2>2, <1>2 DEF CopyFrom
      <4>2. i >= At(p) /\ i < At(p) + CopyLen(p)
        BY <3>2, <1>2, <2>2
      <4>3. i \div BSIZE = At(p) \div BSIZE
        BY <4>1, <4>2, <1>2, <2>2, InBlock
      <4> QED BY <4>3, <1>1, <1>4, <2>2 DEF CopyBlock
    <3> QED BY <3>1, <3>2, <1>2, <2>2
  <2>5. Whole(mem[f], disk'.blk, At(p) + CopyLen(p))
    <3>1. PICK n \in Nat : n = At(p) + CopyLen(p)
      BY <1>2, <2>2
    <3>2. n <= MAXFILE * BSIZE
      BY <2>3, <3>1
    <3>3. ASSUME NEW i \in 0..(n - 1) PROVE BlockAt(mem[f], disk'.blk, i \div BSIZE) # NoBlock
      BY <1>2, <2>2, <2>4, <3>1
    <3>4. Whole(mem[f], disk'.blk, n)
      BY <3>2, <3>3 DEF Whole
    <3> QED BY <3>1, <3>4
  <2> QED BY <1>1, <1>5, <2>3, <2>5
<1> QED BY <1>6, <1>7, CopyEffect

(* The size grows to what was written at most. *)
LEMMA HolesWriteDone ==
  ASSUME Basic, NoHoles, NEW p \in Process, WriteDone(p), NEW f \in File, f = FileOf(p)
  PROVE  /\ Whole(mem'[f], disk'.blk, mem'[f].size) /\ pc'[p] \notin {"write", "update"}
<1>1. /\ pc[p] = "update" /\ NewNode(p).addrs = mem[f].addrs
      /\ NewNode(p).size = IF At(p) > mem[f].size THEN At(p) ELSE mem[f].size
      /\ mem' = [mem EXCEPT ![f] = NewNode(p)] /\ disk'.blk = disk.blk
      /\ pc' = [pc EXCEPT ![p] = "chunk"] \/ pc' = [pc EXCEPT ![p] = "idle"]
  BY DoneEffect
<1>2. At(p) \in Nat /\ lock[f] = p /\ mem[f].size \in Nat
  BY <1>1, Writer DEF NodeType
<1>3. Whole(mem[f], disk.blk, mem[f].size) /\ Whole(mem[f], disk.blk, At(p))
  BY <1>1, <1>2 DEF NoHoles, Truncating
<1>4. mem'[f] = NewNode(p) /\ pc'[p] \notin {"write", "update"}
  BY <1>1 DEF Basic, FileTypeOK
<1>5. \A k \in 0..(MAXFILE - 1) : BlockAt(mem[f], disk.blk, k) = BlockAt(mem'[f], disk'.blk, k)
  BY <1>1, <1>4 DEF BlockAt
<1>6. Whole(mem'[f], disk'.blk, mem[f].size) /\ Whole(mem'[f], disk'.blk, At(p))
  BY <1>2, <1>3, <1>5, WholeKept
<1> QED BY <1>1, <1>4, <1>6

(* After itrunc() there is nothing to have blocks for. *)
LEMMA HolesTrunc ==
  ASSUME Basic, OwnedInv, NoHoles, NEW p \in Process, TruncLock(p) \/ TruncFree(p) \/ TruncDone(p),
         NEW f \in File, f = FileOf(p)
  PROVE  /\ ~Truncating(f)' => Whole(mem'[f], disk'.blk, mem'[f].size)
         /\ pc'[p] \notin {"write", "update"}
<1>1. CASE TruncLock(p)
  <2>1. lock'[f] = p /\ pc'[p] = "trunc"
    BY <1>1 DEF TruncLock, Goto, Basic, FileTypeOK
  <2> QED BY <2>1, Constants DEF Truncating
<1>2. CASE TruncFree(p)
  <2>1. lock'[f] = p /\ pc'[p] = "trunc"
    BY <1>2, FreeEffect DEF OwnedInv
  <2> QED BY <2>1, Constants DEF Truncating
<1>3. CASE TruncDone(p)
  <2>1. mem'[f] = EmptyNode /\ pc'[p] = "idle"
    BY <1>3 DEF TruncDone, Return, Goto, Basic, FileTypeOK
  <2>2. EmptyNode.size = 0 /\ MAXFILE * BSIZE \in Nat
    BY Constants DEF EmptyNode
  <2> QED BY <2>1, <2>2 DEF Whole
<1> QED BY <1>1, <1>2, <1>3

(* A commit takes files without holes. *)
LEMMA HolesCommit ==
  ASSUME Basic, Basic', NoHoles, NEW p \in Process, EndOp(p), pc'[p] \notin Locked,
         \A q \in Process : q # p => pc'[q] = pc[q],
         \A g \in File : ~Truncating(g)' => Whole(mem'[g], disk'.blk, mem'[g].size)
  PROVE  \A g \in File : Whole(com'.node[g], com'.blk, com'.node[g].size)
<1>1. CASE com' = com
  BY <1>1 DEF NoHoles
<1>2. CASE com' = disk' /\ \A g \in File : lock'[g] = None /\ mem'[g] = disk'.node[g]
  BY <1>2 DEF Truncating
<1> QED BY <1>1, <1>2, Commits

(* The steps that may commit end a transaction. *)
LEMMA ComOfStep ==
  ASSUME Basic, OwnedInv, NEW p \in Process, FileStep(p)
  PROVE  com' = com \/ (EndOp(p) /\ pc'[p] \notin Locked)
<1>1. CASE WriteChunk(p)
  BY <1>1 DEF WriteChunk, Return, Goto, Basic, FileTypeOK, Locked
<1>2. CASE WriteDone(p)
  BY <1>2, DoneEffect DEF Basic, FileTypeOK, Locked
<1>3. CASE TruncDone(p)
  BY <1>3 DEF TruncDone, Return, Goto, Basic, FileTypeOK, Locked
<1>4. CASE WriteAlloc(p) \/ WriteCopy(p) \/ TruncLock(p) \/ TruncFree(p)
  BY <1>4 DEF WriteAlloc, WriteCopy, TruncLock, TruncFree
<1> QED BY <1>1, <1>2, <1>3, <1>4 DEF FileStep

(* Files have no holes, whatever step is taken on one. *)
LEMMA HolesFileStep ==
  ASSUME Basic, Basic', OwnedInv, NoHoles, NEW p \in Process, FileStep(p)
  PROVE  NoHoles'
<1>0. FileOf(p) \in File
  BY StepOfCall
<1> PICK f \in File : f = FileOf(p)
  BY <1>0
<1>1. /\ ~Truncating(f)' => Whole(mem'[f], disk'.blk, mem'[f].size)
      /\ pc'[p] \in {"write", "update"} => call'[p] = call[p] /\ Whole(mem'[f], disk'.blk, At(p)')
  BY HolesWriteChunk, HolesWriteAlloc, HolesWriteCopy, HolesWriteDone, HolesTrunc DEF FileStep
<1>2. \A g \in File : /\ mem[g] \in NodeType /\ mem[g].size \in Nat
  BY DEF Basic, FileTypeOK, NodeType
<1>3. \A k \in 0..(MAXFILE - 1) : k \in 0..MAXFILE /\ k # MAXFILE
  BY Constants
<1>4. ASSUME NEW g \in File, g # f, NEW n \in Nat, Whole(mem[g], disk.blk, n)
      PROVE  Whole(mem'[g], disk'.blk, n)
  <2>1. mem'[g] = mem[g] /\ \A i \in 0..MAXFILE : BlockIn(mem[g], disk'.blk, i) = BlockIn(mem[g], disk.blk, i)
    BY <1>4, OtherFiles
  <2>2. \A k \in 0..(MAXFILE - 1) : BlockAt(mem'[g], disk'.blk, k) = BlockAt(mem[g], disk.blk, k)
    BY <1>3, <2>1 DEF BlockIn
  <2> QED BY <1>4, <2>2, WholeKept
<1>5. \A g \in File : ~Truncating(g)' => Whole(mem'[g], disk'.blk, mem'[g].size)
  <2> TAKE g \in File
  <2> HAVE ~Truncating(g)'
  <2>1. CASE g # f
    <3>1. ~Truncating(g) /\ mem'[g] = mem[g]
      BY <2>1, OtherFiles
    <3> QED BY <1>2, <1>4, <2>1, <3>1 DEF NoHoles
  <2> QED BY <1>1, <2>1
<1>6. \A q \in Process : pc'[q] \in {"write", "update"} => Whole(mem'[InodeOf[call'[q].d]], disk'.blk, At(q)')
  <2> TAKE q \in Process
  <2> HAVE pc'[q] \in {"write", "update"}
  <2>1. CASE q = p
    BY <1>1, <2>1 DEF FileOf
  <2>2. CASE q # p
    <3>1. pc[q] \in {"write", "update"} /\ pc[q] \in Locked
      BY <2>2, OtherProcesses DEF Locked
    <3>2. FileOf(q) \in File /\ FileOf(q) # f /\ call'[q] = call[q] /\ At(q)' = At(q)
      BY <2>2, <3>1, OtherOffsets
    <3>3. At(q) \in Nat /\ Whole(mem[FileOf(q)], disk.blk, At(q))
      BY <3>1, Writer DEF NoHoles
    <3>4. Whole(mem'[FileOf(q)], disk'.blk, At(q))
      BY <1>4, <3>2, <3>3
    <3> QED BY <3>2, <3>4 DEF FileOf
  <2> QED BY <2>1, <2>2
<1>7. \A g \in File : Whole(com'.node[g], com'.blk, com'.node[g].size)
  <2>1. CASE com' = com
    BY <2>1 DEF NoHoles
  <2>2. CASE EndOp(p) /\ pc'[p] \notin Locked
    <3>1. \A q \in Process : q # p => pc'[q] = pc[q]
      BY OtherProcesses
    <3> QED BY <1>5, <2>2, <3>1, HolesCommit
  <2> QED BY <2>1, <2>2, ComOfStep
<1> QED BY <1>5, <1>6, <1>7 DEF NoHoles, FileOf

-----------------------------------------------------------------------------
(* What a file holds. *)

SeenStep == seen' = [f \in File |-> IF lock'[f] = None THEN Content(mem'[f], disk'.blk) ELSE seen[f]]

(* What Remembered says of a write of byte v at o, k bytes of it done. *)
Holds(node, blk, old, o, k, v) ==
  /\ Len(old) = node.size
  /\ \A i \in 0..(MAXFILE * BSIZE - 1) :
       i < node.size \/ i < o + k =>
         ByteAt(node, blk, i) = IF i >= o /\ i < o + k THEN v ELSE old[i + 1]

(* Remembered in terms of Holds. *)
LEMMA RememberedHolds ==
  ASSUME Basic
  PROVE  Remembered <=>
           /\ seen \in [File -> Seq(AnyByte)]
           /\ \A f \in File : lock[f] = None => seen[f] = Content(mem[f], disk.blk)
           /\ \A p \in Process : pc[p] \in {"write", "update"} =>
                Holds(mem[FileOf(p)], disk.blk, seen[FileOf(p)], off[call[p].d], tot[p], call[p].byte)
BY DEF Remembered, Holds, At

(* What a file held is a sequence of bytes. *)
LEMMA SeenType ==
  ASSUME Basic', NoHoles', seen \in [File -> Seq(AnyByte)], SeenStep
  PROVE  seen' \in [File -> Seq(AnyByte)]
<1> SUFFICES ASSUME NEW f \in File PROVE seen'[f] \in Seq(AnyByte)
  BY DEF SeenStep
<1>1. CASE lock'[f] # None
  BY <1>1 DEF SeenStep
<1>2. CASE lock'[f] = None
  <2>1. mem'[f].size <= MAXFILE * BSIZE
    BY <1>2 DEF NoHoles, Truncating, Whole
  <2>2. mem'[f] \in NodeType /\ disk'.blk \in [Block -> BlockType]
    BY DEF Basic, FileTypeOK, DiskType
  <2>3. Content(mem'[f], disk'.blk) \in Seq(AnyByte)
    BY <2>1, <2>2, ContentLen
  <2> QED BY <1>2, <2>3 DEF SeenStep
<1> QED BY <1>1, <1>2

(* Nothing of the chunk is written at its start. *)
LEMMA HoldsWriteChunk ==
  ASSUME Basic, NoHoles, Remembered, NEW p \in Process, WriteChunk(p), pc'[p] \in {"write", "update"},
         NEW f \in File, f = FileOf(p)
  PROVE  Holds(mem'[f], disk'.blk, seen[f], off'[call[p].d], tot'[p], call[p].byte)
<1>1. /\ pc[p] = "chunk" /\ lock[f] = None /\ UNCHANGED <<disk, mem, off>>
  BY DEF WriteChunk
<1>2. ~(off[call[p].d] > mem[f].size \/ off[call[p].d] + N1(p) > MAXFILE * BSIZE)
  BY DEF WriteChunk, Return, Goto, Basic, FileTypeOK
<1>3. tot' = [tot EXCEPT ![p] = 0]
  BY <1>2 DEF WriteChunk
<1>4. off[call[p].d] \in Nat /\ mem[f].size \in Nat /\ tot'[p] = 0 /\ mem[f] \in NodeType
      /\ disk.blk \in [Block -> BlockType]
  <2>1. call[p].d \in Desc
    BY <1>1 DEF Basic, InCall, CallType
  <2> QED BY <1>3, <2>1 DEF Basic, FileTypeOK, NodeType, DiskType
<1>5. mem[f].size <= MAXFILE * BSIZE
  BY <1>1 DEF NoHoles, Truncating, Whole
<1>6. seen[f] = Content(mem[f], disk.blk)
  BY <1>1 DEF Remembered
<1>7. /\ Len(seen[f]) = mem[f].size
      /\ \A i \in 1..mem[f].size : seen[f][i] = ByteAt(mem[f], disk.blk, i - 1)
  BY <1>4, <1>5, <1>6, ContentLen
<1>8. off[call[p].d] <= mem[f].size
  BY <1>2, <1>4
<1>9. ASSUME NEW i \in 0..(MAXFILE * BSIZE - 1), i < mem[f].size \/ i < off[call[p].d] + 0
      PROVE  /\ ByteAt(mem[f], disk.blk, i) = seen[f][i + 1]
             /\ ~(i >= off[call[p].d] /\ i < off[call[p].d] + 0)
  <2>1. i \in Nat
    OBVIOUS
  <2>2. i + 1 \in 1..mem[f].size /\ (i + 1) - 1 = i
    BY <1>4, <1>8, <1>9, <2>1
  <2> QED BY <1>4, <1>7, <2>1, <2>2
<1> QED BY <1>1, <1>4, <1>7, <1>9 DEF Holds

(* A new block holds no byte of the file yet. *)
LEMMA HoldsWriteAlloc ==
  ASSUME Basic, OwnedInv, NoHoles, Remembered, NEW p \in Process, WriteAlloc(p),
         NEW f \in File, f = FileOf(p)
  PROVE  Holds(mem'[f], disk'.blk, seen[f], off'[call[p].d], tot'[p], call[p].byte)
<1>1. pc[p] = "write" /\ UNCHANGED <<off, tot>>
  BY DEF WriteAlloc
<1>2. /\ At(p) = off[call[p].d] + tot[p] /\ At(p) \in Nat /\ lock[f] = p /\ mem[f].size \in Nat
      /\ off[call[p].d] \in Nat /\ tot[p] \in Nat
  BY <1>1, Writer DEF NodeType
<1>3. Holds(mem[f], disk.blk, seen[f], off[call[p].d], tot[p], call[p].byte)
  BY <1>1, RememberedHolds
<1>4. CASE Free = {}
  <2>1. UNCHANGED <<disk, mem>>
    BY <1>4 DEF WriteAlloc
  <2> QED BY <1>1, <1>3, <2>1
<1>5. CASE Free # {}
  <2>1. PICK b \in Block \ disk.used, w \in 0..MAXFILE :
          /\ \A g \in File : mem'[g].size = mem[g].size
          /\ \A c \in Block : c # b => disk'.blk[c].bytes = disk.blk[c].bytes
          /\ BlockIn(mem[f], disk.blk, w) = NoBlock
          /\ \A g \in File, i \in 0..MAXFILE :
               BlockIn(mem'[g], disk'.blk, i) =
                 IF g = f /\ i = w THEN b ELSE BlockIn(mem[g], disk.blk, i)
    BY <1>5, AllocEffect DEF OwnedInv
  <2>2. ASSUME NEW i \in 0..(MAXFILE * BSIZE - 1), i < mem[f].size \/ i < At(p)
        PROVE  ByteAt(mem'[f], disk'.blk, i) = ByteAt(mem[f], disk.blk, i)
    <3> DEFINE k == i \div BSIZE  c == BlockAt(mem[f], disk.blk, k)
    <3>1. k \in 0..(MAXFILE - 1) /\ k \in 0..MAXFILE /\ k # MAXFILE /\ i % BSIZE \in 0..(BSIZE - 1)
      BY ByteBlock
    <3>2. c # NoBlock
      <4>1. Whole(mem[f], disk.blk, mem[f].size) /\ Whole(mem[f], disk.blk, At(p))
        BY <1>1, <1>2 DEF NoHoles, Truncating
      <4>2. CASE i < mem[f].size
        <5>1. i \in 0..(mem[f].size - 1)
          BY <4>2, <1>2
        <5> QED BY <4>1, <5>1 DEF Whole
      <4>3. CASE i < At(p)
        <5>1. i \in 0..(At(p) - 1)
          BY <4>3, <1>2
        <5> QED BY <4>1, <5>1 DEF Whole
      <4> QED BY <2>2, <4>2, <4>3
    <3> HIDE DEF k
    <3>3. BlockIn(mem[f], disk.blk, k) = c /\ BlockAt(mem'[f], disk'.blk, k) = BlockIn(mem'[f], disk'.blk, k)
      BY <3>1 DEF BlockIn
    <3>4. BlockAt(mem'[f], disk'.blk, k) = c
      BY <2>1, <3>1, <3>2, <3>3
    <3>5. c \in disk.used /\ c \in Block
      <4>1. Names[f][k] = c
        BY <1>1, <1>2, <3>1, <3>3 DEF Names, Freed, Truncating
      <4>2. c \in disk.used
        BY <3>1, <3>2, <4>1 DEF OwnedInv, OwnedOnce
      <4>3. disk.used \in SUBSET Block
        BY DEF Basic, FileTypeOK, DiskType
      <4> QED BY <4>2, <4>3
    <3>6. disk'.blk[c].bytes = disk.blk[c].bytes
      BY <2>1, <3>5
    <3> QED BY <3>2, <3>4, <3>6 DEF ByteAt, k
  <2>3. mem'[f].size = mem[f].size
    BY <2>1
  <2> QED BY <1>1, <1>2, <1>3, <2>2, <2>3 DEF Holds
<1> QED BY <1>4, <1>5

(* The bytes copied are the next of the chunk, and no others change. *)
LEMMA HoldsWriteCopy ==
  ASSUME Basic, OwnedInv, NoHoles, Remembered, NEW p \in Process, WriteCopy(p),
         NEW f \in File, f = FileOf(p)
  PROVE  Holds(mem'[f], disk'.blk, seen[f], off'[call[p].d], tot'[p], call[p].byte)
<1>1. /\ pc[p] = "write" /\ CopyBlock(p) # NoBlock /\ UNCHANGED <<mem, off>>
  BY CopyEffect
<1>2. /\ At(p) = off[call[p].d] + tot[p] /\ At(p) \in Nat /\ lock[f] = p /\ mem[f].size \in Nat
      /\ off[call[p].d] \in Nat /\ tot[p] \in Nat /\ mem[f] \in NodeType
  BY <1>1, Writer DEF NodeType
<1>3. Holds(mem[f], disk.blk, seen[f], off[call[p].d], tot[p], call[p].byte)
  BY <1>1, RememberedHolds
<1>4. CASE UNCHANGED <<disk, tot>>
  BY <1>1, <1>3, <1>4
<1>5. CASE /\ \A c \in Block : disk'.blk[c].ptrs = disk.blk[c].ptrs
           /\ \A c \in Block : c # CopyBlock(p) => disk'.blk[c].bytes = disk.blk[c].bytes
           /\ \A i \in 0..(BSIZE - 1) :
                disk'.blk[CopyBlock(p)].bytes[i] =
                  IF i >= CopyFrom(p) /\ i < CopyFrom(p) + CopyLen(p) THEN call[p].byte
                  ELSE disk.blk[CopyBlock(p)].bytes[i]
           /\ tot' = [tot EXCEPT ![p] = @ + CopyLen(p)]
  <2>1. tot'[p] = tot[p] + CopyLen(p)
    BY <1>5 DEF Basic, FileTypeOK
  <2>2. /\ CopyLen(p) \in Nat /\ CopyFrom(p) + CopyLen(p) <= BSIZE
        /\ At(p) \div BSIZE \in 0..(MAXFILE - 1) /\ CopyBlock(p) \in Block
    BY <1>1, CopyRange
  <2>3. \A k \in 0..(MAXFILE - 1) : BlockAt(mem[f], disk'.blk, k) = BlockAt(mem[f], disk.blk, k)
    <3>1. mem[f].addrs[NDIRECT] \in BlockOrNone
      BY <1>2, Constants DEF NodeType
    <3> QED BY <1>5, <3>1 DEF BlockAt, BlockOrNone
  <2>4. ASSUME NEW i \in 0..(MAXFILE * BSIZE - 1)
        PROVE  /\ i >= At(p) /\ i < At(p) + CopyLen(p) => ByteAt(mem[f], disk'.blk, i) = call[p].byte
               /\ ~(i >= At(p) /\ i < At(p) + CopyLen(p)) =>
                    ByteAt(mem[f], disk'.blk, i) = ByteAt(mem[f], disk.blk, i)
    <3> DEFINE k == i \div BSIZE  r == i % BSIZE  c == BlockAt(mem[f], disk.blk, k)
    <3>1. k \in 0..(MAXFILE - 1) /\ k \in 0..MAXFILE /\ k # MAXFILE /\ r \in 0..(BSIZE - 1)
      BY ByteBlock
    <3>2. (i >= At(p) /\ i < At(p) + CopyLen(p)) <=>
            (k = At(p) \div BSIZE /\ r >= CopyFrom(p) /\ r < CopyFrom(p) + CopyLen(p))
      <4>1. i \in Nat /\ (At(p) % BSIZE) + CopyLen(p) <= BSIZE
        BY <2>2 DEF CopyFrom
      <4> QED BY <4>1, <1>2, <2>2, InBlock DEF CopyFrom
    <3>3. /\ ByteAt(mem[f], disk'.blk, i) = IF c = NoBlock THEN None ELSE disk'.blk[c].bytes[r]
          /\ ByteAt(mem[f], disk.blk, i) = IF c = NoBlock THEN None ELSE disk.blk[c].bytes[r]
      BY <2>3, <3>1 DEF ByteAt
    <3> DEFINE j == At(p) \div BSIZE
    <3>4. j \in 0..(MAXFILE - 1) /\ j \in 0..MAXFILE /\ j # MAXFILE /\ BlockAt(mem[f], disk.blk, j) = CopyBlock(p)
      BY <2>2, Constants DEF CopyBlock
    <3>5. c \in BlockOrNone
      <4>1. disk.blk \in [Block -> BlockType]
        BY DEF Basic, FileTypeOK, DiskType
      <4> QED BY <3>1, <4>1, <1>2, BlockAtType
    <3> HIDE DEF k, r, j
    <3>6. c = CopyBlock(p) => k = j
      <4>1. Names[f][k] = c /\ Names[f][j] = CopyBlock(p)
        BY <1>1, <1>2, <3>1, <3>4 DEF Names, Freed, Truncating, BlockIn
      <4> QED BY <4>1, <1>1, <3>1, <3>4 DEF OwnedInv, OwnedOnce
    <3>7. k = j => c = CopyBlock(p)
      BY <3>4
    <3> HIDE DEF c
    <3>8. CASE k = j /\ r >= CopyFrom(p) /\ r < CopyFrom(p) + CopyLen(p)
      <4>1. disk'.blk[CopyBlock(p)].bytes[r] = call[p].byte
        BY <1>5, <3>1, <3>8
      <4> QED BY <4>1, <3>2, <3>3, <3>7, <3>8, <1>1 DEF j
    <3>9. CASE k = j /\ ~(r >= CopyFrom(p) /\ r < CopyFrom(p) + CopyLen(p))
      <4>1. disk'.blk[CopyBlock(p)].bytes[r] = disk.blk[CopyBlock(p)].bytes[r]
        BY <1>5, <3>1, <3>9
      <4> QED BY <4>1, <3>2, <3>3, <3>7, <3>9, <1>1 DEF j
    <3>10. CASE k # j
      <4>1. c = NoBlock \/ disk'.blk[c].bytes = disk.blk[c].bytes
        BY <1>5, <3>5, <3>6, <3>10 DEF BlockOrNone
      <4> QED BY <4>1, <3>2, <3>3, <3>10 DEF j
    <3> QED BY <3>8, <3>9, <3>10
  <2>5. ASSUME NEW i \in 0..(MAXFILE * BSIZE - 1), i < mem[f].size \/ i < off[call[p].d] + tot'[p]
        PROVE  ByteAt(mem[f], disk'.blk, i) =
                 IF i >= off[call[p].d] /\ i < off[call[p].d] + tot'[p] THEN call[p].byte
                 ELSE seen[f][i + 1]
    <3>1. CASE i >= At(p) /\ i < At(p) + CopyLen(p)
      BY <3>1, <2>4, <1>2, <2>1, <2>2
    <3>2. CASE ~(i >= At(p) /\ i < At(p) + CopyLen(p))
      <4>1. i < mem[f].size \/ i < off[call[p].d] + tot[p]
        BY <3>2, <2>5, <1>2, <2>1, <2>2
      <4>2. ByteAt(mem[f], disk.blk, i) =
              IF i >= off[call[p].d] /\ i < off[call[p].d] + tot[p] THEN call[p].byte ELSE seen[f][i + 1]
        BY <4>1, <1>3 DEF Holds
      <4>3. (i >= off[call[p].d] /\ i < off[call[p].d] + tot'[p]) <=>
              (i >= off[call[p].d] /\ i < off[call[p].d] + tot[p])
        BY <3>2, <1>2, <2>1, <2>2
      <4> QED BY <4>2, <4>3, <3>2, <2>4
    <3> QED BY <3>1, <3>2
  <2> QED BY <1>1, <1>3, <2>5 DEF Holds
<1> QED BY <1>4, <1>5, CopyEffect

(* What is remembered stays true, whatever step is taken on a file. *)
LEMMA RememberedFileStep ==
  ASSUME Basic, Basic', OwnedInv, NoHoles, NoHoles', Remembered, NEW p \in Process, FileStep(p), SeenStep
  PROVE  Remembered'
<1>0. FileOf(p) \in File
  BY StepOfCall
<1> PICK f \in File : f = FileOf(p)
  BY <1>0
<1>1. seen' \in [File -> Seq(AnyByte)]
  BY SeenType DEF Remembered
<1>2. \A g \in File : lock'[g] = None => seen'[g] = Content(mem'[g], disk'.blk)
  BY DEF SeenStep
<1>3. \A g \in File : lock'[g] # None => seen'[g] = seen[g]
  BY DEF SeenStep
<1>4. \A q \in Process : pc'[q] \in {"write", "update"} =>
        Holds(mem'[InodeOf[call'[q].d]], disk'.blk, seen'[InodeOf[call'[q].d]], off'[call'[q].d],
              tot'[q], call'[q].byte)
  <2> TAKE q \in Process
  <2> HAVE pc'[q] \in {"write", "update"}
  <2>0. lock'[InodeOf[call'[q].d]] = q
    BY DEF Basic, Holders, FileOf, Locked
  <2>1. CASE q = p
    <3>1. (call'[p] = call[p] /\ WriteChunk(p)) \/ WriteAlloc(p) \/ WriteCopy(p)
      <4>1. ~WriteDone(p)
        BY <2>1, HolesWriteDone
      <4>2. ~(TruncLock(p) \/ TruncFree(p) \/ TruncDone(p))
        BY <2>1, HolesTrunc
      <4>3. WriteChunk(p) => call'[p] = call[p]
        BY <2>1, HolesWriteChunk
      <4> QED BY <4>1, <4>2, <4>3 DEF FileStep
    <3>2. call'[p] = call[p]
      BY <3>1, HolesWriteAlloc, HolesWriteCopy
    <3>3. Holds(mem'[f], disk'.blk, seen[f], off'[call[p].d], tot'[p], call[p].byte)
      BY <2>1, <3>1, HoldsWriteChunk, HoldsWriteAlloc, HoldsWriteCopy
    <3>4. InodeOf[call'[p].d] = f /\ seen'[f] = seen[f]
      BY <1>3, <2>0, <2>1, <3>2, Constants DEF FileOf
    <3> QED BY <2>1, <3>2, <3>3, <3>4
  <2>2. CASE q # p
    <3>1. pc[q] \in {"write", "update"} /\ pc[q] \in Locked
      BY <2>2, OtherProcesses DEF Locked
    <3>2. /\ FileOf(q) \in File /\ FileOf(q) # f /\ call'[q] = call[q] /\ tot'[q] = tot[q]
          /\ lock[FileOf(q)] = q /\ off'[call[q].d] = off[call[q].d]
      BY <2>2, <3>1, OtherOffsets
    <3>3. PICK g \in File : g = FileOf(q)
      BY <3>2
    <3>4. Holds(mem[g], disk.blk, seen[g], off[call[q].d], tot[q], call[q].byte)
      BY <3>1, <3>3, RememberedHolds
    <3>5. mem'[g] = mem[g] /\ lock'[g] = q /\ ~Truncating(g)
      BY <3>1, <3>2, <3>3, OtherFiles DEF Truncating
    <3>6. seen'[g] = seen[g]
      BY <1>3, <3>5, Constants
    <3>7. \A i \in 0..(MAXFILE * BSIZE - 1) : ByteAt(mem'[g], disk'.blk, i) = ByteAt(mem[g], disk.blk, i)
      BY <3>2, <3>3, <3>5, OtherBytes
    <3>8. Holds(mem'[g], disk'.blk, seen'[g], off'[call[q].d], tot'[q], call[q].byte)
      BY <3>2, <3>4, <3>5, <3>6, <3>7 DEF Holds
    <3> QED BY <3>2, <3>3, <3>8 DEF FileOf
  <2> QED BY <2>1, <2>2
<1> QED BY <1>1, <1>2, <1>4 DEF Remembered, Holds, At, FileOf

-----------------------------------------------------------------------------
(* The steps outside the locks, a crash, and the start. *)

IdleStep(p) == WriteStart(p) \/ TruncStart(p) \/ Read(p)

(* These steps change the offsets of files that are not locked only. *)
LEMMA IdleEffect ==
  ASSUME Basic, NEW p \in Process, IdleStep(p)
  PROVE  /\ UNCHANGED <<disk, com, mem, lock, tot, logged>>
         /\ pc[p] = "idle" /\ pc'[p] \in {"idle", "chunk", "open"}
         /\ \A q \in Process : q # p => pc'[q] = pc[q] /\ call'[q] = call[q] /\ left'[q] = left[q]
         /\ \A d \in Desc : lock[InodeOf[d]] # None => off'[d] = off[d]
<1> USE DEF Basic, FileTypeOK
<1>1. CASE WriteStart(p)
  <2>1. /\ pc[p] = "idle" /\ pc' = [pc EXCEPT ![p] = "chunk"]
        /\ UNCHANGED <<disk, com, mem, lock, off, tot, logged>>
        /\ \E x : call' = [call EXCEPT ![p] = x]
        /\ \E x : left' = [left EXCEPT ![p] = x]
    BY <1>1 DEF WriteStart, Goto
  <2> QED BY <2>1
<1>2. CASE TruncStart(p)
  <2>1. /\ pc[p] = "idle" /\ pc' = [pc EXCEPT ![p] = "open"]
        /\ UNCHANGED <<disk, com, mem, lock, off, left, tot, logged>>
        /\ \E x : call' = [call EXCEPT ![p] = x]
    BY <1>2 DEF TruncStart, Goto
  <2> QED BY <2>1
<1>3. CASE Read(p)
  <2>1. /\ pc[p] = "idle" /\ UNCHANGED <<disk, com, mem, lock, pc, call, left, tot, logged>>
    BY <1>3 DEF Read, procVars
  <2>2. PICK d \in Desc : lock[InodeOf[d]] = None /\ \E x : off' = [off EXCEPT ![d] = x]
    BY <1>3 DEF Read
  <2> QED BY <2>1, <2>2
<1> QED BY <1>1, <1>2, <1>3 DEF IdleStep

(* They leave alone what the processes inside the locks know. *)
LEMMA IdleOthers ==
  ASSUME Basic, NEW p \in Process, IdleStep(p), NEW q \in Process, pc'[q] \in Locked
  PROVE  /\ q # p /\ pc'[q] = pc[q] /\ call'[q] = call[q] /\ tot'[q] = tot[q]
         /\ FileOf(q) \in File /\ FileOf(q)' = FileOf(q) /\ lock[FileOf(q)] = q
         /\ call[q].d \in Desc /\ off'[call[q].d] = off[call[q].d]
         /\ At(q)' = At(q) /\ N1(q)' = N1(q)
<1>1. q # p /\ pc'[q] = pc[q] /\ call'[q] = call[q] /\ left'[q] = left[q] /\ tot'[q] = tot[q]
  BY IdleEffect DEF Locked
<1>2. call[q] \in CallType /\ call[q].d \in Desc /\ FileOf(q) \in File /\ lock[FileOf(q)] = q
  BY <1>1, Constants DEF Basic, InCall, Holders, CallType, FileOf, Locked
<1>3. off'[call[q].d] = off[call[q].d]
  BY <1>2, IdleEffect, Constants DEF FileOf
<1> QED BY <1>1, <1>2, <1>3 DEF FileOf, At, N1

(* They leave the blocks of the files, *)
LEMMA HolesIdle ==
  ASSUME Basic, NoHoles, NEW p \in Process, IdleStep(p)
  PROVE  NoHoles'
<1>1. UNCHANGED <<disk, com, mem, lock>>
  BY IdleEffect
<1>2. \A g \in File : Truncating(g)' <=> Truncating(g)
  BY <1>1, IdleEffect, Constants DEF Truncating, Basic, FileTypeOK, Holders, Locked
<1>3. \A q \in Process : pc'[q] \in {"write", "update"} =>
        pc[q] = pc'[q] /\ FileOf(q)' = FileOf(q) /\ At(q)' = At(q)
  BY IdleOthers DEF Locked
<1>4. \A q \in Process : pc'[q] \in {"write", "update"} =>
        Whole(mem'[InodeOf[call'[q].d]], disk'.blk, At(q)')
  BY <1>1, <1>3 DEF NoHoles, FileOf
<1> QED BY <1>1, <1>2, <1>4 DEF NoHoles, FileOf

(* and their content. *)
LEMMA RememberedIdle ==
  ASSUME Basic, Remembered, NEW p \in Process, IdleStep(p), SeenStep
  PROVE  Remembered' /\ seen' = seen
<1>1. UNCHANGED <<disk, mem, lock>>
  BY IdleEffect
<1>2. seen' = seen
  BY <1>1 DEF SeenStep, Remembered
<1>3. \A q \in Process : pc'[q] \in {"write", "update"} =>
        Holds(mem'[InodeOf[call'[q].d]], disk'.blk, seen'[InodeOf[call'[q].d]], off'[call'[q].d],
              tot'[q], call'[q].byte)
  <2> TAKE q \in Process
  <2> HAVE pc'[q] \in {"write", "update"}
  <2>1. pc'[q] = pc[q] /\ call'[q] = call[q] /\ tot'[q] = tot[q] /\ off'[call[q].d] = off[call[q].d]
    BY IdleOthers DEF Locked
  <2> QED BY <1>1, <1>2, <2>1, RememberedHolds DEF FileOf
<1>4. seen' \in [File -> Seq(AnyByte)]
  BY <1>2 DEF Remembered
<1>5. \A f \in File : lock'[f] = None => seen'[f] = Content(mem'[f], disk'.blk)
  BY DEF SeenStep
<1> QED BY <1>2, <1>3, <1>4, <1>5 DEF Remembered, Holds, At, FileOf

(* A crash goes back to files without holes, *)
LEMMA HolesCrash ==
  ASSUME Basic, NoHoles, Crash
  PROVE  NoHoles'
<1>1. disk' = com /\ mem' = com.node /\ com' = com /\ lock' = [f \in File |-> None]
      /\ pc' = [p \in Process |-> "idle"]
  BY DEF Crash
<1>2. \A p \in Process : pc'[p] \notin {"write", "update"}
  BY <1>1
<1> QED BY <1>1, <1>2 DEF NoHoles

(* of which nobody holds a lock. *)
LEMMA RememberedCrash ==
  ASSUME Crash, Basic', NoHoles', Remembered, SeenStep
  PROVE  Remembered'
<1>1. pc' = [p \in Process |-> "idle"]
  BY DEF Crash
<1>2. \A p \in Process : pc'[p] \notin {"write", "update"}
  BY <1>1
<1>3. seen' \in [File -> Seq(AnyByte)]
  BY SeenType DEF Remembered
<1>4. \A f \in File : lock'[f] = None => seen'[f] = Content(mem'[f], disk'.blk)
  BY DEF SeenStep
<1> QED BY <1>2, <1>3, <1>4 DEF Remembered

(* An empty disk. *)
LEMMA NothingNamed ==
  ASSUME NEW blk, NEW f \in File
  PROVE  /\ \A i \in 0..MAXFILE : BlockIn(EmptyNode, blk, i) = NoBlock
         /\ Whole(EmptyNode, blk, EmptyNode.size)
         /\ Content(EmptyNode, blk) = <<>>
<1>1. EmptyNode.size = 0 /\ EmptyNode.addrs[NDIRECT] = NoBlock
  BY Constants DEF EmptyNode
<1>2. \A i \in 0..MAXFILE : BlockIn(EmptyNode, blk, i) = NoBlock
  BY <1>1, Constants DEF EmptyNode, BlockIn, BlockAt
<1>3. MAXFILE * BSIZE \in Nat
  BY Constants
<1>4. \A i \in 0..(EmptyNode.size - 1) : BlockAt(EmptyNode, blk, i \div BSIZE) # NoBlock
  BY <1>1
<1>5. Whole(EmptyNode, blk, EmptyNode.size)
  BY <1>1, <1>3, <1>4 DEF Whole
<1>6. Content(EmptyNode, blk) = <<>>
  BY <1>1 DEF Content
<1> QED BY <1>2, <1>5, <1>6

(* The invariant holds of an empty disk. *)
LEMMA InitInv == Init => FileInv
<1> SUFFICES ASSUME Init PROVE FileInv
  OBVIOUS
<1> USE DEF Init
<1>1. EmptyNode \in NodeType
  BY Constants DEF EmptyNode, NodeType, BlockOrNone, NoBlock
<1>2. disk \in DiskType
  BY <1>1, ZeroBlockType DEF DiskType
<1>3. Basic
  <2>1. FileTypeOK
    BY <1>1, <1>2 DEF FileTypeOK
  <2>2. Holders /\ Written
    BY DEF Holders, Written, Locked
  <2>3. InCall
    BY DEF InCall, Locked
  <2> QED BY <2>1, <2>2, <2>3 DEF Basic
<1>4. \A f \in File : mem[f] = EmptyNode /\ com.node[f] = EmptyNode /\ lock[f] = None
  OBVIOUS
<1>5. OwnedOnce(Names, disk.used)
  <2>1. \A f \in File, i \in 0..MAXFILE : Names[f][i] = NoBlock
    BY <1>4, NothingNamed DEF Names
  <2> QED BY <2>1 DEF OwnedOnce
<1>6. OwnedOnce(ComNames, com.used)
  <2>1. \A f \in File, i \in 0..MAXFILE : ComNames[f][i] = NoBlock
    BY <1>4, NothingNamed DEF ComNames
  <2> QED BY <2>1 DEF OwnedOnce
<1>7. NoHoles
  BY <1>4, NothingNamed DEF NoHoles
<1>8. Remembered
  BY <1>4, NothingNamed DEF Remembered
<1>9. LogFits
  <2>1. MAXOPBLOCKS >= 0
    BY ChunkAssumption
  <2> QED BY <2>1, FS_EmptySet DEF LogFits, Locked
<1> QED BY <1>3, <1>5, <1>6, <1>7, <1>8, <1>9 DEF FileInv, OwnedInv

-----------------------------------------------------------------------------
(* How many blocks a transaction logs. *)

(* The image of a finite set is no larger. *)
LEMMA ImageFits ==
  ASSUME NEW S, IsFiniteSet(S), NEW g, g = [x \in S |-> g[x]]
  PROVE  /\ IsFiniteSet({g[x] : x \in S}) /\ Cardinality({g[x] : x \in S}) \in Nat
         /\ Cardinality({g[x] : x \in S}) <= Cardinality(S)
<1> DEFINE T == {g[x] : x \in S}
<1>1. g \in Surjection(S, T)
  BY DEF Surjection
<1>2. IsFiniteSet(T) /\ Cardinality(T) <= Cardinality(S)
  BY <1>1, FS_Surjection
<1> QED BY <1>2, FS_CardinalityType

(* A union is no larger than its parts together. *)
LEMMA UnionFits ==
  ASSUME NEW A, NEW B, IsFiniteSet(A), IsFiniteSet(B), NEW m \in Nat, NEW n \in Nat,
         Cardinality(A) <= m, Cardinality(B) <= n
  PROVE  IsFiniteSet(A \cup B) /\ Cardinality(A \cup B) <= m + n
<1>1. /\ IsFiniteSet(A \cup B)
      /\ Cardinality(A \cup B) = Cardinality(A) + Cardinality(B) - Cardinality(A \cap B)
  BY FS_Union
<1>2. Cardinality(A) \in Nat /\ Cardinality(B) \in Nat /\ Cardinality(A \cap B) \in Nat
  BY FS_CardinalityType, FS_Intersection
<1> QED BY <1>1, <1>2

(* A subset is no larger. *)
LEMMA SubsetFits ==
  ASSUME NEW A, NEW B, IsFiniteSet(B), A \subseteq B, NEW n \in Nat, Cardinality(B) <= n
  PROVE  IsFiniteSet(A) /\ Cardinality(A) <= n
<1>1. IsFiniteSet(A) /\ Cardinality(A) <= Cardinality(B)
  BY FS_Subset
<1>2. Cardinality(A) \in Nat /\ Cardinality(B) \in Nat
  BY <1>1, FS_CardinalityType
<1> QED BY <1>1, <1>2

(* A set of numbers in a range is no larger than the range. *)
LEMMA RangeFits ==
  ASSUME NEW a \in Int, NEW b \in Int, NEW n \in Nat, b - a + 1 <= n, NEW S, S \subseteq a..b
  PROVE  IsFiniteSet(S) /\ Cardinality(S) <= n
<1>1. IsFiniteSet(a..b) /\ Cardinality(a..b) = IF a > b THEN 0 ELSE b - a + 1
  BY FS_Interval
<1>2. Cardinality(a..b) <= n
  BY <1>1
<1> QED BY <1>1, <1>2, SubsetFits

(* The blocks of m blocks' bytes at o: all of them, and those that the file *)
(* cannot have already if the bytes below o are its own.                    *)
LEMMA Span ==
  ASSUME NEW o \in Nat, NEW n \in Nat, n >= 1, NEW m \in Nat, n <= m * BSIZE
  PROVE  /\ o \div BSIZE \in Nat /\ (o + n - 1) \div BSIZE \in Nat
         /\ o \div BSIZE <= (o + n - 1) \div BSIZE
         /\ (o + n - 1) \div BSIZE - o \div BSIZE <= m
         /\ o % BSIZE = 0 => (o + n - 1) \div BSIZE - o \div BSIZE + 1 <= m
<1>1. PICK q \in Nat, r \in 0..(BSIZE - 1) : q = o \div BSIZE /\ r = o % BSIZE /\ o = BSIZE * q + r
  BY DivMod
<1>2. o + n - 1 \in Nat
  OBVIOUS
<1>3. PICK s \in Nat, t \in 0..(BSIZE - 1) :
        s = (o + n - 1) \div BSIZE /\ t = (o + n - 1) % BSIZE /\ o + n - 1 = BSIZE * s + t
  BY <1>2, DivMod
<1>4. q <= s
  BY <1>1, <1>2, <1>3, DivMonotone
<1>5. BSIZE \in Nat /\ BSIZE >= 1
  BY Constants
<1>6. BSIZE * s - BSIZE * q = n - 1 + r - t
  BY <1>1, <1>3, <1>5
<1>7. PICK d \in Nat : s = q + d
  <2>1. s - q \in Nat /\ s = q + (s - q)
    BY <1>4
  <2> QED BY <2>1
<1>8. BSIZE * d = n - 1 + r - t
  <2>1. BSIZE * s = BSIZE * q + BSIZE * d
    BY <1>5, <1>7
  <2>2. BSIZE * s \in Nat /\ BSIZE * q \in Nat /\ BSIZE * d \in Nat
    BY <1>5
  <2> QED BY <2>1, <2>2, <1>6
<1>9. d <= m
  <2> SUFFICES ASSUME d >= m + 1 PROVE FALSE
    OBVIOUS
  <2>1. BSIZE * d >= BSIZE * (m + 1) /\ BSIZE * (m + 1) = m * BSIZE + BSIZE
    BY <1>5
  <2> QED BY <2>1, <1>5, <1>8
<1>10. r = 0 => d + 1 <= m
  <2> SUFFICES ASSUME r = 0, d >= m PROVE FALSE
    OBVIOUS
  <2>1. BSIZE * d >= BSIZE * m /\ BSIZE * m = m * BSIZE
    BY <1>5
  <2> QED BY <2>1, <1>5, <1>8
<1> QED BY <1>1, <1>3, <1>4, <1>7, <1>9, <1>10

(* A chunk lies in at most one block more than filewrite()'s max has, and   *)
(* in no more new blocks than that (file.c:153).                            *)
LEMMA ChunkSpan ==
  ASSUME Basic, NEW p \in Process, pc[p] \in {"write", "update"}
  PROVE  /\ First(p) \in Nat /\ FirstNew(p) \in Nat /\ Last(p) \in Nat
         /\ First(p) <= FirstNew(p) /\ Last(p) < MAXFILE
         /\ Last(p) - First(p) + 1 <= (MAXOPBLOCKS - 1 - 1 - 2) \div 2 + 1
         /\ Last(p) - FirstNew(p) + 1 <= (MAXOPBLOCKS - 1 - 1 - 2) \div 2
<1> DEFINE o == off[call[p].d]  n == N1(p)  m == (MAXOPBLOCKS - 1 - 1 - 2) \div 2
<1>1. o \in Nat /\ n \in Nat /\ n >= 1 /\ n <= MaxChunk /\ o + n <= MAXFILE * BSIZE /\ MAXFILE * BSIZE \in Nat
  BY Writer
<1>2. m \in Nat /\ n <= m * BSIZE
  BY <1>1, Chunks DEF MaxChunk
<1>3. First(p) = o \div BSIZE /\ Last(p) = (o + n - 1) \div BSIZE
      /\ FirstNew(p) = IF o % BSIZE = 0 THEN First(p) ELSE First(p) + 1
  BY DEF First, Last, FirstNew
<1>4. (o + n - 1) \div BSIZE < MAXFILE
  <2>1. o + n - 1 \in Nat /\ o + n - 1 < MAXFILE * BSIZE
    BY <1>1
  <2> QED BY <2>1, DivBelow, Constants
<1> HIDE DEF o, n, m
<1>5. /\ First(p) \in Nat /\ Last(p) \in Nat /\ First(p) <= Last(p)
      /\ Last(p) - First(p) <= m /\ (o % BSIZE = 0 => Last(p) - First(p) + 1 <= m)
  BY <1>1, <1>2, <1>3, Span
<1>6. /\ Last(p) - First(p) + 1 <= m + 1 /\ Last(p) - FirstNew(p) + 1 <= m
      /\ FirstNew(p) \in Nat /\ First(p) <= FirstNew(p)
  BY <1>2, <1>3, <1>5
<1> QED BY <1>3, <1>4, <1>5, <1>6 DEF m

(* With the indirect block, that leaves room for the inode. *)
LEMMA TouchedFits ==
  ASSUME Basic, NEW p \in Process, pc[p] \in {"write", "update"}
  PROVE  IsFiniteSet(Touched(p)) /\ Cardinality(Touched(p)) <= MAXOPBLOCKS - 1
<1> DEFINE f == FileOf(p)  m == (MAXOPBLOCKS - 1 - 1 - 2) \div 2
           ind == mem[f].addrs[NDIRECT]
           A == IF ind = NoBlock THEN {} ELSE {Data(ind), Bitmap(ind)}
           K == {j \in First(p)..Last(p) : BlockAt(mem[f], disk.blk, j) # NoBlock}
           L == {j \in FirstNew(p)..Last(p) : BlockAt(mem[f], disk.blk, j) # NoBlock}
           g == [k \in K |-> Data(BlockAt(mem[f], disk.blk, k))]
           h == [k \in L |-> Bitmap(BlockAt(mem[f], disk.blk, k))]
           B == {g[k] : k \in K}
           C == {h[k] : k \in L}
<1>1. m \in Nat /\ 2 * m <= MAXOPBLOCKS - 4 /\ MAXOPBLOCKS \in Nat
  BY ChunkAssumption
<1>2. Touched(p) = A \cup B \cup C
  BY DEF Touched
<1>3. /\ First(p) \in Nat /\ FirstNew(p) \in Nat /\ Last(p) \in Nat
      /\ Last(p) - First(p) + 1 <= m + 1 /\ Last(p) - FirstNew(p) + 1 <= m
  BY ChunkSpan
<1>4. IsFiniteSet(K) /\ Cardinality(K) <= m + 1
  <2>1. K \subseteq First(p)..Last(p)
    OBVIOUS
  <2>2. First(p) \in Int /\ Last(p) \in Int /\ Last(p) - First(p) + 1 <= m + 1 /\ m + 1 \in Nat
    BY <1>1, <1>3
  <2> HIDE DEF K, m
  <2> QED BY <2>1, <2>2, RangeFits, Zenon
<1>5. IsFiniteSet(L) /\ Cardinality(L) <= m
  <2>1. L \subseteq FirstNew(p)..Last(p)
    OBVIOUS
  <2>2. FirstNew(p) \in Int /\ Last(p) \in Int /\ Last(p) - FirstNew(p) + 1 <= m /\ m \in Nat
    BY <1>1, <1>3
  <2> HIDE DEF L, m
  <2> QED BY <2>1, <2>2, RangeFits, Zenon
<1>6. IsFiniteSet(A) /\ Cardinality(A) <= 2
  <2>1. CASE ind = NoBlock
    BY <2>1, FS_EmptySet
  <2>2. CASE ind # NoBlock
    <3>1. IsFiniteSet({Data(ind)}) /\ Cardinality({Data(ind)}) = 1
      BY FS_Singleton
    <3>2. IsFiniteSet({Bitmap(ind)}) /\ Cardinality({Bitmap(ind)}) = 1
      BY FS_Singleton
    <3>3. A = {Data(ind)} \cup {Bitmap(ind)}
      BY <2>2
    <3> HIDE DEF A, ind
    <3>4. Cardinality({Data(ind)}) <= 1 /\ Cardinality({Bitmap(ind)}) <= 1 /\ 1 \in Nat
      BY <3>1, <3>2
    <3>5. IsFiniteSet(A) /\ Cardinality(A) <= 1 + 1
      BY <3>1, <3>2, <3>3, <3>4, UnionFits, Zenon
    <3> QED BY <3>5
  <2> QED BY <2>1, <2>2
<1>7. IsFiniteSet(B) /\ Cardinality(B) <= m + 1
  <2>1. g = [k \in K |-> g[k]]
    OBVIOUS
  <2> HIDE DEF g, K, m
  <2>2. IsFiniteSet(B) /\ Cardinality(B) <= Cardinality(K) /\ Cardinality(B) \in Nat
    BY <2>1, <1>4, ImageFits
  <2>3. Cardinality(K) \in Nat
    BY <1>4, FS_CardinalityType
  <2> HIDE DEF B
  <2> QED BY <2>2, <2>3, <1>1, <1>4
<1>8. IsFiniteSet(C) /\ Cardinality(C) <= m
  <2>1. h = [k \in L |-> h[k]]
    OBVIOUS
  <2> HIDE DEF h, L, m
  <2>2. IsFiniteSet(C) /\ Cardinality(C) <= Cardinality(L) /\ Cardinality(C) \in Nat
    BY <2>1, <1>5, ImageFits
  <2>3. Cardinality(L) \in Nat
    BY <1>5, FS_CardinalityType
  <2> HIDE DEF C
  <2> QED BY <2>2, <2>3, <1>1, <1>5
<1> HIDE DEF A, B, C, m
<1>9. IsFiniteSet(A \cup B) /\ Cardinality(A \cup B) <= 2 + (m + 1)
  <2>1. m + 1 \in Nat
    BY <1>1
  <2> QED BY <1>6, <1>7, <2>1, UnionFits
<1>10. IsFiniteSet((A \cup B) \cup C) /\ Cardinality((A \cup B) \cup C) <= (2 + (m + 1)) + m
  <2>1. 2 + (m + 1) \in Nat
    BY <1>1
  <2> QED BY <1>1, <1>8, <1>9, <2>1, UnionFits
<1>11. Cardinality(A \cup B \cup C) \in Nat
  BY <1>10, FS_CardinalityType
<1> QED BY <1>1, <1>2, <1>10, <1>11

(* The blocks of the bitmap leave room for the inode. *)
LEMMA BitmapFits ==
  /\ IsFiniteSet({Bitmap(b) : b \in Block})
  /\ Cardinality({Bitmap(b) : b \in Block}) <= MAXOPBLOCKS - 1
<1> DEFINE g == [b \in Block |-> b \div BPB]
           K == {b \div BPB : b \in Block}
           h == [k \in K |-> <<"bitmap", k>>]
<1>1. IsFiniteSet(Block)
  BY Constants, FS_Interval DEF Block
<1>2. K = {g[b] : b \in Block}
  OBVIOUS
<1>3. IsFiniteSet(K)
  <2>1. g = [b \in Block |-> g[b]]
    OBVIOUS
  <2> HIDE DEF g, K
  <2> QED BY <1>1, <1>2, <2>1, ImageFits
<1>4. Cardinality(K) < MAXOPBLOCKS /\ Cardinality(K) \in Nat
  <2>1. Cardinality(K) < MAXOPBLOCKS
    BY BitmapAssumption DEF Block
  <2> HIDE DEF K
  <2> QED BY <2>1, <1>3, FS_CardinalityType
<1>5. {Bitmap(b) : b \in Block} = {h[k] : k \in K}
  BY DEF Bitmap
<1>6. /\ IsFiniteSet({h[k] : k \in K}) /\ Cardinality({h[k] : k \in K}) <= Cardinality(K)
      /\ Cardinality({h[k] : k \in K}) \in Nat
  <2>1. h = [k \in K |-> h[k]]
    OBVIOUS
  <2> HIDE DEF h, K
  <2> QED BY <1>3, <2>1, ImageFits
<1> HIDE DEF h, K
<1>7. MAXOPBLOCKS \in Nat
  BY ChunkAssumption
<1> QED BY <1>4, <1>5, <1>6, <1>7

-----------------------------------------------------------------------------
(* What a step logs. *)

(* The blocks that a transaction may have logged fit its reservation. *)
LEMMA LogFitsThen == ASSUME LogFits, Basic PROVE TransactionFits
<1> SUFFICES ASSUME NEW p \in Process PROVE Cardinality(logged[p]) <= MAXOPBLOCKS
  BY DEF TransactionFits
<1>1. MAXOPBLOCKS \in Nat /\ MAXOPBLOCKS - 1 \in Nat
  BY ChunkAssumption
<1>2. pc[p] \in Locked \/ pc[p] \notin Locked
  OBVIOUS
<1>3. CASE pc[p] \notin Locked
  BY <1>3 DEF LogFits
<1>4. CASE pc[p] \in {"write", "update"}
  <2>1. logged[p] \subseteq Touched(p)
    BY <1>4 DEF LogFits
  <2>2. IsFiniteSet(Touched(p)) /\ Cardinality(Touched(p)) <= MAXOPBLOCKS - 1
    BY <1>4, TouchedFits
  <2>3. IsFiniteSet(logged[p]) /\ Cardinality(logged[p]) <= MAXOPBLOCKS - 1
    BY <2>1, <2>2, <1>1, SubsetFits
  <2> QED BY <2>3, <1>1, FS_CardinalityType
<1>5. CASE pc[p] = "trunc"
  <2>1. logged[p] \subseteq {Bitmap(b) : b \in Block}
    BY <1>5 DEF LogFits
  <2>2. IsFiniteSet(logged[p]) /\ Cardinality(logged[p]) <= MAXOPBLOCKS - 1
    BY <2>1, <1>1, BitmapFits, SubsetFits
  <2> QED BY <2>2, <1>1, FS_CardinalityType
<1> QED BY <1>3, <1>4, <1>5 DEF Locked

(* An inode on top of what fits. *)
LEMMA InodeFits ==
  ASSUME NEW S, NEW T, NEW x, S \subseteq T, IsFiniteSet(T), Cardinality(T) <= MAXOPBLOCKS - 1
  PROVE  IsFiniteSet(S \cup {x}) /\ Cardinality(S \cup {x}) <= MAXOPBLOCKS
<1>1. MAXOPBLOCKS \in Nat /\ MAXOPBLOCKS - 1 \in Nat /\ 1 \in Nat
  BY ChunkAssumption
<1>2. IsFiniteSet(S) /\ Cardinality(S) <= MAXOPBLOCKS - 1
  BY <1>1, SubsetFits
<1>3. IsFiniteSet({x}) /\ Cardinality({x}) <= 1
  BY FS_Singleton
<1>4. IsFiniteSet(S \cup {x}) /\ Cardinality(S \cup {x}) <= (MAXOPBLOCKS - 1) + 1
  BY <1>1, <1>2, <1>3, UnionFits
<1> QED BY <1>1, <1>4

(* A place of the file among those the chunk touches. *)
LEMMA TouchedPlace ==
  ASSUME Basic, NEW p \in Process, pc[p] \in {"write", "update"}, NEW k \in First(p)..Last(p),
         BlockAt(mem[FileOf(p)], disk.blk, k) # NoBlock
  PROVE  /\ Data(BlockAt(mem[FileOf(p)], disk.blk, k)) \in Touched(p)
         /\ k >= FirstNew(p) => Bitmap(BlockAt(mem[FileOf(p)], disk.blk, k)) \in Touched(p)
<1>1. First(p) \in Nat /\ FirstNew(p) \in Nat /\ Last(p) \in Nat
  BY ChunkSpan
<1>2. k >= FirstNew(p) => k \in FirstNew(p)..Last(p)
  BY <1>1
<1> QED BY <1>2 DEF Touched

(* The place that a writer is at. *)
LEMMA AtPlace ==
  ASSUME Basic, NEW p \in Process, pc[p] = "write"
  PROVE  /\ At(p) \div BSIZE \in First(p)..Last(p) /\ At(p) \div BSIZE \in 0..(MAXFILE - 1)
         /\ At(p) \div BSIZE \in 0..MAXFILE /\ At(p) \div BSIZE # MAXFILE
<1>1. /\ At(p) \in Nat /\ off[call[p].d] \in Nat /\ N1(p) \in Nat /\ tot[p] \in Nat
      /\ At(p) = off[call[p].d] + tot[p] /\ tot[p] < N1(p)
  BY Writer
<1>2. off[call[p].d] <= At(p) /\ At(p) <= off[call[p].d] + N1(p) - 1 /\ off[call[p].d] + N1(p) - 1 \in Nat
  BY <1>1
<1>3. First(p) <= At(p) \div BSIZE /\ At(p) \div BSIZE <= Last(p)
  BY <1>1, <1>2, DivMonotone DEF First, Last
<1>4. At(p) \div BSIZE \in Nat
  BY <1>1, DivMod
<1>5. First(p) \in Nat /\ Last(p) \in Nat /\ Last(p) < MAXFILE
  BY ChunkSpan
<1> HIDE DEF At
<1> QED BY <1>3, <1>4, <1>5, Constants

(* A chunk starts with nothing logged. *)
LEMMA LogWriteChunk ==
  ASSUME Basic, LogFits, NEW p \in Process, WriteChunk(p)
  PROVE  /\ \E x : logged' = [logged EXCEPT ![p] = x]
         /\ pc'[p] \in {"write", "update"} => logged'[p] \subseteq Touched(p)'
         /\ pc'[p] # "trunc"
         /\ pc'[p] \notin Locked => IsFiniteSet(logged'[p]) /\ Cardinality(logged'[p]) <= MAXOPBLOCKS
<1>1. \/ logged' = [logged EXCEPT ![p] = {}] /\ pc' = [pc EXCEPT ![p] = "write"]
      \/ logged' = logged /\ pc' = [pc EXCEPT ![p] = "idle"] /\ pc[p] = "chunk"
  BY DEF WriteChunk, Return, Goto
<1>2. logged = [q \in Process |-> logged[q]]
  BY DEF LogFits
<1>3. logged' = [logged EXCEPT ![p] = logged'[p]]
  BY <1>1, <1>2
<1>4. CASE logged' = [logged EXCEPT ![p] = {}] /\ pc' = [pc EXCEPT ![p] = "write"]
  <2>1. logged'[p] = {} /\ pc'[p] = "write"
    BY <1>2, <1>4 DEF Basic, FileTypeOK
  <2> QED BY <2>1, <1>3 DEF Locked
<1>5. CASE logged' = logged /\ pc' = [pc EXCEPT ![p] = "idle"] /\ pc[p] = "chunk"
  <2>1. pc'[p] = "idle" /\ logged'[p] = logged[p]
    BY <1>5 DEF Basic, FileTypeOK
  <2>2. IsFiniteSet(logged[p]) /\ Cardinality(logged[p]) <= MAXOPBLOCKS
    BY <1>5 DEF LogFits, Locked
  <2> QED BY <2>1, <2>2, <1>3
<1> QED BY <1>1, <1>4, <1>5

(* balloc() logs a block of the bitmap only for a place beyond the old      *)
(* end of the file, and those are the new ones of the chunk.                *)
LEMMA LogWriteAlloc ==
  ASSUME Basic, Basic', OwnedInv, NoHoles, LogFits, NEW p \in Process, WriteAlloc(p)
  PROVE  /\ \E x : logged' = [logged EXCEPT ![p] = x]
         /\ pc'[p] \in {"write", "update"} /\ logged'[p] \subseteq Touched(p)'
<1>0. FileOf(p) \in File /\ pc[p] = "write" /\ lock[FileOf(p)] = p
  BY Writer DEF WriteAlloc
<1> PICK f \in File : f = FileOf(p)
  BY <1>0
<1>1. logged = [q \in Process |-> logged[q]] /\ logged[p] \subseteq Touched(p)
  BY <1>0 DEF LogFits
<1>2. UNCHANGED <<off, call, left, tot>>
  BY DEF WriteAlloc
<1>3. First(p)' = First(p) /\ FirstNew(p)' = FirstNew(p) /\ Last(p)' = Last(p) /\ FileOf(p)' = f
  BY <1>2 DEF First, FirstNew, Last, N1, FileOf
<1>4. CASE Free = {}
  <2>1. UNCHANGED <<disk, mem, logged>> /\ pc' = [pc EXCEPT ![p] = "update"]
    BY <1>4 DEF WriteAlloc, Goto
  <2>2. pc'[p] = "update"
    BY <2>1 DEF Basic, FileTypeOK
  <2>3. Touched(p)' = Touched(p)
    BY <1>3, <2>1 DEF Touched
  <2>4. logged' = [logged EXCEPT ![p] = logged[p]]
    BY <1>1, <2>1
  <2> QED BY <1>1, <2>1, <2>2, <2>3, <2>4
<1>5. CASE Free # {}
  <2>1. PICK b \in Block \ disk.used, w \in 0..MAXFILE :
          /\ BlockIn(mem[f], disk.blk, w) = NoBlock
          /\ \A i \in 0..MAXFILE :
               BlockIn(mem'[f], disk'.blk, i) = IF i = w THEN b ELSE BlockIn(mem[f], disk.blk, i)
          /\ w = At(p) \div BSIZE \/ (w = MAXFILE /\ mem[f].addrs[NDIRECT] = NoBlock)
          /\ w \in NDIRECT..(MAXFILE - 1) => mem[f].addrs[NDIRECT] # NoBlock
          /\ logged' = [logged EXCEPT ![p] = @ \cup {Bitmap(b), Data(b)} \cup
                          (IF w \in NDIRECT..(MAXFILE - 1) THEN {Data(mem[f].addrs[NDIRECT])} ELSE {})]
          /\ UNCHANGED pc
    BY <1>5, AllocEffect DEF OwnedInv
  <2>2. b # NoBlock
    BY Constants DEF Block, NoBlock
  <2>3. pc'[p] = "write" /\ logged' = [logged EXCEPT ![p] = logged'[p]]
    BY <1>0, <1>1, <2>1
  <2>4. logged'[p] = logged[p] \cup {Bitmap(b), Data(b)} \cup
                       (IF w \in NDIRECT..(MAXFILE - 1) THEN {Data(mem[f].addrs[NDIRECT])} ELSE {})
    BY <1>1, <2>1
  <2>5. First(p) \in Nat /\ FirstNew(p) \in Nat /\ Last(p) \in Nat /\ Last(p) < MAXFILE /\ First(p) <= FirstNew(p)
    BY <1>0, ChunkSpan
  <2>6. \A k \in 0..(MAXFILE - 1) :
          BlockAt(mem'[f], disk'.blk, k) = IF k = w THEN b ELSE BlockAt(mem[f], disk.blk, k)
    BY <2>1, Constants DEF BlockIn
  <2>7. mem'[f].addrs[NDIRECT] = IF w = MAXFILE THEN b ELSE mem[f].addrs[NDIRECT]
    <3>1. BlockIn(mem'[f], disk'.blk, MAXFILE) = IF w = MAXFILE THEN b ELSE BlockIn(mem[f], disk.blk, MAXFILE)
      BY <2>1, Constants
    <3> QED BY <3>1 DEF BlockIn
  <2>8. \A k \in 0..(MAXFILE - 1) : BlockAt(mem[f], disk.blk, k) # NoBlock =>
          BlockAt(mem'[f], disk'.blk, k) = BlockAt(mem[f], disk.blk, k)
    BY <2>1, <2>6, Constants DEF BlockIn
  <2>9. mem[f].addrs[NDIRECT] # NoBlock => mem'[f].addrs[NDIRECT] = mem[f].addrs[NDIRECT]
    BY <2>1, <2>7 DEF BlockIn
  <2>10. Touched(p) \subseteq Touched(p)'
    <3>1. \A k \in First(p)..Last(p) : k \in 0..(MAXFILE - 1)
      BY <2>5, Constants
    <3>2. \A k \in FirstNew(p)..Last(p) : k \in 0..(MAXFILE - 1)
      BY <2>5, Constants
    <3> QED BY <1>3, <2>8, <2>9, <3>1, <3>2 DEF Touched
  <2>11. mem'[f].addrs[NDIRECT] # NoBlock =>
           Data(mem'[f].addrs[NDIRECT]) \in Touched(p)' /\ Bitmap(mem'[f].addrs[NDIRECT]) \in Touched(p)'
    BY <1>3 DEF Touched
  <2>12. CASE w = MAXFILE
    <3>1. w \notin NDIRECT..(MAXFILE - 1)
      BY <2>12, Constants
    <3> QED BY <1>1, <2>2, <2>3, <2>4, <2>7, <2>10, <2>11, <2>12, <3>1
  <2>13. CASE w # MAXFILE
    <3>1. w = At(p) \div BSIZE
      BY <2>1, <2>13
    <3>2. w \in First(p)..Last(p) /\ w \in 0..(MAXFILE - 1)
      BY <1>0, <3>1, AtPlace
    <3>3. BlockAt(mem[f], disk.blk, w) = NoBlock
      BY <2>1, <2>13 DEF BlockIn
    <3>4. w >= FirstNew(p)
      <4>1. CASE off[call[p].d] % BSIZE = 0
        BY <4>1, <3>2, <2>5 DEF FirstNew
      <4>2. CASE off[call[p].d] % BSIZE # 0
        <5>1. off[call[p].d] \in Nat /\ off[call[p].d] <= mem[f].size /\ mem[f].size \in Nat
          BY <1>0, Writer DEF NodeType
        <5>2. PICK q \in Nat, r \in 0..(BSIZE - 1) :
                q = off[call[p].d] \div BSIZE /\ r = off[call[p].d] % BSIZE /\ off[call[p].d] = BSIZE * q + r
          BY <5>1, DivMod
        <5>3. r - 1 \in 0..(BSIZE - 1) /\ BSIZE * q + (r - 1) = off[call[p].d] - 1
              /\ off[call[p].d] - 1 \in Nat
          <6>1. PICK x \in Nat : x = BSIZE * q
            BY Constants
          <6>2. r # 0
            BY <4>2, <5>2
          <6>3. off[call[p].d] = x + r
            BY <5>2, <6>1
          <6>4. r - 1 \in 0..(BSIZE - 1) /\ x + (r - 1) = off[call[p].d] - 1 /\ off[call[p].d] - 1 \in Nat
            BY <6>1, <6>2, <6>3, Constants
          <6> QED BY <6>1, <6>4
        <5>4. (off[call[p].d] - 1) \div BSIZE = q
          <6>1. PICK s \in Nat, t \in 0..(BSIZE - 1) :
                  s = (off[call[p].d] - 1) \div BSIZE /\ off[call[p].d] - 1 = BSIZE * s + t
            BY <5>3, DivMod
          <6>2. BSIZE * q + (r - 1) = BSIZE * s + t
            BY <5>3, <6>1
          <6>3. r - 1 \in Int /\ 0 <= r - 1 /\ r - 1 < BSIZE /\ 0 <= t /\ t < BSIZE /\ t \in Int /\ q \in Int /\ s \in Int
            BY <5>3, Constants
          <6>4. q = s
            BY <6>2, <6>3, DivUnique
          <6> QED BY <6>1, <6>4
        <5>5. Whole(mem[f], disk.blk, mem[f].size)
          BY <1>0 DEF NoHoles, Truncating
        <5>6. off[call[p].d] - 1 \in 0..(mem[f].size - 1)
          BY <5>1, <5>3
        <5>7. BlockAt(mem[f], disk.blk, q) # NoBlock
          BY <5>4, <5>5, <5>6 DEF Whole
        <5>8. w # First(p)
          BY <3>3, <5>2, <5>7 DEF First
        <5> QED BY <3>2, <4>2, <5>8, <2>5 DEF FirstNew
      <4> QED BY <4>1, <4>2
    <3>5. BlockAt(mem'[f], disk'.blk, w) = b
      BY <2>6, <3>2
    <3>6. Data(b) \in Touched(p)' /\ Bitmap(b) \in Touched(p)'
      <4>1. w \in FirstNew(p)..Last(p)
        BY <3>2, <3>4, <2>5
      <4> QED BY <1>3, <2>2, <3>2, <3>5, <4>1 DEF Touched
    <3>7. w \in NDIRECT..(MAXFILE - 1) => Data(mem[f].addrs[NDIRECT]) \in Touched(p)'
      BY <2>1, <2>9, <2>11
    <3> QED BY <1>1, <2>3, <2>4, <2>10, <3>6, <3>7
  <2> QED BY <2>12, <2>13
<1> QED BY <1>4, <1>5

(* A copy logs a block of the chunk. *)
LEMMA LogWriteCopy ==
  ASSUME Basic, LogFits, NEW p \in Process, WriteCopy(p)
  PROVE  /\ \E x : logged' = [logged EXCEPT ![p] = x]
         /\ pc'[p] \in {"write", "update"} /\ logged'[p] \subseteq Touched(p)'
<1>0. FileOf(p) \in File /\ pc[p] = "write" /\ CopyBlock(p) # NoBlock /\ UNCHANGED <<mem, off, call, left>>
      /\ mem[FileOf(p)] \in NodeType
  BY Writer, CopyEffect
<1> PICK f \in File : f = FileOf(p)
  BY <1>0
<1>1. logged = [q \in Process |-> logged[q]] /\ logged[p] \subseteq Touched(p)
  BY <1>0 DEF LogFits
<1>2. First(p)' = First(p) /\ FirstNew(p)' = FirstNew(p) /\ Last(p)' = Last(p) /\ FileOf(p)' = f
  BY <1>0 DEF First, FirstNew, Last, N1, FileOf
<1>3. \A k : BlockAt(mem[f], disk'.blk, k) = BlockAt(mem[f], disk.blk, k)
  <2>1. disk' = disk \/ \A c \in Block : disk'.blk[c].ptrs = disk.blk[c].ptrs
    BY CopyEffect
  <2>2. mem[f].addrs[NDIRECT] \in BlockOrNone
    BY <1>0, Constants DEF NodeType
  <2> QED BY <2>1, <2>2 DEF BlockAt, BlockOrNone
<1>4. Touched(p)' = Touched(p)
  BY <1>0, <1>2, <1>3 DEF Touched
<1>5. Data(CopyBlock(p)) \in Touched(p)
  BY <1>0, AtPlace, TouchedPlace DEF CopyBlock
<1>6. pc'[p] \in {"write", "update"}
  <2>1. pc' \in {[pc EXCEPT ![p] = "write"], [pc EXCEPT ![p] = "update"]}
    BY DEF WriteCopy, Goto
  <2> QED BY <2>1 DEF Basic, FileTypeOK
<1>7. logged' = logged \/ logged' = [logged EXCEPT ![p] = @ \cup {Data(CopyBlock(p))}]
  BY CopyEffect
<1>8. logged' = [logged EXCEPT ![p] = logged'[p]] /\ logged'[p] \subseteq logged[p] \cup {Data(CopyBlock(p))}
  BY <1>1, <1>7
<1> QED BY <1>1, <1>4, <1>5, <1>6, <1>8

(* The end of a chunk logs the inode. *)
LEMMA LogWriteDone ==
  ASSUME Basic, LogFits, NEW p \in Process, WriteDone(p)
  PROVE  /\ \E x : logged' = [logged EXCEPT ![p] = x]
         /\ pc'[p] \notin Locked /\ IsFiniteSet(logged'[p]) /\ Cardinality(logged'[p]) <= MAXOPBLOCKS
<1>1. /\ pc[p] = "update" /\ logged' = [logged EXCEPT ![p] = @ \cup {<<"inode", FileOf(p)>>}]
      /\ pc' = [pc EXCEPT ![p] = "chunk"] \/ pc' = [pc EXCEPT ![p] = "idle"]
  BY DoneEffect
<1>2. logged = [q \in Process |-> logged[q]] /\ logged[p] \subseteq Touched(p)
  BY <1>1 DEF LogFits
<1>3. logged'[p] = logged[p] \cup {<<"inode", FileOf(p)>>}
  BY <1>1, <1>2
<1>4. IsFiniteSet(Touched(p)) /\ Cardinality(Touched(p)) <= MAXOPBLOCKS - 1
  BY <1>1, TouchedFits
<1>5. pc'[p] \notin Locked
  BY <1>1 DEF Basic, FileTypeOK, Locked
<1> QED BY <1>1, <1>2, <1>3, <1>4, <1>5, InodeFits

(* itrunc() logs blocks of the bitmap and the inode. *)
LEMMA LogTrunc ==
  ASSUME Basic, OwnedInv, LogFits, NEW p \in Process, TruncLock(p) \/ TruncFree(p) \/ TruncDone(p)
  PROVE  /\ \E x : logged' = [logged EXCEPT ![p] = x]
         /\ pc'[p] \notin {"write", "update"}
         /\ pc'[p] = "trunc" => logged'[p] \subseteq {Bitmap(b) : b \in Block}
         /\ pc'[p] \notin Locked => IsFiniteSet(logged'[p]) /\ Cardinality(logged'[p]) <= MAXOPBLOCKS
<1>0. logged = [q \in Process |-> logged[q]]
  BY DEF LogFits
<1>1. CASE TruncLock(p)
  <2>1. logged' = [logged EXCEPT ![p] = {}] /\ pc' = [pc EXCEPT ![p] = "trunc"]
    BY <1>1 DEF TruncLock, Goto
  <2>2. logged'[p] = {} /\ pc'[p] = "trunc"
    BY <1>0, <2>1 DEF Basic, FileTypeOK
  <2> QED BY <2>1, <2>2 DEF Locked
<1>2. CASE TruncFree(p)
  <2>1. PICK b \in Block : logged' = [logged EXCEPT ![p] = @ \cup {Bitmap(b)}]
    BY <1>2, FreeEffect DEF OwnedInv
  <2>2. pc[p] = "trunc" /\ UNCHANGED pc
    BY <1>2, FreeEffect DEF OwnedInv
  <2>3. logged[p] \subseteq {Bitmap(c) : c \in Block}
    BY <2>2 DEF LogFits
  <2>4. logged'[p] = logged[p] \cup {Bitmap(b)}
    BY <1>0, <2>1
  <2> QED BY <2>1, <2>2, <2>3, <2>4 DEF Locked
<1>3. CASE TruncDone(p)
  <2>1. /\ pc[p] = "trunc" /\ pc' = [pc EXCEPT ![p] = "idle"] /\ FileOf(p) \in File
        /\ logged' = [logged EXCEPT ![p] = @ \cup {Bitmap(b) : b \in Gone(p)} \cup {<<"inode", FileOf(p)>>}]
    BY <1>3, TruncDoneEffect
  <2>2. Gone(p) \subseteq Block
    <3>1. mem[FileOf(p)].addrs[NDIRECT] \in BlockOrNone
      BY <2>1, Constants DEF Basic, FileTypeOK, NodeType
    <3> QED BY <3>1 DEF Gone, BlockOrNone
  <2> DEFINE S == logged[p] \cup {Bitmap(b) : b \in Gone(p)}
  <2>3. S \subseteq {Bitmap(b) : b \in Block}
    BY <2>1, <2>2 DEF LogFits
  <2>4. logged'[p] = S \cup {<<"inode", FileOf(p)>>}
    BY <1>0, <2>1
  <2>5. pc'[p] = "idle"
    BY <2>1 DEF Basic, FileTypeOK
  <2>6. IsFiniteSet(logged'[p]) /\ Cardinality(logged'[p]) <= MAXOPBLOCKS
    <3> HIDE DEF S
    <3> QED BY <2>3, <2>4, BitmapFits, InodeFits
  <2> QED BY <2>1, <2>5, <2>6
<1> QED BY <1>1, <1>2, <1>3

(* Others' transactions are left alone. *)
LEMMA TouchedSame ==
  ASSUME Basic, NEW q \in Process, pc[q] \in {"write", "update"}, NEW f \in File, f = FileOf(q),
         FileOf(q)' = f, call'[q] = call[q], off'[call[q].d] = off[call[q].d], N1(q)' = N1(q),
         mem'[f] = mem[f],
         \A i \in 0..MAXFILE : BlockIn(mem[f], disk'.blk, i) = BlockIn(mem[f], disk.blk, i)
  PROVE  Touched(q)' = Touched(q)
<1>1. First(q)' = First(q) /\ FirstNew(q)' = FirstNew(q) /\ Last(q)' = Last(q)
  BY DEF First, FirstNew, Last
<1>2. First(q) \in Nat /\ FirstNew(q) \in Nat /\ Last(q) \in Nat /\ Last(q) < MAXFILE
  BY ChunkSpan
<1>3. \A k \in First(q)..Last(q) : BlockAt(mem'[f], disk'.blk, k) = BlockAt(mem[f], disk.blk, k)
  BY <1>2, Constants DEF BlockIn
<1>4. \A k \in FirstNew(q)..Last(q) : BlockAt(mem'[f], disk'.blk, k) = BlockAt(mem[f], disk.blk, k)
  BY <1>2, Constants DEF BlockIn
<1> QED BY <1>1, <1>3, <1>4 DEF Touched

(* No step on a file logs more than the reservation, *)
LEMMA LogFileStep ==
  ASSUME Basic, Basic', OwnedInv, NoHoles, LogFits, NEW p \in Process, FileStep(p)
  PROVE  LogFits'
<1>0. logged = [q \in Process |-> logged[q]]
  BY DEF LogFits
<1>1. PICK x : logged' = [logged EXCEPT ![p] = x]
  BY LogWriteChunk, LogWriteAlloc, LogWriteCopy, LogWriteDone, LogTrunc DEF FileStep
<1>2. logged' = [q \in Process |-> logged'[q]]
  BY <1>0, <1>1
<1>3. ASSUME NEW q \in Process
      PROVE  /\ pc'[q] \in {"write", "update"} => logged'[q] \subseteq Touched(q)'
             /\ pc'[q] = "trunc" => logged'[q] \subseteq {Bitmap(b) : b \in Block}
             /\ pc'[q] \notin Locked => IsFiniteSet(logged'[q]) /\ Cardinality(logged'[q]) <= MAXOPBLOCKS
  <2>1. CASE q = p
    <3>1. CASE WriteChunk(p)
      BY <2>1, <3>1, LogWriteChunk
    <3>2. CASE WriteAlloc(p) \/ WriteCopy(p)
      BY <2>1, <3>2, LogWriteAlloc, LogWriteCopy DEF Locked
    <3>3. CASE WriteDone(p)
      BY <2>1, <3>3, LogWriteDone DEF Locked
    <3>4. CASE TruncLock(p) \/ TruncFree(p) \/ TruncDone(p)
      BY <2>1, <3>4, LogTrunc
    <3> QED BY <3>1, <3>2, <3>3, <3>4 DEF FileStep
  <2>2. CASE q # p
    <3>1. logged'[q] = logged[q] /\ pc'[q] = pc[q]
      BY <1>0, <1>1, <2>2, OtherProcesses
    <3>2. CASE pc[q] \in {"write", "update"}
      <4>1. /\ FileOf(q) \in File /\ FileOf(q)' = FileOf(q) /\ FileOf(q) # FileOf(p)
            /\ call'[q] = call[q] /\ off'[call[q].d] = off[call[q].d] /\ N1(q)' = N1(q)
        BY <2>2, <3>2, OtherOffsets DEF Locked
      <4>2. PICK f \in File : f = FileOf(q)
        BY <4>1
      <4>3. /\ mem'[f] = mem[f]
            /\ \A i \in 0..MAXFILE : BlockIn(mem[f], disk'.blk, i) = BlockIn(mem[f], disk.blk, i)
        BY <4>1, <4>2, OtherFiles
      <4>4. Touched(q)' = Touched(q)
        BY <3>2, <4>1, <4>2, <4>3, TouchedSame
      <4> QED BY <3>1, <3>2, <4>4 DEF LogFits, Locked
    <3>3. CASE pc[q] \notin {"write", "update"}
      BY <3>1, <3>3 DEF LogFits, Locked
    <3> QED BY <3>2, <3>3
  <2> QED BY <2>1, <2>2
<1> QED BY <1>2, <1>3 DEF LogFits

(* nor does one outside the locks, *)
LEMMA LogIdle ==
  ASSUME Basic, LogFits, NEW p \in Process, IdleStep(p)
  PROVE  LogFits'
<1>1. UNCHANGED <<disk, mem, logged>>
  BY IdleEffect
<1>2. ASSUME NEW q \in Process
      PROVE  /\ pc'[q] \in {"write", "update"} => logged'[q] \subseteq Touched(q)'
             /\ pc'[q] = "trunc" => logged'[q] \subseteq {Bitmap(b) : b \in Block}
             /\ pc'[q] \notin Locked => IsFiniteSet(logged'[q]) /\ Cardinality(logged'[q]) <= MAXOPBLOCKS
  <2>1. CASE pc'[q] \in {"write", "update"}
    <3>1. /\ pc'[q] = pc[q] /\ FileOf(q) \in File /\ FileOf(q)' = FileOf(q)
          /\ call'[q] = call[q] /\ off'[call[q].d] = off[call[q].d] /\ N1(q)' = N1(q)
      BY <2>1, IdleOthers DEF Locked
    <3>2. PICK f \in File : f = FileOf(q)
      BY <3>1
    <3>3. Touched(q)' = Touched(q)
      BY <1>1, <2>1, <3>1, <3>2, TouchedSame
    <3> QED BY <1>1, <2>1, <3>1, <3>3 DEF LogFits, Locked
  <2>2. CASE pc'[q] = "trunc"
    <3>1. pc[q] = "trunc"
      BY <2>2, IdleOthers DEF Locked
    <3> QED BY <1>1, <2>2, <3>1 DEF LogFits, Locked
  <2>3. CASE pc'[q] \notin Locked
    <3>1. pc[q] \notin Locked
      BY <2>3, IdleEffect DEF Locked
    <3> QED BY <1>1, <2>3, <3>1 DEF LogFits, Locked
  <2> QED BY <2>1, <2>2, <2>3 DEF Locked
<1> QED BY <1>1, <1>2 DEF LogFits

(* and after a crash nothing is logged. *)
LEMMA LogCrash == ASSUME Crash PROVE LogFits'
<1>1. pc' = [p \in Process |-> "idle"] /\ logged' = [p \in Process |-> {}]
  BY DEF Crash
<1>2. MAXOPBLOCKS >= 0
  BY ChunkAssumption
<1> QED BY <1>1, <1>2, FS_EmptySet DEF LogFits, Locked

-----------------------------------------------------------------------------
(* The invariant, and the properties that follow from it. *)

(* The invariant, part by part, for a step on a file, *)
LEMMA FileInvFileStep ==
  ASSUME FileInv, NEW p \in Process, FileStep(p), SeenStep
  PROVE  FileInv'
<1> USE DEF FileInv, OwnedInv
<1>1. Basic'
  BY BasicWriteChunk, BasicWriteAlloc, BasicWriteCopy, BasicWriteDone, BasicTruncLock, BasicTruncFree,
     BasicTruncDone DEF FileStep
<1>2. OwnedInv'
  BY OwnedWriteChunk, OwnedWriteAlloc, OwnedWriteCopy, OwnedWriteDone, OwnedTruncLock, OwnedTruncFree,
     OwnedTruncDone DEF FileStep
<1>3. NoHoles'
  BY <1>1, HolesFileStep
<1>4. Remembered'
  BY <1>1, <1>3, RememberedFileStep
<1>5. LogFits'
  BY <1>1, LogFileStep
<1> QED BY <1>1, <1>2, <1>3, <1>4, <1>5

(* for one outside the locks, *)
LEMMA FileInvIdle ==
  ASSUME FileInv, NEW p \in Process, IdleStep(p), SeenStep
  PROVE  FileInv'
<1> USE DEF FileInv, OwnedInv
<1>1. Basic'
  BY BasicWriteStart, BasicTruncStart, BasicRead DEF IdleStep
<1>2. OwnedInv'
  BY OwnedStart DEF IdleStep
<1>3. NoHoles' /\ Remembered' /\ LogFits'
  BY HolesIdle, RememberedIdle, LogIdle
<1> QED BY <1>1, <1>2, <1>3

(* for a crash, *)
LEMMA FileInvCrash == ASSUME FileInv, Crash, SeenStep PROVE FileInv'
<1> USE DEF FileInv, OwnedInv
<1>1. Basic' /\ OwnedInv' /\ NoHoles' /\ LogFits'
  BY BasicCrash, OwnedCrash, HolesCrash, LogCrash
<1>2. Remembered'
  BY <1>1, RememberedCrash
<1> QED BY <1>1, <1>2

(* and for none. *)
LEMMA FileInvStutter == ASSUME FileInv, UNCHANGED vars PROVE FileInv'
<1> USE DEF vars, procVars
<1>1. Basic'
  BY DEF FileInv, Basic, FileTypeOK, Holders, InCall, Written, FileOf, N1
<1>2. OwnedInv'
  BY DEF FileInv, OwnedInv, OwnedOnce, Names, ComNames, Freed, Truncating
<1>3. NoHoles'
  BY DEF FileInv, NoHoles, Truncating, FileOf, At
<1>4. Remembered'
  BY DEF FileInv, Remembered, FileOf, At
<1>5. LogFits'
  BY DEF FileInv, LogFits, Touched, First, FirstNew, Last, N1, FileOf
<1> QED BY <1>1, <1>2, <1>3, <1>4, <1>5 DEF FileInv

(* There are no other steps. *)
LEMMA NextCases ==
  ASSUME Next
  PROVE  SeenStep /\ (Crash \/ \E p \in Process : FileStep(p) \/ IdleStep(p))
BY DEF Next, SeenStep, FileStep, IdleStep, Write, Trunc

(* Every reachable state satisfies the invariant. *)
THEOREM FileInvariant == Spec => []FileInv
<1>1. FileInv /\ [Next]_vars => FileInv'
  <2> SUFFICES ASSUME FileInv, [Next]_vars PROVE FileInv'
    OBVIOUS
  <2>1. CASE UNCHANGED vars
    BY <2>1, FileInvStutter
  <2>2. CASE Next
    BY <2>2, NextCases, FileInvFileStep, FileInvIdle, FileInvCrash
  <2> QED BY <2>1, <2>2
<1> QED BY <1>1, InitInv, PTL DEF Spec

(* The invariant's names at the last commit, counted. *)
LEMMA OwnedThen == ASSUME FileInv PROVE BlocksOwnedOnce
<1> DEFINE owners == {o \in File \X (0..MAXFILE) : o[2] \in Places(com.node[o[1]], com.blk)}
           h == [o \in owners |-> BlockIn(com.node[o[1]], com.blk, o[2])]
<1>1. \A p \in Process : pc[p] # "panic"
  <2>1. \A p \in Process : pc[p] \in {"idle", "chunk", "open"} \cup Locked
    BY DEF FileInv, Basic, FileTypeOK
  <2> QED BY <2>1 DEF Locked
<1>2. \A f \in File, i \in 0..MAXFILE :
        /\ ComNames[f][i] = BlockIn(com.node[f], com.blk, i)
        /\ i \in Places(com.node[f], com.blk) <=> ComNames[f][i] # NoBlock
  BY DEF ComNames, Places, BlockIn
<1>3. OwnedOnce(ComNames, com.used) /\ com.used \subseteq Block
  BY DEF FileInv, OwnedInv, Basic, FileTypeOK, DiskType
<1>4. \A o \in owners : /\ o[1] \in File /\ o[2] \in 0..MAXFILE /\ o = <<o[1], o[2]>>
                        /\ h[o] = ComNames[o[1]][o[2]] /\ h[o] # NoBlock
  BY <1>2
<1>5. \A f \in File, i \in 0..MAXFILE : ComNames[f][i] # NoBlock => <<f, i>> \in owners /\ h[<<f, i>>] = ComNames[f][i]
  BY <1>2
<1>6. \A o \in owners : h[o] \in com.used
  BY <1>3, <1>4 DEF OwnedOnce
<1>7. \A b \in com.used : \E o \in owners : h[o] = b
  <2> TAKE b \in com.used
  <2>1. b # NoBlock
    BY <1>3, Constants DEF Block, NoBlock
  <2>2. PICK f \in File, i \in 0..MAXFILE : ComNames[f][i] = b
    BY <1>3 DEF OwnedOnce
  <2> QED BY <1>5, <2>1, <2>2
<1>8. \A o, u \in owners : h[o] = h[u] => o = u
  BY <1>3, <1>4 DEF OwnedOnce
<1>9. com.used = {h[o] : o \in owners}
  BY <1>6, <1>7
<1>10. h \in Injection(owners, com.used) /\ h \in Surjection(owners, com.used)
  BY <1>6, <1>7, <1>8 DEF Injection, IsInjective, Surjection
<1>11. IsFiniteSet(com.used)
  <2>1. IsFiniteSet(Block)
    BY Constants, FS_Interval DEF Block
  <2> QED BY <2>1, <1>3, FS_Subset
<1>12. Cardinality(com.used) = Cardinality(owners)
  <2> HIDE DEF h, owners
  <2> QED BY <1>10, <1>11, FS_Injection
<1> QED BY <1>1, <1>9, <1>12 DEF BlocksOwnedOnce

(* fs.c:72, :92, :430: whatever allocation, copy or process fails or        *)
(* crashes where, the bitmap at the last commit has exactly the blocks      *)
(* that one place of one inode names, and bfree() never panics.             *)
THEOREM FilesBlocksOwnedOnce == Spec => []BlocksOwnedOnce
<1>1. FileInv => BlocksOwnedOnce
  BY OwnedThen
<1> QED BY <1>1, FileInvariant, PTL

(* file.c:153, param.h:9: no chunk of a write and no itrunc() logs more     *)
(* than the MAXOPBLOCKS blocks that begin_op() reserves.                    *)
THEOREM FilesTransactionFits == Spec => []TransactionFits
<1>1. FileInv => TransactionFits
  BY LogFitsThen DEF FileInv
<1> QED BY <1>1, FileInvariant, PTL

-----------------------------------------------------------------------------
(* The refinement of OpenFiles. *)

stableBar == [f \in File |-> Content(com.node[f], com.blk)]

(* What a file that nobody has locked holds is what is remembered. *)
LEMMA NotLocked ==
  ASSUME FileInv, NEW f \in File, lock[f] = None
  PROVE  /\ seen[f] = Content(mem[f], disk.blk) /\ Len(seen[f]) = mem[f].size
         /\ mem[f].size \in Nat /\ mem[f].size <= MAXFILE * BSIZE
<1>1. mem[f] \in NodeType /\ disk.blk \in [Block -> BlockType]
  BY DEF FileInv, Basic, FileTypeOK, DiskType
<1>2. mem[f].size <= MAXFILE * BSIZE
  BY DEF FileInv, NoHoles, Truncating, Whole
<1>3. seen[f] = Content(mem[f], disk.blk)
  BY DEF FileInv, Remembered
<1>4. Len(Content(mem[f], disk.blk)) = mem[f].size
  BY <1>1, <1>2, ContentLen
<1> QED BY <1>1, <1>2, <1>3, <1>4 DEF NodeType

(* A step on one file leaves what the others hold. *)
LEMMA SeenOthers ==
  ASSUME FileInv, NEW p \in Process, FileStep(p), SeenStep, NEW g \in File, g # FileOf(p)
  PROVE  seen'[g] = seen[g]
<1> USE DEF FileInv, OwnedInv
<1>1. lock'[g] = lock[g] /\ mem'[g] = mem[g]
  BY OtherFiles
<1>2. CASE lock[g] # None
  BY <1>1, <1>2 DEF SeenStep
<1>3. CASE lock[g] = None
  <2>1. /\ seen[g] = Content(mem[g], disk.blk) /\ mem[g].size \in Nat
        /\ mem[g].size <= MAXFILE * BSIZE
    BY <1>3, NotLocked
  <2>2. seen'[g] = Content(mem[g], disk'.blk)
    BY <1>1, <1>3 DEF SeenStep
  <2>3. ~Truncating(g)
    BY <1>3 DEF Truncating
  <2>4. \A i \in 0..(MAXFILE * BSIZE - 1) : ByteAt(mem[g], disk'.blk, i) = ByteAt(mem[g], disk.blk, i)
    BY <1>1, <2>3, OtherBytes
  <2>5. \A i \in 1..mem[g].size : i - 1 \in 0..(MAXFILE * BSIZE - 1)
    <3>1. MAXFILE * BSIZE \in Nat
      BY Constants
    <3> QED BY <2>1, <3>1
  <2> QED BY <2>1, <2>2, <2>4, <2>5 DEF Content
<1> QED BY <1>2, <1>3

(* A step that keeps its file's content, or its lock. *)
LEMMA SeenKept ==
  ASSUME FileInv, NEW p \in Process, FileStep(p), SeenStep, seen'[FileOf(p)] = seen[FileOf(p)]
  PROVE  seen' = seen
<1>1. \A g \in File : seen'[g] = seen[g]
  BY SeenOthers
<1>2. seen = [g \in File |-> seen[g]] /\ seen' = [g \in File |-> seen'[g]]
  BY DEF FileInv, Remembered, SeenStep
<1> QED BY <1>1, <1>2

(* The end of a transaction: nothing is committed, or all there is. *)
LEMMA SeenCommit ==
  ASSUME FileInv, FileInv', NEW p \in Process, FileStep(p), EndOp(p), pc'[p] \notin Locked, SeenStep
  PROVE  stableBar' = stableBar \/ stableBar' = seen'
<1>1. CASE com' = com
  BY <1>1 DEF stableBar
<1>2. CASE com' = disk' /\ \A g \in File : lock'[g] = None /\ mem'[g] = disk'.node[g]
  BY <1>2 DEF stableBar, SeenStep
<1>3. \A q \in Process : q # p => pc'[q] = pc[q]
  BY OtherProcesses DEF FileInv, OwnedInv
<1> QED BY <1>1, <1>2, <1>3, Commits DEF FileInv

AbstractVars == <<seen, off, stableBar>>
AbstractStep == Files!Next \/ UNCHANGED AbstractVars

(* read() maps to Read, the start of a call to no step. *)
LEMMA RefineIdle ==
  ASSUME FileInv, NEW p \in Process, IdleStep(p), SeenStep
  PROVE  AbstractStep
<1>1. seen' = seen /\ stableBar' = stableBar
  BY RememberedIdle, IdleEffect DEF FileInv, stableBar
<1>2. CASE WriteStart(p) \/ TruncStart(p)
  BY <1>1, <1>2 DEF WriteStart, TruncStart, AbstractStep, AbstractVars
<1>3. CASE Read(p)
  <2>1. PICK d \in Desc, n \in Sizes :
          /\ lock[InodeOf[d]] = None /\ off[d] < mem[InodeOf[d]].size
          /\ off' = [off EXCEPT ![d] = IF @ + n > mem[InodeOf[d]].size THEN mem[InodeOf[d]].size ELSE @ + n]
    BY <1>3 DEF Read
  <2>2. InodeOf[d] \in File /\ n \in Nat /\ n >= 1 /\ off \in [Desc -> Nat]
    BY Constants DEF FileInv, Basic, FileTypeOK
  <2>3. Len(seen[InodeOf[d]]) = mem[InodeOf[d]].size /\ mem[InodeOf[d]].size \in Nat
    BY <2>1, <2>2, NotLocked
  <2>4. off'[d] \in (off[d] + 1)..Len(seen[InodeOf[d]]) /\ off' = [off EXCEPT ![d] = off'[d]]
    BY <2>1, <2>2, <2>3
  <2>5. Files!Read(d)
    BY <1>1, <2>4 DEF Files!Read, stableBar
  <2> QED BY <2>5 DEF AbstractStep, Files!Next
<1> QED BY <1>2, <1>3 DEF IdleStep

(* A crash maps to Crash. *)
LEMMA RefineCrash ==
  ASSUME FileInv, Crash, SeenStep
  PROVE  AbstractStep
<1>1. Files!Crash
  BY DEF Files!Crash, Crash, SeenStep
<1> QED BY <1>1 DEF AbstractStep, Files!Next

(* The tests of writei() map to no step, or to the commit that the end of   *)
(* a failed write makes.                                                    *)
LEMMA RefineWriteChunk ==
  ASSUME FileInv, FileInv', NEW p \in Process, WriteChunk(p), SeenStep
  PROVE  AbstractStep
<1>0. FileStep(p) /\ FileOf(p) \in File
  BY StepOfCall DEF FileStep, FileInv
<1> PICK f \in File : f = FileOf(p)
  BY <1>0
<1>1. lock[f] = None /\ UNCHANGED <<disk, mem, off>>
  BY DEF WriteChunk
<1>2. seen'[f] = seen[f]
  BY <1>1, NotLocked DEF SeenStep
<1>3. seen' = seen
  BY <1>0, <1>2, SeenKept
<1>4. UNCHANGED com \/ (EndOp(p) /\ pc' = [pc EXCEPT ![p] = "idle"])
  BY DEF WriteChunk, Return, Goto
<1>5. CASE UNCHANGED com
  BY <1>1, <1>3, <1>5 DEF AbstractStep, AbstractVars, stableBar
<1>6. CASE EndOp(p) /\ pc' = [pc EXCEPT ![p] = "idle"]
  <2>1. pc'[p] \notin Locked
    BY <1>6 DEF FileInv, Basic, FileTypeOK, Locked
  <2>2. stableBar' = stableBar \/ stableBar' = seen
    BY <1>0, <1>3, <1>6, <2>1, SeenCommit
  <2>3. stableBar' = seen => Files!Commit
    BY <1>1, <1>3 DEF Files!Commit, stableBar
  <2> QED BY <1>1, <1>3, <2>2, <2>3 DEF AbstractStep, AbstractVars, Files!Next
<1> QED BY <1>4, <1>5, <1>6

(* What happens to the blocks under the lock maps to no step. *)
LEMMA RefineInside ==
  ASSUME FileInv, NEW p \in Process, WriteAlloc(p) \/ WriteCopy(p) \/ TruncFree(p), SeenStep
  PROVE  AbstractStep
<1>0. FileStep(p) /\ FileOf(p) \in File
  BY StepOfCall DEF FileStep, FileInv
<1>1. lock[FileOf(p)] = p
  <2>1. pc[p] \in Locked
    BY CopyEffect DEF WriteAlloc, TruncFree, Locked, FileInv
  <2> QED BY <2>1 DEF FileInv, Basic, Holders
<1>2. UNCHANGED <<com, lock, off>>
  BY CopyEffect DEF WriteAlloc, TruncFree, FileInv
<1>3. seen'[FileOf(p)] = seen[FileOf(p)]
  BY <1>0, <1>1, <1>2, Constants DEF SeenStep
<1>4. seen' = seen
  BY <1>0, <1>3, SeenKept
<1> QED BY <1>2, <1>4 DEF AbstractStep, AbstractVars, stableBar

(* Opening with O_TRUNC maps to Rewind. *)
LEMMA RefineTruncLock ==
  ASSUME FileInv, NEW p \in Process, TruncLock(p), SeenStep
  PROVE  AbstractStep
<1>0. FileStep(p) /\ FileOf(p) \in File /\ call[p].d \in Desc
  BY StepOfCall DEF FileStep, FileInv
<1>1. lock' = [lock EXCEPT ![FileOf(p)] = p] /\ off' = [off EXCEPT ![call[p].d] = 0] /\ UNCHANGED com
  BY DEF TruncLock
<1>2. lock'[FileOf(p)] # None
  BY <1>0, <1>1, Constants DEF FileInv, Basic, FileTypeOK
<1>3. seen'[FileOf(p)] = seen[FileOf(p)]
  BY <1>0, <1>2 DEF SeenStep
<1>4. seen' = seen
  BY <1>0, <1>3, SeenKept
<1>5. Files!Rewind(call[p].d)
  BY <1>1, <1>4 DEF Files!Rewind
<1> QED BY <1>0, <1>5 DEF AbstractStep, Files!Next

(* The end of itrunc() maps to Empty. *)
LEMMA RefineTruncDone ==
  ASSUME FileInv, FileInv', NEW p \in Process, TruncDone(p), SeenStep
  PROVE  AbstractStep
<1>0. FileStep(p) /\ FileOf(p) \in File
  BY StepOfCall DEF FileStep, FileInv
<1> PICK f \in File : f = FileOf(p)
  BY <1>0
<1>1. /\ mem' = [mem EXCEPT ![f] = EmptyNode] /\ lock' = [lock EXCEPT ![f] = None]
      /\ EndOp(p) /\ pc' = [pc EXCEPT ![p] = "idle"] /\ UNCHANGED off
  BY TruncDoneEffect DEF FileInv
<1>2. mem'[f] = EmptyNode /\ lock'[f] = None /\ pc'[p] \notin Locked
  BY <1>1 DEF FileInv, Basic, FileTypeOK, Locked
<1>3. seen'[f] = <<>>
  BY <1>2, NothingNamed DEF SeenStep
<1>4. seen' = [seen EXCEPT ![f] = <<>>]
  <2>1. \A g \in File : g # f => seen'[g] = seen[g]
    BY <1>0, SeenOthers
  <2>2. seen = [g \in File |-> seen[g]] /\ seen' = [g \in File |-> seen'[g]]
    BY DEF FileInv, Remembered, SeenStep
  <2> QED BY <1>3, <2>1, <2>2
<1>5. stableBar' = stableBar \/ stableBar' = seen'
  BY <1>0, <1>1, <1>2, SeenCommit
<1>6. Files!Empty(f)
  BY <1>1, <1>4, <1>5 DEF Files!Empty, Files!MayCommit, stableBar
<1> QED BY <1>6 DEF AbstractStep, Files!Next

(* The end of a chunk maps to Write of what was copied, or to a commit if   *)
(* nothing was.                                                             *)
LEMMA RefineWriteDone ==
  ASSUME FileInv, FileInv', NEW p \in Process, WriteDone(p), SeenStep
  PROVE  AbstractStep
<1>0. FileStep(p) /\ FileOf(p) \in File
  BY StepOfCall DEF FileStep, FileInv
<1> PICK f \in File : f = FileOf(p)
  BY <1>0
<1> DEFINE d == call[p].d  o == off[d]  v == call[p].byte
<1>1. /\ pc[p] = "update" /\ NewNode(p).addrs = mem[f].addrs
      /\ NewNode(p).size = IF At(p) > mem[f].size THEN At(p) ELSE mem[f].size
      /\ mem' = [mem EXCEPT ![f] = NewNode(p)] /\ disk'.blk = disk.blk
      /\ off' = [off EXCEPT ![d] = At(p)] /\ lock' = [lock EXCEPT ![f] = None]
      /\ EndOp(p)
      /\ pc' = [pc EXCEPT ![p] = "chunk"] \/ pc' = [pc EXCEPT ![p] = "idle"]
  BY DoneEffect DEF FileInv
<1>2. mem'[f] = NewNode(p) /\ lock'[f] = None /\ pc'[p] \notin Locked
  BY <1>1 DEF FileInv, Basic, FileTypeOK, Locked
<1>3. /\ d \in Desc /\ v \in Byte /\ o \in Nat /\ tot[p] \in Nat /\ At(p) = o + tot[p] /\ At(p) \in Nat
      /\ tot[p] <= N1(p) /\ N1(p) <= MaxChunk /\ N1(p) \in Nat /\ o <= mem[f].size /\ mem[f].size \in Nat
      /\ At(p) <= MAXFILE * BSIZE /\ MAXFILE * BSIZE \in Nat
      /\ InodeOf[d] = f /\ lock[f] = p
  BY <1>1, Writer DEF FileInv, NodeType, FileOf
<1>4. mem[f].size <= MAXFILE * BSIZE
  <2>1. ~Truncating(f)
    BY <1>1, <1>3 DEF Truncating
  <2> QED BY <2>1 DEF FileInv, NoHoles, Whole
<1>5. /\ Len(seen[f]) = mem[f].size /\ seen[f] \in Seq(AnyByte)
      /\ \A i \in 0..(MAXFILE * BSIZE - 1) :
           i < mem[f].size \/ i < At(p) =>
             ByteAt(mem[f], disk.blk, i) = IF i >= o /\ i < o + tot[p] THEN v ELSE seen[f][i + 1]
  BY <1>1 DEF FileInv, Remembered
<1>6. seen'[f] = Content(NewNode(p), disk.blk)
  BY <1>1, <1>2 DEF SeenStep
<1>7. \A i : ByteAt(NewNode(p), disk.blk, i) = ByteAt(mem[f], disk.blk, i)
  BY <1>1 DEF ByteAt, BlockAt
<1>8. seen'[f] = [i \in 1..NewNode(p).size |->
                    IF i - 1 >= o /\ i - 1 < o + tot[p] THEN v ELSE seen[f][i]]
  <2>1. ASSUME NEW i \in 1..NewNode(p).size
        PROVE  ByteAt(NewNode(p), disk.blk, i - 1) = IF i - 1 >= o /\ i - 1 < o + tot[p] THEN v ELSE seen[f][i]
    <3>1. /\ i - 1 \in 0..(MAXFILE * BSIZE - 1) /\ (i - 1 < mem[f].size \/ i - 1 < At(p))
          /\ (i - 1) + 1 = i
      <4> HIDE DEF o
      <4> QED BY <1>1, <1>3, <1>4
    <3> QED BY <1>5, <1>7, <3>1
  <2> QED BY <1>6, <2>1 DEF Content
<1>9. stableBar' = stableBar \/ stableBar' = seen'
  BY <1>0, <1>1, <1>2, SeenCommit
<1>10. CASE tot[p] = 0
  <2>1. NewNode(p).size = Len(seen[f])
    BY <1>1, <1>3, <1>5, <1>10
  <2>2. seen'[f] = seen[f]
    <3>1. seen[f] = [i \in 1..Len(seen[f]) |-> seen[f][i]]
      BY <1>5
    <3>2. \A i \in 1..Len(seen[f]) : ~(i - 1 >= o /\ i - 1 < o + tot[p])
      BY <1>3, <1>5, <1>10
    <3> QED BY <1>8, <2>1, <3>1, <3>2
  <2>3. seen' = seen
    BY <1>0, <2>2, SeenKept
  <2>4. off' = off
    BY <1>1, <1>3, <1>10 DEF FileInv, Basic, FileTypeOK
  <2>5. stableBar' = seen => Files!Commit
    BY <2>3, <2>4 DEF Files!Commit, stableBar
  <2> QED BY <1>9, <2>3, <2>4, <2>5 DEF AbstractStep, AbstractVars, Files!Next
<1>11. CASE tot[p] # 0
  <2>1. tot[p] \in 1..MaxChunk
    BY <1>3, <1>11, Constants
  <2>2. seen'[f] = Files!Overwrite(seen[f], o, tot[p], v)
    <3>1. NewNode(p).size = IF o + tot[p] > Len(seen[f]) THEN o + tot[p] ELSE Len(seen[f])
      BY <1>1, <1>3, <1>5
    <3>2. \A i \in 1..NewNode(p).size : (i - 1 >= o /\ i - 1 < o + tot[p]) <=> (i > o /\ i <= o + tot[p])
      BY <1>3, <3>1, <1>5
    <3> QED BY <1>8, <3>1, <3>2 DEF Files!Overwrite
  <2>3. seen' = [seen EXCEPT ![f] = Files!Overwrite(@, o, tot[p], v)]
    <3>1. \A g \in File : g # f => seen'[g] = seen[g]
      BY <1>0, SeenOthers
    <3>2. seen = [g \in File |-> seen[g]] /\ seen' = [g \in File |-> seen'[g]]
      BY DEF FileInv, Remembered, SeenStep
    <3> QED BY <2>2, <3>1, <3>2
  <2>4. off' = [off EXCEPT ![d] = @ + tot[p]]
    BY <1>1, <1>3
  <2>5. off[d] <= Len(seen[InodeOf[d]])
    BY <1>3, <1>5
  <2>6. Files!Write(d)
    BY <1>3, <1>9, <2>1, <2>3, <2>4, <2>5 DEF Files!Write, Files!MayCommit, stableBar
  <2> QED BY <1>3, <2>6 DEF AbstractStep, Files!Next
<1> QED BY <1>10, <1>11

(* fs.c:545, file.c:163: the blocks, the bitmap and the transactions        *)
(* implement OpenFiles: files are sequences of bytes, written chunk by      *)
(* chunk where the offset is, and a crash loses whole transactions only.    *)
THEOREM FilesImplementOpenFiles == Spec => FilesSpec
<1>1. Init => Files!Init
  <2> SUFFICES ASSUME Init PROVE Files!Init
    OBVIOUS
  <2>1. \A f \in File : Content(com.node[f], com.blk) = <<>>
    BY NothingNamed DEF Init
  <2> QED BY <2>1 DEF Init, Files!Init
<1>2. FileInv /\ FileInv' /\ [Next]_vars => [Files!Next]_(Files!vars)
  <2> SUFFICES ASSUME FileInv, FileInv', [Next]_vars PROVE AbstractStep
    BY DEF AbstractStep, AbstractVars, stableBar, Files!vars
  <2>1. CASE UNCHANGED vars
    BY <2>1 DEF vars, AbstractStep, AbstractVars, stableBar
  <2>2. CASE Next
    <3>1. SeenStep /\ (Crash \/ \E p \in Process : FileStep(p) \/ IdleStep(p))
      BY <2>2, NextCases
    <3> QED BY <3>1, RefineIdle, RefineCrash, RefineWriteChunk, RefineInside, RefineTruncLock,
               RefineTruncDone, RefineWriteDone DEF FileStep
  <2> QED BY <2>1, <2>2
<1>3. Spec => []FileInv
  BY FileInvariant
<1> QED BY <1>1, <1>2, <1>3, PTL DEF Spec, FilesSpec, Files!Spec

=============================================================================
