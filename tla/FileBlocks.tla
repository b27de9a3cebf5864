----------------------------- MODULE FileBlocks -----------------------------
(***************************************************************************)
(* The content of files: blocks and the bitmap (balloc, bfree, bmap,       *)
(* itrunc, readi and writei of kernel/fs.c), below read, write and open    *)
(* with O_TRUNC (kernel/file.c, kernel/sysfile.c).                         *)
(*                                                                         *)
(* A step is what a process does with one buffer of a bitmap, indirect or  *)
(* data block locked.  ip->lock is a variable.  A write is cut into        *)
(* transactions; the log (module Log) commits when the last one under way  *)
(* ends, and a crash goes back to the last commit.                         *)
(***************************************************************************)
EXTENDS Integers, FiniteSets

CONSTANTS Process, File, None,
          Desc, InodeOf,       \* open files (struct file), which processes share, and f->ip
          NBLOCKS,             \* data blocks on the disk
          BSIZE,
          BPB,                 \* blocks of one bitmap block
          NDIRECT, NINDIRECT,
          MAXOPBLOCKS,
          Byte, Zero,          \* what is written, and what bzero() leaves
          Sizes,               \* bound: n of read() and write()
          MaxCalls, MaxCrash   \* bounds

ASSUME FileAssumption ==
  /\ InodeOf \in [Desc -> File] /\ None \notin Process
  /\ NBLOCKS \in Nat /\ BSIZE \in Nat \ {0} /\ BPB \in Nat \ {0}
  /\ NDIRECT \in Nat /\ NINDIRECT \in Nat
  /\ Sizes \subseteq Nat \ {0}
ASSUME ChunkAssumption == MAXOPBLOCKS \in Nat /\ MAXOPBLOCKS >= 6
(* itrunc() may log every block of the bitmap, and an inode. *)
ASSUME BitmapAssumption == Cardinality({b \div BPB : b \in 1..NBLOCKS}) < MAXOPBLOCKS

VARIABLES
  disk,     \* used: the bitmap;  blk: the blocks;  node: the inodes
  com,      \* disk at the last commit
  mem,      \* the inodes in memory: size, addrs
  lock,     \* who holds ip->lock, or None
  off,      \* f->off
  pc, call, \* a process's place, and its call: open file, byte written
  left,     \* n - i
  tot,      \* writei()'s tot, itrunc()'s i and j
  logged,   \* the blocks its transaction has given to log_write()
  seen,     \* history: what each file held when its lock was last free
  calls, crashes   \* counted for the bounds only

procVars == <<pc, call, left, tot, logged>>
vars == <<disk, com, mem, lock, off, procVars, seen, calls, crashes>>

Block == 1..NBLOCKS
NoBlock == 0
ZeroBlock == [bytes |-> [i \in 0..(BSIZE - 1) |-> Zero],
              ptrs |-> [i \in 0..(NINDIRECT - 1) |-> NoBlock]]
EmptyNode == [size |-> 0, addrs |-> [i \in 0..NDIRECT |-> NoBlock]]
MAXFILE == NDIRECT + NINDIRECT

FileOf(p) == InodeOf[call[p].d]

(* Wrong: leaves no room for the bitmap's blocks. *)
MaxChunkDouble == (MAXOPBLOCKS - 1 - 1 - 2) * BSIZE
(* filewrite()'s max *)
MaxChunk == ((MAXOPBLOCKS - 1 - 1 - 2) \div 2) * BSIZE

(* Block bn of a file, or NoBlock. *)
BlockAt(node, blk, bn) ==
  IF bn < NDIRECT THEN node.addrs[bn]
  ELSE IF node.addrs[NDIRECT] = NoBlock THEN NoBlock
  ELSE blk[node.addrs[NDIRECT]].ptrs[bn - NDIRECT]

ByteAt(node, blk, i) ==
  LET b == BlockAt(node, blk, i \div BSIZE) IN
  IF b = NoBlock THEN None ELSE blk[b].bytes[i % BSIZE]
Content(node, blk) == [i \in 1..node.size |-> ByteAt(node, blk, i - 1)]

Init ==
  /\ disk = [used |-> {}, blk |-> [b \in Block |-> ZeroBlock], node |-> [f \in File |-> EmptyNode]]
  /\ com = disk /\ mem = disk.node
  /\ lock = [f \in File |-> None]
  /\ off = [d \in Desc |-> 0]
  /\ pc = [p \in Process |-> "idle"]
  /\ call = [p \in Process |-> None]
  /\ left = [p \in Process |-> 0] /\ tot = [p \in Process |-> 0]
  /\ logged = [p \in Process |-> {}]
  /\ seen = [f \in File |-> <<>>]
  /\ calls = 0 /\ crashes = 0

Goto(p, where) == pc' = [pc EXCEPT ![p] = where]
LogWrite(p, blocks) == logged' = [logged EXCEPT ![p] = @ \cup blocks]
Bitmap(b) == <<"bitmap", b \div BPB>>
Data(b) == <<"data", b>>

(* end_op(): a process is in a transaction as long as it is in a call; that *)
(* of a later chunk starts with the end of the one before.                  *)
InOp(p) == pc[p] \notin {"idle", "panic"}
EndOp(p) == com' = IF \E q \in Process \ {p} : InOp(q) THEN com ELSE disk'

(* The call returns. *)
Return(p) ==
  /\ Goto(p, "idle")
  /\ call' = [call EXCEPT ![p] = None]
  /\ left' = [left EXCEPT ![p] = 0]

-----------------------------------------------------------------------------
(* filewrite() and writei() *)

(* begin_op() *)
WriteStart(p) ==
  /\ pc[p] = "idle" /\ calls < MaxCalls
  /\ \E d \in Desc, n \in Sizes, v \in Byte :
       /\ call' = [call EXCEPT ![p] = [d |-> d, byte |-> v]]
       /\ left' = [left EXCEPT ![p] = n]
  /\ calls' = calls + 1
  /\ Goto(p, "chunk")
  /\ UNCHANGED <<disk, com, mem, lock, off, tot, logged, crashes>>

N1(p) == IF left[p] > MaxChunk THEN MaxChunk ELSE left[p]
At(p) == off[call[p].d] + tot[p]       \* writei()'s off

(* ilock(), and the tests of writei(). *)
WriteChunk(p) ==
  LET f == FileOf(p) o == off[call[p].d] IN
  /\ pc[p] = "chunk" /\ lock[f] = None
  /\ UNCHANGED <<disk, mem, off, calls, crashes>>
  /\ IF o > mem[f].size \/ o + N1(p) > MAXFILE * BSIZE
     THEN EndOp(p) /\ Return(p) /\ UNCHANGED <<lock, tot, logged>>
     ELSE /\ lock' = [lock EXCEPT ![f] = p]
          /\ tot' = [tot EXCEPT ![p] = 0]
          /\ logged' = [logged EXCEPT ![p] = {}]
          /\ Goto(p, "write")
          /\ UNCHANGED <<com, call, left>>

Free == Block \ disk.used
Lowest == CHOOSE b \in Free : \A c \in Free : b <= c

(* balloc() and bzero() for bmap(): the indirect block, a direct block or   *)
(* one named in the indirect block, in this order.                          *)
Alloc(p) ==
  LET f == FileOf(p)
      b == Lowest
      bn == At(p) \div BSIZE
      indirect == mem[f].addrs[NDIRECT]
      got == [disk EXCEPT !.used = @ \cup {b}, !.blk[b] = ZeroBlock] IN
  IF bn < NDIRECT \/ indirect = NoBlock
  THEN /\ disk' = got
       /\ mem' = [mem EXCEPT ![f].addrs[IF bn < NDIRECT THEN bn ELSE NDIRECT] = b]
       /\ LogWrite(p, {Bitmap(b), Data(b)})
  ELSE /\ disk' = [got EXCEPT !.blk[indirect].ptrs[bn - NDIRECT] = b]
       /\ LogWrite(p, {Bitmap(b), Data(b), Data(indirect)})
       /\ UNCHANGED mem

WriteAlloc(p) ==
  LET f == FileOf(p) IN
  /\ pc[p] = "write"
  /\ BlockAt(mem[f], disk.blk, At(p) \div BSIZE) = NoBlock
  /\ IF Free = {} THEN Goto(p, "update") /\ UNCHANGED <<disk, mem, logged>>
     ELSE Alloc(p) /\ UNCHANGED pc
  /\ UNCHANGED <<com, lock, off, call, left, tot, calls, crashes>>

(* A block is written, or its copyin() fails before it has copied a byte.   *)
WriteCopy(p) ==
  LET f == FileOf(p)
      b == BlockAt(mem[f], disk.blk, At(p) \div BSIZE)
      from == At(p) % BSIZE
      m == IF N1(p) - tot[p] < BSIZE - from THEN N1(p) - tot[p] ELSE BSIZE - from IN
  /\ pc[p] = "write" /\ b # NoBlock
  /\ \/ /\ disk' = [disk EXCEPT !.blk[b].bytes =
                      [i \in 0..(BSIZE - 1) |->
                         IF i >= from /\ i < from + m THEN call[p].byte ELSE @[i]]]
        /\ tot' = [tot EXCEPT ![p] = @ + m]
        /\ LogWrite(p, {Data(b)})
        /\ Goto(p, IF tot[p] + m = N1(p) THEN "update" ELSE "write")
     \/ Goto(p, "update") /\ UNCHANGED <<disk, tot, logged>>
  /\ UNCHANGED <<com, mem, lock, off, call, left, calls, crashes>>

NewNode(p) == LET node == mem[FileOf(p)] IN
              [node EXCEPT !.size = IF At(p) > @ THEN At(p) ELSE @]
(* Wrong: writes the inode back only if the file has grown. *)
IupdateGrown(p) ==
  IF At(p) > mem[FileOf(p)].size THEN [disk EXCEPT !.node[FileOf(p)] = NewNode(p)] ELSE disk
Iupdate(p) == [disk EXCEPT !.node[FileOf(p)] = NewNode(p)]

(* Wrong: f->off += n1. *)
NewOffAsked(p) == off[call[p].d] + N1(p)
NewOff(p) == At(p)

(* The size, iupdate(), f->off, iunlock() and end_op(); the next chunk.     *)
WriteDone(p) ==
  LET f == FileOf(p) IN
  /\ pc[p] = "update"
  /\ mem' = [mem EXCEPT ![f] = NewNode(p)]
  /\ disk' = Iupdate(p)
  /\ LogWrite(p, {<<"inode", f>>})
  /\ off' = [off EXCEPT ![call[p].d] = NewOff(p)]
  /\ lock' = [lock EXCEPT ![f] = None]
  /\ EndOp(p)
  /\ tot' = [tot EXCEPT ![p] = 0]
  /\ IF tot[p] = N1(p) /\ left[p] > tot[p]
     THEN Goto(p, "chunk") /\ left' = [left EXCEPT ![p] = @ - tot[p]] /\ UNCHANGED call
     ELSE Return(p)
  /\ UNCHANGED <<calls, crashes>>

-----------------------------------------------------------------------------
(* fileread() and readi(): only the offset changes. *)
Read(p) ==
  /\ pc[p] = "idle" /\ calls < MaxCalls
  /\ \E d \in Desc, n \in Sizes :
       LET size == mem[InodeOf[d]].size IN
       /\ lock[InodeOf[d]] = None /\ off[d] < size
       /\ off' = [off EXCEPT ![d] = IF @ + n > size THEN size ELSE @ + n]
  /\ calls' = calls + 1
  /\ UNCHANGED <<disk, com, mem, lock, procVars, crashes>>

-----------------------------------------------------------------------------
(* open() with O_TRUNC of a file that is closed before, and itrunc() *)

TruncStart(p) ==
  /\ pc[p] = "idle" /\ calls < MaxCalls
  /\ \E d \in Desc :
       /\ \A q \in Process : call[q] # None => call[q].d # d
       /\ call' = [call EXCEPT ![p] = [d |-> d, byte |-> None]]
  /\ calls' = calls + 1
  /\ Goto(p, "open")
  /\ UNCHANGED <<disk, com, mem, lock, off, left, tot, logged, crashes>>

TruncLock(p) ==
  /\ pc[p] = "open" /\ lock[FileOf(p)] = None
  /\ off' = [off EXCEPT ![call[p].d] = 0]
  /\ lock' = [lock EXCEPT ![FileOf(p)] = p]
  /\ logged' = [logged EXCEPT ![p] = {}]
  /\ Goto(p, "trunc")
  /\ UNCHANGED <<disk, com, mem, call, left, tot, calls, crashes>>

(* The blocks that itrunc() has yet to free, by their place in the file.    *)
Remaining(p) ==
  {i \in tot[p]..(MAXFILE - 1) : BlockAt(mem[FileOf(p)], disk.blk, i) # NoBlock}

(* bfree(), which panics for a free block. *)
TruncFree(p) ==
  LET f == FileOf(p)
      i == CHOOSE i \in Remaining(p) : \A j \in Remaining(p) : i <= j
      b == BlockAt(mem[f], disk.blk, i) IN
  /\ pc[p] = "trunc" /\ Remaining(p) # {}
  /\ IF b \in disk.used THEN UNCHANGED pc ELSE Goto(p, "panic")
  /\ disk' = [disk EXCEPT !.used = @ \ {b}]
  /\ mem' = IF i < NDIRECT THEN [mem EXCEPT ![f].addrs[i] = NoBlock] ELSE mem
  /\ tot' = [tot EXCEPT ![p] = i + 1]
  /\ LogWrite(p, {Bitmap(b)})
  /\ UNCHANGED <<com, lock, off, call, left, calls, crashes>>

(* The indirect block goes last; iupdate(), iunlock(), end_op(). *)
TruncDone(p) ==
  LET f == FileOf(p)
      gone == {mem[f].addrs[NDIRECT]} \ {NoBlock} IN
  /\ pc[p] = "trunc" /\ Remaining(p) = {}
  /\ mem' = [mem EXCEPT ![f] = EmptyNode]
  /\ disk' = [disk EXCEPT !.used = @ \ gone, !.node[f] = EmptyNode]
  /\ LogWrite(p, {Bitmap(b) : b \in gone} \cup {<<"inode", f>>})
  /\ lock' = [lock EXCEPT ![f] = None]
  /\ tot' = [tot EXCEPT ![p] = 0]
  /\ EndOp(p)
  /\ Return(p)
  /\ UNCHANGED <<off, calls, crashes>>

-----------------------------------------------------------------------------
(* Power failure and reboot: the files are opened again. *)
Crash ==
  /\ crashes < MaxCrash /\ crashes' = crashes + 1
  /\ disk' = com /\ mem' = com.node
  /\ lock' = [f \in File |-> None]
  /\ off' = [d \in Desc |-> 0]
  /\ pc' = [p \in Process |-> "idle"] /\ call' = [p \in Process |-> None]
  /\ left' = [p \in Process |-> 0] /\ tot' = [p \in Process |-> 0]
  /\ logged' = [p \in Process |-> {}]
  /\ UNCHANGED <<com, calls>>

Write(p) == WriteStart(p) \/ WriteChunk(p) \/ WriteAlloc(p) \/ WriteCopy(p) \/ WriteDone(p)
Trunc(p) == TruncStart(p) \/ TruncLock(p) \/ TruncFree(p) \/ TruncDone(p)

Next ==
  /\ Crash \/ \E p \in Process : Write(p) \/ Read(p) \/ Trunc(p)
  /\ seen' = [f \in File |-> IF lock'[f] = None THEN Content(mem'[f], disk'.blk) ELSE seen[f]]

Spec == Init /\ [][Next]_vars

-----------------------------------------------------------------------------
(* The blocks of a file and the places that name them. *)
Places(node, blk) ==
  {i \in 0..MAXFILE : IF i = MAXFILE THEN node.addrs[NDIRECT] # NoBlock
                      ELSE BlockAt(node, blk, i) # NoBlock}
BlockIn(node, blk, i) == IF i = MAXFILE THEN node.addrs[NDIRECT] ELSE BlockAt(node, blk, i)

(* fs.c:72, :92, :430: whatever allocation, copy or process fails or        *)
(* crashes where, the bitmap that is on the disk after it has exactly the   *)
(* blocks that one place of one inode names; bfree() never panics.          *)
BlocksOwnedOnce ==
  LET owners == {o \in File \X (0..MAXFILE) : o[2] \in Places(com.node[o[1]], com.blk)}
      block(o) == BlockIn(com.node[o[1]], com.blk, o[2]) IN
  /\ com.used = {block(o) : o \in owners}
  /\ Cardinality(com.used) = Cardinality(owners)
  /\ \A p \in Process : pc[p] # "panic"

(* file.c:153, param.h:9: a chunk of a write and an itrunc() log no more    *)
(* than the MAXOPBLOCKS blocks begin_op() reserves, wherever the chunk lies *)
(* and however the bitmap is spread.                                        *)
TransactionFits == \A p \in Process : Cardinality(logged[p]) <= MAXOPBLOCKS

(* fs.c:545, file.c:163: whatever blocks are freed and used again meanwhile, a  *)
(* file's bytes are those of the chunks written to it, in the order in      *)
(* which ip->lock was taken, each at the offset the one before left, and a  *)
(* crash loses whole transactions only.                                     *)
Files == INSTANCE OpenFiles WITH
  content <- seen, off <- off,
  stable <- [f \in File |-> Content(com.node[f], com.blk)]
FilesSpec == Files!Spec
=============================================================================
