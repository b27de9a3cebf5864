----------------------------- MODULE NameProofs -----------------------------
(***************************************************************************)
(* Proofs about the system calls on names, for any number of processes,    *)
(* inodes and names and any calls.                                         *)
(*                                                                         *)
(* CallInv says where a call is and what it holds; with it, references are *)
(* counted (RefsAreHolders), whatever directories are removed.  NodeInv    *)
(* says that the nodes form a tree, that links are counted, the pending    *)
(* ones of link() too, and which nodes are in use.  It holds as long as no *)
(* directory is removed that others refer to.                              *)
(***************************************************************************)
EXTENDS FileSys, FiniteSetTheorems, SequenceTheorems, TLAPS

-----------------------------------------------------------------------------
(* The invariants. *)

Dir(node, i) == node[i].type = "dir"
Free(node, i) == node[i].type = "free"

Node == [type : {"free", "file", "dir", "dev"}, nlink : Int, ent : [Name -> 0..NINODES], up : 0..NINODES]
Memory == [node : [Inum -> Node], ref : [Inum -> Int], valid : [Inum -> BOOLEAN]]
CreateOp == {"creat", "mkdir", "mknod"}
Labels == Op \cup {"idle", "walk", "walkto", "created", "linkto", "bad", "unlinkat"}
(* Where the call has a directory, and the name of an entry of it. *)
WithName == CreateOp \cup {"unlink", "linkto", "unlinkat"}

TypeInv ==
  /\ st \in Memory
  /\ com \in [Inum -> Node]
  /\ lock \in [Inum -> Process \cup {None}]
  /\ pc \in [Process -> Labels]
  /\ rest \in [Process -> Path]
  /\ ip \in [Process -> 0..NINODES] /\ dp \in [Process -> 0..NINODES]
  /\ old \in [Process -> 0..NINODES] /\ fd \in [Process -> 0..NINODES]
  /\ cwd \in [Process -> Inum]
  /\ boot \in 1..(NINODES + 1)
CallType == [op : Op \cup {"none"}, path : Path, to : Path, abs : BOOLEAN]
CallTypes ==
  /\ call \in [Process -> CallType]
  /\ \A p \in Process : pc[p] # "idle" => call[p].op \in Op
HeldBy(p) ==
  /\ pc[p] = "idle" <=> ip[p] = NoInum
  /\ pc[p] \in {"walkto", "linkto"} <=> old[p] # NoInum
  /\ pc[p] = "unlinkat" <=> dp[p] # NoInum
  /\ pc[p] \in WithName => Len(rest[p]) = 1
Held == \A p \in Process : HeldBy(p)
Booting ==
  ~Booted => \A p \in Process : pc[p] = "idle" /\ fd[p] = NoInum /\ cwd[p] = ROOTINO
CallInv == TypeInv /\ CallTypes /\ Held /\ Booting

(* The tree. *)
Children(node, i) == {d \in Inum \ {ROOTINO} : Dir(node, d) /\ node[d].up = i}
Leaves(node) ==
  \A i \in Inum : ~Dir(node, i) => node[i].ent = NoEnt /\ node[i].up = NoInum
Root(node) ==
  Dir(node, ROOTINO) /\ node[ROOTINO].up = ROOTINO /\ Entries(node, ROOTINO) = {}
Parents(node) ==
  \A i \in Inum \ {ROOTINO} : Dir(node, i) =>
    /\ node[i].up \in Inum /\ Dir(node, node[i].up)
    /\ \E n \in Name : Entries(node, i) = {<<node[i].up, n>>}
(* Whatever set of directories one takes, one of them has no child in it. *)
Acyclic(node) ==
  \A D \in SUBSET Inum : D # {} => \E d \in D : D \cap Children(node, d) = {}
DirLinks(node) ==
  \A i \in Inum : Dir(node, i) => node[i].nlink = Cardinality(Children(node, i)) + 1
Tree(node) == Leaves(node) /\ Root(node) /\ Parents(node) /\ Acyclic(node) /\ DirLinks(node)

(* The links that link() has counted and not entered, or not undone. *)
Pend(p) == IF pc[p] = "bad" THEN ip[p] ELSE old[p]
Pending == [i \in Inum |-> Cardinality({p \in Process : Pend(p) = i})]
(* nlink counts the entries of what is not a directory, and k more. *)
Linked(node, k) ==
  \A i \in Inum :
    /\ k[i] \in Nat
    /\ Dir(node, i) => k[i] = 0
    /\ ~Dir(node, i) => node[i].nlink = Cardinality(Entries(node, i)) + k[i]

(* Which nodes are in use; ireclaim() has looked at those below b. *)
Life(s, b) ==
  \A i \in Inum :
    /\ s.valid[i] => s.ref[i] > 0
    /\ Free(s.node, i) => s.ref[i] = 0 /\ s.node[i].nlink = 0
    /\ ~Free(s.node, i) /\ s.node[i].nlink = 0 /\ i < b => s.ref[i] > 0 /\ s.valid[i]

Good(s, k, b) == s \in Memory /\ Tree(s.node) /\ Linked(s.node, k) /\ Life(s, b)

(* What is on the disk at a commit. *)
Committed(node) ==
  /\ Tree(node)
  /\ \A i \in Inum : ~Dir(node, i) => node[i].nlink = Cardinality(Entries(node, i))
  /\ \A i \in Inum : Free(node, i) => node[i].nlink = 0

(* What a call knows of the nodes it holds. *)
Knows(p) ==
  /\ pc[p] \in WithName \ {"unlinkat"} => Dir(st.node, ip[p])
  /\ pc[p] = "unlinkat" =>
       /\ lock[dp[p]] = p /\ Dir(st.node, dp[p])
       /\ rest[p][1] \in Name /\ st.node[dp[p]].ent[rest[p][1]] = ip[p]
LocksHeld == \A i \in Inum : lock[i] # None => pc[lock[i]] = "unlinkat" /\ dp[lock[i]] = i

NodeInv == /\ Good(st, Pending, boot) /\ Committed(com)
           /\ LocksHeld /\ \A p \in Process : Knows(p)
NameInv == CallInv /\ RefsAreHolders /\ NodeInv

-----------------------------------------------------------------------------
(* The operators of module Inode on a memory. *)

LEMMA Inums == ROOTINO \in Inum /\ NoInum \notin Inum /\ Inum \subseteq 0..NINODES /\ IsFiniteSet(Inum)
<1>1. IsFiniteSet(1..NINODES)
  BY NINODESAssumption, FS_Interval
<1> QED BY <1>1, NINODESAssumption DEF ROOTINO, NoInum, Inum

LEMMA FreeNodeType == NoEnt \in [Name -> 0..NINODES] /\ FreeNode \in Node
<1>1. 0 \in 0..NINODES
  BY NINODESAssumption
<1>2. NoEnt \in [Name -> 0..NINODES]
  BY <1>1 DEF NoEnt, NoInum
<1> QED BY <1>1, <1>2 DEF FreeNode, Node, NoInum

LEMMA SetRef ==
  ASSUME NEW s \in Memory, NEW i \in Inum, NEW k \in Int
  PROVE  /\ [s EXCEPT !.ref[i] = k] \in Memory
         /\ [s EXCEPT !.ref[i] = k].node = s.node /\ [s EXCEPT !.ref[i] = k].valid = s.valid
         /\ \A j \in Inum : [s EXCEPT !.ref[i] = k].ref[j] = IF j = i THEN k ELSE s.ref[j]
  BY DEF Memory

LEMMA SetValid ==
  ASSUME NEW s \in Memory, NEW i \in Inum, NEW v \in BOOLEAN
  PROVE  /\ [s EXCEPT !.valid[i] = v] \in Memory
         /\ [s EXCEPT !.valid[i] = v].node = s.node /\ [s EXCEPT !.valid[i] = v].ref = s.ref
         /\ [s EXCEPT !.valid[i] = v].valid[i] = v
         /\ \A j \in Inum : j # i => [s EXCEPT !.valid[i] = v].valid[j] = s.valid[j]
  BY DEF Memory

WithNode(s, i, n) == [s EXCEPT !.node[i] = n]

LEMMA SetNode ==
  ASSUME NEW s \in Memory, NEW i \in Inum, NEW n \in Node
  PROVE  /\ WithNode(s, i, n) \in Memory
         /\ WithNode(s, i, n).ref = s.ref /\ WithNode(s, i, n).valid = s.valid
         /\ WithNode(s, i, n).node[i] = n
         /\ \A j \in Inum : j # i => WithNode(s, i, n).node[j] = s.node[j]
         /\ n = s.node[i] => WithNode(s, i, n).node = s.node
<1> DEFINE t == WithNode(s, i, n)
<1>1. s.node \in [Inum -> Node] /\ s.ref \in [Inum -> Int] /\ s.valid \in [Inum -> BOOLEAN]
      /\ s = [node |-> s.node, ref |-> s.ref, valid |-> s.valid]
  BY DEF Memory
<1>2. t = [node |-> [s.node EXCEPT ![i] = n], ref |-> s.ref, valid |-> s.valid]
  BY <1>1 DEF WithNode
<1>3. [s.node EXCEPT ![i] = n] \in [Inum -> Node]
  BY <1>1
<1>4. t \in Memory
  BY <1>1, <1>2, <1>3 DEF Memory
<1>5. t.node = [s.node EXCEPT ![i] = n] /\ t.ref = s.ref /\ t.valid = s.valid
  BY <1>2
<1> QED BY <1>1, <1>4, <1>5

Same(a, b) == IF a = b THEN 1 ELSE 0

(* iget() counts. *)
LEMMA IgetIs ==
  ASSUME NEW s \in Memory, NEW i \in Inum
  PROVE  /\ Iget(s, i) \in Memory
         /\ Iget(s, i).node = s.node /\ Iget(s, i).valid = s.valid
         /\ \A j \in Inum : Iget(s, i).ref[j] = s.ref[j] + Same(i, j)
<1>1. s.ref[i] \in Int /\ s.ref[i] + 1 \in Int /\ \A j \in Inum : s.ref[j] \in Int
  BY DEF Memory
<1>2. Iget(s, i) = [s EXCEPT !.ref[i] = s.ref[i] + 1]
  BY DEF Iget
<1> QED BY <1>1, <1>2, SetRef DEF Same

(* ilock() reads the inode in. *)
LEMMA IlockIs ==
  ASSUME NEW s \in Memory, NEW i \in Inum
  PROVE  /\ Ilock(s, i) \in Memory
         /\ Ilock(s, i).node = s.node /\ Ilock(s, i).ref = s.ref
         /\ Ilock(s, i).valid[i]
         /\ \A j \in Inum : j # i => Ilock(s, i).valid[j] = s.valid[j]
  BY SetValid DEF Ilock

(* iput() counts, and frees an inode that nothing refers to any more. *)
LEMMA IputIs ==
  ASSUME NEW s \in Memory, NEW i \in Inum
  PROVE  /\ Iput(s, i) \in Memory
         /\ \A j \in Inum : Iput(s, i).ref[j] = s.ref[j] - Same(i, j)
         /\ Iput(s, i).node[i] = IF LastReference(s, i) THEN FreeNode ELSE s.node[i]
         /\ \A j \in Inum : j # i => /\ Iput(s, i).node[j] = s.node[j]
                                     /\ Iput(s, i).valid[j] = s.valid[j]
         /\ Iput(s, i).valid[i] <=> s.valid[i] /\ s.ref[i] > 1 /\ ~LastReference(s, i)
         /\ ~LastReference(s, i) => Iput(s, i).node = s.node
<1> DEFINE b == LastReference(s, i)
           n == IF b THEN FreeNode ELSE s.node[i]
           v == s.ref[i] > 1 /\ ~b /\ s.valid[i]
           k == s.ref[i] - 1
           s1 == [s EXCEPT !.ref[i] = k]
           s2 == [s1 EXCEPT !.valid[i] = v]
           s3 == WithNode(s2, i, n)
<1>1. v \in BOOLEAN /\ n \in Node /\ k \in Int /\ \A j \in Inum : s.ref[j] \in Int
  BY FreeNodeType DEF Memory
<1>2. Iput(s, i) = s3
  BY DEF Iput, Memory, WithNode
<1>3. (b => n = FreeNode) /\ (~b => n = s.node[i]) /\ (v <=> s.ref[i] > 1 /\ ~b /\ s.valid[i]) /\ k = s.ref[i] - 1
  OBVIOUS
<1> HIDE DEF b, n, v, k
<1>4. /\ s1 \in Memory /\ s1.node = s.node /\ s1.valid = s.valid
      /\ \A j \in Inum : s1.ref[j] = IF j = i THEN k ELSE s.ref[j]
  BY <1>1, SetRef
<1> HIDE DEF s1
<1>5. /\ s2 \in Memory /\ s2.node = s1.node /\ s2.ref = s1.ref /\ s2.valid[i] = v
      /\ \A j \in Inum : j # i => s2.valid[j] = s1.valid[j]
  BY <1>1, <1>4, SetValid
<1> HIDE DEF s2
<1>6. /\ s3 \in Memory /\ s3.ref = s2.ref /\ s3.valid = s2.valid /\ s3.node[i] = n
      /\ \A j \in Inum : j # i => s3.node[j] = s2.node[j]
      /\ n = s2.node[i] => s3.node = s2.node
  BY <1>1, <1>5, SetNode
<1> HIDE DEF s3
<1>7. \A j \in Inum : s3.ref[j] = s.ref[j] - Same(i, j)
  BY <1>1, <1>3, <1>4, <1>5, <1>6 DEF Same
<1>8. s3.node[i] = IF b THEN FreeNode ELSE s.node[i]
  BY <1>3, <1>6
<1>9. ~b => s3.node = s.node
  BY <1>3, <1>4, <1>5, <1>6
<1>10. s3.valid[i] <=> s.valid[i] /\ s.ref[i] > 1 /\ ~b
  BY <1>3, <1>5, <1>6
<1> QED BY <1>2, <1>4, <1>5, <1>6, <1>7, <1>8, <1>9, <1>10 DEF b

LEMMA NlinkIs ==
  ASSUME NEW s \in Memory, NEW i \in Inum, NEW k \in Int
  PROVE  /\ Nlink(s, i, k) \in Memory
         /\ Nlink(s, i, k).ref = s.ref /\ Nlink(s, i, k).valid = s.valid
         /\ Nlink(s, i, k).node[i].type = s.node[i].type
         /\ Nlink(s, i, k).node[i].nlink = s.node[i].nlink + k
         /\ Nlink(s, i, k).node[i].ent = s.node[i].ent
         /\ Nlink(s, i, k).node[i].up = s.node[i].up
         /\ \A j \in Inum : j # i => Nlink(s, i, k).node[j] = s.node[j]
         /\ k = 0 => Nlink(s, i, k).node = s.node
<1> DEFINE m == s.node[i]
           n == [m EXCEPT !.nlink = m.nlink + k]
<1>1. m \in Node
  BY DEF Memory
<1>2. Nlink(s, i, k) = WithNode(s, i, n)
  BY DEF Nlink, Memory, WithNode
<1>3. m = s.node[i]
  OBVIOUS
<1> HIDE DEF m
<1>4. /\ n \in Node /\ n.type = m.type /\ n.nlink = m.nlink + k /\ n.ent = m.ent /\ n.up = m.up
      /\ k = 0 => n = m
  BY <1>1 DEF Node
<1> HIDE DEF n
<1> QED BY <1>2, <1>3, <1>4, SetNode

LEMMA DirlinkType ==
  ASSUME NEW s \in Memory, NEW d \in Inum, NEW n, NEW i \in 0..NINODES
  PROVE  /\ Dirlink(s, d, n, i) \in Memory
         /\ Dirlink(s, d, n, i).ref = s.ref /\ Dirlink(s, d, n, i).valid = s.valid
<1> DEFINE m == s.node[d]
           e == [m.ent EXCEPT ![n] = i]
           o == [m EXCEPT !.ent = e]
<1>1. m \in Node
  BY DEF Memory
<1>2. Dirlink(s, d, n, i) = WithNode(s, d, o)
  BY DEF Dirlink, Memory, Node, WithNode
<1> HIDE DEF m
<1>3. e \in [Name -> 0..NINODES]
  BY <1>1 DEF Node
<1> HIDE DEF e
<1>4. o \in Node
  BY <1>1, <1>3 DEF Node
<1> HIDE DEF o
<1> QED BY <1>2, <1>4, SetNode

LEMMA DirlinkIs ==
  ASSUME NEW s \in Memory, NEW d \in Inum, NEW n \in Name, NEW i \in 0..NINODES
  PROVE  /\ Dirlink(s, d, n, i) \in Memory
         /\ Dirlink(s, d, n, i).ref = s.ref /\ Dirlink(s, d, n, i).valid = s.valid
         /\ Dirlink(s, d, n, i).node[d].type = s.node[d].type
         /\ Dirlink(s, d, n, i).node[d].nlink = s.node[d].nlink
         /\ Dirlink(s, d, n, i).node[d].up = s.node[d].up
         /\ Dirlink(s, d, n, i).node[d].ent[n] = i
         /\ \A x \in Name : x # n => Dirlink(s, d, n, i).node[d].ent[x] = s.node[d].ent[x]
         /\ \A j \in Inum : j # d => Dirlink(s, d, n, i).node[j] = s.node[j]
<1> DEFINE m == s.node[d]
           e == [m.ent EXCEPT ![n] = i]
           o == [m EXCEPT !.ent = e]
<1>1. m \in Node
  BY DEF Memory
<1>2. Dirlink(s, d, n, i) = WithNode(s, d, o)
  BY DEF Dirlink, Memory, Node, WithNode
<1>3. m = s.node[d]
  OBVIOUS
<1> HIDE DEF m
<1>4. e \in [Name -> 0..NINODES] /\ e[n] = i /\ \A x \in Name : x # n => e[x] = m.ent[x]
  BY <1>1 DEF Node
<1> HIDE DEF e
<1>5. o \in Node /\ o.type = m.type /\ o.nlink = m.nlink /\ o.ent = e /\ o.up = m.up
  BY <1>1, <1>4 DEF Node
<1> HIDE DEF o
<1>6. /\ WithNode(s, d, o) \in Memory
      /\ WithNode(s, d, o).ref = s.ref /\ WithNode(s, d, o).valid = s.valid
      /\ WithNode(s, d, o).node[d] = o
      /\ \A j \in Inum : j # d => WithNode(s, d, o).node[j] = s.node[j]
  BY <1>5, SetNode
<1> QED BY <1>2, <1>3, <1>4, <1>5, <1>6

(* A lookup gives an inode or none. *)
LEMMA LookupType ==
  ASSUME NEW s \in Memory, NEW d \in Inum, NEW n \in Name \cup {".", ".."}
  PROVE  Lookup(s, d, n) \in 0..NINODES
  BY Inums DEF Memory, Node, Lookup

LEMMA LeastElement ==
  ASSUME NEW S \in SUBSET Nat, S # {} PROVE \E i \in S : \A j \in S : i <= j
<1> DEFINE R == OpToRel(<, Nat)
<1>1. \A x, y \in Nat : <<x, y>> \in R <=> x < y
  BY DEF OpToRel
<1>2. IsWellFoundedOn(R, Nat)
  BY NatLessThanWellFounded
<1> HIDE DEF R
<1>3. PICK i \in S : \A j \in S : ~(<<j, i>> \in R)
  BY <1>2, WFMin, Zenon
<1>4. \A j \in S : ~(j < i)
  BY <1>1, <1>3
<1>5. \A j \in S : j \in Nat /\ i \in Nat
  OBVIOUS
<1>6. \A j \in S : i <= j
  BY <1>4, <1>5
<1> QED BY <1>6

(* ialloc() finds a free inode if there is one. *)
LEMMA FirstFreeIs ==
  ASSUME NEW s \in Memory, FreeInodes(s) # {}
  PROVE  FirstFree(s) \in FreeInodes(s) /\ FirstFree(s) \in Inum
<1>1. FreeInodes(s) \in SUBSET Nat /\ FreeInodes(s) \subseteq Inum
  BY NINODESAssumption DEF FreeInodes, Inum
<1>2. \E i \in FreeInodes(s) : \A j \in FreeInodes(s) : i <= j
  BY <1>1, LeastElement
<1> QED BY <1>1, <1>2 DEF FirstFree

New(t, d) == [type |-> t, nlink |-> 1, ent |-> NoEnt, up |-> IF t = "dir" THEN d ELSE NoInum]

Kind == {"file", "dir", "dev"}

LEMMA NewNodeIs ==
  ASSUME NEW s \in Memory, NEW i \in Inum, NEW d \in Inum, NEW t \in Kind
  PROVE  /\ NewNode(s, i, d, t) \in Memory
         /\ \A j \in Inum : NewNode(s, i, d, t).ref[j] = s.ref[j] + Same(i, j)
         /\ NewNode(s, i, d, t).valid[i]
         /\ \A j \in Inum : j # i => /\ NewNode(s, i, d, t).node[j] = s.node[j]
                                     /\ NewNode(s, i, d, t).valid[j] = s.valid[j]
         /\ NewNode(s, i, d, t).node[i] = New(t, d)
         /\ New(t, d).type = t /\ New(t, d).nlink = 1 /\ New(t, d).ent = NoEnt
         /\ t = "dir" => New(t, d).up = d
         /\ t # "dir" => New(t, d).up = NoInum
<1> DEFINE n == New(t, d)
           g == Iget(s, i)
           a == Ilock(g, i)
<1>1. n \in Node
  BY FreeNodeType, Inums, NINODESAssumption DEF Node, NoInum, New, Kind
<1>2. /\ n.type = t /\ n.nlink = 1 /\ n.ent = NoEnt
      /\ t = "dir" => n.up = d
      /\ t # "dir" => n.up = NoInum
  BY DEF New
<1>3. NewNode(s, i, d, t) = WithNode(a, i, n)
  BY DEF NewNode, New, WithNode
<1> HIDE DEF n
<1>4. g \in Memory /\ g.node = s.node /\ g.valid = s.valid /\ \A j \in Inum : g.ref[j] = s.ref[j] + Same(i, j)
  BY IgetIs
<1> HIDE DEF g
<1>5. a \in Memory /\ a.node = g.node /\ a.ref = g.ref /\ a.valid[i] /\ \A j \in Inum : j # i => a.valid[j] = g.valid[j]
  <2>1. g \in Memory
    BY <1>4
  <2> QED BY <2>1, IlockIs
<1> HIDE DEF a
<1>6. /\ WithNode(a, i, n) \in Memory
      /\ WithNode(a, i, n).ref = a.ref /\ WithNode(a, i, n).valid = a.valid
      /\ WithNode(a, i, n).node[i] = n
      /\ \A j \in Inum : j # i => WithNode(a, i, n).node[j] = a.node[j]
  BY <1>1, <1>5, SetNode
<1>7. NewNode(s, i, d, t).node[i] = New(t, d)
  BY <1>3, <1>6 DEF n
<1>8. /\ New(t, d).type = t /\ New(t, d).nlink = 1 /\ New(t, d).ent = NoEnt
      /\ t = "dir" => New(t, d).up = d
      /\ t # "dir" => New(t, d).up = NoInum
  BY <1>2 DEF n
<1> QED BY <1>3, <1>4, <1>5, <1>6, <1>7, <1>8

-----------------------------------------------------------------------------
(* What a call holds. *)

CallVars == <<pc, call, ip, rest, dp, old, cwd, fd>>

LEMMA At ==
  ASSUME CallInv, NEW p \in Process, pc[p] # "idle"
  PROVE  /\ ip[p] \in Inum /\ Booted /\ cwd[p] \in Inum /\ call[p] \in CallType /\ call[p].op \in Op
         /\ st \in Memory /\ rest[p] \in Path
         /\ pc[p] \in {"walkto", "linkto"} => old[p] \in Inum
         /\ pc[p] \notin {"walkto", "linkto"} => old[p] = NoInum
         /\ pc[p] = "unlinkat" => dp[p] \in Inum
         /\ pc[p] # "unlinkat" => dp[p] = NoInum
         /\ pc[p] \in WithName => Len(rest[p]) = 1 /\ rest[p][1] \in Name \cup {".", ".."}
<1>1. \A i \in 0..NINODES : i # NoInum => i \in Inum
  BY NINODESAssumption DEF Inum, NoInum
<1>2. Len(rest[p]) = 1 => rest[p][1] \in Name \cup {".", ".."}
  <2>1. rest[p] \in Seq(Name \cup {".", ".."})
    BY DEF CallInv, TypeInv, Path
  <2> QED BY <2>1
<1> QED BY <1>1, <1>2 DEF CallInv, TypeInv, CallTypes, Held, HeldBy, Booting

(* The step of one process leaves the others where they are. *)
Others(p) ==
  \A q \in Process \ {p} :
    /\ pc'[q] = pc[q] /\ call'[q] = call[q] /\ ip'[q] = ip[q] /\ rest'[q] = rest[q]
    /\ dp'[q] = dp[q] /\ old'[q] = old[q] /\ cwd'[q] = cwd[q] /\ fd'[q] = fd[q]

LEMMA CallStep ==
  ASSUME CallInv, NEW p \in Process, Booted, TypeInv', call' \in [Process -> CallType],
         call'[p].op \in Op \/ pc'[p] = "idle", HeldBy(p)', Others(p), boot' = boot
  PROVE  CallInv'
<1>1. \A q \in Process \ {p} : HeldBy(q)'
  <2> TAKE q \in Process \ {p}
  <2>1. HeldBy(q)
    BY DEF CallInv, Held
  <2> QED BY <2>1 DEF HeldBy, Others
<1>2. CallTypes'
  BY DEF CallInv, CallTypes, Others
<1>3. Held'
  BY <1>1 DEF Held
<1>4. Booting'
  BY DEF Booting, Booted
<1> QED BY <1>2, <1>3, <1>4 DEF CallInv

(* References are counted by who holds them. *)
Count(f, i) == Cardinality({p \in Process : f[p] = i})
Own(p, i) == Same(cwd[p], i) + Same(fd[p], i) + Same(ip[p], i) + Same(dp[p], i) + Same(old[p], i)

LEMMA CountUpdate ==
  ASSUME NEW f, NEW g, NEW i, NEW p \in Process, \A q \in Process \ {p} : g[q] = f[q]
  PROVE  /\ Count(f, i) \in Nat /\ Count(g, i) \in Nat
         /\ Count(g, i) = Count(f, i) - Same(f[p], i) + Same(g[p], i)
<1> DEFINE A == {q \in Process : f[q] = i}
           B == {q \in Process : g[q] = i}
<1>1. IsFiniteSet(A) /\ IsFiniteSet(B)
  <2>1. A \in SUBSET Process /\ B \in SUBSET Process
    OBVIOUS
  <2> HIDE DEF A, B
  <2> QED BY <2>1, ProcessAssumption, FS_Subset
<1>2. Cardinality(A) \in Nat /\ Cardinality(B) \in Nat
  BY <1>1, FS_CardinalityType
<1>3. A \ {p} = B \ {p} /\ (p \in A <=> f[p] = i) /\ (p \in B <=> g[p] = i)
  OBVIOUS
<1>4. Cardinality(A \ {p}) = IF p \in A THEN Cardinality(A) - 1 ELSE Cardinality(A)
  BY <1>1, FS_RemoveElement
<1>5. Cardinality(B \ {p}) = IF p \in B THEN Cardinality(B) - 1 ELSE Cardinality(B)
  BY <1>1, FS_RemoveElement
<1>6. Count(f, i) = Cardinality(A) /\ Count(g, i) = Cardinality(B)
  BY DEF Count
<1>7. Cardinality(A \ {p}) = Cardinality(B \ {p})
  BY <1>3
<1>8. (p \in A <=> f[p] = i) /\ (p \in B <=> g[p] = i)
  BY <1>3
<1> HIDE DEF A, B
<1> QED BY <1>2, <1>4, <1>5, <1>6, <1>7, <1>8 DEF Same

LEMMA HoldersAre ==
  RefsAreHolders <=> \A i \in Inum : st.ref[i] = Count(cwd, i) + Count(fd, i) + Count(ip, i)
                                                 + Count(dp, i) + Count(old, i)
  BY DEF RefsAreHolders, Count

LEMMA HoldersStep ==
  ASSUME RefsAreHolders, NEW p \in Process, Others(p), 
         \A i \in Inum : st'.ref[i] = st.ref[i] - Own(p, i) + Own(p, i)'
  PROVE  RefsAreHolders'
<1> SUFFICES ASSUME NEW i \in Inum
             PROVE  st'.ref[i] = Count(cwd', i) + Count(fd', i) + Count(ip', i)
                                 + Count(dp', i) + Count(old', i)
  BY DEF RefsAreHolders, Count
<1>1. st.ref[i] = Count(cwd, i) + Count(fd, i) + Count(ip, i) + Count(dp, i) + Count(old, i)
  BY HoldersAre
<1>2. Count(cwd, i) \in Nat /\ Count(cwd', i) = Count(cwd, i) - Same(cwd[p], i) + Same(cwd'[p], i)
  <2>1. \A q \in Process \ {p} : cwd'[q] = cwd[q]
    BY DEF Others
  <2> QED BY <2>1, CountUpdate
<1>3. Count(fd, i) \in Nat /\ Count(fd', i) = Count(fd, i) - Same(fd[p], i) + Same(fd'[p], i)
  <2>1. \A q \in Process \ {p} : fd'[q] = fd[q]
    BY DEF Others
  <2> QED BY <2>1, CountUpdate
<1>4. Count(ip, i) \in Nat /\ Count(ip', i) = Count(ip, i) - Same(ip[p], i) + Same(ip'[p], i)
  <2>1. \A q \in Process \ {p} : ip'[q] = ip[q]
    BY DEF Others
  <2> QED BY <2>1, CountUpdate
<1>5. Count(dp, i) \in Nat /\ Count(dp', i) = Count(dp, i) - Same(dp[p], i) + Same(dp'[p], i)
  <2>1. \A q \in Process \ {p} : dp'[q] = dp[q]
    BY DEF Others
  <2> QED BY <2>1, CountUpdate
<1>6. Count(old, i) \in Nat /\ Count(old', i) = Count(old, i) - Same(old[p], i) + Same(old'[p], i)
  <2>1. \A q \in Process \ {p} : old'[q] = old[q]
    BY DEF Others
  <2> QED BY <2>1, CountUpdate
<1>7. st'.ref[i] = st.ref[i] - Own(p, i) + Own(p, i)'
  OBVIOUS
<1>8. \A a, b : Same(a, b) \in {0, 1}
  BY DEF Same
<1>9. Own(p, i)' = Same(cwd'[p], i) + Same(fd'[p], i) + Same(ip'[p], i) + Same(dp'[p], i) + Same(old'[p], i)
  BY DEF Own, Same
<1> QED BY <1>1, <1>2, <1>3, <1>4, <1>5, <1>6, <1>7, <1>8, <1>9 DEF Own

(* The ways a step ends. *)
LEMMA ReturnStep ==
  ASSUME CallInv, NEW p \in Process, NEW s \in Memory, Booted, Return(p, s),
         lock' \in [Inum -> Process \cup {None}],
         cwd' \in [Process -> Inum], fd' \in [Process -> 0..NINODES],
         \A q \in Process \ {p} : cwd'[q] = cwd[q] /\ fd'[q] = fd[q]
  PROVE  /\ CallInv' /\ Others(p) /\ st' = s
         /\ pc'[p] = "idle" /\ ip'[p] = NoInum /\ dp'[p] = NoInum /\ old'[p] = NoInum
<1>1. NoInum \in 0..NINODES /\ <<>> \in Path /\ NoCall \in CallType
  BY NINODESAssumption DEF NoInum, Path, NoCall, CallType
<1>2. s.node \in [Inum -> Node]
  BY DEF Memory
<1>3. /\ pc' = [pc EXCEPT ![p] = "idle"] /\ pc \in [Process -> Labels]
      /\ call' = [call EXCEPT ![p] = NoCall] /\ call \in [Process -> CallType]
      /\ ip' = [ip EXCEPT ![p] = NoInum] /\ ip \in [Process -> 0..NINODES]
      /\ rest' = [rest EXCEPT ![p] = <<>>] /\ rest \in [Process -> Path]
      /\ dp' = [dp EXCEPT ![p] = NoInum] /\ dp \in [Process -> 0..NINODES]
      /\ old' = [old EXCEPT ![p] = NoInum] /\ old \in [Process -> 0..NINODES]
      /\ st' = s /\ (com' = s.node \/ com' = com) /\ com \in [Inum -> Node]
      /\ boot' = boot /\ boot \in 1..(NINODES + 1)
  BY DEF Return, CallInv, TypeInv, CallTypes
<1>4. Others(p)
  BY <1>3 DEF Others
<1>5. TypeInv'
  BY <1>1, <1>2, <1>3 DEF TypeInv, Labels
<1>6. HeldBy(p)' /\ pc'[p] = "idle" /\ call' \in [Process -> CallType]
  BY <1>1, <1>3 DEF HeldBy, WithName, CreateOp
<1> QED BY <1>3, <1>4, <1>5, <1>6, CallStep

LEMMA LinkBadStep ==
  ASSUME CallInv, NEW p \in Process, NEW s \in Memory, pc[p] \in {"walkto", "linkto"}, LinkBad(p, s)
  PROVE  /\ CallInv' /\ Others(p) /\ st' = s
         /\ pc'[p] = "bad" /\ ip'[p] = old[p] /\ dp'[p] = NoInum /\ old'[p] = NoInum
<1>1. NoInum \in 0..NINODES /\ <<>> \in Path /\ NoInum \notin Inum
  BY Inums, NINODESAssumption DEF NoInum, Path
<1>2. old[p] \in Inum /\ dp[p] = NoInum /\ Booted /\ call[p].op \in Op
  BY At
<1>3. /\ pc' = [pc EXCEPT ![p] = "bad"] /\ pc \in [Process -> Labels]
      /\ ip' = [ip EXCEPT ![p] = old[p]] /\ ip \in [Process -> 0..NINODES]
      /\ rest' = [rest EXCEPT ![p] = <<>>] /\ rest \in [Process -> Path]
      /\ old' = [old EXCEPT ![p] = NoInum] /\ old \in [Process -> 0..NINODES]
      /\ st' = s /\ call \in [Process -> CallType]
      /\ UNCHANGED <<com, lock, call, dp, cwd, fd, boot>>
  BY DEF LinkBad, Goto, CallInv, TypeInv, CallTypes
<1>4. Others(p)
  BY <1>3 DEF Others
<1>5. TypeInv'
  BY <1>1, <1>2, <1>3, Inums DEF TypeInv, Labels, CallInv
<1>6. HeldBy(p)' /\ call' \in [Process -> CallType]
  BY <1>1, <1>2, <1>3 DEF HeldBy, WithName, CreateOp
<1> QED BY <1>2, <1>3, <1>4, <1>5, <1>6, CallStep

LEMMA FoundStep ==
  ASSUME CallInv, NEW p \in Process, NEW s \in Memory, NEW i \in Inum, NEW name \in Path,
         Walking(p), WantsParent(p) => Len(name) = 1, Found(p, s, i, name)
  PROVE  /\ CallInv' /\ Others(p) /\ st' = s
         /\ ip'[p] = i /\ pc'[p] = (IF pc[p] = "walkto" THEN "linkto" ELSE call[p].op)
         /\ rest'[p] = name
<1> DEFINE x == IF pc[p] = "walkto" THEN "linkto" ELSE call[p].op
<1>1. NoInum \in 0..NINODES /\ NoInum \notin Inum
  BY Inums, NINODESAssumption DEF NoInum
<1>2. Booted /\ call[p].op \in Op /\ dp[p] = NoInum /\ (old[p] # NoInum <=> pc[p] = "walkto")
  <2>1. pc[p] # "idle" /\ pc[p] # "linkto" /\ pc[p] # "unlinkat"
    BY DEF Walking
  <2> QED BY <2>1, <1>1, At
<1>3. /\ pc' = [pc EXCEPT ![p] = x] /\ pc \in [Process -> Labels]
      /\ ip' = [ip EXCEPT ![p] = i] /\ ip \in [Process -> 0..NINODES]
      /\ rest' = [rest EXCEPT ![p] = name] /\ rest \in [Process -> Path]
      /\ st' = s /\ call \in [Process -> CallType]
      /\ UNCHANGED <<com, lock, call, dp, old, cwd, fd, boot>>
  BY DEF Found, Goto, CallInv, TypeInv, CallTypes
<1>4. Others(p)
  BY <1>3 DEF Others
<1>5. x \in Labels /\ x # "idle" /\ x # "walkto" /\ x # "unlinkat" /\ (x = "linkto" <=> pc[p] = "walkto")
      /\ (x \in WithName => WantsParent(p))
  BY <1>2 DEF Labels, Op, WithName, CreateOp, WantsParent, Walking
<1> HIDE DEF x
<1>6. TypeInv'
  BY <1>3, <1>5, Inums DEF TypeInv, CallInv
<1>7. HeldBy(p)' /\ call' \in [Process -> CallType]
  BY <1>1, <1>2, <1>3, <1>5 DEF HeldBy
<1>8. CallInv'
  BY <1>2, <1>3, <1>4, <1>6, <1>7, CallStep
<1> QED BY <1>3, <1>4, <1>8 DEF CallInv, TypeInv, x

-----------------------------------------------------------------------------
(* Every step keeps CallInv and the count of references. *)

LEMMA SameNone == \A i \in Inum : Same(NoInum, i) = 0
  BY Inums DEF Same

LEMMA SameInt == \A i, j : Same(i, j) \in Int
  BY DEF Same

LEMMA RefsOf == ASSUME NEW s \in Memory, NEW i \in Inum PROVE s.ref[i] \in Int
  BY DEF Memory

LEMMA StartHolds ==
  ASSUME CallInv, RefsAreHolders, NEW p \in Process, Start(p) PROVE CallInv' /\ RefsAreHolders' /\ Others(p)
<1>1. PICK c \in Calls : LET i == IF c.abs THEN ROOTINO ELSE cwd[p] IN
        /\ call' = [call EXCEPT ![p] = c] /\ st' = Iget(st, i)
        /\ ip' = [ip EXCEPT ![p] = i] /\ rest' = [rest EXCEPT ![p] = c.path]
  BY DEF Start
<1> DEFINE i == IF c.abs THEN ROOTINO ELSE cwd[p]
<1>2. i \in Inum /\ st \in Memory /\ c \in CallType /\ c.op \in Op /\ c.path \in Path
  BY CallsAssumption, Inums DEF CallInv, TypeInv, CallType
<1>3. i \in 0..NINODES /\ i # NoInum /\ Booted /\ pc[p] = "idle"
  BY <1>2, Inums DEF Start
<1>4. /\ call' = [call EXCEPT ![p] = c] /\ st' = Iget(st, i)
      /\ ip' = [ip EXCEPT ![p] = i] /\ rest' = [rest EXCEPT ![p] = c.path]
  BY <1>1
<1> HIDE DEF i
<1>5. /\ pc' = [pc EXCEPT ![p] = "walk"] /\ pc \in [Process -> Labels]
      /\ call \in [Process -> CallType] /\ ip \in [Process -> 0..NINODES] /\ rest \in [Process -> Path]
      /\ UNCHANGED <<com, lock, dp, old, cwd, fd, boot>>
  BY DEF Start, Goto, CallInv, TypeInv, CallTypes
<1>6. Others(p)
  BY <1>4, <1>5 DEF Others
<1>7. /\ Iget(st, i) \in Memory
      /\ \A j \in Inum : Iget(st, i).ref[j] = st.ref[j] + Same(i, j)
  BY <1>2, IgetIs
<1>8. TypeInv'
  BY <1>2, <1>3, <1>4, <1>5, <1>7 DEF TypeInv, Labels, CallInv
<1>9. HeldBy(p)
  BY DEF CallInv, Held
<1>10. HeldBy(p)' /\ call' \in [Process -> CallType] /\ call'[p].op \in Op
  BY <1>2, <1>3, <1>4, <1>5, <1>9 DEF HeldBy, WithName, CreateOp
<1>11. CallInv'
  BY <1>3, <1>5, <1>6, <1>8, <1>10, CallStep
<1>12. ip[p] = NoInum /\ ip'[p] = i
  BY <1>3, <1>4, <1>5, <1>9 DEF HeldBy
<1>13. \A j \in Inum : st'.ref[j] = st.ref[j] - Own(p, j) + Own(p, j)'
  BY <1>2, <1>4, <1>5, <1>7, <1>12, SameNone, RefsOf DEF Own, Same
<1> QED BY <1>6, <1>11, <1>13, HoldersStep

LEMMA WalkFailsHolds ==
  ASSUME CallInv, RefsAreHolders, NEW p \in Process, NEW s \in Memory, Walking(p),
         \A j \in Inum : s.ref[j] = st.ref[j] - Same(ip[p], j), WalkFails(p, s)
  PROVE  CallInv' /\ RefsAreHolders' /\ Others(p) /\ st' = s
<1>1. /\ st \in Memory /\ Booted /\ dp[p] = NoInum /\ pc[p] # "idle"
      /\ pc[p] # "walkto" => old[p] = NoInum
  BY At DEF Walking
<1>2. CASE pc[p] = "walkto"
  <2>1. LinkBad(p, s)
    BY <1>2 DEF WalkFails
  <2>2. CallInv' /\ Others(p) /\ st' = s /\ ip'[p] = old[p] /\ dp'[p] = NoInum /\ old'[p] = NoInum
    BY <1>2, <2>1, LinkBadStep
  <2>3. cwd' = cwd /\ fd' = fd
    BY <2>1 DEF LinkBad
  <2>4. \A j \in Inum : st'.ref[j] = st.ref[j] - Own(p, j) + Own(p, j)'
    BY <1>1, <2>2, <2>3, SameNone, RefsOf DEF Own, Same
  <2> QED BY <2>2, <2>4, HoldersStep
<1>3. CASE pc[p] # "walkto"
  <2>1. Return(p, s) /\ lock' = lock /\ cwd' = cwd /\ fd' = fd
    BY <1>3 DEF WalkFails
  <2>2. /\ lock' \in [Inum -> Process \cup {None}]
        /\ cwd' \in [Process -> Inum] /\ fd' \in [Process -> 0..NINODES]
        /\ \A q \in Process \ {p} : cwd'[q] = cwd[q] /\ fd'[q] = fd[q]
    BY <2>1 DEF CallInv, TypeInv
  <2>3. CallInv' /\ Others(p) /\ st' = s /\ ip'[p] = NoInum /\ dp'[p] = NoInum /\ old'[p] = NoInum
    BY <1>1, <2>1, <2>2, ReturnStep
  <2>4. \A j \in Inum : st'.ref[j] = st.ref[j] - Own(p, j) + Own(p, j)'
    BY <1>1, <1>3, <2>1, <2>3, SameNone, RefsOf DEF Own, Same
  <2> QED BY <2>3, <2>4, HoldersStep
<1> QED BY <1>2, <1>3

LEMMA FoundHolds ==
  ASSUME CallInv, RefsAreHolders, NEW p \in Process, NEW s \in Memory, NEW i \in Inum, NEW name \in Path,
         Walking(p), WantsParent(p) => Len(name) = 1, Found(p, s, i, name),
         \A j \in Inum : s.ref[j] = st.ref[j] - Same(ip[p], j) + Same(i, j)
  PROVE  CallInv' /\ RefsAreHolders' /\ Others(p) /\ st' = s
<1>1. CallInv' /\ Others(p) /\ st' = s /\ ip'[p] = i
  BY FoundStep
<1>2. cwd' = cwd /\ fd' = fd /\ dp' = dp /\ old' = old
  BY DEF Found
<1>3. st \in Memory
  BY DEF CallInv, TypeInv
<1>4. \A j \in Inum : st'.ref[j] = st.ref[j] - Own(p, j) + Own(p, j)'
  BY <1>1, <1>2, <1>3, RefsOf DEF Own, Same
<1> QED BY <1>1, <1>4, HoldersStep

LEMMA ReturnHolds ==
  ASSUME CallInv, RefsAreHolders, NEW p \in Process, NEW s \in Memory, Booted, Return(p, s),
         lock' \in [Inum -> Process \cup {None}],
         cwd' \in [Process -> Inum], fd' \in [Process -> 0..NINODES],
         \A q \in Process \ {p} : cwd'[q] = cwd[q] /\ fd'[q] = fd[q],
         \A j \in Inum : s.ref[j] = st.ref[j] - Own(p, j) + Same(cwd'[p], j) + Same(fd'[p], j)
  PROVE  CallInv' /\ RefsAreHolders' /\ Others(p) /\ st' = s /\ pc'[p] = "idle"
<1>1. /\ CallInv' /\ Others(p) /\ st' = s /\ pc'[p] = "idle"
      /\ ip'[p] = NoInum /\ dp'[p] = NoInum /\ old'[p] = NoInum
  BY ReturnStep
<1>2. st \in Memory
  BY DEF CallInv, TypeInv
<1>3. \A j \in Inum : st'.ref[j] = st.ref[j] - Own(p, j) + Own(p, j)'
  BY <1>1, <1>2, SameNone, RefsOf DEF Own, Same
<1> QED BY <1>1, <1>3, HoldersStep

(* The call returns, and no descriptor, directory or lock changes. *)
LEMMA PlainReturnHolds ==
  ASSUME CallInv, RefsAreHolders, NEW p \in Process, NEW s \in Memory, pc[p] # "idle", Return(p, s),
         UNCHANGED <<lock, cwd, fd>>,
         \A j \in Inum : s.ref[j] = st.ref[j] - Same(ip[p], j) - Same(dp[p], j) - Same(old[p], j)
  PROVE  CallInv' /\ RefsAreHolders' /\ Others(p) /\ st' = s /\ pc'[p] = "idle"
<1>1. st \in Memory /\ Booted
  BY At
<1>2. /\ lock' \in [Inum -> Process \cup {None}]
      /\ cwd' \in [Process -> Inum] /\ fd' \in [Process -> 0..NINODES]
      /\ \A q \in Process \ {p} : cwd'[q] = cwd[q] /\ fd'[q] = fd[q]
  BY DEF CallInv, TypeInv
<1>3. \A j \in Inum : s.ref[j] = st.ref[j] - Own(p, j) + Same(cwd'[p], j) + Same(fd'[p], j)
  BY <1>1, RefsOf DEF Own, Same
<1> QED BY <1>1, <1>2, <1>3, ReturnHolds

LEMMA WalkEmptyHolds ==
  ASSUME CallInv, RefsAreHolders, NEW p \in Process, WalkEmpty(p)
  PROVE  CallInv' /\ RefsAreHolders' /\ Others(p)
<1>1. Walking(p) /\ pc[p] # "idle" /\ <<>> \in Path
  BY DEF WalkEmpty, Walking, Path
<1>2. ip[p] \in Inum /\ st \in Memory
  BY <1>1, At
<1>3. CASE WantsParent(p)
  <2>1. WalkFails(p, Iput(st, ip[p]))
    BY <1>3 DEF WalkEmpty
  <2>2. Iput(st, ip[p]) \in Memory /\ \A j \in Inum : Iput(st, ip[p]).ref[j] = st.ref[j] - Same(ip[p], j)
    BY <1>2, IputIs
  <2> QED BY <1>1, <2>1, <2>2, WalkFailsHolds
<1>4. CASE ~WantsParent(p)
  <2>1. Found(p, st, ip[p], <<>>)
    BY <1>4 DEF WalkEmpty
  <2>2. \A j \in Inum : st.ref[j] = st.ref[j] - Same(ip[p], j) + Same(ip[p], j)
    BY <1>2, RefsOf DEF Same
  <2> QED BY <1>1, <1>2, <1>4, <2>1, <2>2, FoundHolds
<1> QED BY <1>3, <1>4

(* The next inode of a path is taken before the last is let go. *)
LEMMA Onward ==
  ASSUME NEW s \in Memory, NEW i \in Inum, NEW n \in Inum
  PROVE  /\ Iput(Iget(s, n), i) \in Memory
         /\ \A j \in Inum : Iput(Iget(s, n), i).ref[j] = s.ref[j] + Same(n, j) - Same(i, j)
<1>1. Iget(s, n) \in Memory /\ \A j \in Inum : Iget(s, n).ref[j] = s.ref[j] + Same(n, j)
  BY IgetIs
<1> DEFINE g == Iget(s, n)
<1> HIDE DEF g
<1>2. g \in Memory /\ \A j \in Inum : g.ref[j] = s.ref[j] + Same(n, j)
  BY <1>1 DEF g
<1>3. Iput(g, i) \in Memory /\ \A j \in Inum : Iput(g, i).ref[j] = g.ref[j] - Same(i, j)
  BY <1>2, IputIs
<1>4. \A j \in Inum : Iput(g, i).ref[j] = s.ref[j] + Same(n, j) - Same(i, j)
  BY <1>2, <1>3, RefsOf, SameInt
<1> QED BY <1>3, <1>4 DEF g

LEMMA WalkHolds ==
  ASSUME CallInv, RefsAreHolders, NEW p \in Process, Walk(p)
  PROVE  CallInv' /\ RefsAreHolders' /\ Others(p)
<1> DEFINE i == ip[p]
           s == Ilock(st, i)
           next == Lookup(s, i, Head(rest[p]))
<1>1. Walking(p) /\ pc[p] # "idle" /\ rest[p] # <<>>
  BY DEF Walk, Walking
<1>2. i \in Inum /\ st \in Memory /\ rest[p] \in Path /\ Booted
  BY <1>1, At
<1>3. Head(rest[p]) \in Name \cup {".", ".."} /\ Tail(rest[p]) \in Path
      /\ <<>> \in Path /\ (Tail(rest[p]) = <<>> => Len(rest[p]) = 1)
  <2>1. rest[p] \in Seq(Name \cup {".", ".."})
    BY <1>2 DEF Path
  <2>2. Head(rest[p]) \in Name \cup {".", ".."} /\ Tail(rest[p]) \in Seq(Name \cup {".", ".."})
        /\ Len(Tail(rest[p])) = Len(rest[p]) - 1
    BY <1>1, <2>1, HeadTailProperties
  <2>3. Tail(rest[p]) = <<>> => Len(Tail(rest[p])) = 0
    <3> DEFINE t == Tail(rest[p])
    <3>1. t \in Seq(Name \cup {".", ".."})
      BY <2>2
    <3> HIDE DEF t
    <3>2. t = <<>> => Len(t) = 0
      BY <3>1, EmptySeq
    <3> QED BY <3>2 DEF t
  <2>4. Len(rest[p]) \in Nat
    BY <2>1
  <2> QED BY <2>2, <2>3, <2>4 DEF Path
<1>4. s \in Memory /\ s.ref = st.ref
  BY <1>2, IlockIs
<1>5. next \in 0..NINODES
  BY <1>2, <1>3, <1>4, LookupType
<1>6. next # NoInum => next \in Inum
  BY <1>5, NINODESAssumption DEF NoInum, Inum
<1>7. IF s.node[i].type # "dir" THEN WalkFails(p, Iput(s, i))
     ELSE IF WantsParent(p) /\ Tail(rest[p]) = <<>> THEN Found(p, s, i, rest[p])
     ELSE IF next = NoInum THEN WalkFails(p, Iput(s, i))
     ELSE IF Tail(rest[p]) = <<>> THEN Found(p, Iput(Iget(s, next), i), next, <<>>)
     ELSE /\ st' = Iput(Iget(s, next), i)
          /\ ip' = [ip EXCEPT ![p] = next]
          /\ rest' = [rest EXCEPT ![p] = Tail(@)]
          /\ UNCHANGED <<com, lock, pc, call, dp, old, cwd, fd, boot, crashes>>
  BY DEF Walk
<1>8. i = ip[p]
  OBVIOUS
<1> HIDE DEF i, s, next
<1>9. Iput(s, i) \in Memory /\ \A j \in Inum : Iput(s, i).ref[j] = st.ref[j] - Same(ip[p], j)
  BY <1>2, <1>4, <1>8, IputIs
<1>10. CASE WalkFails(p, Iput(s, i))
  BY <1>1, <1>9, <1>10, WalkFailsHolds
<1>11. CASE Found(p, s, i, rest[p]) /\ Tail(rest[p]) = <<>>
  <2>1. \A j \in Inum : s.ref[j] = st.ref[j] - Same(ip[p], j) + Same(i, j)
    BY <1>2, <1>4, <1>8, RefsOf DEF Same
  <2>2. Len(rest[p]) = 1
    BY <1>3, <1>11
  <2> QED BY <1>1, <1>2, <1>4, <1>11, <2>1, <2>2, FoundHolds
<1>12. CASE next # NoInum /\ Found(p, Iput(Iget(s, next), i), next, <<>>) /\ ~WantsParent(p)
  <2>1. next \in Inum
    BY <1>6, <1>12
  <2>2. /\ Iput(Iget(s, next), i) \in Memory
        /\ \A j \in Inum : Iput(Iget(s, next), i).ref[j] = s.ref[j] + Same(next, j) - Same(i, j)
    BY <1>2, <1>4, <2>1, Onward
  <2>3. \A j \in Inum : Iput(Iget(s, next), i).ref[j] = st.ref[j] - Same(ip[p], j) + Same(next, j)
    BY <1>2, <1>4, <1>8, <2>2, RefsOf DEF Same
  <2> QED BY <1>1, <1>3, <1>12, <2>1, <2>2, <2>3, FoundHolds
<1>13. CASE /\ next # NoInum
            /\ st' = Iput(Iget(s, next), i)
            /\ ip' = [ip EXCEPT ![p] = next]
            /\ rest' = [rest EXCEPT ![p] = Tail(rest[p])]
            /\ UNCHANGED <<com, lock, pc, call, dp, old, cwd, fd, boot>>
  <2>1. next \in Inum
    BY <1>6, <1>13
  <2>2. /\ Iput(Iget(s, next), i) \in Memory
        /\ \A j \in Inum : Iput(Iget(s, next), i).ref[j] = s.ref[j] + Same(next, j) - Same(i, j)
    BY <1>2, <1>4, <2>1, Onward
  <2>3. /\ ip \in [Process -> 0..NINODES] /\ rest \in [Process -> Path] /\ call \in [Process -> CallType]
        /\ call[p].op \in Op
    BY <1>1 DEF CallInv, TypeInv, CallTypes
  <2>4. Others(p)
    BY <1>13, <2>3 DEF Others
  <2>5. TypeInv'
    BY <1>3, <1>13, <2>2, <2>3, <1>5 DEF TypeInv, CallInv
  <2>6. next # NoInum /\ ip'[p] = next /\ pc'[p] = pc[p] /\ dp' = dp /\ old' = old /\ cwd' = cwd /\ fd' = fd
    BY <1>13, <2>3
  <2>7. HeldBy(p)
    BY DEF CallInv, Held
  <2>8. HeldBy(p)'
    BY <1>1, <2>6, <2>7 DEF HeldBy, Walking, WithName, CreateOp
  <2>9. CallInv'
    BY <1>2, <1>13, <2>3, <2>4, <2>5, <2>8, CallStep
  <2>10. \A j \in Inum : st'.ref[j] = st.ref[j] - Own(p, j) + Own(p, j)'
    <3>1. \A j \in Inum : st'.ref[j] = st.ref[j] + Same(next, j) - Same(ip[p], j)
      BY <1>4, <1>8, <1>13, <2>2
    <3>2. \A j \in Inum : st.ref[j] \in Int
      BY <1>2, RefsOf
    <3> QED BY <3>1, <3>2, <2>6 DEF Own, Same
  <2> QED BY <2>4, <2>9, <2>10, HoldersStep
<1> QED BY <1>7, <1>10, <1>11, <1>12, <1>13

LEMMA Looked ==
  ASSUME CallInv, NEW p \in Process, pc[p] \in WithName, NEW s \in Memory
  PROVE  /\ Lookup(s, ip[p], rest[p][1]) \in 0..NINODES
         /\ Lookup(s, ip[p], rest[p][1]) # NoInum => Lookup(s, ip[p], rest[p][1]) \in Inum
<1>1. ip[p] \in Inum /\ rest[p][1] \in Name \cup {".", ".."}
  BY At DEF WithName, CreateOp
<1>2. Lookup(s, ip[p], rest[p][1]) \in 0..NINODES
  BY <1>1, LookupType
<1>3. \A i \in 0..NINODES : i # NoInum => i \in Inum
  BY NINODESAssumption DEF Inum, NoInum
<1> QED BY <1>2, <1>3

LEMMA OpenAtHolds ==
  ASSUME CallInv, RefsAreHolders, NEW p \in Process, NEW s \in Memory, pc[p] # "idle",
         dp[p] = NoInum, old[p] = NoInum, s.ref = st.ref, OpenAt(p, s)
  PROVE  CallInv' /\ RefsAreHolders' /\ Others(p)
<1>1. ip[p] \in Inum /\ ip[p] \in 0..NINODES /\ st \in Memory /\ Booted
  BY At, Inums
<1>2. CASE fd[p] = NoInum
  <2>1. Return(p, s) /\ fd' = [fd EXCEPT ![p] = ip[p]] /\ lock' = lock /\ cwd' = cwd
    BY <1>2 DEF OpenAt
  <2>2. /\ lock' \in [Inum -> Process \cup {None}]
        /\ cwd' \in [Process -> Inum] /\ fd' \in [Process -> 0..NINODES]
        /\ \A q \in Process \ {p} : cwd'[q] = cwd[q] /\ fd'[q] = fd[q]
        /\ fd'[p] = ip[p] /\ cwd'[p] = cwd[p]
    BY <1>1, <2>1 DEF CallInv, TypeInv
  <2>3. \A j \in Inum : s.ref[j] = st.ref[j] - Own(p, j) + Same(cwd'[p], j) + Same(fd'[p], j)
    BY <1>1, <1>2, <2>2, SameNone, RefsOf DEF Own, Same
  <2> QED BY <1>1, <2>1, <2>2, <2>3, ReturnHolds
<1>3. CASE fd[p] # NoInum
  <2>1. Return(p, Iput(s, ip[p])) /\ UNCHANGED <<lock, cwd, fd>>
    BY <1>3 DEF OpenAt
  <2>2. Iput(s, ip[p]) \in Memory /\ \A j \in Inum : Iput(s, ip[p]).ref[j] = s.ref[j] - Same(ip[p], j)
    BY <1>1, IputIs
  <2>3. \A j \in Inum : Iput(s, ip[p]).ref[j] = st.ref[j] - Same(ip[p], j) - Same(dp[p], j) - Same(old[p], j)
    BY <1>1, <2>2, SameNone, RefsOf DEF Same
  <2> QED BY <2>1, <2>2, <2>3, PlainReturnHolds
<1> QED BY <1>2, <1>3

(* The call lets go of its inode and returns. *)
LEMMA LetGoHolds ==
  ASSUME CallInv, RefsAreHolders, NEW p \in Process, NEW s \in Memory, pc[p] # "idle",
         dp[p] = NoInum, old[p] = NoInum, s.ref = st.ref,
         Return(p, Iput(s, ip[p])), UNCHANGED <<lock, cwd, fd>>
  PROVE  CallInv' /\ RefsAreHolders' /\ Others(p)
<1>1. ip[p] \in Inum /\ st \in Memory
  BY At
<1>2. Iput(s, ip[p]) \in Memory /\ \A j \in Inum : Iput(s, ip[p]).ref[j] = s.ref[j] - Same(ip[p], j)
  BY <1>1, IputIs
<1>3. \A j \in Inum : Iput(s, ip[p]).ref[j] = st.ref[j] - Same(ip[p], j) - Same(dp[p], j) - Same(old[p], j)
  BY <1>1, <1>2, SameNone, RefsOf DEF Same
<1> QED BY <1>2, <1>3, PlainReturnHolds

(* What a call that has come to an inode without a lock holds. *)
Alone(p) == pc[p] \in CreateOp \cup {"open", "openw", "created", "unlink", "chdir", "link", "bad"}

LEMMA AloneHolds ==
  ASSUME CallInv, NEW p \in Process, Alone(p)
  PROVE  /\ pc[p] # "idle" /\ dp[p] = NoInum /\ old[p] = NoInum /\ ip[p] \in Inum /\ st \in Memory
         /\ Ilock(st, ip[p]) \in Memory /\ Ilock(st, ip[p]).ref = st.ref /\ Ilock(st, ip[p]).node = st.node
         /\ Booted
<1>1. pc[p] # "idle" /\ pc[p] \notin {"walkto", "linkto"} /\ pc[p] # "unlinkat"
  BY DEF Alone, CreateOp
<1>2. dp[p] = NoInum /\ old[p] = NoInum /\ ip[p] \in Inum /\ st \in Memory /\ Booted
  BY <1>1, At
<1> QED BY <1>1, <1>2, IlockIs

LEMMA OpenHolds ==
  ASSUME CallInv, RefsAreHolders, NEW p \in Process, Open(p)
  PROVE  CallInv' /\ RefsAreHolders' /\ Others(p)
<1>1. Alone(p)
  BY DEF Open, AtLocked, Alone
<1>2. CASE OpenAt(p, Ilock(st, ip[p]))
  BY <1>1, <1>2, AloneHolds, OpenAtHolds
<1>3. CASE Return(p, Iput(Ilock(st, ip[p]), ip[p])) /\ UNCHANGED <<lock, cwd, fd>>
  BY <1>1, <1>3, AloneHolds, LetGoHolds
<1> QED BY <1>2, <1>3 DEF Open

LEMMA CreateOldHolds ==
  ASSUME CallInv, RefsAreHolders, NEW p \in Process, CreateOld(p)
  PROVE  CallInv' /\ RefsAreHolders' /\ Others(p)
<1>1. Alone(p)
  BY DEF CreateOld, AtLocked, Alone
<1>2. CASE OpenAt(p, Ilock(st, ip[p]))
  BY <1>1, <1>2, AloneHolds, OpenAtHolds
<1>3. CASE Return(p, Iput(Ilock(st, ip[p]), ip[p])) /\ UNCHANGED <<lock, cwd, fd>>
  BY <1>1, <1>3, AloneHolds, LetGoHolds
<1> QED BY <1>2, <1>3 DEF CreateOld

LEMMA CreateNoInodeHolds ==
  ASSUME CallInv, RefsAreHolders, NEW p \in Process, CreateNoInode(p)
  PROVE  CallInv' /\ RefsAreHolders' /\ Others(p)
<1>1. Alone(p)
  BY DEF CreateNoInode, AtLocked, Alone, CreateOp
<1>2. Return(p, Iput(Ilock(st, ip[p]), ip[p])) /\ UNCHANGED <<lock, cwd, fd>>
  BY DEF CreateNoInode
<1> QED BY <1>1, <1>2, AloneHolds, LetGoHolds

LEMMA CreateFoundHolds ==
  ASSUME CallInv, RefsAreHolders, NEW p \in Process, CreateFound(p)
  PROVE  CallInv' /\ RefsAreHolders' /\ Others(p)
<1> DEFINE d == ip[p]
           s == Ilock(st, d)
           i == Lookup(s, d, rest[p][1])
<1>1. Alone(p) /\ pc[p] \in WithName
  BY DEF CreateFound, AtLocked, Alone, CreateOp, WithName
<1>2. /\ pc[p] # "idle" /\ dp[p] = NoInum /\ old[p] = NoInum /\ d \in Inum /\ st \in Memory
      /\ s \in Memory /\ s.ref = st.ref /\ Booted
  BY <1>1, AloneHolds
<1>3. i # NoInum /\ i \in Inum
  BY <1>1, <1>2, Looked DEF CreateFound
<1>4. /\ st' = Iput(Iget(s, i), d)
      /\ ip' = [ip EXCEPT ![p] = i] /\ pc' = [pc EXCEPT ![p] = "created"]
      /\ UNCHANGED <<com, lock, call, rest, dp, old, cwd, fd, boot>>
  BY DEF CreateFound, Goto
<1>5. d = ip[p]
  OBVIOUS
<1> HIDE DEF d, s, i
<1>6. /\ Iput(Iget(s, i), d) \in Memory
      /\ \A j \in Inum : Iput(Iget(s, i), d).ref[j] = s.ref[j] + Same(i, j) - Same(d, j)
  BY <1>2, <1>3, Onward
<1>7. /\ ip \in [Process -> 0..NINODES] /\ pc \in [Process -> Labels] /\ call \in [Process -> CallType]
      /\ call[p].op \in Op
  BY <1>2 DEF CallInv, TypeInv, CallTypes
<1>8. Others(p)
  BY <1>4, <1>7 DEF Others
<1>9. TypeInv'
  BY <1>3, <1>4, <1>6, <1>7, Inums DEF TypeInv, CallInv, Labels
<1>10. ip'[p] = i /\ pc'[p] = "created" /\ dp' = dp /\ old' = old /\ cwd' = cwd /\ fd' = fd
  BY <1>4, <1>7
<1>11. HeldBy(p)'
  BY <1>2, <1>3, <1>10 DEF HeldBy, WithName, CreateOp
<1>12. CallInv'
  BY <1>2, <1>4, <1>7, <1>8, <1>9, <1>11, CallStep
<1>13. \A j \in Inum : st'.ref[j] = st.ref[j] - Own(p, j) + Own(p, j)'
  <2>1. \A j \in Inum : st'.ref[j] = st.ref[j] + Same(i, j) - Same(ip[p], j)
    BY <1>2, <1>4, <1>5, <1>6
  <2>2. \A j \in Inum : st.ref[j] \in Int
    BY <1>2, RefsOf
  <2> QED BY <2>1, <2>2, <1>10 DEF Own, Same
<1> QED BY <1>8, <1>12, <1>13, HoldersStep

LEMMA TypeOfIs ==
  ASSUME NEW op \in CreateOp
  PROVE  TypeOf(op) \in Kind /\ (TypeOf(op) = "dir" <=> op = "mkdir")
  BY DEF CreateOp, TypeOf, Kind

LEMMA CreateNewHolds ==
  ASSUME CallInv, RefsAreHolders, NEW p \in Process, CreateNew(p)
  PROVE  CallInv' /\ RefsAreHolders' /\ Others(p)
<1> DEFINE d == ip[p]
           s == Ilock(st, d)
           i == FirstFree(s)
           t == TypeOf(pc[p])
           new == NewNode(s, i, d, t)
           n == rest[p][1]
           k == IF t = "dir" THEN 1 ELSE 0
           entered == Dirlink(new, d, n, i)
           counted == Nlink(entered, d, k)
           linked == Iput(counted, d)
           undone == Nlink(new, i, -1)
<1>1. Alone(p) /\ pc[p] \in CreateOp
  BY DEF CreateNew, AtLocked, Alone, CreateOp
<1>2. /\ pc[p] # "idle" /\ dp[p] = NoInum /\ old[p] = NoInum /\ d \in Inum /\ st \in Memory
      /\ s \in Memory /\ s.ref = st.ref /\ Booted
  BY <1>1, AloneHolds
<1>3. /\ \/ IF pc[p] = "creat" /\ fd[p] = NoInum
            THEN Return(p, linked) /\ fd' = [fd EXCEPT ![p] = i]
            ELSE Return(p, Iput(linked, i)) /\ UNCHANGED fd
         \/ Return(p, Iput(Iput(undone, i), d)) /\ UNCHANGED fd
      /\ UNCHANGED <<lock, cwd>>
      /\ FreeInodes(s) # {}
  BY DEF CreateNew
<1>4. i \in Inum
  BY <1>2, <1>3, FirstFreeIs
<1>5. t \in Kind
  BY <1>1, TypeOfIs
<1>6. k \in Int /\ i \in 0..NINODES /\ d = ip[p]
  <2>1. k \in Int /\ d = ip[p]
    OBVIOUS
  <2> HIDE DEF i
  <2> QED BY <1>4, <2>1, Inums
<1> HIDE DEF d, s, i, t, n, k
<1>7. new \in Memory /\ \A j \in Inum : new.ref[j] = st.ref[j] + Same(i, j)
  <2>1. new \in Memory /\ \A j \in Inum : new.ref[j] = s.ref[j] + Same(i, j)
    <3>1. s \in Memory /\ i \in Inum /\ d \in Inum /\ t \in Kind
      BY <1>2, <1>4, <1>5
    <3> QED BY <3>1, NewNodeIs
  <2> QED BY <1>2, <2>1
<1> HIDE DEF new
<1>8. entered \in Memory /\ entered.ref = new.ref
  BY <1>2, <1>6, <1>7, DirlinkType
<1> HIDE DEF entered
<1>9. counted \in Memory /\ counted.ref = new.ref
  BY <1>2, <1>6, <1>8, NlinkIs
<1> HIDE DEF counted
<1>10. linked \in Memory /\ \A j \in Inum : linked.ref[j] = st.ref[j] + Same(i, j) - Same(ip[p], j)
  <2>1. linked \in Memory /\ \A j \in Inum : linked.ref[j] = counted.ref[j] - Same(d, j)
    BY <1>2, <1>9, IputIs
  <2> QED BY <1>2, <1>6, <1>7, <1>9, <2>1, RefsOf, SameInt
<1> HIDE DEF linked
<1>11. undone \in Memory /\ undone.ref = new.ref
  BY <1>4, <1>7, NlinkIs
<1> HIDE DEF undone
<1>12. \A j \in Inum : Own(p, j) = Same(cwd[p], j) + Same(fd[p], j) + Same(ip[p], j)
  BY <1>2, SameNone DEF Own, Same
<1>13. \A j \in Inum : st.ref[j] \in Int
  BY <1>2, RefsOf
<1>14. /\ lock' \in [Inum -> Process \cup {None}] /\ cwd' \in [Process -> Inum] /\ cwd' = cwd
       /\ fd \in [Process -> 0..NINODES]
  BY <1>3 DEF CallInv, TypeInv
<1>15. CASE Return(p, linked) /\ fd' = [fd EXCEPT ![p] = i] /\ fd[p] = NoInum
  <2>1. fd' \in [Process -> 0..NINODES] /\ fd'[p] = i /\ \A q \in Process \ {p} : fd'[q] = fd[q]
    BY <1>6, <1>14, <1>15
  <2>2. \A j \in Inum : Same(fd[p], j) = 0
    BY <1>15, SameNone
  <2>3. \A j \in Inum : linked.ref[j] = st.ref[j] - Own(p, j) + Same(cwd'[p], j) + Same(fd'[p], j)
    BY <1>10, <1>12, <1>13, <1>14, <2>1, <2>2, SameInt
  <2> QED BY <1>2, <1>10, <1>14, <1>15, <2>1, <2>3, ReturnHolds
<1>16. CASE Return(p, Iput(linked, i)) /\ UNCHANGED fd
  <2>1. Iput(linked, i) \in Memory /\ \A j \in Inum : Iput(linked, i).ref[j] = linked.ref[j] - Same(i, j)
    BY <1>4, <1>10, IputIs
  <2>2. \A j \in Inum : Iput(linked, i).ref[j] = st.ref[j] - Same(ip[p], j) - Same(dp[p], j) - Same(old[p], j)
    BY <1>2, <1>10, <1>13, <2>1, SameInt, SameNone
  <2> QED BY <1>2, <1>3, <1>16, <2>1, <2>2, PlainReturnHolds
<1>17. CASE Return(p, Iput(Iput(undone, i), d)) /\ UNCHANGED fd
  <2> DEFINE u == Iput(undone, i)
  <2>1. u \in Memory /\ \A j \in Inum : u.ref[j] = undone.ref[j] - Same(i, j)
    BY <1>4, <1>11, IputIs
  <2> HIDE DEF u
  <2>2. Iput(u, d) \in Memory /\ \A j \in Inum : Iput(u, d).ref[j] = u.ref[j] - Same(d, j)
    BY <1>2, <2>1, IputIs
  <2>3. \A j \in Inum : Iput(u, d).ref[j] = st.ref[j] - Same(ip[p], j) - Same(dp[p], j) - Same(old[p], j)
    BY <1>2, <1>6, <1>7, <1>11, <1>13, <2>1, <2>2, SameInt, SameNone
  <2>4. Return(p, Iput(u, d))
    BY <1>17 DEF u
  <2> QED BY <1>2, <1>3, <1>17, <2>2, <2>3, <2>4, PlainReturnHolds
<1> QED BY <1>3, <1>15, <1>16, <1>17

LEMMA LinkOldHolds ==
  ASSUME CallInv, RefsAreHolders, NEW p \in Process, LinkOld(p)
  PROVE  CallInv' /\ RefsAreHolders' /\ Others(p)
<1> DEFINE f == ip[p]
           s == Ilock(st, f)
           i == IF call[p].abs THEN ROOTINO ELSE cwd[p]
           c == Nlink(s, f, 1)
<1>1. Alone(p) /\ pc[p] = "link"
  BY DEF LinkOld, AtLocked, Alone
<1>2. /\ pc[p] # "idle" /\ dp[p] = NoInum /\ old[p] = NoInum /\ f \in Inum /\ st \in Memory
      /\ s \in Memory /\ s.ref = st.ref /\ Booted
  BY <1>1, AloneHolds
<1>3. CASE Return(p, Iput(s, f)) /\ UNCHANGED <<lock, cwd, fd>>
  BY <1>2, <1>3, LetGoHolds
<1>4. CASE /\ st' = Iget(c, i)
           /\ old' = [old EXCEPT ![p] = ip[p]]
           /\ ip' = [ip EXCEPT ![p] = i]
           /\ rest' = [rest EXCEPT ![p] = call[p].to]
           /\ Goto(p, "walkto")
           /\ UNCHANGED <<com, lock, call, dp, cwd, fd, boot, crashes>>
  <2>1. f = ip[p] /\ i \in Inum /\ call[p].to \in Path
    BY <1>2, At, Inums DEF CallType
  <2> HIDE DEF f, s, i
  <2>2. c \in Memory /\ c.ref = s.ref
    BY <1>2, NlinkIs
  <2> HIDE DEF c
  <2>3. Iget(c, i) \in Memory /\ \A j \in Inum : Iget(c, i).ref[j] = c.ref[j] + Same(i, j)
    BY <2>1, <2>2, IgetIs
  <2>4. /\ ip \in [Process -> 0..NINODES] /\ old \in [Process -> 0..NINODES] /\ rest \in [Process -> Path]
        /\ call \in [Process -> CallType] /\ call[p].op \in Op
        /\ pc' = [pc EXCEPT ![p] = "walkto"] /\ pc \in [Process -> Labels]
    BY <1>2, <1>4 DEF CallInv, TypeInv, CallTypes, Goto
  <2>5. Others(p)
    BY <1>4, <2>4 DEF Others
  <2>6. TypeInv'
    BY <1>2, <1>4, <2>1, <2>3, <2>4, Inums DEF TypeInv, CallInv, Labels
  <2>7. ip'[p] = i /\ old'[p] = ip[p] /\ pc'[p] = "walkto" /\ dp' = dp /\ cwd' = cwd /\ fd' = fd
    BY <1>4, <2>4
  <2>8. i # NoInum /\ ip[p] # NoInum
    BY <1>2, <2>1, Inums
  <2>9. HeldBy(p)'
    BY <1>2, <2>7, <2>8 DEF HeldBy, WithName, CreateOp
  <2>10. CallInv'
    BY <1>2, <1>4, <2>4, <2>5, <2>6, <2>9, CallStep
  <2>11. \A j \in Inum : st'.ref[j] = st.ref[j] - Own(p, j) + Own(p, j)'
    <3>1. \A j \in Inum : st'.ref[j] = st.ref[j] + Same(i, j)
      BY <1>2, <1>4, <2>2, <2>3
    <3>2. \A j \in Inum : st.ref[j] \in Int /\ Same(old[p], j) = 0
      BY <1>2, RefsOf, SameNone
    <3>3. \A j : /\ Own(p, j) = Same(cwd[p], j) + Same(fd[p], j) + Same(ip[p], j) + Same(dp[p], j) + Same(old[p], j)
                 /\ Own(p, j)' = Same(cwd[p], j) + Same(fd[p], j) + Same(i, j) + Same(dp[p], j) + Same(ip[p], j)
      BY <2>7 DEF Own, Same
    <3> QED BY <3>1, <3>2, <3>3, SameInt
  <2> QED BY <2>5, <2>10, <2>11, HoldersStep
<1> QED BY <1>3, <1>4 DEF LinkOld

LEMMA LinkNewHolds ==
  ASSUME CallInv, RefsAreHolders, NEW p \in Process, LinkNew(p)
  PROVE  CallInv' /\ RefsAreHolders' /\ Others(p)
<1> DEFINE d == ip[p]
           s == Ilock(st, d)
           n == rest[p][1]
           f == old[p]
           i == Lookup(s, d, n)
           entered == Dirlink(s, d, n, f)
           left == Iput(entered, d)
           t == IF i = NoInum THEN s ELSE Iput(Iget(s, i), i)
<1>1. pc[p] = "linkto" /\ pc[p] \in WithName
  BY DEF LinkNew, AtLocked, WithName
<1>2. /\ d \in Inum /\ dp[p] = NoInum /\ f \in Inum /\ st \in Memory /\ s \in Memory /\ s.ref = st.ref /\ Booted
      /\ f \in 0..NINODES
  <2>1. pc[p] # "idle" /\ pc[p] # "unlinkat" /\ pc[p] \in {"walkto", "linkto"}
    BY <1>1
  <2>2. d \in Inum /\ dp[p] = NoInum /\ f \in Inum /\ st \in Memory /\ Booted
    BY <2>1, At
  <2> HIDE DEF d, f
  <2>3. s \in Memory /\ s.ref = st.ref
    BY <2>2, IlockIs
  <2>4. f \in 0..NINODES
    BY <2>2, Inums
  <2> QED BY <2>2, <2>3, <2>4
<1>3. d = ip[p] /\ f = old[p]
  OBVIOUS
<1>4. i # NoInum => i \in Inum
  BY <1>1, <1>2, Looked
<1>5. \/ Return(p, Iput(left, f)) /\ UNCHANGED <<lock, cwd, fd>>
      \/ LinkBad(p, Iput(t, d))
  BY DEF LinkNew
<1> HIDE DEF d, s, n, f, i
<1>6. entered \in Memory /\ entered.ref = s.ref
  BY <1>2, DirlinkType
<1> HIDE DEF entered
<1>7. left \in Memory /\ \A j \in Inum : left.ref[j] = entered.ref[j] - Same(d, j)
  BY <1>2, <1>6, IputIs
<1> HIDE DEF left
<1>8. Iput(left, f) \in Memory /\ \A j \in Inum : Iput(left, f).ref[j] = left.ref[j] - Same(f, j)
  BY <1>2, <1>7, IputIs
<1>9. t \in Memory /\ \A j \in Inum : t.ref[j] = s.ref[j]
  <2>1. CASE i = NoInum
    BY <1>2, <2>1
  <2>2. CASE i # NoInum
    <3>1. t = Iput(Iget(s, i), i) /\ i \in Inum
      BY <1>4, <2>2
    <3> HIDE DEF t
    <3>2. t \in Memory /\ \A j \in Inum : t.ref[j] = s.ref[j] + Same(i, j) - Same(i, j)
      <4>1. s \in Memory /\ i \in Inum
        BY <1>2, <3>1
      <4> HIDE DEF s, i
      <4> QED BY <3>1, <4>1, Onward
    <3> QED BY <1>2, <3>2, SameInt, RefsOf
  <2> QED BY <2>1, <2>2
<1> HIDE DEF t
<1>10. Iput(t, d) \in Memory /\ \A j \in Inum : Iput(t, d).ref[j] = t.ref[j] - Same(d, j)
  BY <1>2, <1>9, IputIs
<1>11. CASE Return(p, Iput(left, f)) /\ UNCHANGED <<lock, cwd, fd>>
  <2>1. \A j \in Inum : Iput(left, f).ref[j] = st.ref[j] - Same(ip[p], j) - Same(dp[p], j) - Same(old[p], j)
    BY <1>2, <1>3, <1>6, <1>7, <1>8, SameInt, SameNone, RefsOf
  <2> QED BY <1>1, <1>8, <1>11, <2>1, PlainReturnHolds
<1>12. CASE LinkBad(p, Iput(t, d))
  <2>1. /\ CallInv' /\ Others(p) /\ st' = Iput(t, d)
        /\ ip'[p] = old[p] /\ dp'[p] = NoInum /\ old'[p] = NoInum
    BY <1>1, <1>10, <1>12, LinkBadStep
  <2>2. cwd' = cwd /\ fd' = fd
    BY <1>12 DEF LinkBad
  <2>3. \A j \in Inum : st'.ref[j] = st.ref[j] - Same(ip[p], j)
    BY <1>2, <1>3, <1>9, <1>10, <2>1
  <2>4. \A j \in Inum : st'.ref[j] = st.ref[j] - Own(p, j) + Own(p, j)'
    BY <1>2, <2>1, <2>2, <2>3, SameNone, RefsOf DEF Own, Same
  <2> QED BY <2>1, <2>4, HoldersStep
<1> QED BY <1>5, <1>11, <1>12

LEMMA LinkUndoHolds ==
  ASSUME CallInv, RefsAreHolders, NEW p \in Process, LinkUndo(p)
  PROVE  CallInv' /\ RefsAreHolders' /\ Others(p)
<1> DEFINE s == Nlink(Ilock(st, ip[p]), ip[p], -1)
<1>1. Alone(p)
  BY DEF LinkUndo, AtLocked, Alone
<1>2. pc[p] # "idle" /\ dp[p] = NoInum /\ old[p] = NoInum /\ s \in Memory /\ s.ref = st.ref
  BY <1>1, AloneHolds, NlinkIs
<1>3. Return(p, Iput(s, ip[p])) /\ UNCHANGED <<lock, cwd, fd>>
  BY DEF LinkUndo
<1> QED BY <1>2, <1>3, LetGoHolds

LEMMA UnlinkDirHolds ==
  ASSUME CallInv, RefsAreHolders, NEW p \in Process, UnlinkDir(p)
  PROVE  CallInv' /\ RefsAreHolders' /\ Others(p)
<1> DEFINE d == ip[p]
           s == Ilock(st, d)
           i == Lookup(s, d, rest[p][1])
<1>1. Alone(p) /\ pc[p] \in WithName
  BY DEF UnlinkDir, AtLocked, Alone, WithName
<1>2. /\ pc[p] # "idle" /\ dp[p] = NoInum /\ old[p] = NoInum /\ d \in Inum /\ st \in Memory
      /\ s \in Memory /\ s.ref = st.ref /\ Booted
  BY <1>1, AloneHolds
<1>3. i # NoInum => i \in Inum
  BY <1>1, <1>2, Looked
<1>4. CASE Return(p, Iput(s, d)) /\ UNCHANGED <<lock, cwd, fd>>
  BY <1>2, <1>4, LetGoHolds
<1>5. CASE /\ i # NoInum
           /\ st' = Iget(s, i)
           /\ lock' = [lock EXCEPT ![d] = p]
           /\ dp' = [dp EXCEPT ![p] = d]
           /\ ip' = [ip EXCEPT ![p] = i]
           /\ Goto(p, "unlinkat")
           /\ UNCHANGED <<com, call, rest, old, cwd, fd, boot, crashes>>
  <2>1. d = ip[p]
    OBVIOUS
  <2>2. i \in Inum
    BY <1>3, <1>5
  <2> HIDE DEF d, s, i
  <2>3. Iget(s, i) \in Memory /\ \A j \in Inum : Iget(s, i).ref[j] = s.ref[j] + Same(i, j)
    BY <1>2, <2>2, IgetIs
  <2>4. /\ ip \in [Process -> 0..NINODES] /\ dp \in [Process -> 0..NINODES]
        /\ call \in [Process -> CallType] /\ call[p].op \in Op
        /\ pc' = [pc EXCEPT ![p] = "unlinkat"] /\ pc \in [Process -> Labels]
    BY <1>2, <1>5 DEF CallInv, TypeInv, CallTypes, Goto
  <2>5. Others(p)
    BY <1>5, <2>4 DEF Others
  <2>6. lock' \in [Inum -> Process \cup {None}] /\ d \in 0..NINODES /\ i \in 0..NINODES
    BY <1>2, <1>5, <2>2, Inums DEF CallInv, TypeInv
  <2>7. TypeInv'
    BY <1>5, <2>3, <2>4, <2>6 DEF TypeInv, CallInv, Labels
  <2>8. ip'[p] = i /\ dp'[p] = d /\ pc'[p] = "unlinkat" /\ old' = old /\ cwd' = cwd /\ fd' = fd /\ rest' = rest
    BY <1>5, <2>4
  <2>9. i # NoInum /\ d # NoInum /\ Len(rest[p]) = 1
    <3>1. i # NoInum /\ d # NoInum
      BY <1>2, <2>2, Inums
    <3>2. Len(rest[p]) = 1
      BY <1>1, <1>2, At
    <3> QED BY <3>1, <3>2
  <2>10. HeldBy(p)'
    BY <1>2, <2>8, <2>9 DEF HeldBy, WithName, CreateOp
  <2>11. CallInv'
    BY <1>2, <1>5, <2>4, <2>5, <2>7, <2>10, CallStep
  <2>12. \A j \in Inum : st'.ref[j] = st.ref[j] - Own(p, j) + Own(p, j)'
    <3>1. \A j \in Inum : st'.ref[j] = st.ref[j] + Same(i, j)
      BY <1>2, <1>5, <2>3
    <3>2. \A j \in Inum : st.ref[j] \in Int /\ Same(dp[p], j) = 0
      BY <1>2, RefsOf, SameNone
    <3>3. \A j : /\ Own(p, j) = Same(cwd[p], j) + Same(fd[p], j) + Same(ip[p], j) + Same(dp[p], j) + Same(old[p], j)
                 /\ Own(p, j)' = Same(cwd[p], j) + Same(fd[p], j) + Same(i, j) + Same(ip[p], j) + Same(old[p], j)
      BY <2>1, <2>8 DEF Own, Same
    <3> QED BY <3>1, <3>2, <3>3, SameInt
  <2> QED BY <2>5, <2>11, <2>12, HoldersStep
<1> QED BY <1>4, <1>5 DEF UnlinkDir

LEMMA UnlinkFileHolds ==
  ASSUME CallInv, RefsAreHolders, NEW p \in Process, UnlinkFile(p)
  PROVE  CallInv' /\ RefsAreHolders' /\ Others(p)
<1> DEFINE i == ip[p]
           d == dp[p]
           s == Ilock(st, i)
           gone == Dirlink(s, d, rest[p][1], NoInum)
           fewer == IF s.node[i].type = "dir" THEN Nlink(gone, d, -1) ELSE gone
           left == Iput(fewer, d)
           last == Nlink(left, i, -1)
<1>1. pc[p] = "unlinkat"
  BY DEF UnlinkFile, AtLocked
<1>2. /\ pc[p] # "idle" /\ old[p] = NoInum /\ i \in Inum /\ d \in Inum /\ st \in Memory
      /\ s \in Memory /\ s.ref = st.ref /\ Booted
  <2>1. pc[p] # "idle" /\ pc[p] \notin {"walkto", "linkto"}
    BY <1>1
  <2> QED BY <1>1, <2>1, At, IlockIs
<1>3. /\ i = ip[p] /\ d = dp[p] /\ NoInum \in 0..NINODES
  BY NINODESAssumption DEF NoInum
<1>4. /\ \/ Return(p, Iput(last, i))
         \/ Return(p, Iput(Iput(s, i), d))
      /\ lock' = [lock EXCEPT ![d] = None]
      /\ UNCHANGED <<cwd, fd>>
  BY DEF UnlinkFile
<1> HIDE DEF i, d, s
<1>5. gone \in Memory /\ gone.ref = s.ref
  BY <1>2, <1>3, DirlinkType
<1> HIDE DEF gone
<1>6. fewer \in Memory /\ fewer.ref = s.ref
  <2>1. Nlink(gone, d, -1) \in Memory /\ Nlink(gone, d, -1).ref = gone.ref
    BY <1>2, <1>5, NlinkIs
  <2> QED BY <1>5, <2>1
<1> HIDE DEF fewer
<1>7. left \in Memory /\ \A j \in Inum : left.ref[j] = fewer.ref[j] - Same(d, j)
  BY <1>2, <1>6, IputIs
<1> HIDE DEF left
<1>8. last \in Memory /\ last.ref = left.ref
  BY <1>2, <1>7, NlinkIs
<1> HIDE DEF last
<1>9. Iput(last, i) \in Memory /\ \A j \in Inum : Iput(last, i).ref[j] = last.ref[j] - Same(i, j)
  BY <1>2, <1>8, IputIs
<1>10. Iput(s, i) \in Memory /\ \A j \in Inum : Iput(s, i).ref[j] = s.ref[j] - Same(i, j)
  BY <1>2, IputIs
<1>11. /\ Iput(Iput(s, i), d) \in Memory
       /\ \A j \in Inum : Iput(Iput(s, i), d).ref[j] = Iput(s, i).ref[j] - Same(d, j)
  BY <1>2, <1>10, IputIs
<1>12. /\ lock' \in [Inum -> Process \cup {None}]
       /\ cwd' \in [Process -> Inum] /\ fd' \in [Process -> 0..NINODES] /\ cwd' = cwd /\ fd' = fd
  BY <1>4 DEF CallInv, TypeInv
<1>13. \A j \in Inum : /\ st.ref[j] \in Int
                       /\ Own(p, j) = Same(cwd[p], j) + Same(fd[p], j) + Same(i, j) + Same(d, j)
  BY <1>2, <1>3, RefsOf, SameNone DEF Own, Same
<1>14. CASE Return(p, Iput(last, i))
  <2>1. \A j \in Inum : Iput(last, i).ref[j] = st.ref[j] - Own(p, j) + Same(cwd'[p], j) + Same(fd'[p], j)
    BY <1>2, <1>6, <1>7, <1>8, <1>9, <1>12, <1>13, SameInt
  <2> QED BY <1>2, <1>9, <1>12, <1>14, <2>1, ReturnHolds
<1>15. CASE Return(p, Iput(Iput(s, i), d))
  <2>1. \A j \in Inum : Iput(Iput(s, i), d).ref[j] = st.ref[j] - Own(p, j) + Same(cwd'[p], j) + Same(fd'[p], j)
    BY <1>2, <1>10, <1>11, <1>12, <1>13, SameInt
  <2> QED BY <1>2, <1>11, <1>12, <1>15, <2>1, ReturnHolds
<1> QED BY <1>4, <1>14, <1>15

LEMMA ChdirHolds ==
  ASSUME CallInv, RefsAreHolders, NEW p \in Process, Chdir(p)
  PROVE  CallInv' /\ RefsAreHolders' /\ Others(p)
<1> DEFINE i == ip[p]
           s == Ilock(st, i)
<1>1. Alone(p)
  BY DEF Chdir, AtLocked, Alone
<1>2. /\ pc[p] # "idle" /\ dp[p] = NoInum /\ old[p] = NoInum /\ i \in Inum /\ st \in Memory
      /\ s \in Memory /\ s.ref = st.ref /\ Booted /\ cwd[p] \in Inum
  BY <1>1, AloneHolds, At
<1>3. CASE Return(p, Iput(s, i)) /\ UNCHANGED <<lock, cwd, fd>>
  BY <1>2, <1>3, LetGoHolds
<1>4. CASE Return(p, Iput(s, cwd[p])) /\ cwd' = [cwd EXCEPT ![p] = i] /\ UNCHANGED <<lock, fd>>
  <2>1. i = ip[p]
    OBVIOUS
  <2> HIDE DEF i, s
  <2>2. Iput(s, cwd[p]) \in Memory /\ \A j \in Inum : Iput(s, cwd[p]).ref[j] = s.ref[j] - Same(cwd[p], j)
    BY <1>2, IputIs
  <2>3. /\ lock' \in [Inum -> Process \cup {None}]
        /\ cwd' \in [Process -> Inum] /\ cwd'[p] = i /\ \A q \in Process \ {p} : cwd'[q] = cwd[q]
        /\ fd' \in [Process -> 0..NINODES] /\ fd' = fd
    BY <1>2, <1>4 DEF CallInv, TypeInv
  <2>4. \A j \in Inum : /\ st.ref[j] \in Int
                        /\ Own(p, j) = Same(cwd[p], j) + Same(fd[p], j) + Same(i, j)
    BY <1>2, <2>1, RefsOf, SameNone DEF Own, Same
  <2>5. \A j \in Inum : Iput(s, cwd[p]).ref[j] = st.ref[j] - Own(p, j) + Same(cwd'[p], j) + Same(fd'[p], j)
    BY <1>2, <2>2, <2>3, <2>4, SameInt
  <2> QED BY <1>2, <1>4, <2>2, <2>3, <2>5, ReturnHolds
<1> QED BY <1>3, <1>4 DEF Chdir

LEMMA CloseHolds ==
  ASSUME CallInv, RefsAreHolders, NEW p \in Process, Close(p)
  PROVE  CallInv' /\ RefsAreHolders' /\ Others(p)
<1> DEFINE f == fd[p]
<1>1. /\ Booted /\ pc[p] = "idle" /\ f # NoInum /\ Return(p, Iput(st, f))
      /\ fd' = [fd EXCEPT ![p] = NoInum] /\ UNCHANGED <<lock, cwd>>
  BY DEF Close
<1>2. st \in Memory /\ f \in Inum
  BY <1>1, NINODESAssumption DEF CallInv, TypeInv, Inum, NoInum
<1>3. ip[p] = NoInum /\ dp[p] = NoInum /\ old[p] = NoInum
  BY <1>1 DEF CallInv, Held, HeldBy
<1>4. /\ lock' \in [Inum -> Process \cup {None}] /\ cwd' \in [Process -> Inum] /\ cwd' = cwd
      /\ fd' \in [Process -> 0..NINODES] /\ fd'[p] = NoInum /\ \A q \in Process \ {p} : fd'[q] = fd[q]
  BY <1>1, NINODESAssumption DEF CallInv, TypeInv, NoInum
<1>5. \A j \in Inum : st.ref[j] \in Int /\ Own(p, j) = Same(cwd[p], j) + Same(f, j)
  BY <1>2, <1>3, RefsOf, SameNone DEF Own, Same
<1> HIDE DEF f
<1>6. Iput(st, f) \in Memory /\ \A j \in Inum : Iput(st, f).ref[j] = st.ref[j] - Same(f, j)
  BY <1>2, IputIs
<1>7. \A j \in Inum : Iput(st, f).ref[j] = st.ref[j] - Own(p, j) + Same(cwd'[p], j) + Same(fd'[p], j)
  BY <1>4, <1>5, <1>6, SameInt, SameNone
<1> QED BY <1>1, <1>4, <1>6, <1>7, ReturnHolds

(* Nobody holds anything, and every process stands in the root directory. *)
LEMMA BootRefs ==
  ASSUME NEW i \in Inum, NEW f, f = [p \in Process |-> ROOTINO], NEW g, g = [p \in Process |-> NoInum]
  PROVE  RefsAtBoot[i] = Count(f, i) + Count(g, i) + Count(g, i) + Count(g, i) + Count(g, i)
<1> DEFINE A == {p \in Process : f[p] = i}
           B == {p \in Process : g[p] = i}
<1>1. B = {}
  BY Inums
<1>2. i = ROOTINO => A = Process
  OBVIOUS
<1>3. i # ROOTINO => A = {}
  OBVIOUS
<1>4. Cardinality({}) = 0 /\ Cardinality(Process) \in Nat
  BY FS_EmptySet, FS_CardinalityType, ProcessAssumption
<1>5. RefsAtBoot[i] = IF i = ROOTINO THEN Cardinality(Process) ELSE 0
  BY DEF RefsAtBoot
<1>6. Count(f, i) = Cardinality(A) /\ Count(g, i) = Cardinality(B)
  BY DEF Count
<1> HIDE DEF A, B
<1>7. CASE i = ROOTINO
  <2>1. Count(f, i) = Cardinality(Process) /\ Count(g, i) = 0
    BY <1>1, <1>2, <1>4, <1>6, <1>7
  <2> QED BY <1>4, <1>5, <1>7, <2>1
<1>8. CASE i # ROOTINO
  <2>1. Count(f, i) = 0 /\ Count(g, i) = 0
    BY <1>1, <1>3, <1>4, <1>6, <1>8
  <2> QED BY <1>5, <1>8, <2>1
<1> QED BY <1>7, <1>8

AtBoot(n) ==
  /\ st = [node |-> n, ref |-> RefsAtBoot, valid |-> [i \in Inum |-> FALSE]]
  /\ com = n /\ Nobody /\ cwd = [p \in Process |-> ROOTINO] /\ boot = 1

AfterBoot == \E n \in [Inum -> Node] : AtBoot(n)

LEMMA BootHolds == AfterBoot => CallInv /\ RefsAreHolders
<1> SUFFICES ASSUME NEW n \in [Inum -> Node], AtBoot(n) PROVE CallInv /\ RefsAreHolders
  BY DEF AfterBoot
<1>1. RefsAtBoot \in [Inum -> Int]
  <2>1. Cardinality(Process) \in Int
    BY FS_CardinalityType, ProcessAssumption
  <2> QED BY <2>1 DEF RefsAtBoot
<1>2. st \in Memory /\ st.ref = RefsAtBoot
  BY <1>1 DEF AtBoot, Memory
<1>3. /\ pc = [p \in Process |-> "idle"] /\ call = [p \in Process |-> NoCall]
      /\ ip = [p \in Process |-> NoInum] /\ rest = [p \in Process |-> <<>>]
      /\ dp = [p \in Process |-> NoInum] /\ old = [p \in Process |-> NoInum] /\ fd = [p \in Process |-> NoInum]
      /\ lock = [i \in Inum |-> None] /\ cwd = [p \in Process |-> ROOTINO] /\ boot = 1 /\ com = n
  BY DEF AtBoot, Nobody
<1>4. NoInum \in 0..NINODES /\ <<>> \in Path /\ NoCall \in CallType /\ 1 \in 1..(NINODES + 1)
  BY NINODESAssumption DEF NoInum, Path, NoCall, CallType
<1>5. TypeInv
  BY <1>2, <1>3, <1>4, Inums DEF TypeInv, Labels
<1>6. CallTypes
  BY <1>3, <1>4 DEF CallTypes
<1>7. Held
  BY <1>3 DEF Held, HeldBy, WithName, CreateOp
<1>8. Booting
  BY <1>3 DEF Booting
<1>9. \A i \in Inum : st.ref[i] = Count(cwd, i) + Count(fd, i) + Count(ip, i) + Count(dp, i) + Count(old, i)
  BY <1>2, <1>3, BootRefs
<1> QED BY <1>5, <1>6, <1>7, <1>8, <1>9, HoldersAre DEF CallInv

LEMMA CrashHolds ==
  ASSUME CallInv, Crash PROVE CallInv' /\ RefsAreHolders'
<1>1. AtBoot(com)'
  BY DEF Crash, AtBoot, Nobody, RefsAtBoot
<1>2. com' \in [Inum -> Node]
  BY DEF Crash, CallInv, TypeInv
<1>3. AfterBoot'
  BY <1>1, <1>2 DEF AfterBoot, AtBoot
<1> QED BY <1>3, BootHolds, PTL

LEMMA IreclaimHolds ==
  ASSUME CallInv, RefsAreHolders, Ireclaim PROVE CallInv' /\ RefsAreHolders'
<1> DEFINE s == Reclaimed(st, boot)
<1>1. st \in Memory /\ boot \in Inum /\ boot' = boot + 1 /\ boot' \in 1..(NINODES + 1)
  BY NINODESAssumption DEF CallInv, TypeInv, Ireclaim, Booted, Inum
<1>2. s \in Memory /\ \A j \in Inum : s.ref[j] = st.ref[j]
  <2> DEFINE g == Iget(st, boot)
             l == Ilock(g, boot)
  <2>1. g \in Memory /\ \A j \in Inum : g.ref[j] = st.ref[j] + Same(boot, j)
    BY <1>1, IgetIs
  <2>2. s = Iput(l, boot)
    BY DEF Reclaimed
  <2> HIDE DEF g, s
  <2>3. l \in Memory /\ l.ref = g.ref
    BY <1>1, <2>1, IlockIs
  <2> HIDE DEF l
  <2>4. Iput(l, boot) \in Memory /\ \A j \in Inum : Iput(l, boot).ref[j] = l.ref[j] - Same(boot, j)
    BY <1>1, <2>3, IputIs
  <2> QED BY <1>1, <2>1, <2>2, <2>3, <2>4, SameInt, RefsOf
<1>3. (st' = s \/ st' = st) /\ com' = st'.node /\ UNCHANGED <<lock, procVars>>
  BY DEF Ireclaim
<1> HIDE DEF s
<1>4. st' \in Memory /\ \A j \in Inum : st'.ref[j] = st.ref[j]
  BY <1>1, <1>2, <1>3
<1>5. com' \in [Inum -> Node]
  BY <1>3, <1>4 DEF Memory
<1>6. UNCHANGED <<lock, pc, call, ip, rest, dp, old, cwd, fd>>
  BY <1>3 DEF procVars
<1>7. TypeInv'
  BY <1>1, <1>4, <1>5, <1>6 DEF TypeInv, CallInv
<1>8. CallTypes' /\ Held'
  BY <1>6 DEF CallInv, CallTypes, Held, HeldBy
<1>9. Booting'
  BY <1>6 DEF Ireclaim, CallInv, Booting, Booted
<1>10. RefsAreHolders'
  BY <1>4, <1>6 DEF RefsAreHolders
<1> QED BY <1>7, <1>8, <1>9, <1>10 DEF CallInv

LEMMA StutterHolds ==
  ASSUME CallInv, RefsAreHolders, UNCHANGED vars PROVE CallInv' /\ RefsAreHolders'
  BY DEF vars, procVars, CallInv, TypeInv, CallTypes, Held, HeldBy, Booting, Booted, RefsAreHolders

LEMMA CallNext ==
  ASSUME CallInv, RefsAreHolders, [Next]_vars PROVE CallInv' /\ RefsAreHolders'
<1>1. ASSUME NEW p \in Process, OnName(p) PROVE CallInv' /\ RefsAreHolders'
  BY <1>1, StartHolds, WalkEmptyHolds, WalkHolds DEF OnName
<1>2. ASSUME NEW p \in Process, OpenOrCreate(p) PROVE CallInv' /\ RefsAreHolders'
  BY <1>2, OpenHolds, CreateFoundHolds, CreateOldHolds, CreateNewHolds, CreateNoInodeHolds DEF OpenOrCreate
<1>3. ASSUME NEW p \in Process, Link(p) PROVE CallInv' /\ RefsAreHolders'
  BY <1>3, LinkOldHolds, LinkNewHolds, LinkUndoHolds DEF Link
<1>4. ASSUME NEW p \in Process, Unlink(p) PROVE CallInv' /\ RefsAreHolders'
  BY <1>4, UnlinkDirHolds, UnlinkFileHolds DEF Unlink
<1> QED BY <1>1, <1>2, <1>3, <1>4, ChdirHolds, CloseHolds, CrashHolds, IreclaimHolds, StutterHolds DEF Next

LEMMA FreshType == Fresh \in [Inum -> Node] /\ \A i \in Inum : Fresh[i] = IF i = ROOTINO
                         THEN [type |-> "dir", nlink |-> 1, ent |-> NoEnt, up |-> ROOTINO]
                         ELSE FreeNode
<1>1. [type |-> "dir", nlink |-> 1, ent |-> NoEnt, up |-> ROOTINO] \in Node
  BY FreeNodeType, Inums DEF Node
<1> QED BY <1>1, FreeNodeType DEF Fresh

LEMMA InitBoots == Init => AtBoot(Fresh)
  BY DEF Init, AtBoot

(* References are counted by their holders: p->cwd, p->ofile and what the   *)
(* calls under way hold, whatever the calls are and whichever fail half-way *)
(* (iget() and iput() in kernel/fs.c and kernel/sysfile.c), even when       *)
(* directories are removed that others refer to.                            *)
THEOREM NamesRefsAreHolders == Spec => []RefsAreHolders
<1>1. Init => CallInv /\ RefsAreHolders
  BY InitBoots, FreshType, BootHolds DEF AfterBoot
<1>2. CallInv /\ RefsAreHolders /\ [Next]_vars => (CallInv /\ RefsAreHolders)'
  BY CallNext
<1> QED BY <1>1, <1>2, PTL DEF Spec

-----------------------------------------------------------------------------
(* Trees. *)

LEMMA EntriesFinite ==
  ASSUME NEW node, NEW i
  PROVE  /\ IsFiniteSet(Entries(node, i)) /\ Cardinality(Entries(node, i)) \in Nat
         /\ Cardinality(Entries(node, i)) = 0 <=> Entries(node, i) = {}
<1> DEFINE E == Entries(node, i)
<1>1. IsFiniteSet(Inum \X Name)
  BY Inums, NameAssumption, FS_Product
<1>2. E \in SUBSET (Inum \X Name)
  BY DEF Entries
<1> HIDE DEF E
<1>3. IsFiniteSet(E)
  BY <1>1, <1>2, FS_Subset
<1>4. Cardinality(E) \in Nat
  BY <1>3, FS_CardinalityType
<1>5. Cardinality(E) = 0 <=> E = {}
  BY <1>3, FS_EmptySet
<1> QED BY <1>3, <1>4, <1>5 DEF E

LEMMA ChildrenFinite ==
  ASSUME NEW node, NEW i
  PROVE  /\ IsFiniteSet(Children(node, i)) /\ Cardinality(Children(node, i)) \in Nat
         /\ Cardinality(Children(node, i)) = 0 <=> Children(node, i) = {}
<1> DEFINE C == Children(node, i)
<1>1. C \in SUBSET Inum
  BY DEF Children
<1> HIDE DEF C
<1>2. IsFiniteSet(C)
  BY <1>1, Inums, FS_Subset
<1>3. Cardinality(C) \in Nat
  BY <1>2, FS_CardinalityType
<1>4. Cardinality(C) = 0 <=> C = {}
  BY <1>2, FS_EmptySet
<1> QED BY <1>2, <1>3, <1>4 DEF C

LEMMA SameEntries ==
  ASSUME NEW node, NEW new, \A d \in Inum : new[d].ent = node[d].ent
  PROVE  \A i : Entries(new, i) = Entries(node, i)
  BY DEF Entries

(* One entry changes. *)
OnlyEntry(node, new, d, n) ==
  \A j \in Inum, m \in Name : <<j, m>> # <<d, n>> => new[j].ent[m] = node[j].ent[m]

EntryStep(node, new, d, n) ==
  \A j : /\ new[d].ent[n] = j => Entries(new, j) = Entries(node, j) \cup {<<d, n>>}
         /\ new[d].ent[n] # j => Entries(new, j) = Entries(node, j) \ {<<d, n>>}

LEMMA OneEntryStep ==
  ASSUME NEW node, NEW new, NEW d \in Inum, NEW n \in Name, OnlyEntry(node, new, d, n)
  PROVE  EntryStep(node, new, d, n)
<1> SUFFICES ASSUME NEW i
             PROVE  /\ new[d].ent[n] = i => Entries(new, i) = Entries(node, i) \cup {<<d, n>>}
                    /\ new[d].ent[n] # i => Entries(new, i) = Entries(node, i) \ {<<d, n>>}
  BY DEF EntryStep
<1> DEFINE A == Entries(new, i)
           B == IF new[d].ent[n] = i THEN Entries(node, i) \cup {<<d, n>>} ELSE Entries(node, i) \ {<<d, n>>}
<1>1. ASSUME NEW j \in Inum, NEW m \in Name PROVE <<j, m>> \in A <=> <<j, m>> \in B
  <2>1. /\ <<j, m>> \in Entries(new, i) <=> new[j].ent[m] = i
        /\ <<j, m>> \in Entries(node, i) <=> node[j].ent[m] = i
    BY DEF Entries
  <2>2. CASE <<j, m>> = <<d, n>>
    <3>1. j = d /\ m = n
      BY <2>2
    <3> QED BY <2>1, <2>2, <3>1
  <2>3. CASE <<j, m>> # <<d, n>>
    <3>1. <<j, m>> \in B <=> <<j, m>> \in Entries(node, i)
      BY <2>3
    <3>2. new[j].ent[m] = node[j].ent[m]
      BY <2>3 DEF OnlyEntry
    <3> QED BY <2>1, <3>1, <3>2
  <2> QED BY <2>2, <2>3
<1>2. A \subseteq Inum \X Name /\ B \subseteq Inum \X Name
  BY DEF Entries
<1> HIDE DEF A, B
<1>3. A = B
  <2>1. ASSUME NEW e \in A PROVE e \in B
    <3>1. e \in Inum \X Name
      BY <1>2
    <3>2. PICK j \in Inum, m \in Name : e = <<j, m>>
      BY <3>1
    <3> QED BY <1>1, <3>2
  <2>2. ASSUME NEW e \in B PROVE e \in A
    <3>1. e \in Inum \X Name
      BY <1>2
    <3>2. PICK j \in Inum, m \in Name : e = <<j, m>>
      BY <3>1
    <3> QED BY <1>1, <3>2
  <2> QED BY <2>1, <2>2
<1> QED BY <1>3 DEF A, B

LEMMA TreeSame ==
  ASSUME NEW node, NEW new, Tree(node), Leaves(new),
         \A i \in Inum : Dir(new, i) <=> Dir(node, i),
         \A i \in Inum : Dir(node, i) =>
           /\ new[i].up = node[i].up /\ new[i].nlink = node[i].nlink
           /\ Entries(new, i) = Entries(node, i)
  PROVE  Tree(new)
<1>1. \A i : Children(new, i) = Children(node, i)
  BY DEF Children
<1>2. Root(new)
  BY Inums DEF Tree, Root
<1>3. Parents(new)
  BY DEF Tree, Parents
<1>4. Acyclic(new)
  BY <1>1 DEF Tree, Acyclic
<1>5. DirLinks(new)
  BY <1>1 DEF Tree, DirLinks
<1> QED BY <1>2, <1>3, <1>4, <1>5 DEF Tree

LEMMA DirHasLinks ==
  ASSUME NEW node, Tree(node), NEW i \in Inum, Dir(node, i)
  PROVE  node[i].nlink \in Nat /\ node[i].nlink > 0
<1>1. node[i].nlink = Cardinality(Children(node, i)) + 1
  BY DEF Tree, DirLinks
<1> QED BY <1>1, ChildrenFinite

(* A directory without entries has no directory below it. *)
LEMMA EmptyHasNoChild ==
  ASSUME NEW node, Tree(node), NEW i \in Inum, node[i].ent = NoEnt
  PROVE  Children(node, i) = {}
<1> SUFFICES ASSUME NEW d \in Inum \ {ROOTINO}, Dir(node, d), node[d].up = i PROVE FALSE
  BY DEF Children
<1>1. PICK n \in Name : Entries(node, d) = {<<i, n>>}
  BY DEF Tree, Parents
<1>2. node[i].ent[n] = d
  <2>1. <<i, n>> \in Entries(node, d)
    BY <1>1
  <2> QED BY <2>1 DEF Entries
<1> QED BY <1>2, Inums DEF NoEnt

(* No entry leads to a free inode, and only the root is its own parent. *)
LEMMA LedToIsUsed ==
  ASSUME NEW s, NEW k, NEW b, Good(s, k, b), NEW d \in Inum, NEW n \in Name,
         s.node[d].ent[n] # NoInum
  PROVE  /\ s.node[d].ent[n] \in Inum /\ ~Free(s.node, s.node[d].ent[n]) /\ Dir(s.node, d)
         /\ s.node[d].ent[n] # ROOTINO
         /\ Dir(s.node, s.node[d].ent[n]) => s.node[s.node[d].ent[n]].up = d
<1> DEFINE i == s.node[d].ent[n]
<1>1. i \in 0..NINODES
  BY DEF Good, Memory, Node
<1>2. i \in Inum
  BY <1>1, NINODESAssumption DEF Inum, NoInum
<1>3. <<d, n>> \in Entries(s.node, i)
  BY DEF Entries
<1>4. Dir(s.node, d)
  BY DEF Good, Tree, Leaves, NoEnt
<1> HIDE DEF i
<1>5. i # ROOTINO
  BY <1>3 DEF Good, Tree, Root
<1>6. ASSUME Free(s.node, i) PROVE FALSE
  <2>1. s.node[i].nlink = 0 /\ ~Dir(s.node, i)
    BY <1>2, <1>6 DEF Good, Life, Free, Dir
  <2>2. 0 = Cardinality(Entries(s.node, i)) + k[i] /\ k[i] \in Nat
    BY <1>2, <2>1 DEF Good, Linked
  <2>3. Cardinality(Entries(s.node, i)) = 0
    BY <2>2, EntriesFinite
  <2> QED BY <2>3, <1>3, EntriesFinite
<1>7. ASSUME Dir(s.node, i) PROVE s.node[i].up = d
  <2>1. PICK m \in Name : Entries(s.node, i) = {<<s.node[i].up, m>>}
    BY <1>2, <1>5, <1>7 DEF Good, Tree, Parents
  <2>2. <<d, n>> = <<s.node[i].up, m>>
    BY <1>3, <2>1
  <2> QED BY <2>2
<1> QED BY <1>2, <1>4, <1>5, <1>6, <1>7 DEF i

(* What a directory has under a name is in use. *)
LEMMA LookupIsUsed ==
  ASSUME NEW s, NEW k, NEW b, Good(s, k, b), NEW d \in Inum, Dir(s.node, d),
         NEW n \in Name \cup {".", ".."}, Lookup(s, d, n) # NoInum
  PROVE  Lookup(s, d, n) \in Inum /\ ~Free(s.node, Lookup(s, d, n))
<1>1. CASE n = "."
  BY <1>1 DEF Lookup, Dir, Free
<1>2. CASE n = ".."
  <2>1. Lookup(s, d, n) = s.node[d].up
    BY <1>2 DEF Lookup
  <2>2. s.node[d].up \in Inum /\ Dir(s.node, s.node[d].up)
    BY Inums DEF Good, Tree, Root, Parents
  <2> QED BY <2>1, <2>2 DEF Dir, Free
<1>3. CASE n \in Name
  <2>1. Lookup(s, d, n) = s.node[d].ent[n]
    BY <1>3, NameAssumption DEF Lookup
  <2> QED BY <1>3, <2>1, LedToIsUsed
<1> QED BY <1>1, <1>2, <1>3

(* An entry is made only under a name that is not there. *)
LEMMA CanLinkIs ==
  ASSUME NEW s, NEW k, NEW b, Good(s, k, b), NEW d \in Inum, Dir(s.node, d),
         NEW n \in Name \cup {".", ".."}, CanLink(s, d, n)
  PROVE  n \in Name /\ s.node[d].ent[n] = NoInum
<1>1. n # "."
  BY Inums DEF CanLink, Lookup
<1>2. n # ".."
  <2>1. s.node[d].up \in Inum
    BY Inums DEF Good, Tree, Root, Parents
  <2> QED BY <2>1, Inums DEF CanLink, Lookup
<1> QED BY <1>1, <1>2 DEF CanLink, Lookup

-----------------------------------------------------------------------------
(* The operators keep nodes good.  DirsStay: directories stay directories,  *)
(* and the entries of d alone may change.                                   *)

DirsStay(node, new, d) ==
  \A i \in Inum : Dir(node, i) => Dir(new, i) /\ (i # d => new[i].ent = node[i].ent)

LEMMA StayTransitive ==
  ASSUME NEW a, NEW b, NEW c, NEW d \in 0..NINODES,
         DirsStay(a, b, d) \/ DirsStay(a, b, NoInum), DirsStay(b, c, d) \/ DirsStay(b, c, NoInum)
  PROVE  DirsStay(a, c, d)
  BY Inums DEF DirsStay

LEMMA UsedIsKept ==
  ASSUME NEW s, NEW k, NEW b, Good(s, k, b), NEW i \in Inum, s.ref[i] > 0
  PROVE  ~Free(s.node, i)
  BY DEF Good, Life

LEMMA GoodCount ==
  ASSUME NEW s, NEW k, NEW h, NEW b, Good(s, k, b), \A i \in Inum : h[i] = k[i]
  PROVE  Good(s, h, b)
  BY DEF Good, Linked

LEMMA GoodIget ==
  ASSUME NEW s, NEW k, NEW b, Good(s, k, b), NEW i \in Inum, ~Free(s.node, i)
  PROVE  /\ Good(Iget(s, i), k, b) /\ Iget(s, i).node = s.node /\ Iget(s, i).valid = s.valid
         /\ \A j \in Inum : Iget(s, i).ref[j] = s.ref[j] + Same(i, j)
<1> DEFINE t == Iget(s, i)
<1>1. s \in Memory /\ \A j \in Inum : s.ref[j] \in Int
  BY RefsOf DEF Good
<1>2. /\ t \in Memory /\ t.node = s.node /\ t.valid = s.valid
      /\ \A j \in Inum : t.ref[j] = s.ref[j] + Same(i, j)
  BY <1>1, IgetIs
<1> HIDE DEF t
<1>3. Life(t, b)
  BY <1>1, <1>2 DEF Good, Life, Same
<1> QED BY <1>2, <1>3 DEF Good, t

LEMMA GoodIlock ==
  ASSUME NEW s, NEW k, NEW b, Good(s, k, b), NEW i \in Inum, s.ref[i] > 0
  PROVE  /\ Good(Ilock(s, i), k, b) /\ Ilock(s, i).node = s.node /\ Ilock(s, i).ref = s.ref
         /\ Ilock(s, i).valid[i]
<1> DEFINE t == Ilock(s, i)
<1>1. s \in Memory
  BY DEF Good
<1>2. /\ t \in Memory /\ t.node = s.node /\ t.ref = s.ref /\ t.valid[i]
      /\ \A j \in Inum : j # i => t.valid[j] = s.valid[j]
  BY <1>1, IlockIs
<1> HIDE DEF t
<1>3. Life(t, b)
  BY <1>1, <1>2 DEF Good, Life
<1> QED BY <1>2, <1>3 DEF Good, t

LEMMA FreeNodeIs ==
  FreeNode.type = "free" /\ FreeNode.nlink = 0 /\ FreeNode.ent = NoEnt /\ FreeNode.up = NoInum
  BY DEF FreeNode

(* An inode goes only without links, entries and references. *)
LEMMA GoodIput ==
  ASSUME NEW s, NEW k, NEW b, Good(s, k, b), NEW i \in Inum, s.ref[i] > 0
  PROVE  /\ Good(Iput(s, i), k, b) /\ DirsStay(s.node, Iput(s, i).node, NoInum)
         /\ \A j \in Inum : Iput(s, i).ref[j] = s.ref[j] - Same(i, j)
         /\ \A j \in Inum : j # i => /\ Iput(s, i).node[j] = s.node[j]
                                     /\ Iput(s, i).valid[j] = s.valid[j]
<1> DEFINE t == Iput(s, i)
           last == LastReference(s, i)
<1>1. s \in Memory /\ \A j \in Inum : s.ref[j] \in Int /\ s.node[j].nlink \in Int
  BY RefsOf DEF Good, Memory, Node
<1>2. /\ t \in Memory
      /\ \A j \in Inum : t.ref[j] = s.ref[j] - Same(i, j)
      /\ t.node[i] = IF last THEN FreeNode ELSE s.node[i]
      /\ \A j \in Inum : j # i => t.node[j] = s.node[j] /\ t.valid[j] = s.valid[j]
      /\ t.valid[i] <=> s.valid[i] /\ s.ref[i] > 1 /\ ~last
      /\ ~last => t.node = s.node
  BY <1>1, IputIs
<1>3. last <=> s.ref[i] = 1 /\ s.valid[i] /\ s.node[i].nlink = 0
  BY DEF LastReference
<1> HIDE DEF t, last
<1>4. Life(t, b)
  <2>1. \A j \in Inum \ {i} : t.ref[j] = s.ref[j] /\ t.node[j] = s.node[j] /\ t.valid[j] = s.valid[j]
    BY <1>1, <1>2 DEF Same
  <2>2. t.ref[i] = s.ref[i] - 1
    BY <1>1, <1>2 DEF Same
  <2>3. CASE last
    BY <1>1, <1>2, <1>3, <2>1, <2>2, <2>3, FreeNodeIs DEF Good, Life, Free
  <2>4. CASE ~last
    BY <1>1, <1>2, <1>3, <2>1, <2>2, <2>4 DEF Good, Life, Free
  <2> QED BY <2>3, <2>4
<1>5. CASE ~last
  <2>1. t.node = s.node
    BY <1>2, <1>5
  <2> QED BY <1>2, <1>4, <2>1 DEF Good, DirsStay, t
<1>6. CASE last
  <2>1. s.node[i].nlink = 0
    BY <1>3, <1>6
  <2>2. ~Dir(s.node, i)
    BY <2>1, DirHasLinks DEF Good
  <2>3. k[i] \in Nat /\ 0 = Cardinality(Entries(s.node, i)) + k[i]
    BY <2>1, <2>2 DEF Good, Linked
  <2>4. k[i] = 0 /\ Entries(s.node, i) = {} /\ Cardinality(Entries(s.node, i)) = 0
    BY <2>3, EntriesFinite
  <2>5. t.node[i] = FreeNode /\ s.node[i].ent = NoEnt
    BY <1>2, <1>6, <2>2 DEF Good, Tree, Leaves
  <2>6. \A j \in Inum : t.node[j].ent = s.node[j].ent
    BY <1>2, <2>5, FreeNodeIs
  <2>7. \A j : Entries(t.node, j) = Entries(s.node, j)
    BY <2>6, SameEntries
  <2>8. ~Dir(t.node, i)
    BY <2>5, FreeNodeIs DEF Dir
  <2>9. Leaves(t.node)
    BY <1>2, <2>5, FreeNodeIs DEF Good, Tree, Leaves, Dir
  <2>10. \A j \in Inum : Dir(t.node, j) <=> Dir(s.node, j)
    BY <1>2, <2>2, <2>8 DEF Dir
  <2>11. \A j \in Inum : Dir(s.node, j) => t.node[j] = s.node[j]
    BY <1>2, <2>2
  <2>12. Tree(t.node)
    BY <2>7, <2>9, <2>10, <2>11, TreeSame DEF Good
  <2>13. Linked(t.node, k)
    <3> SUFFICES ASSUME NEW j \in Inum
                 PROVE  /\ k[j] \in Nat /\ (Dir(t.node, j) => k[j] = 0)
                        /\ ~Dir(t.node, j) => t.node[j].nlink = Cardinality(Entries(t.node, j)) + k[j]
      BY DEF Linked
    <3>1. /\ k[j] \in Nat /\ (Dir(s.node, j) => k[j] = 0)
          /\ ~Dir(s.node, j) => s.node[j].nlink = Cardinality(Entries(s.node, j)) + k[j]
      BY DEF Good, Linked
    <3>2. CASE j = i
      <4>1. Cardinality(Entries(t.node, i)) = 0
        BY <2>4, <2>7
      <4>2. t.node[i].nlink = 0 /\ k[i] = 0
        BY <2>4, <2>5, FreeNodeIs
      <4> QED BY <2>8, <3>2, <4>1, <4>2
    <3>3. CASE j # i
      BY <1>2, <2>7, <2>10, <3>1, <3>3
    <3> QED BY <3>2, <3>3
  <2>14. DirsStay(s.node, t.node, NoInum)
    BY <2>6, <2>10 DEF DirsStay
  <2> QED BY <1>2, <1>4, <2>12, <2>13, <2>14 DEF Good, t
<1> QED BY <1>5, <1>6

(* A link more or less to what is not a directory. *)
LEMMA GoodNlink ==
  ASSUME NEW s, NEW k, NEW h, NEW b, Good(s, k, b), NEW i \in Inum, NEW c \in Int,
         ~Dir(s.node, i), s.ref[i] > 0, s.valid[i],
         \A j \in Inum : h[j] = (IF j = i THEN k[j] + c ELSE k[j]), h[i] \in Nat
  PROVE  /\ Good(Nlink(s, i, c), h, b) /\ DirsStay(s.node, Nlink(s, i, c).node, NoInum)
         /\ Nlink(s, i, c).ref = s.ref /\ Nlink(s, i, c).valid = s.valid
<1> DEFINE t == Nlink(s, i, c)
<1>1. s \in Memory /\ \A j \in Inum : s.node[j].nlink \in Int
  BY DEF Good, Memory, Node
<1>2. /\ t \in Memory /\ t.ref = s.ref /\ t.valid = s.valid
      /\ t.node[i].type = s.node[i].type /\ t.node[i].nlink = s.node[i].nlink + c
      /\ t.node[i].ent = s.node[i].ent /\ t.node[i].up = s.node[i].up
      /\ \A j \in Inum : j # i => t.node[j] = s.node[j]
  <2>1. s \in Memory
    BY <1>1
  <2> QED BY <2>1, NlinkIs
<1> HIDE DEF t
<1>3. \A j \in Inum : t.node[j].ent = s.node[j].ent /\ t.node[j].up = s.node[j].up /\ t.node[j].type = s.node[j].type
  BY <1>2
<1>4. \A j : Entries(t.node, j) = Entries(s.node, j)
  BY <1>3, SameEntries
<1>5. \A j \in Inum : (Dir(t.node, j) <=> Dir(s.node, j)) /\ (Free(t.node, j) <=> Free(s.node, j))
  BY <1>3 DEF Dir, Free
<1>6. Leaves(t.node)
  BY <1>3, <1>5 DEF Good, Tree, Leaves
<1>7. Tree(t.node)
  BY <1>2, <1>4, <1>5, <1>6, TreeSame DEF Good
<1>8. Linked(t.node, h)
  <2> SUFFICES ASSUME NEW j \in Inum
               PROVE  /\ h[j] \in Nat /\ (Dir(t.node, j) => h[j] = 0)
                      /\ ~Dir(t.node, j) => t.node[j].nlink = Cardinality(Entries(t.node, j)) + h[j]
    BY DEF Linked
  <2>1. /\ k[j] \in Nat /\ (Dir(s.node, j) => k[j] = 0)
        /\ ~Dir(s.node, j) => s.node[j].nlink = Cardinality(Entries(s.node, j)) + k[j]
        /\ Cardinality(Entries(s.node, j)) \in Nat
    BY EntriesFinite DEF Good, Linked
  <2>2. CASE j = i
    BY <1>2, <1>4, <1>5, <2>1, <2>2
  <2>3. CASE j # i
    BY <1>2, <1>4, <1>5, <2>1, <2>3
  <2> QED BY <2>2, <2>3
<1>9. Life(t, b)
  <2>1. ~Free(s.node, i)
    BY UsedIsKept
  <2> QED BY <1>2, <1>5, <2>1 DEF Good, Life
<1>10. DirsStay(s.node, t.node, NoInum)
  BY <1>3, <1>5 DEF DirsStay
<1> QED BY <1>2, <1>7, <1>8, <1>9, <1>10 DEF Good, t

(* What a free inode is. *)
LEMMA FreeIs ==
  ASSUME NEW s, NEW k, NEW b, Good(s, k, b), NEW i \in Inum, Free(s.node, i)
  PROVE  /\ s.ref[i] = 0 /\ ~s.valid[i] /\ s.node[i].nlink = 0 /\ s.node[i].ent = NoEnt /\ s.node[i].up = NoInum
         /\ k[i] = 0 /\ Entries(s.node, i) = {} /\ Cardinality(Entries(s.node, i)) = 0 /\ ~Dir(s.node, i)
         /\ i # ROOTINO /\ s.node[i] = FreeNode
<1>1. ~Dir(s.node, i)
  BY DEF Free, Dir
<1>2. s.ref[i] = 0 /\ ~s.valid[i] /\ s.node[i].nlink = 0 /\ s.node[i].ent = NoEnt /\ s.node[i].up = NoInum
  BY <1>1 DEF Good, Life, Tree, Leaves
<1>3. k[i] \in Nat /\ 0 = Cardinality(Entries(s.node, i)) + k[i]
  BY <1>1, <1>2 DEF Good, Linked
<1>4. k[i] = 0 /\ Entries(s.node, i) = {} /\ Cardinality(Entries(s.node, i)) = 0
  BY <1>3, EntriesFinite
<1>5. i # ROOTINO
  BY <1>1 DEF Good, Tree, Root
<1>6. s.node[i] = FreeNode
  <2>1. s.node[i] \in Node
    BY DEF Good, Memory
  <2> QED BY <1>2, <2>1 DEF Free, Node, FreeNode
<1> QED BY <1>1, <1>2, <1>4, <1>5, <1>6

(* ialloc() for a file or a device: a link without an entry. *)
LEMMA GoodNew ==
  ASSUME NEW s, NEW k, NEW h, NEW b, Good(s, k, b), NEW i \in Inum, NEW d \in Inum, NEW t \in Kind,
         Free(s.node, i), t # "dir", \A j \in Inum : h[j] = (IF j = i THEN k[j] + 1 ELSE k[j])
  PROVE  /\ Good(NewNode(s, i, d, t), h, b) /\ DirsStay(s.node, NewNode(s, i, d, t).node, NoInum)
         /\ \A j \in Inum : NewNode(s, i, d, t).ref[j] = s.ref[j] + Same(i, j)
         /\ NewNode(s, i, d, t).valid[i]
         /\ \A j \in Inum : j # i => NewNode(s, i, d, t).node[j] = s.node[j]
         /\ ~Dir(NewNode(s, i, d, t).node, i) /\ ~Free(NewNode(s, i, d, t).node, i)
<1> DEFINE m == NewNode(s, i, d, t)
<1>1. s \in Memory /\ \A j \in Inum : s.ref[j] \in Int
  BY RefsOf DEF Good
<1>2. /\ m \in Memory /\ m.node[i] = New(t, d) /\ m.valid[i]
      /\ \A j \in Inum : m.ref[j] = s.ref[j] + Same(i, j)
      /\ \A j \in Inum : j # i => m.node[j] = s.node[j] /\ m.valid[j] = s.valid[j]
      /\ New(t, d).type = t /\ New(t, d).nlink = 1 /\ New(t, d).ent = NoEnt /\ New(t, d).up = NoInum
  <2>1. s \in Memory
    BY <1>1
  <2> QED BY <2>1, NewNodeIs
<1> HIDE DEF m
<1>3. t # "free"
  BY DEF Kind
<1>4. /\ s.ref[i] = 0 /\ s.node[i].nlink = 0 /\ s.node[i].ent = NoEnt
      /\ k[i] = 0 /\ Entries(s.node, i) = {} /\ Cardinality(Entries(s.node, i)) = 0 /\ ~Dir(s.node, i)
  BY FreeIs
<1>5. \A j \in Inum : m.node[j].ent = s.node[j].ent
  BY <1>2, <1>4
<1>6. \A j : Entries(m.node, j) = Entries(s.node, j)
  BY <1>5, SameEntries
<1>7. ~Dir(m.node, i) /\ ~Free(m.node, i)
  BY <1>2, <1>3 DEF Dir, Free
<1>8. \A j \in Inum : Dir(m.node, j) <=> Dir(s.node, j)
  BY <1>2, <1>4, <1>7 DEF Dir
<1>9. \A j \in Inum : Dir(s.node, j) => m.node[j] = s.node[j]
  BY <1>2, <1>4
<1>10. Leaves(m.node)
  BY <1>2, <1>4, <1>8 DEF Good, Tree, Leaves
<1>11. Tree(m.node)
  BY <1>6, <1>8, <1>9, <1>10, TreeSame DEF Good
<1>12. Linked(m.node, h)
  <2> SUFFICES ASSUME NEW j \in Inum
               PROVE  /\ h[j] \in Nat /\ (Dir(m.node, j) => h[j] = 0)
                      /\ ~Dir(m.node, j) => m.node[j].nlink = Cardinality(Entries(m.node, j)) + h[j]
    BY DEF Linked
  <2>1. /\ k[j] \in Nat /\ (Dir(s.node, j) => k[j] = 0)
        /\ ~Dir(s.node, j) => s.node[j].nlink = Cardinality(Entries(s.node, j)) + k[j]
    BY DEF Good, Linked
  <2>2. CASE j = i
    <3>1. Cardinality(Entries(m.node, i)) = 0
      BY <1>4, <1>6
    <3>2. m.node[i].nlink = 1 /\ h[i] = 1
      BY <1>2, <1>4
    <3> QED BY <1>7, <2>2, <3>1, <3>2
  <2>3. CASE j # i
    BY <1>2, <1>6, <1>8, <2>1, <2>3
  <2> QED BY <2>2, <2>3
<1>13. Life(m, b)
  BY <1>1, <1>2, <1>4, <1>7 DEF Good, Life, Free, Same
<1>14. DirsStay(s.node, m.node, NoInum)
  BY <1>5, <1>8 DEF DirsStay
<1> QED BY <1>2, <1>7, <1>11, <1>12, <1>13, <1>14 DEF Good, m

(* One more link is pending to x, and one fewer to y. *)
Moved(k, h, x, y) ==
  /\ \A j \in Inum : h[j] = (IF j = x THEN k[j] + 1 ELSE IF j = y THEN k[j] - 1 ELSE k[j])
  /\ \A j \in Inum : h[j] \in Nat
NotDir(node, x) == x # NoInum => ~Dir(node, x)

(* dirlink() of what is not a directory, or the entry of one taken out. *)
LEMMA GoodEntry ==
  ASSUME NEW s, NEW k, NEW h, NEW b, NEW d \in Inum, NEW n \in Name,
         NEW x \in 0..NINODES, NEW y \in 0..NINODES, Good(s, k, b), Dir(s.node, d),
         s.node[d].ent[n] = x, NotDir(s.node, x), NotDir(s.node, y), x # y, Moved(k, h, x, y)
  PROVE  /\ Good(Dirlink(s, d, n, y), h, b) /\ DirsStay(s.node, Dirlink(s, d, n, y).node, d)
         /\ Dirlink(s, d, n, y).ref = s.ref /\ Dirlink(s, d, n, y).valid = s.valid
         /\ \A j \in Inum : Dirlink(s, d, n, y).node[j].type = s.node[j].type
<1> DEFINE t == Dirlink(s, d, n, y)
<1>0. /\ x # NoInum => ~Dir(s.node, x)
      /\ y # NoInum => ~Dir(s.node, y)
      /\ \A j \in Inum : h[j] = (IF j = x THEN k[j] + 1 ELSE IF j = y THEN k[j] - 1 ELSE k[j])
      /\ \A j \in Inum : h[j] \in Nat
  BY DEF NotDir, Moved
<1>1. s \in Memory
  BY DEF Good
<1>2. /\ t \in Memory /\ t.ref = s.ref /\ t.valid = s.valid
      /\ t.node[d].type = s.node[d].type /\ t.node[d].nlink = s.node[d].nlink
      /\ t.node[d].up = s.node[d].up /\ t.node[d].ent[n] = y
      /\ \A m \in Name : m # n => t.node[d].ent[m] = s.node[d].ent[m]
      /\ \A j \in Inum : j # d => t.node[j] = s.node[j]
  BY <1>1, DirlinkIs
<1> HIDE DEF t
<1>3. \A j \in Inum : /\ t.node[j].type = s.node[j].type /\ t.node[j].nlink = s.node[j].nlink
                      /\ t.node[j].up = s.node[j].up
  BY <1>2
<1>4. \A j \in Inum : (Dir(t.node, j) <=> Dir(s.node, j)) /\ (Free(t.node, j) <=> Free(s.node, j))
  BY <1>3 DEF Dir, Free
<1>5. OnlyEntry(s.node, t.node, d, n)
  <2> SUFFICES ASSUME NEW j \in Inum, NEW m \in Name, <<j, m>> # <<d, n>>
               PROVE  t.node[j].ent[m] = s.node[j].ent[m]
    BY DEF OnlyEntry
  <2>1. j # d \/ m # n
    OBVIOUS
  <2> QED BY <1>2, <2>1
<1>6. \A j : /\ t.node[d].ent[n] = j => Entries(t.node, j) = Entries(s.node, j) \cup {<<d, n>>}
             /\ t.node[d].ent[n] # j => Entries(t.node, j) = Entries(s.node, j) \ {<<d, n>>}
  BY <1>5, OneEntryStep DEF EntryStep
<1>7. \A j : <<d, n>> \in Entries(s.node, j) <=> j = x
  BY DEF Entries
<1>8. ASSUME NEW j \in Inum, j # x, j # y PROVE Entries(t.node, j) = Entries(s.node, j)
  <2>1. Entries(t.node, j) = Entries(s.node, j) \ {<<d, n>>}
    BY <1>2, <1>6, <1>8
  <2>2. <<d, n>> \notin Entries(s.node, j)
    BY <1>7, <1>8
  <2> QED BY <2>1, <2>2
<1>9. Leaves(t.node)
  BY <1>2, <1>4 DEF Good, Tree, Leaves
<1>10. \A j \in Inum : Dir(s.node, j) => Entries(t.node, j) = Entries(s.node, j)
  BY <1>0, <1>8, Inums
<1>11. Tree(t.node)
  BY <1>3, <1>4, <1>9, <1>10, TreeSame DEF Good
<1>12. Linked(t.node, h)
  <2> SUFFICES ASSUME NEW j \in Inum
               PROVE  /\ h[j] \in Nat /\ (Dir(t.node, j) => h[j] = 0)
                      /\ ~Dir(t.node, j) => t.node[j].nlink = Cardinality(Entries(t.node, j)) + h[j]
    BY DEF Linked
  <2>1. /\ k[j] \in Nat /\ (Dir(s.node, j) => k[j] = 0)
        /\ ~Dir(s.node, j) => s.node[j].nlink = Cardinality(Entries(s.node, j)) + k[j]
        /\ Cardinality(Entries(s.node, j)) \in Nat /\ IsFiniteSet(Entries(s.node, j))
        /\ h[j] \in Nat
    BY <1>0, EntriesFinite DEF Good, Linked
  <2>2. CASE j = x
    <3> DEFINE E == Entries(s.node, j)
    <3>1. Entries(t.node, j) = E \ {<<d, n>>} /\ <<d, n>> \in E
      BY <1>2, <1>6, <1>7, <2>2
    <3>2. IsFiniteSet(E) /\ Cardinality(E) \in Nat
      BY <2>1
    <3>3. ~Dir(s.node, j) /\ ~Dir(t.node, j) /\ h[j] = k[j] + 1
      BY <1>0, <1>4, <2>2, Inums
    <3>4. s.node[j].nlink = Cardinality(E) + k[j] /\ t.node[j].nlink = s.node[j].nlink
      BY <1>3, <2>1, <3>3
    <3> HIDE DEF E
    <3>5. Cardinality(E \ {<<d, n>>}) = Cardinality(E) - 1
      BY <3>1, <3>2, FS_RemoveElement
    <3>6. Cardinality(Entries(t.node, j)) = Cardinality(E) - 1
      BY <3>1, <3>5
    <3> QED BY <2>1, <3>2, <3>3, <3>4, <3>6
  <2>3. CASE j = y
    <3> DEFINE E == Entries(s.node, j)
    <3>1. Entries(t.node, j) = E \cup {<<d, n>>} /\ <<d, n>> \notin E
      BY <1>2, <1>6, <1>7, <2>3
    <3>2. IsFiniteSet(E) /\ Cardinality(E) \in Nat
      BY <2>1
    <3>3. ~Dir(s.node, j) /\ ~Dir(t.node, j) /\ h[j] = k[j] - 1
      BY <1>0, <1>4, <2>3, Inums
    <3>4. s.node[j].nlink = Cardinality(E) + k[j] /\ t.node[j].nlink = s.node[j].nlink
      BY <1>3, <2>1, <3>3
    <3> HIDE DEF E
    <3>5. Cardinality(E \cup {<<d, n>>}) = Cardinality(E) + 1
      BY <3>1, <3>2, FS_AddElement
    <3>6. Cardinality(Entries(t.node, j)) = Cardinality(E) + 1
      BY <3>1, <3>5
    <3> QED BY <2>1, <3>2, <3>3, <3>4, <3>6
  <2>4. CASE j # x /\ j # y
    <3>1. Entries(t.node, j) = Entries(s.node, j)
      BY <1>8, <2>4
    <3> QED BY <1>0, <1>3, <1>4, <2>1, <2>4, <3>1
  <2> QED BY <2>2, <2>3, <2>4
<1>13. Life(t, b)
  BY <1>2, <1>3, <1>4 DEF Good, Life
<1>14. DirsStay(s.node, t.node, d)
  BY <1>2, <1>4 DEF DirsStay
<1> QED BY <1>2, <1>3, <1>11, <1>12, <1>13, <1>14 DEF Good, t

(* mkdir() adds a leaf to the tree: the new directory i below d, its entry  *)
(* in d, and the link of its "..".                                          *)
LEMMA TreeGrows ==
  ASSUME NEW s, NEW k, NEW b, Good(s, k, b), NEW new \in [Inum -> Node], NEW d \in Inum, Dir(s.node, d),
         NEW i \in Inum, Free(s.node, i), NEW n \in Name, s.node[d].ent[n] = NoInum,
         new[i].type = "dir", new[i].nlink = 1, new[i].ent = NoEnt, new[i].up = d,
         new[d].type = s.node[d].type, new[d].nlink = s.node[d].nlink + 1, new[d].up = s.node[d].up,
         new[d].ent[n] = i, \A m \in Name : m # n => new[d].ent[m] = s.node[d].ent[m],
         \A j \in Inum : j # i /\ j # d => new[j] = s.node[j]
  PROVE  Tree(new) /\ Linked(new, k) /\ DirsStay(s.node, new, d)
<1> DEFINE node == s.node
<1>1. Tree(node) /\ Linked(node, k)
  BY DEF Good
<1>2. /\ node[i].ent = NoEnt /\ k[i] = 0 /\ Entries(node, i) = {} /\ ~Dir(node, i) /\ i # ROOTINO
  BY FreeIs
<1>3. Dir(node, d) /\ i # d /\ node[d].ent[n] = NoInum
  BY <1>2
<1>4. /\ new[d].type = node[d].type /\ new[d].nlink = node[d].nlink + 1 /\ new[d].up = node[d].up
      /\ \A m \in Name : m # n => new[d].ent[m] = node[d].ent[m]
      /\ \A j \in Inum : j # i /\ j # d => new[j] = node[j]
  OBVIOUS
<1> HIDE DEF node
<1>5. \A j \in Inum : Dir(new, j) <=> Dir(node, j) \/ j = i
  BY <1>3, <1>4 DEF Dir
<1>6. \A j \in Inum : j # i => new[j].up = node[j].up
  BY <1>4
<1>7. OnlyEntry(node, new, d, n)
  <2> SUFFICES ASSUME NEW j \in Inum, NEW m \in Name, <<j, m>> # <<d, n>>
               PROVE  new[j].ent[m] = node[j].ent[m]
    BY DEF OnlyEntry
  <2>1. j # d \/ m # n
    OBVIOUS
  <2>2. CASE j = i
    BY <1>2, <2>2
  <2>3. CASE j # i
    BY <1>4, <2>1, <2>3
  <2> QED BY <2>2, <2>3
<1>8. \A j : /\ new[d].ent[n] = j => Entries(new, j) = Entries(node, j) \cup {<<d, n>>}
             /\ new[d].ent[n] # j => Entries(new, j) = Entries(node, j) \ {<<d, n>>}
  BY <1>7, OneEntryStep DEF EntryStep
<1>9. Entries(new, i) = {<<d, n>>}
  BY <1>2, <1>8
<1>10. ASSUME NEW j \in Inum, j # i PROVE Entries(new, j) = Entries(node, j)
  <2>1. <<d, n>> \notin Entries(node, j)
    BY <1>3, Inums DEF Entries
  <2>2. Entries(new, j) = Entries(node, j) \ {<<d, n>>}
    BY <1>8, <1>10
  <2> QED BY <2>1, <2>2
<1>11. \A j \in Inum : Dir(node, j) => node[j].up # i
  BY <1>1, <1>2, Inums DEF Tree, Parents, Root
<1>12. Children(new, i) = {}
  BY <1>3, <1>5, <1>6, <1>11 DEF Children
<1>13. Children(new, d) = Children(node, d) \cup {i}
  BY <1>2, <1>5, <1>6 DEF Children
<1>14. \A j \in Inum : j # d /\ j # i => Children(new, j) = Children(node, j)
  BY <1>2, <1>5, <1>6 DEF Children
<1>15. Leaves(new)
  BY <1>1, <1>3, <1>4, <1>5 DEF Tree, Leaves
<1>16. Root(new)
  BY <1>1, <1>2, <1>5, <1>6, <1>10, Inums DEF Tree, Root
<1>17. Parents(new)
  <2> SUFFICES ASSUME NEW j \in Inum \ {ROOTINO}, Dir(new, j)
               PROVE  /\ new[j].up \in Inum /\ Dir(new, new[j].up)
                      /\ \E m \in Name : Entries(new, j) = {<<new[j].up, m>>}
    BY DEF Parents
  <2>1. CASE j = i
    BY <1>3, <1>5, <1>9, <2>1
  <2>2. CASE j # i
    <3>1. /\ node[j].up \in Inum /\ Dir(node, node[j].up)
          /\ \E m \in Name : Entries(node, j) = {<<node[j].up, m>>}
      BY <1>1, <1>5, <2>2 DEF Tree, Parents
    <3> QED BY <1>5, <1>6, <1>10, <2>2, <3>1
  <2> QED BY <2>1, <2>2
<1>18. Acyclic(new)
  <2> SUFFICES ASSUME NEW D \in SUBSET Inum, D # {} PROVE \E e \in D : D \cap Children(new, e) = {}
    BY DEF Acyclic
  <2>1. CASE i \in D
    BY <1>12, <2>1
  <2>2. CASE i \notin D
    <3>1. PICK e \in D : D \cap Children(node, e) = {}
      BY <1>1 DEF Tree, Acyclic
    <3>2. D \cap Children(new, e) = {}
      BY <1>13, <1>14, <2>2, <3>1
    <3> QED BY <3>2
  <2> QED BY <2>1, <2>2
<1>19. DirLinks(new)
  <2> SUFFICES ASSUME NEW j \in Inum, Dir(new, j) PROVE new[j].nlink = Cardinality(Children(new, j)) + 1
    BY DEF DirLinks
  <2>1. CASE j = i
    BY <1>12, <2>1, FS_EmptySet
  <2>2. CASE j = d
    <3> DEFINE C == Children(node, d)
    <3>1. node[d].nlink = Cardinality(C) + 1
      BY <1>1, <1>3 DEF Tree, DirLinks
    <3>2. i \notin C
      BY <1>2 DEF Children
    <3>3. IsFiniteSet(C) /\ Cardinality(C) \in Nat
      BY ChildrenFinite
    <3>4. Children(new, d) = C \cup {i}
      BY <1>13
    <3> HIDE DEF C
    <3>5. Cardinality(C \cup {i}) = Cardinality(C) + 1
      BY <3>2, <3>3, FS_AddElement
    <3>6. Cardinality(Children(new, d)) = Cardinality(C) + 1
      BY <3>4, <3>5
    <3> QED BY <1>4, <2>2, <3>1, <3>3, <3>6
  <2>3. CASE j # i /\ j # d
    <3>1. node[j].nlink = Cardinality(Children(node, j)) + 1
      BY <1>1, <1>5, <2>3 DEF Tree, DirLinks
    <3> QED BY <1>4, <1>14, <2>3, <3>1
  <2> QED BY <2>1, <2>2, <2>3
<1>20. Linked(new, k)
  <2> SUFFICES ASSUME NEW j \in Inum
               PROVE  /\ k[j] \in Nat /\ (Dir(new, j) => k[j] = 0)
                      /\ ~Dir(new, j) => new[j].nlink = Cardinality(Entries(new, j)) + k[j]
    BY DEF Linked
  <2>1. /\ k[j] \in Nat /\ (Dir(node, j) => k[j] = 0)
        /\ ~Dir(node, j) => node[j].nlink = Cardinality(Entries(node, j)) + k[j]
    BY <1>1 DEF Linked
  <2>2. CASE j = i
    BY <1>2, <1>5, <2>1, <2>2
  <2>3. CASE j # i
    <3>1. Entries(new, j) = Entries(node, j)
      BY <1>10, <2>3
    <3> QED BY <1>3, <1>4, <1>5, <2>1, <2>3, <3>1
  <2> QED BY <2>2, <2>3
<1>21. DirsStay(node, new, d)
  BY <1>2, <1>4, <1>5 DEF DirsStay
<1> QED BY <1>15, <1>16, <1>17, <1>18, <1>19, <1>20, <1>21 DEF Tree, node

LEMMA GoodMkdir ==
  ASSUME NEW s, NEW k, NEW b, Good(s, k, b), NEW d \in Inum, Dir(s.node, d),
         NEW i \in Inum, Free(s.node, i), NEW n \in Name, s.node[d].ent[n] = NoInum,
         NEW t, t = Nlink(Dirlink(NewNode(s, i, d, "dir"), d, n, i), d, 1)
  PROVE  /\ Good(t, k, b) /\ DirsStay(s.node, t.node, d)
         /\ \A j \in Inum : t.ref[j] = s.ref[j] + Same(i, j)
<1> DEFINE a == NewNode(s, i, d, "dir")
           e == Dirlink(a, d, n, i)
<1>1. s \in Memory /\ "dir" \in Kind /\ i \in 0..NINODES /\ i # d
  BY Inums DEF Good, Kind, Dir, Free
<1>2. /\ a \in Memory /\ a.node[i] = New("dir", d) /\ a.valid[i]
      /\ \A j \in Inum : a.ref[j] = s.ref[j] + Same(i, j)
      /\ \A j \in Inum : j # i => a.node[j] = s.node[j] /\ a.valid[j] = s.valid[j]
      /\ New("dir", d).type = "dir" /\ New("dir", d).nlink = 1 /\ New("dir", d).ent = NoEnt /\ New("dir", d).up = d
  <2>1. s \in Memory /\ "dir" \in Kind
    BY <1>1
  <2> QED BY <2>1, NewNodeIs
<1>3. t = Nlink(e, d, 1)
  OBVIOUS
<1> HIDE DEF a
<1>4. /\ e \in Memory /\ e.ref = a.ref /\ e.valid = a.valid
      /\ e.node[d].type = a.node[d].type /\ e.node[d].nlink = a.node[d].nlink
      /\ e.node[d].up = a.node[d].up /\ e.node[d].ent[n] = i
      /\ \A m \in Name : m # n => e.node[d].ent[m] = a.node[d].ent[m]
      /\ \A j \in Inum : j # d => e.node[j] = a.node[j]
  <2>1. a \in Memory /\ i \in 0..NINODES
    BY <1>1, <1>2
  <2> QED BY <2>1, DirlinkIs
<1> HIDE DEF e
<1>5. /\ t \in Memory /\ t.ref = e.ref /\ t.valid = e.valid
      /\ t.node[d].type = e.node[d].type /\ t.node[d].nlink = e.node[d].nlink + 1
      /\ t.node[d].ent = e.node[d].ent /\ t.node[d].up = e.node[d].up
      /\ \A j \in Inum : j # d => t.node[j] = e.node[j]
  <2>1. e \in Memory /\ 1 \in Int
    BY <1>4
  <2>2. /\ Nlink(e, d, 1) \in Memory
        /\ Nlink(e, d, 1).ref = e.ref /\ Nlink(e, d, 1).valid = e.valid
        /\ Nlink(e, d, 1).node[d].type = e.node[d].type
        /\ Nlink(e, d, 1).node[d].nlink = e.node[d].nlink + 1
        /\ Nlink(e, d, 1).node[d].ent = e.node[d].ent
        /\ Nlink(e, d, 1).node[d].up = e.node[d].up
        /\ \A j \in Inum : j # d => Nlink(e, d, 1).node[j] = e.node[j]
    BY <2>1, NlinkIs
  <2> QED BY <1>3, <2>2
<1>6. /\ t.node[i].type = "dir" /\ t.node[i].nlink = 1 /\ t.node[i].ent = NoEnt /\ t.node[i].up = d
      /\ t.node[d].type = s.node[d].type /\ t.node[d].nlink = s.node[d].nlink + 1 /\ t.node[d].up = s.node[d].up
      /\ t.node[d].ent[n] = i /\ \A m \in Name : m # n => t.node[d].ent[m] = s.node[d].ent[m]
      /\ \A j \in Inum : j # i /\ j # d => t.node[j] = s.node[j]
  BY <1>1, <1>2, <1>4, <1>5
<1>7. t.node \in [Inum -> Node]
  BY <1>5 DEF Memory
<1>8. Tree(t.node) /\ Linked(t.node, k) /\ DirsStay(s.node, t.node, d)
  BY <1>6, <1>7, TreeGrows
<1>9. s.ref[i] = 0 /\ \A j \in Inum : s.ref[j] \in Int
  BY <1>1, FreeIs, RefsOf
<1>10. Life(t, b)
  <2>1. s.node[d].nlink \in Nat /\ s.node[d].nlink > 0
    BY DirHasLinks DEF Good
  <2> SUFFICES ASSUME NEW j \in Inum
               PROVE  /\ t.valid[j] => t.ref[j] > 0
                      /\ Free(t.node, j) => t.ref[j] = 0 /\ t.node[j].nlink = 0
                      /\ ~Free(t.node, j) /\ t.node[j].nlink = 0 /\ j < b => t.ref[j] > 0 /\ t.valid[j]
    BY DEF Life
  <2>2. CASE j = i
    BY <1>2, <1>4, <1>5, <1>6, <1>9, <2>2 DEF Free, Same
  <2>3. CASE j # i
    <3>1. t.ref[j] = s.ref[j] /\ t.valid[j] = s.valid[j]
      BY <1>2, <1>4, <1>5, <1>9, <2>3 DEF Same
    <3>2. CASE j = d
      <4>1. t.node[d].nlink > 0 /\ t.node[d].type = "dir"
        BY <1>6, <2>1 DEF Dir
      <4> QED BY <3>1, <3>2, <4>1 DEF Good, Life, Free
    <3>3. CASE j # d
      BY <1>6, <2>3, <3>1, <3>3 DEF Good, Life, Free
    <3> QED BY <3>2, <3>3
  <2> QED BY <2>2, <2>3
<1>11. \A j \in Inum : t.ref[j] = s.ref[j] + Same(i, j)
  BY <1>2, <1>4, <1>5
<1> QED BY <1>5, <1>8, <1>10, <1>11 DEF Good

(* rmdir takes a leaf off the tree: the empty directory i, its entry in d,  *)
(* and the link of its "..".                                                *)
LEMMA TreeShrinks ==
  ASSUME NEW s, NEW k, NEW b, Good(s, k, b), NEW new \in [Inum -> Node], NEW d \in Inum, NEW n \in Name,
         NEW i \in Inum, s.node[d].ent[n] = i, Dir(s.node, i), s.node[i].ent = NoEnt,
         new[i] = FreeNode,
         new[d].type = s.node[d].type, new[d].nlink = s.node[d].nlink - 1, new[d].up = s.node[d].up,
         new[d].ent[n] = NoInum, \A m \in Name : m # n => new[d].ent[m] = s.node[d].ent[m],
         \A j \in Inum : j # i /\ j # d => new[j] = s.node[j]
  PROVE  Tree(new) /\ Linked(new, k)
<1> DEFINE node == s.node
<1>1. Tree(node) /\ Linked(node, k)
  BY DEF Good
<1>2. Dir(node, d) /\ i # ROOTINO /\ node[i].up = d /\ d # i
  <2>1. s.node[d].ent[n] # NoInum
    BY Inums
  <2>2. Dir(s.node, d) /\ i # ROOTINO /\ s.node[i].up = d
    BY <2>1, LedToIsUsed
  <2>3. d # i
    BY <2>1 DEF NoEnt
  <2> QED BY <2>2, <2>3
<1>3. Children(node, i) = {}
  BY <1>1, EmptyHasNoChild
<1>4. /\ new[d].type = node[d].type /\ new[d].nlink = node[d].nlink - 1 /\ new[d].up = node[d].up
      /\ \A m \in Name : m # n => new[d].ent[m] = node[d].ent[m]
      /\ \A j \in Inum : j # i /\ j # d => new[j] = node[j]
      /\ Dir(node, i) /\ node[d].ent[n] = i /\ node[i].ent = NoEnt
  OBVIOUS
<1> HIDE DEF node
<1>5. \A j \in Inum : Dir(new, j) <=> Dir(node, j) /\ j # i
  BY <1>2, <1>4, FreeNodeIs DEF Dir
<1>6. \A j \in Inum : j # i => new[j].up = node[j].up
  BY <1>4
<1>7. OnlyEntry(node, new, d, n)
  <2> SUFFICES ASSUME NEW j \in Inum, NEW m \in Name, <<j, m>> # <<d, n>>
               PROVE  new[j].ent[m] = node[j].ent[m]
    BY DEF OnlyEntry
  <2>1. j # d \/ m # n
    OBVIOUS
  <2>2. CASE j = i
    BY <1>4, <2>2, FreeNodeIs
  <2>3. CASE j # i
    BY <1>4, <2>1, <2>3
  <2> QED BY <2>2, <2>3
<1>8. \A j : /\ new[d].ent[n] = j => Entries(new, j) = Entries(node, j) \cup {<<d, n>>}
             /\ new[d].ent[n] # j => Entries(new, j) = Entries(node, j) \ {<<d, n>>}
  <2>1. EntryStep(node, new, d, n)
    BY <1>7, OneEntryStep
  <2> QED BY <2>1 DEF EntryStep
<1>9. Entries(new, i) = {}
  <2>1. PICK m \in Name : Entries(node, i) = {<<d, m>>}
    BY <1>1, <1>2, <1>4 DEF Tree, Parents
  <2>2. <<d, n>> \in Entries(node, i)
    BY <1>4 DEF Entries
  <2>3. Entries(node, i) = {<<d, n>>}
    BY <2>1, <2>2
  <2>4. Entries(new, i) = Entries(node, i) \ {<<d, n>>}
    BY <1>8, Inums
  <2> QED BY <2>3, <2>4
<1>10. ASSUME NEW j \in Inum, j # i PROVE Entries(new, j) = Entries(node, j)
  <2>1. <<d, n>> \notin Entries(node, j)
    BY <1>4, <1>10 DEF Entries
  <2>2. Entries(new, j) = Entries(node, j) \ {<<d, n>>}
    BY <1>8, <1>10, Inums
  <2> QED BY <2>1, <2>2
<1>11. \A j \in Inum \ {ROOTINO} : Dir(node, j) => node[j].up # i
  BY <1>3 DEF Children
<1>12. \A j \in Inum : Children(new, j) = Children(node, j) \ {i}
  BY <1>5, <1>6 DEF Children
<1>13. i \in Children(node, d) /\ \A j \in Inum : j # d => i \notin Children(node, j)
  BY <1>2, <1>4 DEF Children
<1>14. Leaves(new)
  BY <1>1, <1>2, <1>4, <1>5, FreeNodeIs DEF Tree, Leaves
<1>15. Root(new)
  BY <1>1, <1>2, <1>5, <1>6, <1>10, Inums DEF Tree, Root
<1>16. Parents(new)
  <2> SUFFICES ASSUME NEW j \in Inum \ {ROOTINO}, Dir(new, j)
               PROVE  /\ new[j].up \in Inum /\ Dir(new, new[j].up)
                      /\ \E m \in Name : Entries(new, j) = {<<new[j].up, m>>}
    BY DEF Parents
  <2>1. j # i /\ Dir(node, j)
    BY <1>5
  <2>2. /\ node[j].up \in Inum /\ Dir(node, node[j].up)
        /\ \E m \in Name : Entries(node, j) = {<<node[j].up, m>>}
    BY <1>1, <2>1 DEF Tree, Parents
  <2>3. new[j].up = node[j].up /\ Entries(new, j) = Entries(node, j)
    BY <1>6, <1>10, <2>1
  <2>4. Dir(new, node[j].up)
    BY <1>5, <1>11, <2>1, <2>2
  <2> QED BY <2>2, <2>3, <2>4
<1>17. Acyclic(new)
  <2> SUFFICES ASSUME NEW D \in SUBSET Inum, D # {} PROVE \E e \in D : D \cap Children(new, e) = {}
    BY DEF Acyclic
  <2>1. PICK e \in D : D \cap Children(node, e) = {}
    BY <1>1 DEF Tree, Acyclic
  <2>2. D \cap Children(new, e) = {}
    BY <1>12, <2>1
  <2> QED BY <2>2
<1>18. DirLinks(new)
  <2> SUFFICES ASSUME NEW j \in Inum, Dir(new, j) PROVE new[j].nlink = Cardinality(Children(new, j)) + 1
    BY DEF DirLinks
  <2> DEFINE C == Children(node, j)
  <2>1. j # i /\ Dir(node, j) /\ node[j].nlink = Cardinality(C) + 1
    BY <1>1, <1>5 DEF Tree, DirLinks
  <2>2. IsFiniteSet(C) /\ Cardinality(C) \in Nat /\ Children(new, j) = C \ {i}
    BY <1>12, ChildrenFinite
  <2>3. j = d <=> i \in C
    BY <1>13
  <2> HIDE DEF C
  <2>4. Cardinality(C \ {i}) = IF i \in C THEN Cardinality(C) - 1 ELSE Cardinality(C)
    <3>1. IsFiniteSet(C)
      BY <2>2
    <3> QED BY <3>1, FS_RemoveElement
  <2>5. Cardinality(Children(new, j)) = Cardinality(C \ {i})
    BY <2>2
  <2> QED BY <1>4, <2>1, <2>2, <2>3, <2>4, <2>5
<1>19. Linked(new, k)
  <2> SUFFICES ASSUME NEW j \in Inum
               PROVE  /\ k[j] \in Nat /\ (Dir(new, j) => k[j] = 0)
                      /\ ~Dir(new, j) => new[j].nlink = Cardinality(Entries(new, j)) + k[j]
    BY DEF Linked
  <2>1. /\ k[j] \in Nat /\ (Dir(node, j) => k[j] = 0)
        /\ ~Dir(node, j) => node[j].nlink = Cardinality(Entries(node, j)) + k[j]
    BY <1>1 DEF Linked
  <2>2. CASE j = i
    <3>1. Cardinality(Entries(new, i)) = 0
      BY <1>9, FS_EmptySet
    <3> QED BY <1>4, <2>1, <2>2, <3>1, FreeNodeIs
  <2>3. CASE j # i
    <3>1. Entries(new, j) = Entries(node, j)
      BY <1>10, <2>3
    <3> QED BY <1>2, <1>4, <1>5, <2>1, <2>3, <3>1
  <2> QED BY <2>2, <2>3
<1> QED BY <1>14, <1>15, <1>16, <1>17, <1>18, <1>19 DEF Tree

(* unlink() of an empty directory that nobody else refers to. *)
LEMMA GoodRmdir ==
  ASSUME NEW s, NEW k, NEW b, Good(s, k, b), NEW d \in Inum, NEW n \in Name, NEW i \in Inum,
         s.node[d].ent[n] = i, Dir(s.node, i), s.node[i].ent = NoEnt, s.ref[i] = 1, s.valid[i], s.ref[d] > 0,
         NEW t, t = Iput(Nlink(Iput(Nlink(Dirlink(s, d, n, NoInum), d, -1), d), i, -1), i)
  PROVE  /\ Good(t, k, b)
         /\ \A j \in Inum : Dir(s.node, j) /\ j # i =>
              Dir(t.node, j) /\ (j # d => t.node[j].ent = s.node[j].ent)
<1> DEFINE e == Dirlink(s, d, n, NoInum)
           f == Nlink(e, d, -1)
           g == Iput(f, d)
           h == Nlink(g, i, -1)
<1>1. s \in Memory /\ NoInum \in 0..NINODES /\ \A j \in Inum : s.ref[j] \in Int
  BY RefsOf, NINODESAssumption DEF Good, NoInum
<1>2. Dir(s.node, d) /\ i # ROOTINO /\ d # i
  <2>1. s.node[d].ent[n] # NoInum
    BY Inums
  <2>2. Dir(s.node, d) /\ i # ROOTINO
    BY <2>1, LedToIsUsed
  <2>3. d # i
    BY <2>1 DEF NoEnt
  <2> QED BY <2>2, <2>3
<1>3. Children(s.node, i) = {}
  BY EmptyHasNoChild DEF Good
<1>4. s.node[i].nlink = 1
  <2>1. s.node[i].nlink = Cardinality(Children(s.node, i)) + 1
    BY DEF Good, Tree, DirLinks
  <2> QED BY <1>3, <2>1, FS_EmptySet
<1>5. s.node[d].nlink \in Nat /\ s.node[d].nlink > 1
  <2> DEFINE C == Children(s.node, d)
  <2>1. s.node[d].nlink = Cardinality(C) + 1
    BY <1>2 DEF Good, Tree, DirLinks
  <2>2. s.node[d].ent[n] # NoInum
    BY Inums
  <2>3. s.node[i].up = d
    BY <2>2, LedToIsUsed
  <2>4. i \in C
    BY <1>2, <2>3 DEF Children
  <2>5. Cardinality(C) \in Nat /\ (Cardinality(C) = 0 <=> C = {})
    BY ChildrenFinite
  <2> HIDE DEF C
  <2>6. Cardinality(C) # 0
    BY <2>4, <2>5
  <2> QED BY <2>1, <2>5, <2>6
<1>6. t = Iput(h, i)
  OBVIOUS
<1>7. /\ e \in Memory /\ e.ref = s.ref /\ e.valid = s.valid
      /\ e.node[d].type = s.node[d].type /\ e.node[d].nlink = s.node[d].nlink
      /\ e.node[d].up = s.node[d].up /\ e.node[d].ent[n] = NoInum
      /\ \A m \in Name : m # n => e.node[d].ent[m] = s.node[d].ent[m]
      /\ \A j \in Inum : j # d => e.node[j] = s.node[j]
  BY <1>1, DirlinkIs
<1> HIDE DEF e
<1>8. /\ f \in Memory /\ f.ref = e.ref /\ f.valid = e.valid
      /\ f.node[d].type = e.node[d].type /\ f.node[d].nlink = e.node[d].nlink + (-1)
      /\ f.node[d].ent = e.node[d].ent /\ f.node[d].up = e.node[d].up
      /\ \A j \in Inum : j # d => f.node[j] = e.node[j]
  <2>1. e \in Memory /\ -1 \in Int
    BY <1>7
  <2> QED BY <2>1, NlinkIs
<1> HIDE DEF f
<1>9. f.node[d].nlink = s.node[d].nlink - 1 /\ f.node[d].nlink > 0
  BY <1>5, <1>7, <1>8
<1>10. /\ g \in Memory /\ g.node = f.node
       /\ \A j \in Inum : g.ref[j] = f.ref[j] - Same(d, j)
       /\ \A j \in Inum : j # d => g.valid[j] = f.valid[j]
       /\ g.valid[d] => f.ref[d] > 1
  <2>1. ~LastReference(f, d)
    BY <1>9 DEF LastReference
  <2>2. f \in Memory
    BY <1>8
  <2> QED BY <2>1, <2>2, IputIs
<1> HIDE DEF g
<1>11. /\ h \in Memory /\ h.ref = g.ref /\ h.valid = g.valid
       /\ h.node[i].nlink = g.node[i].nlink + (-1)
       /\ \A j \in Inum : j # i => h.node[j] = g.node[j]
  <2>1. g \in Memory /\ -1 \in Int
    BY <1>10
  <2> QED BY <2>1, NlinkIs
<1> HIDE DEF h
<1>12. h.node[i].nlink = 0 /\ h.ref[i] = 1 /\ h.valid[i]
  <2>1. h.node[i].nlink = 0
    BY <1>2, <1>4, <1>7, <1>8, <1>10, <1>11
  <2>2. h.ref[i] = 1
    BY <1>2, <1>7, <1>8, <1>10, <1>11 DEF Same
  <2>3. h.valid[i]
    BY <1>2, <1>7, <1>8, <1>10, <1>11
  <2> QED BY <2>1, <2>2, <2>3
<1>13. /\ t \in Memory /\ t.node[i] = FreeNode /\ ~t.valid[i]
       /\ \A j \in Inum : t.ref[j] = h.ref[j] - Same(i, j)
       /\ \A j \in Inum : j # i => t.node[j] = h.node[j] /\ t.valid[j] = h.valid[j]
  <2>1. LastReference(h, i)
    BY <1>12 DEF LastReference
  <2>2. h \in Memory
    BY <1>11
  <2>3. /\ Iput(h, i) \in Memory
        /\ \A j \in Inum : Iput(h, i).ref[j] = h.ref[j] - Same(i, j)
        /\ Iput(h, i).node[i] = FreeNode
        /\ \A j \in Inum : j # i => /\ Iput(h, i).node[j] = h.node[j]
                                    /\ Iput(h, i).valid[j] = h.valid[j]
        /\ ~Iput(h, i).valid[i]
    BY <2>1, <2>2, IputIs
  <2> QED BY <1>6, <2>3
<1>14. /\ t.node[d].type = s.node[d].type /\ t.node[d].nlink = s.node[d].nlink - 1 /\ t.node[d].up = s.node[d].up
       /\ t.node[d].ent[n] = NoInum /\ \A m \in Name : m # n => t.node[d].ent[m] = s.node[d].ent[m]
       /\ \A j \in Inum : j # i /\ j # d => t.node[j] = s.node[j]
  BY <1>2, <1>7, <1>8, <1>9, <1>10, <1>11, <1>13
<1>15. t.node \in [Inum -> Node]
  BY <1>13 DEF Memory
<1>16. Tree(t.node) /\ Linked(t.node, k)
  BY <1>13, <1>14, <1>15, TreeShrinks
<1>17. Life(t, b)
  <2> SUFFICES ASSUME NEW j \in Inum
               PROVE  /\ t.valid[j] => t.ref[j] > 0
                      /\ Free(t.node, j) => t.ref[j] = 0 /\ t.node[j].nlink = 0
                      /\ ~Free(t.node, j) /\ t.node[j].nlink = 0 /\ j < b => t.ref[j] > 0 /\ t.valid[j]
    BY DEF Life
  <2>1. CASE j = i
    BY <1>12, <1>13, <2>1, FreeNodeIs DEF Free, Same
  <2>2. CASE j = d
    <3>1. t.ref[d] = s.ref[d] - 1 /\ (t.valid[d] => s.ref[d] > 1)
      BY <1>1, <1>2, <1>7, <1>8, <1>10, <1>11, <1>13 DEF Same
    <3>2. ~Free(t.node, d) /\ t.node[d].nlink > 0
      BY <1>2, <1>5, <1>14 DEF Dir, Free
    <3> QED BY <1>1, <2>2, <3>1, <3>2
  <2>3. CASE j # i /\ j # d
    <3>1. t.ref[j] = s.ref[j] /\ t.valid[j] = s.valid[j] /\ t.node[j] = s.node[j]
      BY <1>1, <1>7, <1>8, <1>10, <1>11, <1>13, <1>14, <2>3 DEF Same
    <3> QED BY <3>1 DEF Good, Life, Free
  <2> QED BY <2>1, <2>2, <2>3
<1>18. \A j \in Inum : Dir(s.node, j) /\ j # i =>
              Dir(t.node, j) /\ (j # d => t.node[j].ent = s.node[j].ent)
  BY <1>2, <1>14 DEF Dir
<1> QED BY <1>13, <1>16, <1>17, <1>18 DEF Good

(* create() gives the new inode back when the entry cannot be written. *)
LEMMA GoodUndone ==
  ASSUME NEW s, NEW k, NEW b, Good(s, k, b), NEW i \in Inum, NEW d \in Inum, NEW c \in Kind, Free(s.node, i),
         NEW t, t = Iput(Nlink(NewNode(s, i, d, c), i, -1), i)
  PROVE  /\ Good(t, k, b) /\ DirsStay(s.node, t.node, NoInum)
         /\ \A j \in Inum : t.ref[j] = s.ref[j]
<1> DEFINE a == NewNode(s, i, d, c)
           u == Nlink(a, i, -1)
<1>1. s \in Memory /\ (\A j \in Inum : s.ref[j] \in Int) /\ -1 \in Int
  BY RefsOf DEF Good
<1>2. /\ a \in Memory /\ a.node[i] = New(c, d) /\ a.valid[i]
      /\ \A j \in Inum : a.ref[j] = s.ref[j] + Same(i, j)
      /\ \A j \in Inum : j # i => a.node[j] = s.node[j] /\ a.valid[j] = s.valid[j]
      /\ New(c, d).nlink = 1
  <2>1. s \in Memory
    BY <1>1
  <2> QED BY <2>1, NewNodeIs
<1>3. t = Iput(u, i)
  OBVIOUS
<1> HIDE DEF a
<1>4. /\ u \in Memory /\ u.ref = a.ref /\ u.valid = a.valid
      /\ u.node[i].nlink = a.node[i].nlink + (-1)
      /\ \A j \in Inum : j # i => u.node[j] = a.node[j]
  <2>1. a \in Memory /\ -1 \in Int
    BY <1>2
  <2> QED BY <2>1, NlinkIs
<1> HIDE DEF u
<1>5. s.ref[i] = 0 /\ ~s.valid[i] /\ s.node[i] = FreeNode
  BY FreeIs
<1>6. LastReference(u, i)
  <2>1. u.node[i].nlink = 0
    BY <1>2, <1>4
  <2>2. u.ref[i] = 1
    BY <1>2, <1>4, <1>5 DEF Same
  <2> QED BY <1>2, <1>4, <2>1, <2>2 DEF LastReference
<1>7. /\ t \in Memory /\ t.node[i] = FreeNode /\ ~t.valid[i]
      /\ \A j \in Inum : t.ref[j] = u.ref[j] - Same(i, j)
      /\ \A j \in Inum : j # i => t.node[j] = u.node[j] /\ t.valid[j] = u.valid[j]
  <2>1. u \in Memory
    BY <1>4
  <2>2. /\ Iput(u, i) \in Memory
        /\ \A j \in Inum : Iput(u, i).ref[j] = u.ref[j] - Same(i, j)
        /\ Iput(u, i).node[i] = FreeNode
        /\ \A j \in Inum : j # i => /\ Iput(u, i).node[j] = u.node[j]
                                    /\ Iput(u, i).valid[j] = u.valid[j]
        /\ ~Iput(u, i).valid[i]
    BY <1>6, <2>1, IputIs
  <2> QED BY <1>3, <2>2
<1>8. \A j \in Inum : t.node[j] = s.node[j] /\ (t.valid[j] <=> s.valid[j])
  <2> SUFFICES ASSUME NEW j \in Inum PROVE t.node[j] = s.node[j] /\ (t.valid[j] <=> s.valid[j])
    OBVIOUS
  <2>1. CASE j = i
    BY <1>5, <1>7, <2>1
  <2>2. CASE j # i
    <3>1. t.node[j] = u.node[j] /\ t.valid[j] = u.valid[j]
      BY <1>7, <2>2
    <3>2. u.node[j] = a.node[j] /\ u.valid[j] = a.valid[j]
      BY <1>4, <2>2
    <3>3. a.node[j] = s.node[j] /\ a.valid[j] = s.valid[j]
      BY <1>2, <2>2
    <3> QED BY <3>1, <3>2, <3>3
  <2> QED BY <2>1, <2>2
<1>9. \A j \in Inum : t.ref[j] = s.ref[j]
  BY <1>1, <1>2, <1>4, <1>7, SameInt
<1>10. t.node = s.node
  BY <1>1, <1>7, <1>8 DEF Memory
<1>11. Life(t, b)
  BY <1>8, <1>9 DEF Good, Life, Free
<1> QED BY <1>7, <1>9, <1>10, <1>11 DEF Good, DirsStay

-----------------------------------------------------------------------------
(* What a process holds is counted. *)

LEMMA CountTwo ==
  ASSUME NEW f, NEW i, NEW p \in Process, NEW q \in Process
  PROVE  /\ Count(f, i) \in Nat /\ Same(f[p], i) <= Count(f, i)
         /\ p # q => Same(f[p], i) + Same(f[q], i) <= Count(f, i)
<1> DEFINE A == {r \in Process : f[r] = i}
           B == A \ {p}
<1>1. IsFiniteSet(A)
  <2>1. A \in SUBSET Process
    OBVIOUS
  <2> HIDE DEF A, B
  <2> QED BY <2>1, ProcessAssumption, FS_Subset
<1>2. (p \in A <=> f[p] = i) /\ (q \in A <=> f[q] = i) /\ Count(f, i) = Cardinality(A)
  BY DEF Count
<1> HIDE DEF A
<1>3. IsFiniteSet(B) /\ Cardinality(B) = IF p \in A THEN Cardinality(A) - 1 ELSE Cardinality(A)
  BY <1>1, FS_RemoveElement
<1>4. p # q => (q \in B <=> q \in A)
  OBVIOUS
<1> HIDE DEF B
<1>5. IsFiniteSet(B \ {q}) /\ Cardinality(B \ {q}) = IF q \in B THEN Cardinality(B) - 1 ELSE Cardinality(B)
  BY <1>3, FS_RemoveElement
<1>6. Cardinality(A) \in Nat /\ Cardinality(B) \in Nat /\ Cardinality(B \ {q}) \in Nat
  BY <1>1, <1>3, <1>5, FS_CardinalityType
<1> QED BY <1>2, <1>3, <1>4, <1>5, <1>6 DEF Same

LEMMA OwnRefs ==
  ASSUME RefsAreHolders, NEW p \in Process, NEW q \in Process, NEW i \in Inum
  PROVE  /\ st.ref[i] \in Nat /\ Own(p, i) <= st.ref[i]
         /\ p # q => Own(p, i) + Own(q, i) <= st.ref[i]
<1>1. st.ref[i] = Count(cwd, i) + Count(fd, i) + Count(ip, i) + Count(dp, i) + Count(old, i)
  BY HoldersAre
<1>2. \A f : /\ Count(f, i) \in Nat /\ Same(f[p], i) <= Count(f, i)
             /\ p # q => Same(f[p], i) + Same(f[q], i) <= Count(f, i)
  BY CountTwo
<1>3. /\ Count(cwd, i) \in Nat /\ Same(cwd[p], i) <= Count(cwd, i)
      /\ p # q => Same(cwd[p], i) + Same(cwd[q], i) <= Count(cwd, i)
  BY CountTwo
<1>4. /\ Count(fd, i) \in Nat /\ Same(fd[p], i) <= Count(fd, i)
      /\ p # q => Same(fd[p], i) + Same(fd[q], i) <= Count(fd, i)
  BY CountTwo
<1>5. /\ Count(ip, i) \in Nat /\ Same(ip[p], i) <= Count(ip, i)
      /\ p # q => Same(ip[p], i) + Same(ip[q], i) <= Count(ip, i)
  BY CountTwo
<1>6. /\ Count(dp, i) \in Nat /\ Same(dp[p], i) <= Count(dp, i)
      /\ p # q => Same(dp[p], i) + Same(dp[q], i) <= Count(dp, i)
  BY CountTwo
<1>7. /\ Count(old, i) \in Nat /\ Same(old[p], i) <= Count(old, i)
      /\ p # q => Same(old[p], i) + Same(old[q], i) <= Count(old, i)
  BY CountTwo
<1>8. /\ Own(p, i) = Same(cwd[p], i) + Same(fd[p], i) + Same(ip[p], i) + Same(dp[p], i) + Same(old[p], i)
      /\ Own(q, i) = Same(cwd[q], i) + Same(fd[q], i) + Same(ip[q], i) + Same(dp[q], i) + Same(old[q], i)
  BY DEF Own
<1> QED BY <1>1, <1>3, <1>4, <1>5, <1>6, <1>7, <1>8, SameInt

LEMMA OwnIs ==
  ASSUME NEW p, NEW i
  PROVE  /\ Own(p, i) \in Nat
         /\ cwd[p] = i \/ fd[p] = i \/ ip[p] = i \/ dp[p] = i \/ old[p] = i => Own(p, i) > 0
         /\ ip[p] = i /\ dp[p] = i => Own(p, i) > 1
  BY DEF Own, Same

(* Pending links are those of the calls. *)
Pends == [q \in Process |-> Pend(q)]

LEMMA PendingIs == \A i \in Inum : Pending[i] = Count(Pends, i)
<1> TAKE i \in Inum
<1>1. {p \in Process : Pend(p) = i} = {p \in Process : Pends[p] = i}
  BY DEF Pends
<1> QED BY <1>1 DEF Pending, Count

LEMMA PendStep ==
  ASSUME NEW p \in Process, Others(p)
  PROVE  \A i \in Inum : /\ Pending[i] \in Nat
                         /\ Pending'[i] = Pending[i] - Same(Pend(p), i) + Same(Pend(p)', i)
<1> SUFFICES ASSUME NEW i \in Inum
             PROVE  /\ Pending[i] \in Nat
                    /\ Pending'[i] = Pending[i] - Same(Pend(p), i) + Same(Pend(p)', i)
  OBVIOUS
<1>1. \A q \in Process \ {p} : Pends'[q] = Pends[q]
  BY DEF Pends, Pend, Others
<1>2. Pends[p] = Pend(p) /\ Pends'[p] = Pend(p)'
  BY DEF Pends
<1>3. /\ Count(Pends, i) \in Nat
      /\ Count(Pends', i) = Count(Pends, i) - Same(Pends[p], i) + Same(Pends'[p], i)
  <2> DEFINE f == Pends
             g == Pends'
  <2>1. \A q \in Process \ {p} : g[q] = f[q]
    BY <1>1
  <2> HIDE DEF f, g
  <2>2. Count(f, i) \in Nat /\ Count(g, i) = Count(f, i) - Same(f[p], i) + Same(g[p], i)
    BY <2>1, CountUpdate
  <2> QED BY <2>2 DEF f, g
<1>4. Pending[i] = Count(Pends, i)
  BY PendingIs
<1>5. Pending'[i] = Count(Pends', i)
  <2>1. \A q \in Process : Pends'[q] = Pend(q)'
    BY DEF Pends
  <2>2. {q \in Process : Pend(q)' = i} = {q \in Process : Pends'[q] = i}
    BY <2>1
  <2>3. Pending'[i] = Cardinality({q \in Process : Pend(q)' = i})
    BY DEF Pending
  <2> QED BY <2>2, <2>3 DEF Count
<1> QED BY <1>2, <1>3, <1>4, <1>5

-----------------------------------------------------------------------------
(* What a step of p may do to the nodes and the locks of others. *)
Kept(p) ==
  \A q \in Process \ {p} : \A i \in Inum : (ip[q] = i \/ dp[q] = i) /\ Dir(st.node, i) =>
    Dir(st'.node, i) /\ (lock[i] = q => st'.node[i].ent = st.node[i].ent)
LockStep(p) ==
  \A i \in Inum : /\ lock'[i] = p => pc'[p] = "unlinkat" /\ dp'[p] = i
                  /\ lock'[i] # lock[i] => lock[i] \in {None, p} /\ lock'[i] \in {None, p}

LEMMA KeptIfStay ==
  ASSUME NEW p \in Process, NEW d \in 0..NINODES, DirsStay(st.node, st'.node, d),
         d \in Inum => lock[d] = None \/ lock[d] = p
  PROVE  Kept(p)
<1> SUFFICES ASSUME NEW q \in Process \ {p}, NEW i \in Inum, Dir(st.node, i)
             PROVE  Dir(st'.node, i) /\ (lock[i] = q => st'.node[i].ent = st.node[i].ent)
  BY DEF Kept
<1>1. lock[i] = q => i # d
  BY ProcessAssumption
<1> QED BY <1>1 DEF DirsStay

LEMMA NoLock ==
  ASSUME NodeInv, NEW p \in Process, pc[p] # "unlinkat", lock' = lock
  PROVE  LockStep(p)
  BY ProcessAssumption DEF NodeInv, LocksHeld, LockStep

LEMMA NodeStep ==
  ASSUME NameInv, CallInv', NEW p \in Process, NEW h, Others(p), boot' = boot, Good(st', h, boot),
         \A i \in Inum : h[i] = Pending[i] - Same(Pend(p), i) + Same(Pend(p)', i),
         LockStep(p), Kept(p), Knows(p)', com' = com \/ Committed(com')
  PROVE  NodeInv'
<1>1. Good(st, Pending, boot)'
  <2>1. \A i \in Inum : Pending'[i] = h[i]
    BY PendStep
  <2> DEFINE k == Pending'
  <2>2. \A i \in Inum : k[i] = h[i]
    BY <2>1
  <2> HIDE DEF k
  <2>3. Good(st', k, boot)
    BY <2>2, GoodCount
  <2> QED BY <2>3 DEF k
<1>2. Committed(com)'
  BY DEF NameInv, NodeInv
<1>3. LocksHeld'
  <2> SUFFICES ASSUME NEW i \in Inum, lock'[i] # None
               PROVE  pc'[lock'[i]] = "unlinkat" /\ dp'[lock'[i]] = i
    BY DEF LocksHeld
  <2>1. CASE lock'[i] = p
    BY <2>1 DEF LockStep
  <2>2. CASE lock'[i] # p
    <3>1. lock'[i] = lock[i] /\ lock[i] \in Process \ {p}
      BY <2>2 DEF LockStep, NameInv, CallInv, TypeInv
    <3>2. pc[lock[i]] = "unlinkat" /\ dp[lock[i]] = i
      BY <3>1 DEF NameInv, NodeInv, LocksHeld
    <3> QED BY <3>1, <3>2 DEF Others
  <2> QED BY <2>1, <2>2
<1>4. ASSUME NEW q \in Process PROVE Knows(q)'
  <2>1. CASE q = p
    BY <2>1
  <2>2. CASE q # p
    <3>1. /\ pc'[q] = pc[q] /\ ip'[q] = ip[q] /\ dp'[q] = dp[q] /\ rest'[q] = rest[q]
          /\ Knows(q)
      BY <2>2 DEF Others, NameInv, NodeInv
    <3>2. ip[q] \in 0..NINODES /\ dp[q] \in 0..NINODES
      BY DEF NameInv, CallInv, TypeInv
    <3>3. CASE pc[q] \in WithName \ {"unlinkat"}
      <4>1. ip[q] \in Inum
        BY <3>2, <3>3 DEF NameInv, CallInv, Held, HeldBy, WithName, CreateOp, Inum, NoInum
      <4>2. Dir(st'.node, ip[q])
        BY <2>2, <3>1, <3>3, <4>1 DEF Knows, Kept
      <4> QED BY <3>1, <3>3, <4>2 DEF Knows
    <3>4. CASE pc[q] = "unlinkat"
      <4>1. dp[q] \in Inum
        BY <3>2, <3>4 DEF NameInv, CallInv, Held, HeldBy, Inum, NoInum
      <4>2. /\ lock[dp[q]] = q /\ Dir(st.node, dp[q])
            /\ rest[q][1] \in Name /\ st.node[dp[q]].ent[rest[q][1]] = ip[q]
        BY <3>1, <3>4 DEF Knows
      <4>3. Dir(st'.node, dp[q]) /\ st'.node[dp[q]].ent = st.node[dp[q]].ent
        BY <2>2, <4>1, <4>2 DEF Kept
      <4>4. lock'[dp[q]] = q
        BY <2>2, <4>1, <4>2, ProcessAssumption DEF LockStep
      <4> QED BY <3>1, <3>4, <4>2, <4>3, <4>4 DEF Knows
    <3>5. CASE pc[q] \notin WithName
      BY <3>1, <3>5 DEF Knows, WithName
    <3> QED BY <3>3, <3>4, <3>5
  <2> QED BY <2>1, <2>2
<1> QED BY <1>1, <1>2, <1>3, <1>4 DEF NodeInv

(* When the last call returns, no link is pending. *)
LEMMA CommittedIfQuiet ==
  ASSUME NEW s, NEW k, NEW b, Good(s, k, b), \A i \in Inum : k[i] = 0
  PROVE  Committed(s.node)
<1>1. Tree(s.node) /\ Linked(s.node, k) /\ Life(s, b)
  BY DEF Good
<1>2. \A i \in Inum : ~Dir(s.node, i) => s.node[i].nlink = Cardinality(Entries(s.node, i))
  BY <1>1, EntriesFinite DEF Linked
<1>3. \A i \in Inum : Free(s.node, i) => s.node[i].nlink = 0
  BY <1>1 DEF Life
<1> QED BY <1>1, <1>2, <1>3 DEF Committed

LEMMA QuietNow ==
  ASSUME CallInv, \A q \in Process : pc[q] = "idle"
  PROVE  \A i \in Inum : Pending[i] = 0
<1> SUFFICES ASSUME NEW i \in Inum PROVE Pending[i] = 0
  OBVIOUS
<1>1. \A q \in Process : Pend(q) = NoInum
  BY DEF CallInv, Held, HeldBy, Pend
<1>2. {q \in Process : Pend(q) = i} = {}
  BY <1>1, Inums
<1>3. Pending[i] = Cardinality({q \in Process : Pend(q) = i})
  BY DEF Pending
<1> QED BY <1>2, <1>3, FS_EmptySet

LEMMA ReturnNodes ==
  ASSUME NameInv, CallInv', NEW p \in Process, NEW s, NEW h, Others(p), Return(p, s), Good(s, h, boot),
         \A i \in Inum : h[i] = Pending[i] - Same(Pend(p), i), LockStep(p), Kept(p)
  PROVE  NodeInv'
<1>1. /\ st' = s /\ boot' = boot /\ pc'[p] = "idle" /\ old'[p] = NoInum
      /\ com' = IF LastOut(p) THEN s.node ELSE com
  BY DEF Return, NameInv, CallInv, TypeInv
<1>2. Pend(p)' = NoInum /\ Knows(p)'
  BY <1>1 DEF Pend, Knows, WithName, CreateOp
<1>3. \A i \in Inum : h[i] = Pending[i] - Same(Pend(p), i) + Same(Pend(p)', i)
  <2> TAKE i \in Inum
  <2>1. Pending[i] \in Nat /\ Same(Pend(p), i) \in Int /\ Same(Pend(p)', i) = 0
    BY <1>2, PendStep, SameInt, SameNone
  <2> QED BY <2>1
<1>4. com' = com \/ Committed(com')
  <2>1. CASE LastOut(p)
    <3>1. \A q \in Process : pc'[q] = "idle"
      BY <1>1, <2>1 DEF LastOut, Others
    <3>2. \A i \in Inum : h[i] = 0
      <4> TAKE i \in Inum
      <4>1. Pending'[i] = h[i]
        BY <1>3, PendStep
      <4>2. \A q \in Process : Pend(q)' = NoInum
        BY <3>1 DEF CallInv, Held, HeldBy, Pend
      <4>3. {q \in Process : Pend(q)' = i} = {}
        BY <4>2, Inums
      <4>4. Pending'[i] = Cardinality({q \in Process : Pend(q)' = i})
        BY DEF Pending
      <4> QED BY <4>1, <4>3, <4>4, FS_EmptySet
    <3>3. Committed(s.node)
      BY <3>2, CommittedIfQuiet
    <3> QED BY <1>1, <2>1, <3>3
  <2>2. CASE ~LastOut(p)
    BY <1>1, <2>2
  <2> QED BY <2>1, <2>2
<1> QED BY <1>1, <1>2, <1>3, <1>4, NodeStep

(* A call without pending links returns and changes no directory. *)
LEMMA PlainReturn ==
  ASSUME NameInv, CallInv', NEW p \in Process, NEW s, Others(p), Return(p, s), Good(s, Pending, boot),
         pc[p] # "unlinkat", Pend(p) = NoInum, lock' = lock, DirsStay(st.node, s.node, NoInum)
  PROVE  NodeInv'
<1>1. \A i \in Inum : Pending[i] = Pending[i] - Same(Pend(p), i)
  BY PendStep, SameNone
<1>2. LockStep(p)
  BY NoLock DEF NameInv
<1>3. Kept(p)
  <2>1. st' = s
    BY DEF Return
  <2>2. NoInum \in 0..NINODES /\ NoInum \notin Inum
    BY Inums, NINODESAssumption DEF NoInum
  <2> QED BY <2>1, <2>2, KeptIfStay
<1> DEFINE h == Pending
<1>4. \A i \in Inum : h[i] = Pending[i] - Same(Pend(p), i)
  BY <1>1
<1>5. Good(s, h, boot)
  OBVIOUS
<1> HIDE DEF h
<1> QED BY <1>2, <1>3, <1>4, <1>5, ReturnNodes

(* A call goes on, with the same link pending, and changes no directory. *)
LEMMA PlainStep ==
  ASSUME NameInv, CallInv', NEW p \in Process, Others(p), boot' = boot, com' = com, lock' = lock,
         pc[p] # "unlinkat", Pend(p)' = Pend(p), Good(st', Pending, boot),
         DirsStay(st.node, st'.node, NoInum), Knows(p)'
  PROVE  NodeInv'
<1>1. \A i \in Inum : Pending[i] = Pending[i] - Same(Pend(p), i) + Same(Pend(p)', i)
  BY PendStep, SameInt
<1>2. LockStep(p)
  BY NoLock DEF NameInv
<1>3. Kept(p)
  <2>1. NoInum \in 0..NINODES /\ NoInum \notin Inum
    BY Inums, NINODESAssumption DEF NoInum
  <2> QED BY <2>1, KeptIfStay
<1> DEFINE h == Pending
<1>4. \A i \in Inum : h[i] = Pending[i] - Same(Pend(p), i) + Same(Pend(p)', i)
  BY <1>1
<1>5. Good(st', h, boot)
  OBVIOUS
<1> HIDE DEF h
<1> QED BY <1>2, <1>3, <1>4, <1>5, NodeStep

-----------------------------------------------------------------------------
(* What a call refers to is in use. *)
LEMMA Refers ==
  ASSUME NameInv, NEW p \in Process, NEW i \in Inum,
         cwd[p] = i \/ fd[p] = i \/ ip[p] = i \/ dp[p] = i \/ old[p] = i
  PROVE  st.ref[i] > 0 /\ ~Free(st.node, i)
<1>1. Own(p, i) \in Nat /\ Own(p, i) > 0
  BY OwnIs
<1>2. st.ref[i] \in Nat /\ Own(p, i) <= st.ref[i]
  BY OwnRefs DEF NameInv
<1>3. st.ref[i] > 0
  BY <1>1, <1>2
<1>4. Good(st, Pending, boot)
  BY DEF NameInv, NodeInv
<1> QED BY <1>3, <1>4, UsedIsKept

LEMMA Boots ==
  ASSUME NameInv PROVE Good(st, Pending, boot) /\ CallInv /\ ROOTINO \in Inum /\ ~Free(st.node, ROOTINO)
<1>1. Good(st, Pending, boot) /\ CallInv
  BY DEF NameInv, NodeInv
<1> QED BY <1>1, Inums DEF Good, Tree, Root, Dir, Free

(* The inode a call has locked. *)
LEMMA Locked ==
  ASSUME NameInv, NEW p \in Process, pc[p] # "idle", NEW s, s = Ilock(st, ip[p])
  PROVE  /\ ip[p] \in Inum /\ Good(s, Pending, boot) /\ s.node = st.node /\ s.ref = st.ref
         /\ s.valid[ip[p]] /\ s.ref[ip[p]] > 0 /\ ~Free(s.node, ip[p])
<1>1. ip[p] \in Inum
  BY At DEF NameInv
<1>2. st.ref[ip[p]] > 0 /\ ~Free(st.node, ip[p])
  BY <1>1, Refers
<1>3. Good(st, Pending, boot)
  BY Boots
<1>4. /\ Good(Ilock(st, ip[p]), Pending, boot) /\ Ilock(st, ip[p]).node = st.node
      /\ Ilock(st, ip[p]).ref = st.ref /\ Ilock(st, ip[p]).valid[ip[p]]
  BY <1>1, <1>2, <1>3, GoodIlock
<1> QED BY <1>1, <1>2, <1>4

LEMMA StaySame == ASSUME NEW a, NEW b, NEW d, a = b PROVE DirsStay(a, b, d)
  BY DEF DirsStay

(* The call gives its inode back and returns. *)
LEMMA LetGoNodes ==
  ASSUME NameInv, CallInv', NEW p \in Process, NEW s, Others(p), s = Ilock(st, ip[p]), Return(p, Iput(s, ip[p])),
         pc[p] \notin {"idle", "unlinkat", "bad"}, old[p] = NoInum, lock' = lock
  PROVE  NodeInv'
<1>1. ip[p] \in Inum /\ Good(s, Pending, boot) /\ s.node = st.node /\ s.ref[ip[p]] > 0
  BY Locked
<1>2. Good(Iput(s, ip[p]), Pending, boot) /\ DirsStay(s.node, Iput(s, ip[p]).node, NoInum)
  BY <1>1, GoodIput
<1> DEFINE t == Iput(s, ip[p])
<1>3. Return(p, t) /\ Good(t, Pending, boot) /\ DirsStay(st.node, t.node, NoInum)
  BY <1>1, <1>2
<1> HIDE DEF t
<1>4. Pend(p) = NoInum
  BY DEF Pend
<1> QED BY <1>3, <1>4, PlainReturn

LEMMA StartNodes ==
  ASSUME NameInv, CallInv', NEW p \in Process, Others(p), Start(p) PROVE NodeInv'
<1>1. PICK c \in Calls : LET i == IF c.abs THEN ROOTINO ELSE cwd[p] IN
         st' = Iget(st, i) /\ ip' = [ip EXCEPT ![p] = i]
  BY DEF Start
<1> DEFINE i == IF c.abs THEN ROOTINO ELSE cwd[p]
<1>2. i \in Inum /\ ~Free(st.node, i) /\ Good(st, Pending, boot)
  <2>1. cwd[p] \in Inum
    BY DEF NameInv, CallInv, TypeInv
  <2>2. ~Free(st.node, cwd[p])
    BY <2>1, Refers
  <2> QED BY <2>1, <2>2, Boots
<1>3. st' = Iget(st, i)
  BY <1>1
<1> HIDE DEF i
<1>4. Good(st', Pending, boot) /\ st'.node = st.node
  BY <1>2, <1>3, GoodIget
<1>5. pc[p] = "idle" /\ pc'[p] = "walk" /\ old' = old /\ com' = com /\ lock' = lock /\ boot' = boot
  BY DEF Start, Goto, NameInv, CallInv, TypeInv
<1>6. Pend(p)' = Pend(p) /\ Knows(p)'
  BY <1>5 DEF Pend, Knows, WithName, CreateOp
<1>7. DirsStay(st.node, st'.node, NoInum)
  BY <1>4, StaySame
<1> QED BY <1>4, <1>5, <1>6, <1>7, PlainStep

LEMMA WalkFailsNodes ==
  ASSUME NameInv, CallInv', NEW p \in Process, NEW s, Others(p), Walking(p), WalkFails(p, s),
         Good(s, Pending, boot), DirsStay(st.node, s.node, NoInum)
  PROVE  NodeInv'
<1>1. pc[p] \in {"walk", "walkto"}
  BY DEF Walking
<1>2. CASE pc[p] = "walkto"
  <2>1. LinkBad(p, s)
    BY <1>2 DEF WalkFails
  <2>2. /\ st' = s /\ pc'[p] = "bad" /\ ip'[p] = old[p] /\ com' = com /\ lock' = lock /\ boot' = boot
    BY <2>1 DEF LinkBad, Goto, NameInv, CallInv, TypeInv
  <2>3. Pend(p)' = Pend(p) /\ Knows(p)'
    BY <1>2, <2>2 DEF Pend, Knows, WithName, CreateOp
  <2> QED BY <1>2, <2>2, <2>3, PlainStep
<1>3. CASE pc[p] = "walk"
  <2>1. Return(p, s) /\ lock' = lock
    BY <1>3 DEF WalkFails
  <2>2. Pend(p) = NoInum
    BY <1>3 DEF Pend, NameInv, CallInv, Held, HeldBy
  <2> QED BY <1>3, <2>1, <2>2, PlainReturn
<1> QED BY <1>1, <1>2, <1>3

LEMMA FoundNodes ==
  ASSUME NameInv, CallInv', NEW p \in Process, NEW s, NEW i, NEW name, Others(p), Walking(p), Found(p, s, i, name),
         Good(s, Pending, boot), s.node = st.node \/ ~WantsParent(p), DirsStay(st.node, s.node, NoInum),
         WantsParent(p) => i \in Inum /\ Dir(st.node, i)
  PROVE  NodeInv'
<1>1. pc[p] \in {"walk", "walkto"}
  BY DEF Walking
<1>2. /\ st' = s /\ ip'[p] = i /\ pc'[p] = (IF pc[p] = "walkto" THEN "linkto" ELSE call[p].op)
      /\ com' = com /\ lock' = lock /\ boot' = boot /\ old' = old
  BY DEF Found, Goto, NameInv, CallInv, TypeInv
<1>3. call[p].op \in Op
  BY <1>1 DEF NameInv, CallInv, CallTypes
<1>4. Pend(p)' = Pend(p)
  BY <1>1, <1>2, <1>3 DEF Pend, Op
<1>5. Knows(p)'
  <2>1. pc'[p] # "unlinkat"
    BY <1>1, <1>2, <1>3 DEF Op
  <2>2. pc'[p] \in WithName => WantsParent(p)
    BY <1>1, <1>2, <1>3 DEF Op, WithName, CreateOp, WantsParent
  <2>3. WantsParent(p) => Dir(s.node, i)
    BY DEF DirsStay
  <2> QED BY <1>2, <2>1, <2>2, <2>3 DEF Knows
<1>6. pc[p] # "unlinkat"
  BY <1>1
<1>7. Good(st', Pending, boot) /\ DirsStay(st.node, st'.node, NoInum)
  BY <1>2
<1> QED BY <1>2, <1>4, <1>5, <1>6, <1>7, PlainStep

LEMMA WalkEmptyNodes ==
  ASSUME NameInv, CallInv', NEW p \in Process, Others(p), WalkEmpty(p) PROVE NodeInv'
<1>1. Walking(p) /\ pc[p] # "idle"
  BY DEF WalkEmpty, Walking
<1>2. ip[p] \in Inum /\ st.ref[ip[p]] > 0 /\ Good(st, Pending, boot)
  <2>1. ip[p] \in Inum
    BY <1>1, At DEF NameInv
  <2> QED BY <2>1, Refers, Boots
<1>3. Good(Iput(st, ip[p]), Pending, boot) /\ DirsStay(st.node, Iput(st, ip[p]).node, NoInum)
  BY <1>2, GoodIput
<1>4. CASE WantsParent(p)
  <2>1. WalkFails(p, Iput(st, ip[p]))
    BY <1>4 DEF WalkEmpty
  <2> QED BY <1>1, <1>3, <2>1, WalkFailsNodes
<1>5. CASE ~WantsParent(p)
  <2>1. Found(p, st, ip[p], <<>>)
    BY <1>5 DEF WalkEmpty
  <2>2. DirsStay(st.node, st.node, NoInum)
    BY StaySame
  <2> QED BY <1>1, <1>2, <1>5, <2>1, <2>2, FoundNodes
<1> QED BY <1>4, <1>5

(* The next inode is taken before the directory is let go. *)
LEMMA OnwardGood ==
  ASSUME NEW s, NEW k, NEW b, Good(s, k, b), NEW i \in Inum, NEW n \in Inum, s.ref[i] > 0, ~Free(s.node, n),
         NEW t, t = Iput(Iget(s, n), i)
  PROVE  Good(t, k, b) /\ DirsStay(s.node, t.node, NoInum)
<1> DEFINE u == Iget(s, n)
<1>1. /\ Good(u, k, b) /\ u.node = s.node
      /\ \A j \in Inum : u.ref[j] = s.ref[j] + Same(n, j)
  BY GoodIget
<1>2. t = Iput(u, i)
  OBVIOUS
<1> HIDE DEF u
<1>3. u.ref[i] > 0
  <2>1. s.ref[i] \in Int
    BY RefsOf DEF Good
  <2> QED BY <1>1, <2>1 DEF Same
<1>4. Good(Iput(u, i), k, b) /\ DirsStay(u.node, Iput(u, i).node, NoInum)
  BY <1>1, <1>3, GoodIput
<1> QED BY <1>1, <1>2, <1>4

LEMMA WalkNodes ==
  ASSUME NameInv, CallInv', NEW p \in Process, Others(p), Walk(p) PROVE NodeInv'
<1> DEFINE i == ip[p]
           s == Ilock(st, i)
           next == Lookup(s, i, Head(rest[p]))
<1>1. Walking(p) /\ pc[p] \in {"walk", "walkto"} /\ rest[p] # <<>>
  BY DEF Walk, Walking
<1>2. /\ i \in Inum /\ Good(s, Pending, boot) /\ s.node = st.node /\ s.ref[i] > 0
  <2>1. pc[p] # "idle"
    BY <1>1
  <2> QED BY <2>1, Locked
<1>3. Head(rest[p]) \in Name \cup {".", ".."}
  BY <1>1 DEF NameInv, CallInv, TypeInv, Path
<1>4. s.node[i].type = "dir" /\ next # NoInum => next \in Inum /\ ~Free(s.node, next)
  BY <1>2, <1>3, LookupIsUsed DEF Dir
<1>5. Good(Iput(s, i), Pending, boot) /\ DirsStay(st.node, Iput(s, i).node, NoInum)
  <2> HIDE DEF s, i
  <2> QED BY <1>2, GoodIput
<1>6. CASE s.node[i].type # "dir"
  <2>1. WalkFails(p, Iput(s, i))
    BY <1>6 DEF Walk
  <2> QED BY <1>1, <1>5, <2>1, WalkFailsNodes
<1>7. CASE s.node[i].type = "dir" /\ WantsParent(p) /\ Tail(rest[p]) = <<>>
  <2>1. Found(p, s, i, rest[p])
    BY <1>7 DEF Walk
  <2>2. DirsStay(st.node, s.node, NoInum) /\ Dir(st.node, i)
    BY <1>2, <1>7, StaySame DEF Dir
  <2> HIDE DEF s, i
  <2> QED BY <1>1, <1>2, <2>1, <2>2, FoundNodes
<1>8. CASE s.node[i].type = "dir" /\ ~(WantsParent(p) /\ Tail(rest[p]) = <<>>) /\ next = NoInum
  <2>1. WalkFails(p, Iput(s, i))
    BY <1>8 DEF Walk
  <2> QED BY <1>1, <1>5, <2>1, WalkFailsNodes
<1>9. CASE s.node[i].type = "dir" /\ ~(WantsParent(p) /\ Tail(rest[p]) = <<>>) /\ next # NoInum
  <2> DEFINE t == Iput(Iget(s, next), i)
  <2>1. next \in Inum /\ ~Free(s.node, next)
    BY <1>4, <1>9
  <2>2. Good(t, Pending, boot) /\ DirsStay(st.node, t.node, NoInum)
    <3> HIDE DEF next, s, i
    <3> QED BY <1>2, <2>1, OnwardGood
  <2>3. CASE Tail(rest[p]) = <<>>
    <3>1. Found(p, t, next, <<>>) /\ ~WantsParent(p)
      BY <1>9, <2>3 DEF Walk
    <3> HIDE DEF t, next, s, i
    <3> QED BY <1>1, <2>2, <3>1, FoundNodes
  <2>4. CASE Tail(rest[p]) # <<>>
    <3>1. /\ st' = t /\ com' = com /\ lock' = lock /\ pc' = pc /\ old' = old /\ boot' = boot
      BY <1>9, <2>4 DEF Walk
    <3>2. Pend(p)' = Pend(p) /\ Knows(p)'
      BY <1>1, <3>1 DEF Pend, Knows, WithName, CreateOp
    <3>3. Good(st', Pending, boot) /\ DirsStay(st.node, st'.node, NoInum)
      BY <2>2, <3>1
    <3> HIDE DEF t, next, s, i
    <3> QED BY <1>1, <3>1, <3>2, <3>3, PlainStep
  <2> QED BY <2>3, <2>4
<1> QED BY <1>6, <1>7, <1>8, <1>9

-----------------------------------------------------------------------------
(* A call returns and changes at most the entries of d, which was not locked. *)
LEMMA DirReturn ==
  ASSUME NameInv, CallInv', NEW p \in Process, NEW s, NEW d \in Inum, Others(p), Return(p, s),
         Good(s, Pending, boot), pc[p] # "unlinkat", Pend(p) = NoInum, lock' = lock, lock[d] = None,
         DirsStay(st.node, s.node, d)
  PROVE  NodeInv'
<1>1. \A i \in Inum : Pending[i] = Pending[i] - Same(Pend(p), i)
  BY PendStep, SameNone
<1>2. LockStep(p)
  BY NoLock DEF NameInv
<1>3. Kept(p)
  <2>1. st' = s
    BY DEF Return
  <2>2. d \in 0..NINODES
    BY Inums
  <2> QED BY <2>1, <2>2, KeptIfStay
<1> DEFINE h == Pending
<1>4. \A i \in Inum : h[i] = Pending[i] - Same(Pend(p), i)
  BY <1>1
<1>5. Good(s, h, boot)
  OBVIOUS
<1> HIDE DEF h
<1> QED BY <1>2, <1>3, <1>4, <1>5, ReturnNodes

LEMMA OpenAtNodes ==
  ASSUME NameInv, CallInv', NEW p \in Process, NEW s, Others(p), s = Ilock(st, ip[p]), OpenAt(p, s),
         pc[p] \notin {"idle", "unlinkat", "bad"}, old[p] = NoInum
  PROVE  NodeInv'
<1>1. ip[p] \in Inum /\ Good(s, Pending, boot) /\ s.node = st.node
  BY Locked
<1>2. lock' = lock
  BY DEF OpenAt
<1>3. CASE fd[p] = NoInum
  <2>1. Return(p, s)
    BY <1>3 DEF OpenAt
  <2>2. DirsStay(st.node, s.node, NoInum) /\ Pend(p) = NoInum
    BY <1>1, StaySame DEF Pend
  <2> QED BY <1>1, <1>2, <2>1, <2>2, PlainReturn
<1>4. CASE fd[p] # NoInum
  <2>1. Return(p, Iput(s, ip[p]))
    BY <1>4 DEF OpenAt
  <2> QED BY <1>2, <2>1, LetGoNodes
<1> QED BY <1>3, <1>4

LEMMA OpenNodes ==
  ASSUME NameInv, CallInv', NEW p \in Process, Others(p), Open(p) PROVE NodeInv'
<1> DEFINE s == Ilock(st, ip[p])
<1>1. pc[p] \in {"open", "openw"}
  BY DEF Open, AtLocked
<1>2. old[p] = NoInum
  BY <1>1, AloneHolds DEF Alone, NameInv
<1>3. CASE s.node[ip[p]].type = "dir" /\ pc[p] = "openw"
  <2>1. Return(p, Iput(s, ip[p])) /\ lock' = lock
    BY <1>3 DEF Open
  <2> HIDE DEF s
  <2> QED BY <1>1, <1>2, <2>1, LetGoNodes DEF s
<1>4. CASE ~(s.node[ip[p]].type = "dir" /\ pc[p] = "openw")
  <2>1. OpenAt(p, s)
    BY <1>4 DEF Open
  <2> QED BY <1>1, <1>2, <2>1, OpenAtNodes
<1> QED BY <1>3, <1>4

LEMMA CreateOldNodes ==
  ASSUME NameInv, CallInv', NEW p \in Process, Others(p), CreateOld(p) PROVE NodeInv'
<1> DEFINE s == Ilock(st, ip[p])
<1>1. pc[p] = "created"
  BY DEF CreateOld, AtLocked
<1>2. old[p] = NoInum
  BY <1>1, AloneHolds DEF Alone, NameInv
<1>3. CASE call[p].op = "creat" /\ s.node[ip[p]].type \in {"file", "dev"}
  <2>1. OpenAt(p, s)
    BY <1>3 DEF CreateOld
  <2> QED BY <1>1, <1>2, <2>1, OpenAtNodes
<1>4. CASE ~(call[p].op = "creat" /\ s.node[ip[p]].type \in {"file", "dev"})
  <2>1. Return(p, Iput(s, ip[p])) /\ lock' = lock
    BY <1>4 DEF CreateOld
  <2> QED BY <1>1, <1>2, <2>1, LetGoNodes
<1> QED BY <1>3, <1>4

LEMMA CreateNoInodeNodes ==
  ASSUME NameInv, CallInv', NEW p \in Process, Others(p), CreateNoInode(p) PROVE NodeInv'
<1>1. pc[p] \in CreateOp /\ Return(p, Iput(Ilock(st, ip[p]), ip[p])) /\ lock' = lock
  BY DEF CreateNoInode, AtLocked, CreateOp
<1>2. old[p] = NoInum
  BY <1>1, AloneHolds DEF Alone, NameInv
<1>3. pc[p] \notin {"idle", "unlinkat", "bad"}
  BY <1>1 DEF CreateOp
<1> QED BY <1>1, <1>2, <1>3, LetGoNodes

LEMMA CreateFoundNodes ==
  ASSUME NameInv, CallInv', NEW p \in Process, Others(p), CreateFound(p) PROVE NodeInv'
<1> DEFINE d == ip[p]
           s == Ilock(st, d)
           i == Lookup(s, d, rest[p][1])
           t == Iput(Iget(s, i), d)
<1>1. /\ pc[p] \in CreateOp /\ i # NoInum /\ st' = t
      /\ com' = com /\ lock' = lock /\ old' = old /\ boot' = boot
  BY DEF CreateFound, AtLocked, CreateOp
<1>2. pc'[p] = "created"
  BY DEF CreateFound, Goto, NameInv, CallInv, TypeInv
<1>3. pc[p] \notin {"idle", "unlinkat", "bad"} /\ pc[p] \in WithName \ {"unlinkat"}
  BY <1>1 DEF CreateOp, WithName
<1>4. /\ d \in Inum /\ Good(s, Pending, boot) /\ s.node = st.node /\ s.ref[d] > 0
  BY <1>3, Locked
<1>5. rest[p][1] \in Name \cup {".", ".."}
  BY <1>3, At DEF NameInv
<1>6. Dir(s.node, d)
  BY <1>3, <1>4 DEF NameInv, NodeInv, Knows
<1>7. i \in Inum /\ ~Free(s.node, i)
  <2> HIDE DEF s, d
  <2> QED BY <1>1, <1>4, <1>5, <1>6, LookupIsUsed
<1>8. Good(t, Pending, boot) /\ DirsStay(s.node, t.node, NoInum)
  <2> HIDE DEF s, d, i
  <2> QED BY <1>4, <1>7, OnwardGood
<1>9. Pend(p)' = Pend(p) /\ Knows(p)'
  BY <1>1, <1>2, <1>3 DEF Pend, Knows, WithName, CreateOp
<1>10. Good(st', Pending, boot) /\ DirsStay(st.node, st'.node, NoInum)
  BY <1>1, <1>4, <1>8
<1> QED BY <1>1, <1>3, <1>9, <1>10, PlainStep

LEMMA NlinkNothing ==
  ASSUME NEW s \in Memory, NEW i \in Inum PROVE Nlink(s, i, 0) = s
<1>1. 0 \in Int
  OBVIOUS
<1>2. /\ Nlink(s, i, 0) \in Memory /\ Nlink(s, i, 0).ref = s.ref /\ Nlink(s, i, 0).valid = s.valid
      /\ Nlink(s, i, 0).node = s.node
  BY <1>1, NlinkIs
<1> DEFINE t == Nlink(s, i, 0)
<1>3. t \in Memory /\ t.ref = s.ref /\ t.valid = s.valid /\ t.node = s.node
  BY <1>2
<1> HIDE DEF t
<1>4. t = s
  BY <1>3 DEF Memory
<1> QED BY <1>4 DEF t

(* An inode that is not a directory gets an entry that a call has counted. *)
LEMMA GoodEntered ==
  ASSUME NEW s, NEW k, NEW h, NEW b, NEW d \in Inum, NEW n \in Name, NEW i \in Inum,
         Good(s, k, b), Dir(s.node, d), s.node[d].ent[n] = NoInum, ~Dir(s.node, i), Moved(k, h, NoInum, i)
  PROVE  /\ Good(Dirlink(s, d, n, i), h, b) /\ DirsStay(s.node, Dirlink(s, d, n, i).node, d)
         /\ Dirlink(s, d, n, i).ref = s.ref
<1>1. NoInum # i /\ NoInum \in 0..NINODES /\ i \in 0..NINODES
  BY Inums, NINODESAssumption DEF NoInum
<1>2. NotDir(s.node, NoInum) /\ NotDir(s.node, i)
  BY DEF NotDir
<1>3. PICK x \in 0..NINODES : x = NoInum
  BY <1>1
<1>4. PICK y \in 0..NINODES : y = i
  BY <1>1
<1>5. x # y /\ s.node[d].ent[n] = x /\ NotDir(s.node, x) /\ NotDir(s.node, y) /\ Moved(k, h, x, y)
  BY <1>1, <1>2, <1>3, <1>4
<1>6. /\ Good(Dirlink(s, d, n, y), h, b) /\ DirsStay(s.node, Dirlink(s, d, n, y).node, d)
      /\ Dirlink(s, d, n, y).ref = s.ref
  BY <1>5, GoodEntry
<1> QED BY <1>4, <1>6

(* create() enters the new inode. *)
LEMMA GoodCreated ==
  ASSUME NEW s, NEW k, NEW b, Good(s, k, b), NEW d \in Inum, Dir(s.node, d), s.ref[d] > 0,
         NEW i \in Inum, Free(s.node, i), NEW n \in Name, s.node[d].ent[n] = NoInum, NEW c \in Kind,
         NEW t, t = Nlink(Dirlink(NewNode(s, i, d, c), d, n, i), d, IF c = "dir" THEN 1 ELSE 0)
  PROVE  /\ Good(t, k, b) /\ DirsStay(s.node, t.node, d)
         /\ \A j \in Inum : t.ref[j] = s.ref[j] + Same(i, j)
<1>1. CASE c = "dir"
  <2>1. t = Nlink(Dirlink(NewNode(s, i, d, "dir"), d, n, i), d, 1)
    BY <1>1
  <2> QED BY <2>1, GoodMkdir
<1>2. CASE c # "dir"
  <2> DEFINE a == NewNode(s, i, d, c)
             h == [j \in Inum |-> IF j = i THEN k[j] + 1 ELSE k[j]]
             u == Dirlink(a, d, n, i)
  <2>1. \A j \in Inum : h[j] = (IF j = i THEN k[j] + 1 ELSE k[j])
    OBVIOUS
  <2>2. t = Nlink(u, d, 0) /\ i \in 0..NINODES /\ NoInum \in 0..NINODES /\ NoInum # i /\ k[i] = 0 /\ i # d
    BY <1>2, Inums, FreeIs, NINODESAssumption DEF NoInum, Dir, Free
  <2> HIDE DEF h
  <2>3. /\ Good(a, h, b) /\ DirsStay(s.node, a.node, NoInum)
        /\ \A j \in Inum : a.ref[j] = s.ref[j] + Same(i, j)
        /\ \A j \in Inum : j # i => a.node[j] = s.node[j]
        /\ ~Dir(a.node, i)
    BY <1>2, <2>1, GoodNew
  <2> HIDE DEF a
  <2>4. \A j \in Inum : k[j] \in Nat /\ k[j] = (IF j = NoInum THEN h[j] + 1 ELSE IF j = i THEN h[j] - 1 ELSE h[j])
    <3>1. \A j \in Inum : k[j] \in Nat /\ j # NoInum
      BY Inums DEF Good, Linked
    <3> QED BY <2>1, <3>1
  <2>5. Moved(h, k, NoInum, i)
    BY <2>4 DEF Moved
  <2>6. Dir(a.node, d) /\ a.node[d].ent[n] = NoInum
    BY <2>2, <2>3 DEF Dir
  <2>9. /\ Good(Dirlink(a, d, n, i), k, b) /\ DirsStay(a.node, Dirlink(a, d, n, i).node, d)
        /\ Dirlink(a, d, n, i).ref = a.ref
    BY <2>3, <2>5, <2>6, GoodEntered
  <2>10. Good(u, k, b) /\ DirsStay(a.node, u.node, d) /\ u.ref = a.ref
    BY <2>9
  <2> HIDE DEF u
  <2>11. t = u
    BY <2>2, <2>10, NlinkNothing DEF Good
  <2>12. DirsStay(s.node, u.node, d)
    BY <2>2, <2>3, <2>10, StayTransitive, Inums
  <2> QED BY <2>3, <2>10, <2>11, <2>12
<1> QED BY <1>1, <1>2

LEMMA CreateNewNodes ==
  ASSUME NameInv, CallInv', NEW p \in Process, Others(p), CreateNew(p) PROVE NodeInv'
<1> DEFINE d == ip[p]
           s == Ilock(st, d)
           i == FirstFree(s)
           t == TypeOf(pc[p])
           n == rest[p][1]
           new == NewNode(s, i, d, t)
           entered == Nlink(Dirlink(new, d, n, i), d, IF t = "dir" THEN 1 ELSE 0)
           linked == Iput(entered, d)
           undone == Iput(Nlink(new, i, -1), i)
<1>1. /\ pc[p] \in CreateOp /\ CanLink(s, d, n) /\ FreeInodes(s) # {} /\ lock' = lock /\ lock[d] = None
      /\ Return(p, linked) \/ Return(p, Iput(linked, i)) \/ Return(p, Iput(undone, d))
  BY DEF CreateNew, AtLocked, CreateOp
<1>2. pc[p] \notin {"idle", "unlinkat", "bad"} /\ pc[p] \in WithName \ {"unlinkat"}
  BY <1>1 DEF CreateOp, WithName
<1>3. /\ d \in Inum /\ Good(s, Pending, boot) /\ s.node = st.node /\ s.ref[d] > 0
  BY <1>2, Locked
<1>4. Dir(s.node, d)
  BY <1>2, <1>3 DEF NameInv, NodeInv, Knows
<1>5. n \in Name /\ s.node[d].ent[n] = NoInum
  <2>1. n \in Name \cup {".", ".."}
    BY <1>2, At DEF NameInv
  <2> HIDE DEF s, d, n
  <2> QED BY <1>1, <1>3, <1>4, <2>1, CanLinkIs
<1>6. i \in Inum /\ Free(s.node, i)
  <2> HIDE DEF s
  <2> QED BY <1>1, <1>3, FirstFreeIs DEF Good, FreeInodes, Free
<1>7. t \in Kind
  BY <1>1, TypeOfIs
<1>8. old[p] = NoInum /\ Pend(p) = NoInum
  BY <1>1, <1>2, AloneHolds DEF Alone, NameInv, Pend
<1>9. Good(entered, Pending, boot) /\ DirsStay(s.node, entered.node, d)
      /\ \A j \in Inum : entered.ref[j] = s.ref[j] + Same(i, j)
  <2> HIDE DEF s, d, i, t, n
  <2> QED BY <1>3, <1>4, <1>5, <1>6, <1>7, GoodCreated
<1>10. Good(undone, Pending, boot) /\ DirsStay(s.node, undone.node, NoInum)
       /\ \A j \in Inum : undone.ref[j] = s.ref[j]
  <2> HIDE DEF s, d, i, t, n
  <2> QED BY <1>3, <1>6, <1>7, GoodUndone
<1>11. s \in Memory /\ (\A j \in Inum : s.ref[j] \in Int) /\ d # i /\ s.ref[i] = 0
  <2> HIDE DEF s, d, i
  <2>1. s \in Memory
    BY <1>3 DEF Good
  <2>2. s.ref[i] = 0 /\ ~Dir(s.node, i)
    BY <1>3, <1>6, FreeIs
  <2> QED BY <1>4, <2>1, <2>2, RefsOf
<1> HIDE DEF entered, undone
<1>12. Good(linked, Pending, boot) /\ DirsStay(s.node, linked.node, d) /\ linked.ref[i] > 0
  <2>1. entered.ref[d] > 0
    BY <1>3, <1>9, <1>11 DEF Same
  <2> HIDE DEF d
  <2>2. /\ Good(Iput(entered, d), Pending, boot) /\ DirsStay(entered.node, Iput(entered, d).node, NoInum)
        /\ \A j \in Inum : Iput(entered, d).ref[j] = entered.ref[j] - Same(d, j)
    BY <1>3, <1>9, <2>1, GoodIput
  <2>3. linked.ref[i] = s.ref[i] + Same(i, i) - Same(d, i)
    <3>1. i \in Inum /\ entered.ref[i] = s.ref[i] + Same(i, i)
      BY <1>6, <1>9
    <3> HIDE DEF i
    <3>2. Iput(entered, d).ref[i] = entered.ref[i] - Same(d, i)
      BY <3>1, <2>2
    <3>3. linked.ref[i] = Iput(entered, d).ref[i]
      OBVIOUS
    <3> HIDE DEF linked
    <3> QED BY <3>1, <3>2, <3>3, <1>11, SameInt
  <2>4. linked.ref[i] > 0
    BY <1>11, <2>3 DEF Same
  <2>5. DirsStay(s.node, linked.node, d)
    <3> HIDE DEF linked
    <3>1. DirsStay(entered.node, linked.node, NoInum) /\ d \in 0..NINODES
      BY <1>3, <2>2, Inums DEF linked
    <3> QED BY <1>9, <3>1, StayTransitive
  <2> QED BY <2>2, <2>4, <2>5
<1> HIDE DEF linked
<1>13. Good(Iput(linked, i), Pending, boot) /\ DirsStay(s.node, Iput(linked, i).node, d)
  <2> HIDE DEF i, d
  <2>1. Good(Iput(linked, i), Pending, boot) /\ DirsStay(linked.node, Iput(linked, i).node, NoInum)
    BY <1>6, <1>12, GoodIput
  <2>2. d \in 0..NINODES
    BY <1>3, Inums
  <2> QED BY <1>12, <2>1, <2>2, StayTransitive
<1>14. Good(Iput(undone, d), Pending, boot) /\ DirsStay(s.node, Iput(undone, d).node, NoInum)
  <2> HIDE DEF d
  <2>1. undone.ref[d] > 0
    BY <1>3, <1>10
  <2>2. Good(Iput(undone, d), Pending, boot) /\ DirsStay(undone.node, Iput(undone, d).node, NoInum)
    BY <1>3, <1>10, <2>1, GoodIput
  <2>3. NoInum \in 0..NINODES
    BY NINODESAssumption DEF NoInum
  <2> QED BY <1>10, <2>2, <2>3, StayTransitive
<1>15. CASE Return(p, linked)
  <2> HIDE DEF d, s
  <2> QED BY <1>1, <1>2, <1>3, <1>8, <1>12, <1>15, DirReturn
<1>16. CASE Return(p, Iput(linked, i))
  <2> HIDE DEF d, s
  <2> QED BY <1>1, <1>2, <1>3, <1>8, <1>13, <1>16, DirReturn
<1>17. CASE Return(p, Iput(undone, d))
  <2> HIDE DEF d, s
  <2> QED BY <1>1, <1>2, <1>3, <1>8, <1>14, <1>17, PlainReturn
<1> QED BY <1>1, <1>15, <1>16, <1>17

-----------------------------------------------------------------------------
(* A pending link is one to an inode that is not a directory. *)
LEMMA Pended ==
  ASSUME NameInv, NEW p \in Process, Pend(p) \in Inum
  PROVE  /\ ~Dir(st.node, Pend(p)) /\ Pending[Pend(p)] > 0
         /\ \A i \in Inum : Pending[i] - Same(Pend(p), i) \in Nat
<1>1. \A i \in Inum : Pending[i] \in Nat /\ Same(Pend(p), i) <= Pending[i]
  <2> TAKE i \in Inum
  <2>1. Count(Pends, i) \in Nat /\ Same(Pends[p], i) <= Count(Pends, i)
    BY CountTwo
  <2>2. Pends[p] = Pend(p) /\ Pending[i] = Count(Pends, i)
    BY PendingIs DEF Pends
  <2> QED BY <2>1, <2>2
<1>2. Pending[Pend(p)] > 0
  BY <1>1 DEF Same
<1>3. ~Dir(st.node, Pend(p))
  BY <1>2, Boots DEF Good, Linked
<1> QED BY <1>1, <1>2, <1>3, SameInt

LEMMA LinkOldNodes ==
  ASSUME NameInv, CallInv', NEW p \in Process, Others(p), LinkOld(p) PROVE NodeInv'
<1> DEFINE i == ip[p]
           s == Ilock(st, i)
           c == IF call[p].abs THEN ROOTINO ELSE cwd[p]
           u == Nlink(s, i, 1)
<1>1. pc[p] = "link"
  BY DEF LinkOld, AtLocked
<1>2. old[p] = NoInum
  BY <1>1, AloneHolds DEF Alone, NameInv
<1>3. /\ i \in Inum /\ Good(s, Pending, boot) /\ s.node = st.node /\ s.ref[i] > 0 /\ s.valid[i]
  BY <1>1, Locked
<1>4. CASE ~MayLink(s, i)
  <2>1. Return(p, Iput(s, i)) /\ lock' = lock
    BY <1>4 DEF LinkOld
  <2> QED BY <1>1, <1>2, <2>1, LetGoNodes
<1>5. CASE MayLink(s, i)
  <2> DEFINE h == [j \in Inum |-> Pending[j] + Same(i, j)]
  <2>1. /\ st' = Iget(u, c) /\ old'[p] = i /\ pc'[p] = "walkto"
        /\ com' = com /\ lock' = lock /\ boot' = boot
    BY <1>5 DEF LinkOld, Goto, NameInv, CallInv, TypeInv
  <2>2. c \in Inum /\ ~Free(s.node, c)
    <3>1. cwd[p] \in Inum
      BY DEF NameInv, CallInv, TypeInv
    <3>2. ~Free(st.node, cwd[p])
      BY <3>1, Refers
    <3> QED BY <1>3, <3>1, <3>2, Boots
  <2>3. ~Dir(s.node, i)
    BY <1>5 DEF MayLink, Dir
  <2>4. \A j \in Inum : Pending[j] \in Nat
    BY PendStep
  <2>5. (\A j \in Inum : h[j] = IF j = i THEN Pending[j] + 1 ELSE Pending[j]) /\ h[i] \in Nat
    BY <1>3, <2>4 DEF Same
  <2>6. \A j \in Inum : h[j] = Pending[j] - Same(Pend(p), j) + Same(Pend(p)', j)
    <3> TAKE j \in Inum
    <3>1. Pend(p) = NoInum /\ Pend(p)' = i
      BY <1>1, <1>2, <2>1 DEF Pend
    <3> QED BY <3>1, <2>4, SameNone, SameInt
  <2> HIDE DEF h, c
  <2>7. /\ Good(u, h, boot) /\ DirsStay(s.node, u.node, NoInum)
    <3> HIDE DEF s, i
    <3> QED BY <1>3, <2>3, <2>5, GoodNlink
  <2>8. ~Free(u.node, c)
    <3> HIDE DEF s, i
    <3>1. s \in Memory /\ 1 \in Int
      BY <1>3 DEF Good
    <3>2. u.node[i].type = s.node[i].type /\ \A j \in Inum : j # i => u.node[j] = s.node[j]
      BY <1>3, <3>1, NlinkIs
    <3> QED BY <2>2, <3>2 DEF Free
  <2> HIDE DEF u
  <2>9. Good(st', h, boot) /\ st'.node = u.node
    BY <2>1, <2>2, <2>7, <2>8, GoodIget
  <2>10. Kept(p)
    <3>1. DirsStay(st.node, st'.node, NoInum)
      BY <1>3, <2>7, <2>9
    <3>2. NoInum \in 0..NINODES /\ NoInum \notin Inum
      BY Inums, NINODESAssumption DEF NoInum
    <3> QED BY <3>1, <3>2, KeptIfStay
  <2>11. LockStep(p)
    BY <1>1, <2>1, NoLock DEF NameInv
  <2>12. Knows(p)'
    BY <2>1 DEF Knows, WithName, CreateOp
  <2> QED BY <2>1, <2>6, <2>9, <2>10, <2>11, <2>12, NodeStep
<1> QED BY <1>4, <1>5

(* iput() of an inode another call refers to as well, or not. *)
LEMMA IputStay ==
  ASSUME NEW s, NEW k, NEW b, NEW a, NEW i \in Inum, NEW d \in 0..NINODES, NEW t,
         Good(s, k, b), s.ref[i] > 0, DirsStay(a, s.node, d), t = Iput(s, i)
  PROVE  /\ Good(t, k, b) /\ DirsStay(a, t.node, d)
         /\ \A j \in Inum : t.ref[j] = s.ref[j] - Same(i, j)
         /\ \A j \in Inum : j # i => t.node[j] = s.node[j] /\ t.valid[j] = s.valid[j]
<1>1. /\ Good(t, k, b) /\ DirsStay(s.node, t.node, NoInum)
      /\ \A j \in Inum : t.ref[j] = s.ref[j] - Same(i, j)
      /\ \A j \in Inum : j # i => t.node[j] = s.node[j] /\ t.valid[j] = s.valid[j]
  BY GoodIput
<1> QED BY <1>1, StayTransitive

LEMMA LinkNewNodes ==
  ASSUME NameInv, CallInv', NEW p \in Process, Others(p), LinkNew(p) PROVE NodeInv'
<1> DEFINE d == ip[p]
           o == old[p]
           s == Ilock(st, d)
           n == rest[p][1]
           i == Lookup(s, d, n)
           h == [j \in Inum |-> Pending[j] - Same(o, j)]
<1>1. pc[p] = "linkto" /\ lock[d] = None
  BY DEF LinkNew, AtLocked
<1>2. /\ d \in Inum /\ Good(s, Pending, boot) /\ s.node = st.node /\ s.ref = st.ref /\ s.ref[d] > 0
  BY <1>1, Locked
<1>3. o \in Inum /\ Pend(p) = o /\ n \in Name \cup {".", ".."}
  BY <1>1, At DEF NameInv, Pend, WithName
<1>4. Dir(s.node, d) /\ ~Dir(s.node, o) /\ o # d /\ s.ref[o] > 0
  <2>1. Dir(s.node, d)
    BY <1>1, <1>2 DEF NameInv, NodeInv, Knows, WithName
  <2>2. ~Dir(s.node, o)
    BY <1>2, <1>3, Pended
  <2>3. s.ref[o] > 0
    BY <1>2, <1>3, Refers
  <2> QED BY <2>1, <2>2, <2>3
<1>5. /\ \A j \in Inum : h[j] = Pending[j] - Same(Pend(p), j)
      /\ \A j \in Inum : h[j] \in Nat /\ Pending[j] \in Nat /\ s.ref[j] \in Nat /\ st.ref[j] \in Nat
  <2>1. \A j \in Inum : Pending[j] - Same(Pend(p), j) \in Nat /\ Pending[j] \in Nat
    BY <1>3, Pended, PendStep
  <2>2. \A j \in Inum : st.ref[j] \in Nat
    BY OwnRefs DEF NameInv
  <2> QED BY <1>2, <1>3, <2>1, <2>2
<1>6. d \in 0..NINODES /\ NoInum \in 0..NINODES /\ NoInum \notin Inum
  <2> HIDE DEF d
  <2> QED BY <1>2, Inums, NINODESAssumption DEF NoInum
<1>7. CASE CanLink(s, d, n) /\ Return(p, Iput(Iput(Dirlink(s, d, n, o), d), o)) /\ lock' = lock
  <2> DEFINE u == Dirlink(s, d, n, o)
             v == Iput(u, d)
             w == Iput(v, o)
  <2> HIDE DEF s, d, n, o
  <2>1. n \in Name /\ s.node[d].ent[n] = NoInum
    BY <1>2, <1>3, <1>4, <1>7, CanLinkIs
  <2>2. \A j \in Inum : h[j] = (IF j = NoInum THEN Pending[j] + 1 ELSE IF j = o THEN Pending[j] - 1 ELSE Pending[j])
    BY <1>5, <1>6 DEF Same
  <2>3. Moved(Pending, h, NoInum, o)
    BY <1>5, <2>2 DEF Moved
  <2> HIDE DEF h
  <2>4. /\ Good(u, h, boot) /\ DirsStay(s.node, u.node, d) /\ u.ref = s.ref
    BY <1>2, <1>3, <1>4, <2>1, <2>3, GoodEntered
  <2> HIDE DEF u
  <2>5. u.ref[d] > 0
    BY <1>2, <2>4
  <2>6. /\ Good(v, h, boot) /\ DirsStay(s.node, v.node, d) /\ \A j \in Inum : v.ref[j] = u.ref[j] - Same(d, j)
    <3>1. v = Iput(u, d)
      OBVIOUS
    <3> HIDE DEF v
    <3>2. /\ Good(Iput(u, d), h, boot) /\ DirsStay(u.node, Iput(u, d).node, NoInum)
          /\ \A j \in Inum : Iput(u, d).ref[j] = u.ref[j] - Same(d, j)
      BY <1>2, <2>4, <2>5, GoodIput
    <3>3. DirsStay(s.node, v.node, d)
      BY <1>6, <2>4, <3>1, <3>2, StayTransitive
    <3> QED BY <3>1, <3>2, <3>3
  <2> HIDE DEF v
  <2>7. v.ref[o] > 0
    BY <1>3, <1>4, <1>5, <2>4, <2>6 DEF Same
  <2>8. Good(w, h, boot) /\ DirsStay(s.node, w.node, d)
    BY <1>3, <1>6, <2>6, <2>7, IputStay
  <2>9. Return(p, w)
    BY <1>7 DEF u, v
  <2> HIDE DEF w
  <2>10. LockStep(p)
    BY <1>1, <1>7, NoLock DEF NameInv
  <2>11. Kept(p)
    <3>1. DirsStay(st.node, st'.node, d)
      BY <1>2, <2>8, <2>9 DEF Return
    <3> QED BY <1>1, <1>6, <3>1, KeptIfStay DEF d
  <2> QED BY <1>5, <2>8, <2>9, <2>10, <2>11, ReturnNodes
<1>8. CASE LinkBad(p, Iput(IF i = NoInum THEN s ELSE Iput(Iget(s, i), i), d))
  <2> DEFINE t == IF i = NoInum THEN s ELSE Iput(Iget(s, i), i)
             w == Iput(t, d)
  <2>1. Good(t, Pending, boot) /\ DirsStay(s.node, t.node, NoInum) /\ t.ref[d] = s.ref[d]
    <3>1. CASE i = NoInum
      BY <1>2, <3>1, StaySame
    <3>2. CASE i # NoInum
      <4> DEFINE g == Iget(s, i)
                 v == Iput(g, i)
      <4>1. i \in Inum /\ ~Free(s.node, i)
        <5> HIDE DEF s, d, n
        <5> QED BY <1>2, <1>3, <1>4, <3>2, LookupIsUsed
      <4> HIDE DEF i, s, d
      <4>2. Good(g, Pending, boot) /\ g.node = s.node /\ \A j \in Inum : g.ref[j] = s.ref[j] + Same(i, j)
        BY <1>2, <4>1, GoodIget
      <4> HIDE DEF g
      <4>3. g.ref[i] > 0
        BY <1>5, <4>1, <4>2 DEF Same
      <4>4. DirsStay(s.node, g.node, NoInum)
        BY <4>2, StaySame
      <4>5. Good(v, Pending, boot) /\ DirsStay(s.node, v.node, NoInum)
            /\ \A j \in Inum : v.ref[j] = g.ref[j] - Same(i, j)
        <5>1. i \in Inum /\ Good(g, Pending, boot)
          BY <4>1, <4>2
        <5>2. Good(v, Pending, boot) /\ DirsStay(g.node, v.node, NoInum)
              /\ \A j \in Inum : v.ref[j] = g.ref[j] - Same(i, j)
          BY <4>3, <5>1, GoodIput
        <5> QED BY <4>2, <5>2
      <4>6. t = v
        BY <3>2 DEF g
      <4> HIDE DEF t, v
      <4>7. t.ref[d] = s.ref[d]
        BY <1>2, <1>5, <4>2, <4>5, <4>6, SameInt
      <4> QED BY <4>5, <4>6, <4>7
    <3> QED BY <3>1, <3>2
  <2>2. LinkBad(p, w)
    BY <1>8
  <2> HIDE DEF t, s, d
  <2>3. t.ref[d] > 0
    BY <1>2, <2>1
  <2>4. Good(w, Pending, boot) /\ DirsStay(s.node, w.node, NoInum)
    BY <1>2, <1>6, <2>1, <2>3, IputStay
  <2> HIDE DEF w
  <2>5. /\ st' = w /\ pc'[p] = "bad" /\ ip'[p] = o /\ com' = com /\ lock' = lock /\ boot' = boot
    BY <2>2 DEF LinkBad, Goto, NameInv, CallInv, TypeInv
  <2>6. Pend(p)' = Pend(p) /\ Knows(p)'
    BY <1>3, <2>5 DEF Pend, Knows, WithName, CreateOp
  <2>7. Good(st', Pending, boot) /\ DirsStay(st.node, st'.node, NoInum) /\ pc[p] # "unlinkat"
    BY <1>1, <1>2, <2>4, <2>5
  <2> QED BY <2>5, <2>6, <2>7, PlainStep
<1> QED BY <1>7, <1>8 DEF LinkNew

LEMMA LinkUndoNodes ==
  ASSUME NameInv, CallInv', NEW p \in Process, Others(p), LinkUndo(p) PROVE NodeInv'
<1> DEFINE i == ip[p]
           s == Ilock(st, i)
           h == [j \in Inum |-> Pending[j] - Same(i, j)]
           u == Nlink(s, i, -1)
           w == Iput(u, i)
<1>1. pc[p] = "bad" /\ lock' = lock /\ Return(p, w)
  BY DEF LinkUndo, AtLocked
<1>2. /\ i \in Inum /\ Good(s, Pending, boot) /\ s.node = st.node /\ s.ref[i] > 0 /\ s.valid[i]
  BY <1>1, Locked
<1>3. Pend(p) = i
  BY <1>1 DEF Pend
<1>4. /\ ~Dir(s.node, i)
      /\ \A j \in Inum : h[j] = Pending[j] - Same(Pend(p), j)
      /\ \A j \in Inum : h[j] \in Nat /\ Pending[j] \in Nat
  <2>1. /\ ~Dir(st.node, i)
        /\ \A j \in Inum : Pending[j] - Same(i, j) \in Nat /\ Pending[j] \in Nat
    BY <1>2, <1>3, Pended, PendStep
  <2> QED BY <1>2, <1>3, <2>1
<1>5. \A j \in Inum : h[j] = IF j = i THEN Pending[j] + (-1) ELSE Pending[j]
  BY <1>4 DEF Same
<1> HIDE DEF h, s, i
<1>6. Good(u, h, boot) /\ DirsStay(s.node, u.node, NoInum) /\ u.ref = s.ref
  <2>1. -1 \in Int /\ h[i] \in Nat
    BY <1>2, <1>4
  <2> QED BY <1>2, <1>4, <1>5, <2>1, GoodNlink
<1> HIDE DEF u
<1>7. NoInum \in 0..NINODES /\ NoInum \notin Inum
  BY Inums, NINODESAssumption DEF NoInum
<1>8. Good(w, h, boot) /\ DirsStay(s.node, w.node, NoInum)
  <2>1. u.ref[i] > 0
    BY <1>2, <1>6
  <2>2. w = Iput(u, i)
    OBVIOUS
  <2> HIDE DEF w
  <2>3. i \in Inum /\ NoInum \in 0..NINODES /\ Good(u, h, boot) /\ DirsStay(s.node, u.node, NoInum)
    BY <1>2, <1>6, <1>7
  <2> QED BY <2>1, <2>2, <2>3, IputStay
<1> HIDE DEF w
<1>9. LockStep(p)
  BY <1>1, NoLock DEF NameInv
<1>10. Kept(p)
  <2>1. DirsStay(st.node, st'.node, NoInum)
    BY <1>1, <1>2, <1>8 DEF Return
  <2> QED BY <1>7, <2>1, KeptIfStay
<1> QED BY <1>1, <1>4, <1>8, <1>9, <1>10, ReturnNodes

-----------------------------------------------------------------------------
LEMMA ZeroInum == NoInum \in 0..NINODES /\ NoInum \notin Inum
  BY Inums, NINODESAssumption DEF NoInum

LEMMA ChdirNodes ==
  ASSUME NameInv, CallInv', NEW p \in Process, Others(p), Chdir(p) PROVE NodeInv'
<1> DEFINE i == ip[p]
           s == Ilock(st, i)
           c == cwd[p]
<1>1. pc[p] = "chdir" /\ lock' = lock
  BY DEF Chdir, AtLocked
<1>2. old[p] = NoInum /\ Pend(p) = NoInum
  BY <1>1, AloneHolds DEF Alone, NameInv, Pend
<1>3. CASE s.node[i].type # "dir"
  <2>1. Return(p, Iput(s, i))
    BY <1>3 DEF Chdir
  <2> QED BY <1>1, <1>2, <2>1, LetGoNodes
<1>4. CASE s.node[i].type = "dir"
  <2>1. Return(p, Iput(s, c))
    BY <1>4 DEF Chdir
  <2>2. Good(s, Pending, boot) /\ s.node = st.node /\ s.ref = st.ref
    BY <1>1, Locked
  <2>3. c \in Inum /\ st.ref[c] > 0
    <3>1. c \in Inum
      BY DEF NameInv, CallInv, TypeInv
    <3> QED BY <3>1, Refers
  <2> HIDE DEF s, c
  <2>4. Good(Iput(s, c), Pending, boot) /\ DirsStay(s.node, Iput(s, c).node, NoInum)
    BY <2>2, <2>3, GoodIput
  <2> QED BY <1>1, <1>2, <2>1, <2>2, <2>4, PlainReturn
<1> QED BY <1>3, <1>4

LEMMA CloseNodes ==
  ASSUME NameInv, CallInv', NEW p \in Process, Others(p), Close(p) PROVE NodeInv'
<1> DEFINE f == fd[p]
<1>1. pc[p] = "idle" /\ f # NoInum /\ Return(p, Iput(st, f)) /\ lock' = lock
  BY DEF Close
<1>2. Pend(p) = NoInum
  BY <1>1 DEF Pend, NameInv, CallInv, Held, HeldBy
<1>3. f \in Inum /\ st.ref[f] > 0 /\ Good(st, Pending, boot)
  <2>1. f \in Inum
    BY <1>1 DEF NameInv, CallInv, TypeInv, Inum, NoInum
  <2> QED BY <2>1, Refers, Boots
<1> HIDE DEF f
<1>4. Good(Iput(st, f), Pending, boot) /\ DirsStay(st.node, Iput(st, f).node, NoInum)
  BY <1>3, GoodIput
<1> QED BY <1>1, <1>2, <1>4, PlainReturn

LEMMA UnlinkDirNodes ==
  ASSUME NameInv, CallInv', NEW p \in Process, Others(p), UnlinkDir(p) PROVE NodeInv'
<1> DEFINE d == ip[p]
           s == Ilock(st, d)
           n == rest[p][1]
           i == Lookup(s, d, n)
<1>1. pc[p] = "unlink" /\ lock[d] = None
  BY DEF UnlinkDir, AtLocked
<1>2. old[p] = NoInum /\ n \in Name \cup {".", ".."}
  BY <1>1, AloneHolds, At DEF Alone, NameInv, WithName
<1>3. CASE IsDots(n) \/ i = NoInum
  <2>1. Return(p, Iput(s, d)) /\ lock' = lock
    BY <1>3 DEF UnlinkDir
  <2> QED BY <1>1, <1>2, <2>1, LetGoNodes
<1>4. CASE ~(IsDots(n) \/ i = NoInum)
  <2>1. /\ d \in Inum /\ Good(s, Pending, boot) /\ s.node = st.node /\ Dir(s.node, d)
    <3>1. d \in Inum /\ Good(s, Pending, boot) /\ s.node = st.node
      BY <1>1, Locked
    <3>2. Dir(st.node, d)
      BY <1>1 DEF NameInv, NodeInv, Knows, WithName
    <3> QED BY <3>1, <3>2
  <2>2. /\ st' = Iget(s, i) /\ lock' = [lock EXCEPT ![d] = p] /\ dp'[p] = d /\ ip'[p] = i
        /\ pc'[p] = "unlinkat" /\ com' = com /\ boot' = boot /\ old' = old /\ rest' = rest
    BY <1>4 DEF UnlinkDir, Goto, NameInv, CallInv, TypeInv
  <2>3. n \in Name /\ s.node[d].ent[n] = i /\ i # NoInum
    BY <1>2, <1>4 DEF IsDots, Lookup
  <2> HIDE DEF i, s
  <2>4. i \in Inum /\ ~Free(s.node, i)
    <3> HIDE DEF d, n
    <3> QED BY <2>1, <2>3, LedToIsUsed
  <2>5. Good(st', Pending, boot) /\ st'.node = s.node
    BY <2>1, <2>2, <2>4, GoodIget
  <2>6. LockStep(p)
    <3> SUFFICES ASSUME NEW j \in Inum
                 PROVE  /\ lock'[j] = p => pc'[p] = "unlinkat" /\ dp'[p] = j
                        /\ lock'[j] # lock[j] => lock[j] \in {None, p} /\ lock'[j] \in {None, p}
      BY DEF LockStep
    <3>1. CASE j = d
      BY <1>1, <2>1, <2>2, <3>1 DEF NameInv, CallInv, TypeInv
    <3>2. CASE j # d
      <4>1. lock'[j] = lock[j]
        BY <2>1, <2>2, <3>2 DEF NameInv, CallInv, TypeInv
      <4>2. lock[j] # p
        BY <1>1, ProcessAssumption DEF NameInv, NodeInv, LocksHeld
      <4> QED BY <4>1, <4>2
    <3> QED BY <3>1, <3>2
  <2>7. Kept(p)
    <3>1. DirsStay(st.node, st'.node, NoInum)
      BY <2>1, <2>5, StaySame
    <3> QED BY <3>1, ZeroInum, KeptIfStay
  <2>8. Knows(p)'
    <3>1. lock'[d] = p
      BY <2>1, <2>2 DEF NameInv, CallInv, TypeInv
    <3> QED BY <2>1, <2>2, <2>3, <2>5, <3>1 DEF Knows
  <2> DEFINE h == Pending
  <2>9. \A j \in Inum : h[j] = Pending[j] - Same(Pend(p), j) + Same(Pend(p)', j)
    <3>1. Pend(p)' = Pend(p)
      BY <1>1, <2>2 DEF Pend
    <3> QED BY <3>1, PendStep, SameInt
  <2>10. Good(st', h, boot)
    BY <2>5
  <2> HIDE DEF h
  <2> QED BY <2>2, <2>6, <2>7, <2>8, <2>9, <2>10, NodeStep
<1> QED BY <1>3, <1>4

(* The entry and the inode it leads to go, when that is not a directory. *)
LEMMA GoodRemoved ==
  ASSUME NEW s, NEW k, NEW b, NEW d \in Inum, NEW i \in Inum, NEW n \in Name, NEW t, Good(s, k, b),
         Dir(s.node, d), ~Dir(s.node, i), s.node[d].ent[n] = i, s.ref[d] > 0, s.ref[i] > 0, s.valid[i],
         t = Iput(Nlink(Iput(Dirlink(s, d, n, NoInum), d), i, -1), i)
  PROVE  Good(t, k, b) /\ DirsStay(s.node, t.node, d)
<1> DEFINE h == [j \in Inum |-> k[j] + Same(i, j)]
           u == Dirlink(s, d, n, NoInum)
           v == Iput(u, d)
           w == Nlink(v, i, -1)
<1>1. i # d /\ i # NoInum /\ i \in 0..NINODES /\ NoInum \in 0..NINODES /\ d \in 0..NINODES
  BY ZeroInum, Inums DEF Dir
<1>2. \A j \in Inum : k[j] \in Nat /\ j # NoInum
  BY ZeroInum DEF Good, Linked
<1>3. (\A j \in Inum : h[j] = (IF j = i THEN k[j] + 1 ELSE IF j = NoInum THEN k[j] - 1 ELSE k[j]))
      /\ \A j \in Inum : h[j] \in Nat
  BY <1>2 DEF Same
<1>4. \A j \in Inum : k[j] = (IF j = i THEN h[j] + (-1) ELSE h[j])
  BY <1>2 DEF Same
<1> HIDE DEF h
<1>5. /\ Good(u, h, b) /\ DirsStay(s.node, u.node, d) /\ u.ref = s.ref /\ u.valid = s.valid
      /\ \A j \in Inum : u.node[j].type = s.node[j].type
  <2>1. NotDir(s.node, i) /\ NotDir(s.node, NoInum)
    BY DEF NotDir
  <2>2. Moved(k, h, i, NoInum)
    BY <1>3 DEF Moved
  <2> HIDE DEF u
  <2>3. /\ Good(Dirlink(s, d, n, NoInum), h, b) /\ DirsStay(s.node, Dirlink(s, d, n, NoInum).node, d)
        /\ Dirlink(s, d, n, NoInum).ref = s.ref /\ Dirlink(s, d, n, NoInum).valid = s.valid
        /\ \A j \in Inum : Dirlink(s, d, n, NoInum).node[j].type = s.node[j].type
    BY <1>1, <2>1, <2>2, GoodEntry
  <2> QED BY <2>3 DEF u
<1>6. t = Iput(w, i)
  OBVIOUS
<1> HIDE DEF u
<1>7. /\ Good(v, h, b) /\ DirsStay(u.node, v.node, NoInum)
      /\ \A j \in Inum : v.ref[j] = u.ref[j] - Same(d, j)
      /\ v.node[i] = u.node[i] /\ v.valid[i] = u.valid[i]
  <2>1. u.ref[d] > 0
    BY <1>5
  <2> HIDE DEF v
  <2>2. /\ Good(Iput(u, d), h, b) /\ DirsStay(u.node, Iput(u, d).node, NoInum)
        /\ \A j \in Inum : Iput(u, d).ref[j] = u.ref[j] - Same(d, j)
        /\ \A j \in Inum : j # d => /\ Iput(u, d).node[j] = u.node[j]
                                    /\ Iput(u, d).valid[j] = u.valid[j]
    BY <1>5, <2>1, GoodIput
  <2> QED BY <1>1, <2>2 DEF v
<1> HIDE DEF v
<1>8. ~Dir(v.node, i) /\ v.ref[i] > 0 /\ v.valid[i]
  <2>1. v.ref[i] = s.ref[i] - 0
    BY <1>1, <1>5, <1>7 DEF Same
  <2>2. s.ref[i] \in Int
    BY RefsOf DEF Good
  <2> QED BY <1>5, <1>7, <2>1, <2>2 DEF Dir
<1>9. Good(w, k, b) /\ DirsStay(v.node, w.node, NoInum) /\ w.ref = v.ref
  <2>1. -1 \in Int /\ k[i] \in Nat
    BY <1>2
  <2> QED BY <1>4, <1>7, <1>8, <2>1, GoodNlink
<1> HIDE DEF w
<1>10. Good(Iput(w, i), k, b) /\ DirsStay(w.node, Iput(w, i).node, NoInum)
  <2>1. w.ref[i] > 0
    BY <1>8, <1>9
  <2> QED BY <1>9, <2>1, GoodIput
<1>11. DirsStay(s.node, v.node, d)
  BY <1>1, <1>5, <1>7, StayTransitive
<1>12. DirsStay(s.node, w.node, d)
  BY <1>1, <1>9, <1>11, StayTransitive
<1> QED BY <1>1, <1>6, <1>10, <1>12, StayTransitive

LEMMA UnlinkFileNodes ==
  ASSUME ~RmdirBusy, NameInv, CallInv', NEW p \in Process, Others(p), UnlinkFile(p) PROVE NodeInv'
<1> DEFINE i == ip[p]
           d == dp[p]
           s == Ilock(st, i)
           n == rest[p][1]
<1>1. pc[p] = "unlinkat" /\ lock' = [lock EXCEPT ![d] = None]
  BY DEF UnlinkFile, AtLocked
<1>2. /\ d \in Inum /\ lock[d] = p /\ Dir(st.node, d) /\ n \in Name /\ st.node[d].ent[n] = i
      /\ old[p] = NoInum
  BY <1>1, At DEF NameInv, NodeInv, Knows
<1>3. /\ i \in Inum /\ Good(s, Pending, boot) /\ s.node = st.node /\ s.ref = st.ref /\ s.ref[i] > 0 /\ s.valid[i]
  BY <1>1, Locked
<1>4. /\ \A j \in Inum : st.ref[j] \in Nat /\ Own(p, j) \in Nat /\ Own(p, j) <= st.ref[j]
      /\ s.ref[d] > 0
  BY <1>2, <1>3, OwnRefs, OwnIs DEF NameInv
<1>5. LockStep(p)
  <2> SUFFICES ASSUME NEW j \in Inum
               PROVE  /\ lock'[j] = p => pc'[p] = "unlinkat" /\ dp'[p] = j
                      /\ lock'[j] # lock[j] => lock[j] \in {None, p} /\ lock'[j] \in {None, p}
    BY DEF LockStep
  <2>1. CASE j = d
    BY <1>1, <1>2, <2>1, ProcessAssumption DEF NameInv, CallInv, TypeInv
  <2>2. CASE j # d
    <3>1. lock'[j] = lock[j]
      BY <1>1, <1>2, <2>2 DEF NameInv, CallInv, TypeInv
    <3>2. lock[j] # p
      BY <2>2, ProcessAssumption DEF NameInv, NodeInv, LocksHeld
    <3> QED BY <3>1, <3>2
  <2> QED BY <2>1, <2>2
<1> DEFINE h == Pending
<1>6. \A j \in Inum : h[j] = Pending[j] - Same(Pend(p), j)
  <2>1. Pend(p) = NoInum
    BY <1>1, <1>2 DEF Pend
  <2> QED BY <2>1, PendStep, SameNone
<1>7. SUFFICES ASSUME NEW t, Return(p, t)
               PROVE  (Good(t, Pending, boot) /\ DirsStay(s.node, t.node, d)) => NodeInv'
  <2>1. CASE s.node[i].type = "dir" /\ MayUnlink(s, i) /\ ~Busy(i)
    <3> DEFINE t == Iput(Nlink(Iput(Nlink(Dirlink(s, d, n, NoInum), d, -1), d), i, -1), i)
    <3>1. Return(p, t)
      BY <2>1 DEF UnlinkFile
    <3>2. s.ref[i] = 1 /\ s.node[i].ent = NoEnt /\ Dir(s.node, i)
      BY <1>3, <1>4, <2>1 DEF Busy, MayUnlink, IsDirEmpty, Dir
    <3>3. /\ Good(t, Pending, boot)
          /\ \A j \in Inum : Dir(s.node, j) /\ j # i =>
               Dir(t.node, j) /\ (j # d => t.node[j].ent = s.node[j].ent)
      <4> HIDE DEF s, d, n, i
      <4> QED BY <1>2, <1>3, <1>4, <3>2, GoodRmdir
    <3> HIDE DEF t
    <3>4. st' = t
      BY <3>1 DEF Return
    <3>5. Kept(p)
      <4> SUFFICES ASSUME NEW q \in Process \ {p}, NEW j \in Inum, ip[q] = j \/ dp[q] = j, Dir(st.node, j)
                   PROVE  Dir(st'.node, j) /\ (lock[j] = q => st'.node[j].ent = st.node[j].ent)
        BY DEF Kept
      <4>1. j # i
        <5> SUFFICES ASSUME j = i PROVE FALSE
          OBVIOUS
        <5>1. Own(p, i) \in Nat /\ Own(p, i) > 0 /\ Own(q, i) \in Nat /\ Own(q, i) > 0
          BY OwnIs
        <5>2. Own(p, i) + Own(q, i) <= st.ref[i]
          BY <1>3, OwnRefs DEF NameInv
        <5> QED BY <1>3, <3>2, <5>1, <5>2
      <4>2. lock[j] = q => j # d
        BY <1>2
      <4> QED BY <1>3, <3>3, <3>4, <4>1, <4>2
    <3>6. Good(t, h, boot)
      BY <3>3
    <3> HIDE DEF h
    <3> QED BY <1>5, <1>6, <3>1, <3>5, <3>6, ReturnNodes
  <2>2. CASE s.node[i].type # "dir"
    <3> DEFINE t == Iput(Nlink(Iput(Dirlink(s, d, n, NoInum), d), i, -1), i)
    <3>1. Return(p, t)
      BY <1>3, <2>2 DEF UnlinkFile, MayUnlink, Busy
    <3>2. Good(t, Pending, boot) /\ DirsStay(s.node, t.node, d)
      <4>1. Dir(s.node, d) /\ ~Dir(s.node, i) /\ s.node[d].ent[n] = i
        BY <1>2, <1>3, <2>2 DEF Dir
      <4>2. t = Iput(Nlink(Iput(Dirlink(s, d, n, NoInum), d), i, -1), i)
        OBVIOUS
      <4> HIDE DEF t, s, d, n, i
      <4>3. /\ d \in Inum /\ i \in Inum /\ n \in Name /\ Good(s, Pending, boot)
            /\ s.ref[d] > 0 /\ s.ref[i] > 0 /\ s.valid[i]
        BY <1>2, <1>3, <1>4
      <4> QED BY <4>1, <4>2, <4>3, GoodRemoved
    <3> QED BY <1>7, <3>1, <3>2
  <2>3. CASE ~(MayUnlink(s, i) /\ ~Busy(i)) /\ s.node[i].type = "dir"
    <3> DEFINE u == Iput(s, i)
               t == Iput(u, d)
    <3>1. Return(p, t)
      BY <2>3 DEF UnlinkFile
    <3>2. Own(p, d) > 0 /\ (d = i => Own(p, d) > 1)
      BY OwnIs
    <3>3. d \in 0..NINODES
      <4> HIDE DEF d
      <4> QED BY <1>2, Inums
    <3> HIDE DEF s, d, i
    <3>4. DirsStay(s.node, s.node, d)
      BY StaySame
    <3>5. u = Iput(s, i) /\ t = Iput(u, d)
      OBVIOUS
    <3> HIDE DEF u, t
    <3>6. Good(u, Pending, boot) /\ DirsStay(s.node, u.node, d) /\ \A j \in Inum : u.ref[j] = s.ref[j] - Same(i, j)
      <4>1. i \in Inum /\ s.ref[i] > 0 /\ Good(s, Pending, boot)
        BY <1>3
      <4>2. /\ Good(Iput(s, i), Pending, boot) /\ DirsStay(s.node, Iput(s, i).node, NoInum)
            /\ \A j \in Inum : Iput(s, i).ref[j] = s.ref[j] - Same(i, j)
        BY <4>1, GoodIput
      <4>3. DirsStay(s.node, u.node, d)
        BY <3>3, <3>4, <3>5, <4>2, StayTransitive
      <4> QED BY <3>5, <4>2, <4>3
    <3>7. u.ref[d] > 0
      BY <1>2, <1>3, <1>4, <3>2, <3>6 DEF Same
    <3>8. Good(t, Pending, boot) /\ DirsStay(s.node, t.node, d)
      BY <1>2, <3>3, <3>5, <3>6, <3>7, IputStay
    <3> QED BY <1>7, <3>1, <3>8
  <2> QED BY <2>1, <2>2, <2>3 DEF MayUnlink
<1>8. HAVE Good(t, Pending, boot) /\ DirsStay(s.node, t.node, d)
<1>9. Kept(p)
  <2>1. DirsStay(st.node, st'.node, d)
    BY <1>3, <1>7, <1>8 DEF Return
  <2>2. d \in 0..NINODES
    <3> HIDE DEF d
    <3> QED BY <1>2, Inums
  <2> QED BY <1>2, <2>1, <2>2, KeptIfStay
<1>10. Good(t, h, boot)
  BY <1>8
<1> HIDE DEF h
<1> QED BY <1>5, <1>6, <1>7, <1>9, <1>10, ReturnNodes

-----------------------------------------------------------------------------
(* Crash, boot, and the invariant. *)
AfterCommit == \E n \in [Inum -> Node] : AtBoot(n) /\ Committed(n)

LEMMA CommitHolds == AfterCommit => NameInv
<1> SUFFICES ASSUME NEW n \in [Inum -> Node], AtBoot(n), Committed(n) PROVE NameInv
  BY DEF AfterCommit
<1>1. CallInv /\ RefsAreHolders
  BY BootHolds DEF AfterBoot
<1>2. /\ \A p \in Process : pc[p] = "idle"
      /\ lock = [i \in Inum |-> None] /\ boot = 1 /\ com = n
      /\ st.node = n /\ st.ref = RefsAtBoot /\ \A i \in Inum : ~st.valid[i]
  BY DEF AtBoot, Nobody
<1>3. \A i \in Inum : Pending[i] = 0
  BY <1>1, <1>2, QuietNow
<1>4. st \in Memory
  BY <1>1 DEF CallInv, TypeInv
<1>5. Tree(st.node)
  BY <1>2 DEF Committed
<1>6. Linked(st.node, Pending)
  <2> SUFFICES ASSUME NEW i \in Inum
               PROVE  /\ Pending[i] \in Nat
                      /\ Dir(st.node, i) => Pending[i] = 0
                      /\ ~Dir(st.node, i) => st.node[i].nlink = Cardinality(Entries(st.node, i)) + Pending[i]
    BY DEF Linked
  <2>1. Pending[i] = 0 /\ Cardinality(Entries(st.node, i)) \in Nat
    BY <1>3, EntriesFinite
  <2>2. ~Dir(st.node, i) => st.node[i].nlink = Cardinality(Entries(st.node, i))
    BY <1>2 DEF Committed
  <2> HIDE DEF Pending
  <2> QED BY <2>1, <2>2
<1>7. Life(st, boot)
  <2> SUFFICES ASSUME NEW i \in Inum
               PROVE  /\ st.valid[i] => st.ref[i] > 0
                      /\ Free(st.node, i) => st.ref[i] = 0 /\ st.node[i].nlink = 0
                      /\ ~Free(st.node, i) /\ st.node[i].nlink = 0 /\ i < boot => st.ref[i] > 0 /\ st.valid[i]
    BY DEF Life
  <2>1. ~(i < boot)
    BY <1>2 DEF Inum
  <2>2. Free(st.node, i) => st.node[i].nlink = 0 /\ i # ROOTINO
    BY <1>2, <1>5 DEF Committed, Tree, Root, Dir, Free
  <2>3. i # ROOTINO => st.ref[i] = 0
    BY <1>2 DEF RefsAtBoot
  <2> QED BY <1>2, <2>1, <2>2, <2>3
<1>8. Good(st, Pending, boot)
  BY <1>4, <1>5, <1>6, <1>7 DEF Good
<1>9. LocksHeld
  BY <1>2 DEF LocksHeld
<1>10. \A p \in Process : Knows(p)
  BY <1>2 DEF Knows, WithName, CreateOp
<1> QED BY <1>1, <1>2, <1>8, <1>9, <1>10 DEF NodeInv, NameInv

LEMMA CrashNodes ==
  ASSUME NameInv, Crash PROVE NameInv'
<1>1. AtBoot(com)'
  BY DEF Crash, AtBoot, Nobody, RefsAtBoot
<1>2. com' \in [Inum -> Node]
  BY DEF Crash, NameInv, CallInv, TypeInv
<1>3. Committed(com)'
  BY DEF Crash, NameInv, NodeInv
<1>4. AfterCommit'
  BY <1>1, <1>2, <1>3 DEF AfterCommit, AtBoot
<1> QED BY <1>4, CommitHolds, PTL

(* ireclaim() frees an inode that has no links after a crash. *)
LEMMA GoodReclaimed ==
  ASSUME NEW s, NEW k, NEW b, NEW i \in Inum, NEW t, Good(s, k, b), s.ref[i] = 0, ~Free(s.node, i),
         s.node[i].nlink = 0, t = Reclaimed(s, i)
  PROVE  Good(t, k, b) /\ Free(t.node, i)
<1> DEFINE g == Iget(s, i)
           l == Ilock(g, i)
<1>1. t = Iput(l, i)
  BY DEF Reclaimed
<1>2. Good(g, k, b) /\ g.node = s.node /\ \A j \in Inum : g.ref[j] = s.ref[j] + Same(i, j)
  BY GoodIget
<1>3. g.ref[i] = 1
  BY <1>2 DEF Same
<1> HIDE DEF g
<1>4. Good(l, k, b) /\ l.node = g.node /\ l.ref = g.ref /\ l.valid[i]
  <2>1. g.ref[i] > 0
    BY <1>3
  <2> QED BY <1>2, <2>1, GoodIlock
<1> HIDE DEF l
<1>5. Good(Iput(l, i), k, b)
  <2>1. l.ref[i] > 0
    BY <1>3, <1>4
  <2> QED BY <1>4, <2>1, GoodIput
<1>6. Iput(l, i).node[i] = FreeNode
  <2>1. LastReference(l, i)
    BY <1>2, <1>3, <1>4 DEF LastReference
  <2>2. l \in Memory
    BY <1>4 DEF Good
  <2>3. Iput(l, i).node[i] = IF LastReference(l, i) THEN FreeNode ELSE l.node[i]
    BY <2>2, IputIs
  <2> QED BY <2>1, <2>3
<1> QED BY <1>1, <1>5, <1>6, FreeNodeIs DEF Free

LEMMA IreclaimNodes ==
  ASSUME NameInv, Ireclaim PROVE NodeInv'
<1> DEFINE orphan == st.node[boot].type # "free" /\ st.node[boot].nlink = 0
           s == IF orphan THEN Reclaimed(st, boot) ELSE st
<1>1. /\ boot \in Inum /\ boot \in Int /\ boot' = boot + 1 /\ st' = s /\ com' = s.node
      /\ UNCHANGED <<lock, pc, call, ip, rest, dp, old, cwd, fd>>
  BY NINODESAssumption DEF NameInv, CallInv, TypeInv, Ireclaim, Booted, Inum, procVars
<1>2. \A p \in Process : pc[p] = "idle" /\ fd[p] = NoInum /\ cwd[p] = ROOTINO
  BY DEF Ireclaim, NameInv, CallInv, Booting
<1>3. Good(st, Pending, boot) /\ \A i \in Inum : Pending[i] = 0
  BY <1>2, Boots, QuietNow
<1>4. \A j \in Inum : j # ROOTINO => st.ref[j] = 0
  <2> TAKE j \in Inum
  <2> HAVE j # ROOTINO
  <2>1. \A p \in Process : ip[p] = NoInum /\ dp[p] = NoInum /\ old[p] = NoInum
    BY <1>2 DEF NameInv, CallInv, Held, HeldBy
  <2>2. /\ {p \in Process : cwd[p] = j} = {} /\ {p \in Process : fd[p] = j} = {}
        /\ {p \in Process : ip[p] = j} = {} /\ {p \in Process : dp[p] = j} = {}
        /\ {p \in Process : old[p] = j} = {}
    BY <1>2, <2>1, ZeroInum
  <2>3. Count(cwd, j) = 0 /\ Count(fd, j) = 0 /\ Count(ip, j) = 0 /\ Count(dp, j) = 0 /\ Count(old, j) = 0
    BY <2>2, FS_EmptySet DEF Count
  <2>4. st.ref[j] = Count(cwd, j) + Count(fd, j) + Count(ip, j) + Count(dp, j) + Count(old, j)
    BY HoldersAre DEF NameInv
  <2> QED BY <2>3, <2>4
<1>5. Good(s, Pending, boot) /\ (Free(s.node, boot) \/ s.node[boot].nlink # 0)
  <2>1. CASE orphan
    <3>1. ~Dir(st.node, boot)
      BY <1>1, <1>3, <2>1, DirHasLinks DEF Good
    <3>2. boot # ROOTINO
      BY <1>3, <3>1 DEF Good, Tree, Root
    <3>3. st.ref[boot] = 0 /\ ~Free(st.node, boot) /\ st.node[boot].nlink = 0
      BY <1>1, <1>4, <2>1, <3>2 DEF Free
    <3>4. s = Reclaimed(st, boot)
      BY <2>1
    <3> HIDE DEF s
    <3>5. Good(s, Pending, boot) /\ Free(s.node, boot)
      BY <1>1, <1>3, <3>3, <3>4, GoodReclaimed
    <3> QED BY <3>5
  <2>2. CASE ~orphan
    BY <1>3, <2>2 DEF Free
  <2> QED BY <2>1, <2>2
<1> HIDE DEF s
<1>6. Good(st', Pending, boot')
  <2>1. Life(s, boot + 1)
    <3> SUFFICES ASSUME NEW i \in Inum
                 PROVE  /\ s.valid[i] => s.ref[i] > 0
                        /\ Free(s.node, i) => s.ref[i] = 0 /\ s.node[i].nlink = 0
                        /\ ~Free(s.node, i) /\ s.node[i].nlink = 0 /\ i < boot + 1 => s.ref[i] > 0 /\ s.valid[i]
      BY DEF Life
    <3>1. i < boot + 1 => i < boot \/ i = boot
      BY <1>1 DEF Inum
    <3> QED BY <1>5, <3>1 DEF Good, Life
  <2> QED BY <1>1, <1>5, <2>1 DEF Good
<1>7. \A i \in Inum : Pending'[i] = Pending[i]
  BY <1>1 DEF Pending, Pend
<1>8. Good(st, Pending, boot)'
  <2> DEFINE k == Pending'
  <2>1. \A i \in Inum : k[i] = Pending[i]
    BY <1>7
  <2> HIDE DEF k
  <2>2. Good(st', k, boot')
    BY <1>6, <2>1, GoodCount
  <2> QED BY <2>2 DEF k
<1>9. Committed(com)'
  <2>1. Committed(s.node)
    BY <1>3, <1>5, CommittedIfQuiet
  <2> QED BY <1>1, <2>1
<1>10. LocksHeld'
  BY <1>1 DEF NameInv, NodeInv, LocksHeld
<1>11. \A p \in Process : Knows(p)'
  BY <1>1, <1>2 DEF Knows, WithName, CreateOp
<1> QED BY <1>8, <1>9, <1>10, <1>11 DEF NodeInv

LEMMA NameNext ==
  ASSUME ~RmdirBusy, NameInv, [Next]_vars PROVE NameInv'
<1>1. CallInv /\ RefsAreHolders /\ CallInv' /\ RefsAreHolders'
  BY CallNext DEF NameInv
<1>2. ASSUME NEW p \in Process, OnName(p) PROVE NodeInv'
  <2>1. Others(p)
    BY <1>1, <1>2, StartHolds, WalkEmptyHolds, WalkHolds DEF OnName
  <2> QED BY <1>1, <1>2, <2>1, StartNodes, WalkEmptyNodes, WalkNodes DEF OnName
<1>3. ASSUME NEW p \in Process, OpenOrCreate(p) PROVE NodeInv'
  <2>1. Others(p)
    BY <1>1, <1>3, OpenHolds, CreateFoundHolds, CreateOldHolds, CreateNewHolds, CreateNoInodeHolds DEF OpenOrCreate
  <2> QED BY <1>1, <1>3, <2>1, OpenNodes, CreateFoundNodes, CreateOldNodes, CreateNewNodes, CreateNoInodeNodes
          DEF OpenOrCreate
<1>4. ASSUME NEW p \in Process, Link(p) PROVE NodeInv'
  <2>1. Others(p)
    BY <1>1, <1>4, LinkOldHolds, LinkNewHolds, LinkUndoHolds DEF Link
  <2> QED BY <1>1, <1>4, <2>1, LinkOldNodes, LinkNewNodes, LinkUndoNodes DEF Link
<1>5. ASSUME NEW p \in Process, Unlink(p) PROVE NodeInv'
  <2>1. Others(p)
    BY <1>1, <1>5, UnlinkDirHolds, UnlinkFileHolds DEF Unlink
  <2> QED BY <1>1, <1>5, <2>1, UnlinkDirNodes, UnlinkFileNodes DEF Unlink
<1>6. ASSUME NEW p \in Process, Chdir(p) \/ Close(p) PROVE NodeInv'
  <2>1. Others(p)
    BY <1>1, <1>6, ChdirHolds, CloseHolds
  <2> QED BY <1>1, <1>6, <2>1, ChdirNodes, CloseNodes
<1>7. CASE Crash
  BY <1>7, CrashNodes
<1>8. CASE Ireclaim
  BY <1>1, <1>8, IreclaimNodes DEF NameInv
<1>9. CASE UNCHANGED vars
  <2>1. UNCHANGED <<st, com, lock, pc, call, ip, rest, dp, old, cwd, fd, boot>>
    BY <1>9 DEF vars, procVars
  <2>2. Good(st, Pending, boot)'
    BY <2>1 DEF NameInv, NodeInv, Pending, Pend
  <2>3. NodeInv'
    BY <2>1, <2>2 DEF NameInv, NodeInv, LocksHeld, Knows
  <2> QED BY <1>1, <2>3 DEF NameInv
<1> QED BY <1>1, <1>2, <1>3, <1>4, <1>5, <1>6, <1>7, <1>8, <1>9 DEF Next, NameInv

LEMMA FreshCommitted == Committed(Fresh)
<1> DEFINE new == Fresh
<1>1. \A i \in Inum : new[i] = IF i = ROOTINO
                               THEN [type |-> "dir", nlink |-> 1, ent |-> NoEnt, up |-> ROOTINO]
                               ELSE FreeNode
  BY FreshType
<1>2. new[ROOTINO].type = "dir" /\ new[ROOTINO].nlink = 1 /\ new[ROOTINO].ent = NoEnt /\ new[ROOTINO].up = ROOTINO
  BY <1>1, Inums
<1>3. \A i \in Inum \ {ROOTINO} : new[i].type = "free" /\ new[i].nlink = 0 /\ new[i].ent = NoEnt /\ new[i].up = NoInum
  BY <1>1, FreeNodeIs
<1> HIDE DEF new
<1>4. \A i \in Inum : Entries(new, i) = {} /\ Children(new, i) = {}
  <2> TAKE i \in Inum
  <2>1. \A d \in Inum, m \in Name : new[d].ent[m] # i
    BY <1>2, <1>3, ZeroInum DEF NoEnt
  <2>2. Entries(new, i) = {}
    BY <2>1 DEF Entries
  <2>3. Children(new, i) = {}
    BY <1>3 DEF Children, Dir
  <2> QED BY <2>2, <2>3
<1>5. Leaves(new)
  BY <1>2, <1>3 DEF Leaves, Dir
<1>6. Root(new)
  BY <1>2, <1>4, Inums DEF Root, Dir
<1>7. Parents(new)
  BY <1>3 DEF Parents, Dir
<1>8. Acyclic(new)
  BY <1>4 DEF Acyclic
<1>9. DirLinks(new)
  <2>1. \A i \in Inum : Cardinality(Children(new, i)) = 0
    BY <1>4, FS_EmptySet
  <2> QED BY <1>2, <1>3, <2>1 DEF DirLinks, Dir
<1>10. \A i \in Inum : Cardinality(Entries(new, i)) = 0
  BY <1>4, FS_EmptySet
<1>11. Committed(new)
  BY <1>2, <1>3, <1>5, <1>6, <1>7, <1>8, <1>9, <1>10 DEF Committed, Tree, Dir, Free
<1> QED BY <1>11 DEF new

(* The nodes form a tree with counted links, and a call knows the nodes it  *)
(* holds, as long as no directory is removed that others refer to           *)
(* (kernel/sysfile.c, kernel/fs.c).                                         *)
THEOREM NamesInvariant ==
  ASSUME ~RmdirBusy PROVE Spec => []NameInv
<1>1. Init => NameInv
  <2>1. Init => AfterCommit
    BY InitBoots, FreshType, FreshCommitted DEF AfterCommit
  <2> QED BY <2>1, CommitHolds
<1>2. NameInv /\ [Next]_vars => NameInv'
  BY NameNext
<1> QED BY <1>1, <1>2, PTL DEF Spec

-----------------------------------------------------------------------------
(* What the invariant says. *)
LEMMA PanicInv == NameInv => NoPanic
<1> SUFFICES ASSUME NameInv, NEW p \in Process, NextLocks(p) PROVE ~NoType(st, ip[p])
  BY DEF NoPanic
<1>1. pc[p] # "idle"
  BY DEF NextLocks
<1>2. ip[p] \in Inum
  BY <1>1, At DEF NameInv
<1>3. ~Free(st.node, ip[p])
  BY <1>2, Refers
<1> QED BY <1>3 DEF NoType, Free

LEMMA OrphanInv == NameInv => NoOrphan
<1> SUFFICES ASSUME NameInv, Booted, NEW i \in Inum, st.node[i].type # "free", st.node[i].nlink = 0
             PROVE  st.ref[i] > 0
  BY DEF NoOrphan
<1>1. i < boot
  BY NINODESAssumption DEF Booted, Inum
<1> QED BY <1>1, Boots DEF Good, Life, Free

LEMMA ConsistentInv == NameInv => Consistent
<1> SUFFICES ASSUME NameInv PROVE Consistent
  OBVIOUS
<1>1. Committed(com) /\ Tree(com)
  BY DEF NameInv, NodeInv, Committed
<1>2. \A i \in Inum : Subdirs(com, i) = Children(com, i)
  <2>1. \A d \in Inum : Dir(com, d) => com[d].nlink > 0
    BY <1>1, DirHasLinks
  <2> QED BY <2>1 DEF Subdirs, Children, Dir
<1>3. \A i \in Inum : /\ Cardinality(Entries(com, i)) \in Nat /\ Cardinality(Children(com, i)) \in Nat
                      /\ Links(com, i) = Cardinality(Entries(com, i)) + Cardinality(Children(com, i))
                                         + (IF i = ROOTINO THEN 1 ELSE 0)
  <2> TAKE i \in Inum
  <2>1. Cardinality(Entries(com, i)) \in Nat /\ Cardinality(Children(com, i)) \in Nat
    BY EntriesFinite, ChildrenFinite
  <2>2. Subdirs(com, i) = Children(com, i)
    BY <1>2
  <2> QED BY <2>1, <2>2 DEF Links
<1>4. ASSUME NEW i \in Inum \ {ROOTINO}, Dir(com, i)
      PROVE  /\ Cardinality(Entries(com, i)) = 1
             /\ \A e \in Entries(com, i) : e[1] = com[i].up
  <2>1. PICK n \in Name : Entries(com, i) = {<<com[i].up, n>>}
    BY <1>1, <1>4 DEF Tree, Parents
  <2>2. Cardinality({<<com[i].up, n>>}) = 1
    BY FS_Singleton
  <2>3. Cardinality(Entries(com, i)) = 1
    BY <2>1, <2>2
  <2>4. \A e \in Entries(com, i) : e[1] = com[i].up
    BY <2>1
  <2> QED BY <2>3, <2>4
<1>5. ASSUME NEW i \in Inum PROVE com[i].nlink = Links(com, i)
  <2>1. CASE ~Dir(com, i)
    <3>1. Children(com, i) = {}
      BY <1>1, <2>1 DEF Tree, Parents, Children
    <3>2. Cardinality(Children(com, i)) = 0 /\ i # ROOTINO
      BY <1>1, <2>1, <3>1, FS_EmptySet DEF Tree, Root
    <3>3. com[i].nlink = Cardinality(Entries(com, i))
      BY <1>1, <2>1 DEF Committed
    <3> QED BY <1>3, <3>2, <3>3
  <2>2. CASE Dir(com, i) /\ i = ROOTINO
    <3>1. Entries(com, i) = {}
      BY <1>1, <2>2 DEF Tree, Root
    <3>2. Cardinality(Entries(com, i)) = 0
      BY <3>1, FS_EmptySet
    <3>3. com[i].nlink = Cardinality(Children(com, i)) + 1
      BY <1>1, <2>2 DEF Tree, DirLinks
    <3> QED BY <1>3, <2>2, <3>2, <3>3
  <2>3. CASE Dir(com, i) /\ i # ROOTINO
    <3>1. Cardinality(Entries(com, i)) = 1
      BY <1>4, <2>3
    <3>2. com[i].nlink = Cardinality(Children(com, i)) + 1
      BY <1>1, <2>3 DEF Tree, DirLinks
    <3> QED BY <1>3, <2>3, <3>1, <3>2
  <2> QED BY <2>1, <2>2, <2>3
<1>6. LinksCounted
  BY <1>1, <1>5 DEF LinksCounted, Committed, Free
<1>7. OneTree
  BY <1>4 DEF OneTree, Dir
<1> QED BY <1>6, <1>7 DEF Consistent

(* A call that waits for a directory waits for one that is below the one it *)
(* has locked, so the directories waited for in a circle would be a set in  *)
(* which each has a child.                                                  *)
LEMMA CircleInv == NameInv => NoCircularWait
<1> SUFFICES ASSUME NameInv, NEW S \in SUBSET Process, \A p \in S : S \cap WaitsFor(p) # {}, S # {}
             PROVE  FALSE
  BY DEF NoCircularWait
<1> DEFINE D == {ip[p] : p \in S}
<1>1. ASSUME NEW p \in S
      PROVE  \E q \in S : pc[p] # "idle" /\ lock[ip[p]] = q /\ ip[p] \in Inum
                          /\ pc[q] = "unlinkat" /\ dp[q] = ip[p] /\ Dir(st.node, ip[p])
                          /\ rest[q][1] \in Name /\ st.node[ip[p]].ent[rest[q][1]] = ip[q]
  <2>1. PICK q \in S : q \in WaitsFor(p)
    OBVIOUS
  <2>2. pc[p] # "idle" /\ lock[ip[p]] = q
    BY <2>1 DEF WaitsFor
  <2>3. ip[p] \in Inum
    BY <2>2, At DEF NameInv
  <2>4. pc[q] = "unlinkat" /\ dp[q] = ip[p]
    BY <2>2, <2>3, ProcessAssumption DEF NameInv, NodeInv, LocksHeld
  <2>5. Knows(q)
    BY DEF NameInv, NodeInv
  <2> QED BY <2>2, <2>3, <2>4, <2>5 DEF Knows
<1>2. D \in SUBSET Inum /\ D # {}
  <2>1. \A p \in S : ip[p] \in Inum
    BY <1>1
  <2> QED BY <2>1
<1>3. ASSUME NEW d \in D PROVE D \cap Children(st.node, d) # {}
  <2>1. PICK p \in S : d = ip[p]
    BY <1>3
  <2>2. PICK q \in S : /\ ip[p] \in Inum /\ Dir(st.node, ip[p])
                       /\ rest[q][1] \in Name /\ st.node[ip[p]].ent[rest[q][1]] = ip[q]
    BY <1>1
  <2>3. ip[q] \in Inum /\ Dir(st.node, ip[q])
    BY <1>1
  <2> DEFINE n == rest[q][1]
             s == st
  <2>4. s.node[d].ent[n] # NoInum /\ n \in Name /\ d \in Inum /\ Good(s, Pending, boot)
    BY <2>1, <2>2, <2>3, ZeroInum, Boots
  <2>5. s.node[d].ent[n] = ip[q]
    BY <2>1, <2>2
  <2> HIDE DEF n, s
  <2>6. s.node[d].ent[n] # ROOTINO /\ (Dir(s.node, s.node[d].ent[n]) => s.node[s.node[d].ent[n]].up = d)
    BY <2>4, LedToIsUsed
  <2>7. ip[q] # ROOTINO /\ st.node[ip[q]].up = d
    BY <2>3, <2>5, <2>6 DEF s
  <2>8. ip[q] \in Children(st.node, d)
    BY <2>3, <2>7 DEF Children
  <2> QED BY <2>8
<1>4. Acyclic(st.node)
  BY Boots DEF Good, Tree
<1> HIDE DEF D
<1> QED BY <1>2, <1>3, <1>4 DEF Acyclic

(* No call locks an inode that is free on the disk (panic("ilock: no type") *)
(* in kernel/fs.c), as long as no directory is removed that others refer to.*)
THEOREM NamesNoPanic ==
  ASSUME ~RmdirBusy PROVE Spec => []NoPanic
  BY NamesInvariant, PanicInv, PTL

(* What is on the disk at a commit is a file system, whichever calls failed *)
(* half-way and wherever a crash came (create(), sys_link() and             *)
(* sys_unlink() in kernel/sysfile.c).                                       *)
THEOREM NamesConsistent ==
  ASSUME ~RmdirBusy PROVE Spec => []Consistent
  BY NamesInvariant, ConsistentInv, PTL

(* An inode without links that nobody refers to is freed: iput() frees it,  *)
(* and after a crash ireclaim() (kernel/fs.c).                              *)
THEOREM NamesNoOrphan ==
  ASSUME ~RmdirBusy PROVE Spec => []NoOrphan
  BY NamesInvariant, OrphanInv, PTL

(* Calls that wait for the directories unlink() has locked do not wait in a *)
(* circle (kernel/sysfile.c).                                               *)
THEOREM NamesNoCircularWait ==
  ASSUME ~RmdirBusy PROVE Spec => []NoCircularWait
  BY NamesInvariant, CircleInv, PTL
=============================================================================
