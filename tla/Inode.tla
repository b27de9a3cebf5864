------------------------------- MODULE Inode -------------------------------
(***************************************************************************)
(* Inodes (kernel/fs.c): the nodes on disk, the table of those in use, and *)
(* the functions that take and give back references.                       *)
(*                                                                         *)
(* A state s has                                                           *)
(*   node   the inodes on disk, as the buffer cache shows them: type,      *)
(*          nlink, and for a directory its entries (ent, 0: no such name)  *)
(*          and the number in its ".." entry (up);                         *)
(*   ref    ip->ref of the table's entry, valid  its ip->valid.            *)
(* The fields an entry copies from the disk are changed under ip->lock and *)
(* written back by iupdate() before the lock is released, so a valid entry *)
(* agrees with the disk.  The table has a slot for every inode (NINODE).   *)
(***************************************************************************)
EXTENDS Integers, FiniteSets

CONSTANTS NINODES,   \* sb.ninodes - 1
          Name       \* names of entries, "." and ".." apart

ASSUME NINODESAssumption == NINODES \in Nat \ {0}
ASSUME NameAssumption == IsFiniteSet(Name) /\ Name \cap {".", ".."} = {}

Inum == 1..NINODES
ROOTINO == 1
NoInum == 0
NoEnt == [n \in Name |-> NoInum]
FreeNode == [type |-> "free", nlink |-> 0, ent |-> NoEnt, up |-> NoInum]

Iget(s, i) == [s EXCEPT !.ref[i] = @ + 1]

(* ilock() reads the inode in; it panics where there is none. *)
NoType(s, i) == ~s.valid[i] /\ s.node[i].type = "free"
Ilock(s, i) == [s EXCEPT !.valid[i] = TRUE]

(* Wrong: looks at the links alone. *)
LastReferenceLinks(s, i) == s.valid[i] /\ s.node[i].nlink = 0
LastReference(s, i) == s.ref[i] = 1 /\ s.valid[i] /\ s.node[i].nlink = 0

(* An inode without links goes with its last reference, and its content. *)
Iput(s, i) ==
  [s EXCEPT !.ref[i] = @ - 1,
            !.valid[i] = s.ref[i] > 1 /\ ~LastReference(s, i) /\ @,
            !.node[i] = IF LastReference(s, i) THEN FreeNode ELSE @]

(* ialloc() takes the first inode whose type is 0. *)
FreeInodes(s) == {i \in Inum : s.node[i].type = "free"}
FirstFree(s) == CHOOSE i \in FreeInodes(s) : \A j \in FreeInodes(s) : i <= j

Nlink(s, i, d) == [s EXCEPT !.node[i].nlink = @ + d]

(* dirlookup() in a locked directory: the number, or NoInum. *)
Lookup(s, d, name) ==
  CASE name = "."  -> d
    [] name = ".." -> s.node[d].up
    [] OTHER       -> s.node[d].ent[name]

(* The entry of dirlink(); one that is there, or a full disk, makes it fail. *)
CanLink(s, d, name) == Lookup(s, d, name) = NoInum
Dirlink(s, d, name, i) == [s EXCEPT !.node[d].ent[name] = i]

(* isdirempty() *)
IsDirEmpty(s, d) == s.node[d].ent = NoEnt
=============================================================================
