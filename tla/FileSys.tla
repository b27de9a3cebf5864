------------------------------ MODULE FileSys ------------------------------
(***************************************************************************)
(* The system calls on names (kernel/sysfile.c with namex, ialloc, iput    *)
(* and ireclaim of kernel/fs.c): open, mkdir, mknod, link, unlink, chdir,  *)
(* close, in transactions of the log, with crashes.                        *)
(*                                                                         *)
(* A step is what a process does from the ilock() it waited for to the     *)
(* next: everything it changes is under that sleep-lock, a spinlock or a   *)
(* buffer's lock.  lock is a variable for the directory that unlink keeps  *)
(* locked while it waits for the file.  The log (module Log) commits when  *)
(* the last transaction ends, and a crash goes back to the last commit.    *)
(***************************************************************************)
EXTENDS Inode, Sequences

CONSTANTS Process,
          None,
          Calls,      \* bound: the calls made: [op, path, to, abs]
          MaxCrash,   \* bound on crashes
          RmdirBusy   \* do processes remove directories others refer to?

Op == {"open", "openw", "creat", "mkdir", "mknod", "link", "unlink", "chdir"}
Path == Seq(Name \cup {".", ".."})

ASSUME CallsAssumption == Calls \subseteq [op : Op, path : Path, to : Path, abs : BOOLEAN]
ASSUME ProcessAssumption == IsFiniteSet(Process) /\ None \notin Process

VARIABLES
  st,      \* node, ref, valid (module Inode)
  com,     \* node at the last commit
  lock,    \* the process that keeps ip->lock across steps, or None
  pc,      \* where a process is in its call
  call,    \* the call
  ip,      \* the inode namex() has come to, and what the call does with it
  rest,    \* the path elements left
  dp,      \* unlink's locked directory
  old,     \* link's ip
  cwd,     \* p->cwd
  fd,      \* p->ofile[0]->ip, or NoInum
  boot,    \* the next inode ireclaim() looks at
  crashes  \* counted for the bound only

procVars == <<pc, call, ip, rest, dp, old, cwd, fd>>
vars == <<st, com, lock, procVars, boot, crashes>>

Booted == boot = NINODES + 1
NoCall == [op |-> "none", path |-> <<>>, to |-> <<>>, abs |-> TRUE]

Fresh == [i \in Inum |-> IF i = ROOTINO
                         THEN [type |-> "dir", nlink |-> 1, ent |-> NoEnt, up |-> ROOTINO]
                         ELSE FreeNode]
Nobody == /\ lock = [i \in Inum |-> None]
          /\ pc = [p \in Process |-> "idle"]
          /\ call = [p \in Process |-> NoCall]
          /\ ip = [p \in Process |-> NoInum] /\ rest = [p \in Process |-> <<>>]
          /\ dp = [p \in Process |-> NoInum] /\ old = [p \in Process |-> NoInum]
          /\ fd = [p \in Process |-> NoInum]

(* Every process stands in the root directory. *)
RefsAtBoot == [i \in Inum |-> IF i = ROOTINO THEN Cardinality(Process) ELSE 0]

(* A file system as mkfs makes it. *)
Init ==
  /\ st = [node |-> Fresh, ref |-> RefsAtBoot, valid |-> [i \in Inum |-> FALSE]]
  /\ com = Fresh
  /\ Nobody
  /\ cwd = [p \in Process |-> ROOTINO]
  /\ boot = 1 /\ crashes = 0

-----------------------------------------------------------------------------
(* Transactions. *)

(* Wrong: commits although others are in the middle of theirs. *)
LastOutEarly(p) == TRUE
LastOut(p) == \A q \in Process \ {p} : pc[q] = "idle"

(* end_op(), and the call returns. *)
Return(p, s) ==
  /\ st' = s
  /\ com' = IF LastOut(p) THEN s.node ELSE com
  /\ pc' = [pc EXCEPT ![p] = "idle"]
  /\ call' = [call EXCEPT ![p] = NoCall]
  /\ ip' = [ip EXCEPT ![p] = NoInum]
  /\ rest' = [rest EXCEPT ![p] = <<>>]
  /\ dp' = [dp EXCEPT ![p] = NoInum]
  /\ old' = [old EXCEPT ![p] = NoInum]
  /\ UNCHANGED <<boot, crashes>>

Goto(p, where) == pc' = [pc EXCEPT ![p] = where]

-----------------------------------------------------------------------------
(* namex() *)

(* Does the call look for the parent of the last element? *)
WantsParent(p) == \/ pc[p] = "walk" /\ call[p].op \in {"creat", "mkdir", "mknod", "unlink"}
                  \/ pc[p] = "walkto"

(* begin_op(), and the inode a path starts from. *)
Start(p) ==
  /\ Booted /\ pc[p] = "idle"
  /\ \E c \in Calls :
       LET i == IF c.abs THEN ROOTINO ELSE cwd[p] IN
       /\ call' = [call EXCEPT ![p] = c]
       /\ st' = Iget(st, i)
       /\ ip' = [ip EXCEPT ![p] = i]
       /\ rest' = [rest EXCEPT ![p] = c.path]
  /\ Goto(p, "walk")
  /\ UNCHANGED <<com, lock, dp, old, cwd, fd, boot, crashes>>

(* link() has a link to undo: goto bad. *)
LinkBad(p, s) ==
  /\ st' = s
  /\ Goto(p, "bad")
  /\ ip' = [ip EXCEPT ![p] = old[p]]
  /\ old' = [old EXCEPT ![p] = NoInum]
  /\ rest' = [rest EXCEPT ![p] = <<>>]
  /\ UNCHANGED <<com, lock, call, dp, cwd, fd, boot, crashes>>

(* namex() returns 0, and the call fails. *)
WalkFails(p, s) ==
  IF pc[p] = "walkto" THEN LinkBad(p, s) ELSE Return(p, s) /\ UNCHANGED <<lock, cwd, fd>>

(* namex() returns ip, and the call goes on. *)
Found(p, s, i, name) ==
  /\ st' = s
  /\ ip' = [ip EXCEPT ![p] = i]
  /\ rest' = [rest EXCEPT ![p] = name]
  /\ Goto(p, IF pc[p] = "walkto" THEN "linkto" ELSE call[p].op)
  /\ UNCHANGED <<com, lock, call, dp, old, cwd, fd, boot, crashes>>

Walking(p) == pc[p] \in {"walk", "walkto"}

(* Wrong: namex() without the iput() at its end. *)
WalkEmptyKeeps(p) ==
  /\ Walking(p) /\ rest[p] = <<>>
  /\ IF WantsParent(p) THEN WalkFails(p, st) ELSE Found(p, st, ip[p], <<>>)

(* A path without elements: "/" or "". *)
WalkEmpty(p) ==
  /\ Walking(p) /\ rest[p] = <<>>
  /\ IF WantsParent(p) THEN WalkFails(p, Iput(st, ip[p]))
     ELSE Found(p, st, ip[p], <<>>)

(* Locks the inode it has come to: not a directory, the parent, no such     *)
(* name, or the next inode, whose reference it takes before it lets go.     *)
Walk(p) ==
  LET i == ip[p]
      s == Ilock(st, i)
      next == Lookup(s, i, Head(rest[p])) IN
  /\ Walking(p) /\ rest[p] # <<>>
  /\ lock[i] = None /\ ~NoType(st, i)
  /\ IF s.node[i].type # "dir" THEN WalkFails(p, Iput(s, i))
     ELSE IF WantsParent(p) /\ Tail(rest[p]) = <<>> THEN Found(p, s, i, rest[p])
     ELSE IF next = NoInum THEN WalkFails(p, Iput(s, i))
     ELSE IF Tail(rest[p]) = <<>> THEN Found(p, Iput(Iget(s, next), i), next, <<>>)
     ELSE /\ st' = Iput(Iget(s, next), i)
          /\ ip' = [ip EXCEPT ![p] = next]
          /\ rest' = [rest EXCEPT ![p] = Tail(@)]
          /\ UNCHANGED <<com, lock, pc, call, dp, old, cwd, fd, boot, crashes>>

(* ilock(ip), the step an action at this label starts with; it panics for   *)
(* an inode that is free on the disk.                                       *)
AtLocked(p, label) == pc[p] = label /\ lock[ip[p]] = None /\ ~NoType(st, ip[p])

-----------------------------------------------------------------------------
(* open() *)

(* Of a file that is there: mode "open" reads, "openw" writes.  fdalloc()   *)
(* fails when the descriptor is in use.                                     *)
OpenAt(p, s) ==
  IF fd[p] = NoInum
  THEN Return(p, s) /\ fd' = [fd EXCEPT ![p] = ip[p]] /\ UNCHANGED <<lock, cwd>>
  ELSE Return(p, Iput(s, ip[p])) /\ UNCHANGED <<lock, cwd, fd>>

Open(p) ==
  LET s == Ilock(st, ip[p]) IN
  /\ AtLocked(p, "open") \/ AtLocked(p, "openw")
  /\ IF s.node[ip[p]].type = "dir" /\ pc[p] = "openw"
     THEN Return(p, Iput(s, ip[p])) /\ UNCHANGED <<lock, cwd, fd>>
     ELSE OpenAt(p, s)

(* create(): the entry is there already. *)
CreateFound(p) ==
  LET d == ip[p]
      s == Ilock(st, d)
      i == Lookup(s, d, rest[p][1]) IN
  /\ \E op \in {"creat", "mkdir", "mknod"} : AtLocked(p, op)
  /\ i # NoInum
  /\ st' = Iput(Iget(s, i), d)
  /\ ip' = [ip EXCEPT ![p] = i]
  /\ Goto(p, "created")
  /\ UNCHANGED <<com, lock, call, rest, dp, old, cwd, fd, boot, crashes>>

CreateOld(p) ==
  LET s == Ilock(st, ip[p]) IN
  /\ AtLocked(p, "created")
  /\ IF call[p].op = "creat" /\ s.node[ip[p]].type \in {"file", "dev"}
     THEN OpenAt(p, s)
     ELSE Return(p, Iput(s, ip[p])) /\ UNCHANGED <<lock, cwd, fd>>

TypeOf(op) == CASE op = "creat" -> "file" [] op = "mkdir" -> "dir" [] op = "mknod" -> "dev"

(* The new inode, locked, with one link; a directory knows its parent. *)
NewNode(s, i, d, t) ==
  [Ilock(Iget(s, i), i) EXCEPT
     !.node[i] = [type |-> t, nlink |-> 1, ent |-> NoEnt,
                  up |-> IF t = "dir" THEN d ELSE NoInum]]

(* A new inode gets its entry, or the disk is full and it is freed again.   *)
CreateNew(p) ==
  LET d == ip[p]
      s == Ilock(st, d)
      i == FirstFree(s)
      t == TypeOf(pc[p])
      new == NewNode(s, i, d, t) IN
  /\ \E op \in {"creat", "mkdir", "mknod"} : AtLocked(p, op)
  /\ CanLink(s, d, rest[p][1]) /\ FreeInodes(s) # {}
  /\ \/ LET linked == Iput(Nlink(Dirlink(new, d, rest[p][1], i), d,
                                 IF t = "dir" THEN 1 ELSE 0), d) IN
        IF pc[p] = "creat" /\ fd[p] = NoInum
        THEN Return(p, linked) /\ fd' = [fd EXCEPT ![p] = i]
        ELSE Return(p, Iput(linked, i)) /\ UNCHANGED fd
     \/ Return(p, Iput(Iput(Nlink(new, i, -1), i), d)) /\ UNCHANGED fd
  /\ UNCHANGED <<lock, cwd>>

(* ialloc() finds no inode. *)
CreateNoInode(p) ==
  LET s == Ilock(st, ip[p]) IN
  /\ \E op \in {"creat", "mkdir", "mknod"} : AtLocked(p, op)
  /\ CanLink(s, ip[p], rest[p][1]) /\ FreeInodes(s) = {}
  /\ Return(p, Iput(s, ip[p]))
  /\ UNCHANGED <<lock, cwd, fd>>

-----------------------------------------------------------------------------
(* link() *)

MayLink(s, i) == s.node[i].type # "dir"

LinkOld(p) ==
  LET s == Ilock(st, ip[p]) IN
  /\ AtLocked(p, "link")
  /\ IF ~MayLink(s, ip[p])
     THEN Return(p, Iput(s, ip[p])) /\ UNCHANGED <<lock, cwd, fd>>
     ELSE LET i == IF call[p].abs THEN ROOTINO ELSE cwd[p] IN
          /\ st' = Iget(Nlink(s, ip[p], 1), i)
          /\ old' = [old EXCEPT ![p] = ip[p]]
          /\ ip' = [ip EXCEPT ![p] = i]
          /\ rest' = [rest EXCEPT ![p] = call[p].to]
          /\ Goto(p, "walkto")
          /\ UNCHANGED <<com, lock, call, dp, cwd, fd, boot, crashes>>

(* The new entry, or the directory is let go and the link undone. *)
LinkNew(p) ==
  LET d == ip[p]
      s == Ilock(st, d) IN
  /\ AtLocked(p, "linkto")
  /\ \/ /\ CanLink(s, d, rest[p][1])
        /\ Return(p, Iput(Iput(Dirlink(s, d, rest[p][1], old[p]), d), old[p]))
        /\ UNCHANGED <<lock, cwd, fd>>
     \/ LET i == Lookup(s, d, rest[p][1])
            t == IF i = NoInum THEN s ELSE Iput(Iget(s, i), i) IN
        LinkBad(p, Iput(t, d))

(* The link is undone, under a lock of its own. *)
LinkUndo(p) ==
  /\ AtLocked(p, "bad")
  /\ Return(p, Iput(Nlink(Ilock(st, ip[p]), ip[p], -1), ip[p]))
  /\ UNCHANGED <<lock, cwd, fd>>

-----------------------------------------------------------------------------
(* unlink() *)

(* Wrong: "." and ".." can be unlinked. *)
DotsAllowed(name) == FALSE
(* "." and ".." cannot be unlinked. *)
IsDots(name) == name \in {".", ".."}

(* The directory stays locked while unlink waits for the file. *)
UnlinkDir(p) ==
  LET d == ip[p]
      s == Ilock(st, d)
      i == Lookup(s, d, rest[p][1]) IN
  /\ AtLocked(p, "unlink")
  /\ IF IsDots(rest[p][1]) \/ i = NoInum
     THEN Return(p, Iput(s, d)) /\ UNCHANGED <<lock, cwd, fd>>
     ELSE /\ st' = Iget(s, i)
          /\ lock' = [lock EXCEPT ![d] = p]
          /\ dp' = [dp EXCEPT ![p] = d]
          /\ ip' = [ip EXCEPT ![p] = i]
          /\ Goto(p, "unlinkat")
          /\ UNCHANGED <<com, call, rest, old, cwd, fd, boot, crashes>>

(* Does somebody else refer to the directory? *)
Busy(i) == st.node[i].type = "dir" /\ st.ref[i] > 1

MayUnlink(s, i) == s.node[i].type = "dir" => IsDirEmpty(s, i)

UnlinkFile(p) ==
  LET i == ip[p]
      d == dp[p]
      s == Ilock(st, i) IN
  /\ AtLocked(p, "unlinkat")
  /\ lock' = [lock EXCEPT ![d] = None]
  /\ IF MayUnlink(s, i) /\ (RmdirBusy \/ ~Busy(i))
     THEN LET gone == Dirlink(s, d, rest[p][1], NoInum)
              fewer == IF s.node[i].type = "dir" THEN Nlink(gone, d, -1) ELSE gone
          IN Return(p, Iput(Nlink(Iput(fewer, d), i, -1), i))
     ELSE Return(p, Iput(Iput(s, i), d))
  /\ UNCHANGED <<cwd, fd>>

-----------------------------------------------------------------------------
(* chdir() and close() *)

Chdir(p) ==
  LET i == ip[p]
      s == Ilock(st, i) IN
  /\ AtLocked(p, "chdir")
  /\ IF s.node[i].type # "dir"
     THEN Return(p, Iput(s, i)) /\ UNCHANGED cwd
     ELSE Return(p, Iput(s, cwd[p])) /\ cwd' = [cwd EXCEPT ![p] = i]
  /\ UNCHANGED <<lock, fd>>

Close(p) ==
  /\ Booted /\ pc[p] = "idle" /\ fd[p] # NoInum
  /\ Return(p, Iput(st, fd[p]))
  /\ fd' = [fd EXCEPT ![p] = NoInum]
  /\ UNCHANGED <<lock, cwd>>

-----------------------------------------------------------------------------
(* Crash and boot. *)

Crash ==
  /\ crashes < MaxCrash
  /\ crashes' = crashes + 1
  /\ st' = [node |-> com, ref |-> RefsAtBoot, valid |-> [i \in Inum |-> FALSE]]
  /\ lock' = [i \in Inum |-> None]
  /\ pc' = [p \in Process |-> "idle"]
  /\ call' = [p \in Process |-> NoCall]
  /\ ip' = [p \in Process |-> NoInum] /\ rest' = [p \in Process |-> <<>>]
  /\ dp' = [p \in Process |-> NoInum] /\ old' = [p \in Process |-> NoInum]
  /\ fd' = [p \in Process |-> NoInum]
  /\ cwd' = [p \in Process |-> ROOTINO]
  /\ boot' = 1
  /\ UNCHANGED com

(* Wrong: iget() and iput() without the ilock() that reads the inode in. *)
ReclaimedUnread(s, i) == Iput(Iget(s, i), i)
Reclaimed(s, i) == Iput(Ilock(Iget(s, i), i), i)

(* ireclaim(), before any process runs: a transaction for every orphan. *)
Ireclaim ==
  /\ ~Booted
  /\ LET orphan == st.node[boot].type # "free" /\ st.node[boot].nlink = 0
         s == IF orphan THEN Reclaimed(st, boot) ELSE st IN
     /\ st' = s
     /\ com' = s.node
  /\ boot' = boot + 1
  /\ UNCHANGED <<lock, procVars, crashes>>

-----------------------------------------------------------------------------
OnName(p) == Start(p) \/ WalkEmpty(p) \/ Walk(p)
OpenOrCreate(p) == Open(p) \/ CreateFound(p) \/ CreateOld(p) \/ CreateNew(p) \/ CreateNoInode(p)
Link(p) == LinkOld(p) \/ LinkNew(p) \/ LinkUndo(p)
Unlink(p) == UnlinkDir(p) \/ UnlinkFile(p)

Next == \/ \E p \in Process : OnName(p) \/ OpenOrCreate(p) \/ Link(p) \/ Unlink(p)
                              \/ Chdir(p) \/ Close(p)
        \/ Crash \/ Ireclaim

Spec == Init /\ [][Next]_vars

-----------------------------------------------------------------------------
(* No call gets to panic("ilock: no type") (fs.c:316): an inode that an      *)
(* entry, a descriptor or a walk leads to has not been freed.               *)
NextLocks(p) == pc[p] # "idle" /\ (Walking(p) => rest[p] # <<>>) /\ lock[ip[p]] = None
NoPanic == \A p \in Process : NextLocks(p) => ~NoType(st, ip[p])

(* ip->ref counts the pointers to the entry: open files, current            *)
(* directories and what the calls under way hold.                           *)
RefsAreHolders ==
  \A i \in Inum : st.ref[i] =
      Cardinality({p \in Process : cwd[p] = i}) + Cardinality({p \in Process : fd[p] = i})
    + Cardinality({p \in Process : ip[p] = i}) + Cardinality({p \in Process : dp[p] = i})
    + Cardinality({p \in Process : old[p] = i})

Entries(node, i) == {e \in Inum \X Name : node[e[1]].ent[e[2]] = i}
Subdirs(node, i) == {d \in Inum \ {ROOTINO} : node[d].type = "dir" /\ node[d].nlink > 0 /\ node[d].up = i}
Links(node, i) == Cardinality(Entries(node, i)) + Cardinality(Subdirs(node, i))
                  + (IF i = ROOTINO THEN 1 ELSE 0)

(* sysfile.c:147, :290: what is on the disk at a commit, and so after a     *)
(* crash, is a file system: nlink is the number of links to the inode       *)
(* (fs.h:36), whichever calls failed half-way, no entry leads to a free     *)
(* inode, and ".." is the only directory with an entry for a directory.     *)
LinksCounted ==
  \A i \in Inum : com[i].nlink = Links(com, i) /\ (com[i].type = "free" => com[i].nlink = 0)
OneTree ==
  \A i \in Inum \ {ROOTINO} : com[i].type = "dir" /\ com[i].nlink > 0 =>
    /\ Cardinality(Entries(com, i)) = 1
    /\ \A e \in Entries(com, i) : e[1] = com[i].up
Consistent == LinksCounted /\ OneTree

(* An inode without links lives as long as someone refers to it, and no     *)
(* longer; after a crash, ireclaim() finds those that were open.            *)
NoOrphan ==
  Booted => \A i \in Inum :
    st.node[i].type # "free" /\ st.node[i].nlink = 0 => st.ref[i] > 0

(* unlink keeps a directory locked while it waits for an inode below it, so *)
(* no chain of waiting calls comes back to where it started.                *)
WaitsFor(p) == {q \in Process : pc[p] # "idle" /\ lock[ip[p]] = q}
NoCircularWait ==
  \A S \in SUBSET Process : (\A p \in S : S \cap WaitsFor(p) # {}) => S = {}
=============================================================================
