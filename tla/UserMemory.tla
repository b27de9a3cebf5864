----------------------------- MODULE UserMemory -----------------------------
(***************************************************************************)
(* The memory of processes: fork, exit and wait (kernel/proc.c), sbrk      *)
(* (kernel/sysproc.c), exec (kernel/exec.c), page faults (kernel/trap.c)   *)
(* and copyin/copyout on the page tables of module PageTable.              *)
(*                                                                         *)
(* Processes share only the free pages, so a call is one step; exec, which *)
(* sleeps while it reads the program, is one step per segment.             *)
(***************************************************************************)
EXTENDS PageTable, Sequences

CONSTANTS NPROC,
          Val,       \* what is stored, besides zeros
          Programs,  \* bound: programs, sequences of segments [from, end, perm, val]
          Sbrks,     \* bound: arguments of sbrk()
          Touched,   \* bound: addresses of loads, stores and buffers, in user memory
          WORD       \* 2^64: addresses wrap around

VARIABLES
  m,       \* memory and page tables (module PageTable)
  state,   \* "unused", "user", "exec" or "zombie"
  sz,      \* p->sz
  tf,      \* p->trapframe
  ex       \* exec()'s locals: segments to load, sz, the pages of argv

vars == <<m, state, sz, tf, ex>>

Proc == 1..NPROC
New(p) == <<p, "new">>       \* the table that exec() builds
Own(p) == <<p, "own">>       \* p->pagetable
Tables == Proc \X {"new", "own"}
NoExec == [segs |-> <<>>, sz |-> 0, argv |-> {}]
TrapframeVa == TRAPFRAME * PGSIZE

(* A program leaves room for its stack; a larger one runs out of memory.    *)
Segment == [from : Nat, end : Nat, perm : {"r", "rw"}, val : Val]
FitSegment == {s \in Segment : Pages(s.end) + 2 <= TRAPFRAME}
ASSUME ProgramAssumption == Programs \subseteq Seq(FitSegment)
ASSUME TableAssumption == NPROC \in Nat \ {0} /\ Table = Tables
ASSUME AddressAssumption ==
  Sbrks \subseteq Int /\ WORD \in Nat \ {0} /\ Touched \subseteq 0..(TrapframeVa - 1)

(* The registers of the model are cleared when a call returns. *)
Done(n) == m' = [n EXCEPT !.ok = TRUE, !.got = NoPage]

-----------------------------------------------------------------------------
(* proc_pagetable(): an empty table with the trampoline and the trapframe.  *)
ProcPagetable(n, k, g) ==
  LET unmap(c) == Uvmunmap(c, k, TRAMPOLINE, TRAMPOLINE + 1, FALSE)
      frame(b) == Else(Mappages(b, k, TRAPFRAME, g, "kernel"), unmap)
      free(b) == Uvmfree(b, k, 0)
      map(a) == Else(Then(Mappages(a, k, TRAMPOLINE, Trampoline, "kernel"), frame), free) IN
  Then(Uvmcreate(n, k), map)

(* Wrong: leaves the trapframe's entry in the table. *)
ProcFreepagetableLeaf(n, k, s) ==
  Uvmfree(Uvmunmap(n, k, TRAMPOLINE, TRAMPOLINE + 1, FALSE), k, s)
ProcFreepagetable(n, k, s) ==
  Uvmfree(Uvmunmap(n, k, TRAPFRAME, TRAMPOLINE + 1, FALSE), k, s)

(* freeproc(), and its test for a table that was never made. *)
Freeproc(n, p, g, s) ==
  LET a == IF g = NoPage THEN n ELSE Kfree(n, g) IN
  IF a.tab[Own(p)] = NoTable THEN a ELSE ProcFreepagetable(a, Own(p), s)

(* What allocproc() takes: the table and, in got, the trapframe. *)
Allocproc(n, p) ==
  LET free(a) == Freeproc(a, p, NoPage, 0)
      table(a) == LET undo(b) == Freeproc(b, p, a.got, 0)
                      done(b) == [b EXCEPT !.got = a.got] IN
                  Else(Then(ProcPagetable(a, Own(p), a.got), done), undo) IN
  Then(Else(Kalloc(n), free), table)

(* userinit(): the first process, with an empty memory.  There are pages    *)
(* enough for it: the kernel does not look.                                 *)
Init ==
  LET a == Allocproc(AllFree, 1) IN
  /\ a.ok
  /\ m = [a EXCEPT !.ok = TRUE, !.got = NoPage]
  /\ state = [p \in Proc |-> IF p = 1 THEN "user" ELSE "unused"]
  /\ sz = [p \in Proc |-> 0]
  /\ tf = [p \in Proc |-> IF p = 1 THEN a.got ELSE NoPage]
  /\ ex = [p \in Proc |-> NoExec]

(* kfork(), into the first free slot. *)
Unused == {q \in Proc : state[q] = "unused"}
Fork(p) ==
  LET q == CHOOSE q \in Unused : \A r \in Unused : q <= r
      a == Allocproc(m, q)
      b == Uvmcopy(a, Own(p), Own(q), sz[p]) IN
  /\ state[p] = "user" /\ Unused # {}
  /\ IF ~a.ok THEN Done(a) /\ UNCHANGED <<state, sz, tf>>
     ELSE IF ~b.ok THEN Done(Freeproc(b, q, a.got, 0)) /\ UNCHANGED <<state, sz, tf>>
     ELSE /\ Done(b)
          /\ state' = [state EXCEPT ![q] = "user"]
          /\ sz' = [sz EXCEPT ![q] = sz[p]]
          /\ tf' = [tf EXCEPT ![q] = a.got]
  /\ UNCHANGED ex

(* exit(); the first process never does. *)
Exit(p) ==
  /\ state[p] = "user" /\ p # 1
  /\ state' = [state EXCEPT ![p] = "zombie"]
  /\ UNCHANGED <<m, sz, tf, ex>>

(* freeproc() in wait() *)
Reap(p) ==
  /\ state[p] = "zombie"
  /\ Done(Freeproc(m, p, tf[p], sz[p]))
  /\ state' = [state EXCEPT ![p] = "unused"]
  /\ sz' = [sz EXCEPT ![p] = 0]
  /\ tf' = [tf EXCEPT ![p] = NoPage]
  /\ UNCHANGED ex

-----------------------------------------------------------------------------
(* sbrk() *)

(* growproc() with n > 0 *)
Grow(p, n) ==
  /\ n > 0
  /\ IF sz[p] + n > TrapframeVa THEN UNCHANGED <<m, sz>>
     ELSE LET a == Uvmalloc(m, Own(p), sz[p], sz[p] + n, "rw") IN
          Done(a) /\ sz' = [sz EXCEPT ![p] = IF a.ok THEN @ + n ELSE @]

(* growproc() with n < 0: an address below 0 is one far above sz. *)
Shrink(p, n) ==
  LET newsz == (sz[p] + n) % WORD IN
  /\ n < 0
  /\ Done(Uvmdealloc(m, Own(p), sz[p], newsz))
  /\ sz' = [sz EXCEPT ![p] = IF newsz >= @ THEN @ ELSE newsz]

(* The lazy way: memory is promised. *)
GrowLazily(p, n) ==
  /\ n > 0
  /\ sz' = [sz EXCEPT ![p] = IF @ + n > TrapframeVa THEN @ ELSE @ + n]
  /\ UNCHANGED m

Sbrk(p) ==
  /\ state[p] = "user"
  /\ \E n \in Sbrks : Grow(p, n) \/ Shrink(p, n) \/ GrowLazily(p, n)
  /\ UNCHANGED <<state, tf, ex>>

-----------------------------------------------------------------------------
(* A load or store of the user's at address va.  One that faults and is not *)
(* vmfault()'s to mend kills the process, which exits.                      *)
Access(p) ==
  /\ state[p] = "user"
  /\ \E va \in Touched, val \in Val, write \in BOOLEAN :
       LET k == Own(p)
           v == va \div PGSIZE
           may(n) == n.pte[k][v].perm \in (IF write THEN {"rw"} ELSE {"r", "rw"})
           f == IF may(m) THEN Ok(m) ELSE Vmfault(m, k, sz[p], va) IN
       IF f.ok
       THEN Done(IF write THEN Store(f, k, v, val) ELSE f) /\ UNCHANGED state
       ELSE /\ p # 1
            /\ Done(f) /\ state' = [state EXCEPT ![p] = "zombie"]
  /\ UNCHANGED <<sz, tf, ex>>

(* A system call writes to a buffer that goes over a page boundary. *)
Copyout(p) ==
  /\ state[p] = "user"
  /\ \E va \in Touched, val \in Val :
       LET v == va \div PGSIZE
           round(n, w) == CopyoutPage(n, Own(p), sz[p], w, val) IN
       Done(round(round(Ok(m), v), v + 1))
  /\ UNCHANGED <<state, sz, tf, ex>>

(* One reads such a buffer. *)
Copyin(p) ==
  /\ state[p] = "user"
  /\ \E va \in Touched :
       LET v == va \div PGSIZE
           round(n, w) == CopyinPage(n, Own(p), sz[p], w) IN
       Done(round(round(Ok(m), v), v + 1))
  /\ UNCHANGED <<state, sz, tf, ex>>

-----------------------------------------------------------------------------
(* exec() *)

FreeArgv(n, argv) == [n EXCEPT !.free = [g \in Page |-> @[g] + (IF g \in argv THEN 1 ELSE 0)],
                               !.data = [g \in Page |-> IF g \in argv THEN Junk ELSE @[g]]]

(* bad: the new table goes, and the pages of argv. *)
ExecBad(p, n, s) ==
  /\ Done(FreeArgv(ProcFreepagetable(n, New(p), s), ex[p].argv))
  /\ state' = [state EXCEPT ![p] = "user"]
  /\ ex' = [ex EXCEPT ![p] = NoExec]
  /\ UNCHANGED <<sz, tf>>

(* sys_exec() copies an argument; kexec() makes the new table. *)
ExecStart(p) ==
  LET a == Kalloc(m)
      b == ProcPagetable(a, New(p), tf[p]) IN
  /\ state[p] = "user"
  /\ IF ~a.ok THEN Done(a) /\ UNCHANGED <<state, ex>>
     ELSE IF ~b.ok THEN Done(FreeArgv(b, {a.got})) /\ UNCHANGED <<state, ex>>
     ELSE \E prog \in Programs :
            /\ Done(b)
            /\ state' = [state EXCEPT ![p] = "exec"]
            /\ ex' = [ex EXCEPT ![p] = [segs |-> prog, sz |-> 0, argv |-> {a.got}]]
  /\ UNCHANGED <<sz, tf>>

(* loadseg() of a whole segment; it panics where there is no page. *)
Loadseg(n, k, seg) ==
  LET to == seg.from..(Pages(seg.end) - 1)
      loaded == {n.pte[k][v].page : v \in to} IN
  IF \E v \in to : ~User(n, k, v) THEN Panic(n)
  ELSE [n EXCEPT !.data = [g \in Page |-> IF g \in loaded THEN seg.val ELSE @[g]]]

(* A segment is read in, or the file is too short. *)
ExecSegment(p) ==
  LET e == ex[p]
      seg == Head(e.segs)
      a == Uvmalloc(m, New(p), e.sz, seg.end, seg.perm)
      s == IF seg.end < e.sz THEN e.sz ELSE seg.end IN
  /\ state[p] = "exec" /\ e.segs # <<>>
  /\ IF ~a.ok \/ s = 0 THEN ExecBad(p, a, e.sz)
     ELSE \/ /\ Done(Loadseg(a, New(p), seg))
             /\ ex' = [ex EXCEPT ![p] = [segs |-> Tail(e.segs), sz |-> s, argv |-> e.argv]]
             /\ UNCHANGED <<state, sz, tf>>
          \/ ExecBad(p, Loadseg(a, New(p), seg), s)

(* The guard page and the stack, with the arguments; then the new table     *)
(* takes the old one's place.                                               *)
ExecCommit(p) ==
  \E val \in Val :
    LET k == New(p)
        s == Pages(ex[p].sz) * PGSIZE
        a == Uvmalloc(m, k, s, s + 2 * PGSIZE, "rw")
        b == Uvmclear(a, k, Pages(s))
        c == CopyoutPage(b, k, sz[p], Pages(s) + 1, val)
        swapped == [c EXCEPT !.tab[k] = c.tab[Own(p)], !.tab[Own(p)] = c.tab[k],
                             !.pte[k] = c.pte[Own(p)], !.pte[Own(p)] = c.pte[k]] IN
    /\ state[p] = "exec" /\ ex[p].segs = <<>>
    /\ IF ~a.ok THEN ExecBad(p, a, s)
       ELSE \/ /\ c.ok
               /\ Done(FreeArgv(ProcFreepagetable(swapped, k, sz[p]), ex[p].argv))
               /\ state' = [state EXCEPT ![p] = "user"]
               /\ sz' = [sz EXCEPT ![p] = s + 2 * PGSIZE]
               /\ ex' = [ex EXCEPT ![p] = NoExec]
               /\ UNCHANGED tf
            \/ ExecBad(p, b, s + 2 * PGSIZE)

-----------------------------------------------------------------------------
Next == \E p \in Proc :
          \/ Fork(p) \/ Exit(p) \/ Reap(p)
          \/ Sbrk(p) \/ Access(p) \/ Copyout(p) \/ Copyin(p)
          \/ ExecStart(p) \/ ExecSegment(p) \/ ExecCommit(p)

Spec == Init /\ [][Next]_vars

-----------------------------------------------------------------------------
(* No panic: kfree of what is no page, mappages over an entry, freewalk     *)
(* with a leaf left, loadseg without a page, also where memory runs out.    *)
NoPanic == ~m.panic

(* A page is in the free list, a page-table page of one table, mapped once, *)
(* a trapframe or an argument of exec(): exactly one of these, exactly once.*)
(* So nothing is lost, shared or freed twice, whichever call fails where.   *)
TabSlots == {x \in Table \X Node : m.tab[x[1]][x[2]] # NoPage}
PteSlots == {x \in Table \X (0..(TRAPFRAME - 1)) : m.pte[x[1]][x[2]] # NoPte}
TfSlots == {p \in Proc : tf[p] # NoPage}
Argv == UNION {ex[p].argv : p \in Proc}
Owned == {m.tab[x[1]][x[2]] : x \in TabSlots} \cup {m.pte[x[1]][x[2]].page : x \in PteSlots}
         \cup {tf[p] : p \in TfSlots} \cup Argv
PagesOwnedOnce ==
  /\ Owned = Page \ FreeList(m)
  /\ Cardinality(Owned) = Cardinality(TabSlots) + Cardinality(PteSlots)
                          + Cardinality(TfSlots) + Cardinality(Argv)
  /\ \A g \in FreeList(m) : m.free[g] = 1

(* Behind the page tables, faults and failures every process has a private  *)
(* memory: what is promised but not there reads as zeros.                   *)
CellOf(p, v) ==
  LET e == m.pte[Own(p)][v] IN
  IF e = NoPte THEN [perm |-> "rw", val |-> Zero] ELSE [perm |-> e.perm, val |-> m.data[e.page]]
MemoryOf(p) == [v \in 0..(Pages(sz[p]) - 1) |-> CellOf(p, v)]
Promised == INSTANCE PrivateMemory WITH
  Process <- Proc, Val <- Val \cup {Zero}, MaxPages <- TRAPFRAME,
  alive <- {p \in Proc : state[p] # "unused"}, mem <- [p \in Proc |-> MemoryOf(p)]
MemorySpec == Promised!Spec
=============================================================================
