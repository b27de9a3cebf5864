----------------------------- MODULE PageTable -----------------------------
(***************************************************************************)
(* Physical pages (kernel/kalloc.c) and page tables (kernel/vm.c), as      *)
(* operators on a memory m with                                            *)
(*   free   how often a page is in kmem.freelist (a list in which a page   *)
(*          may be twice: kfree() does not look),                          *)
(*   data   what a page holds, one value for all its bytes,                *)
(*   tab    the page-table pages of each table, by level and position,     *)
(*   pte    the leaf entries of each table, by page number,                *)
(*   ok     did the last function succeed,  got  the page kalloc() gave,   *)
(*   panic  has the kernel panicked.                                       *)
(* Addresses are in bytes, page numbers are named v.  A table has three    *)
(* levels of FAN entries.  kmem.lock is held for kalloc() and kfree() only *)
(* and a table belongs to one process.                                     *)
(***************************************************************************)
EXTENDS Integers, FiniteSets

CONSTANTS NPAGES,  \* the pages between end and PHYSTOP
          PGSIZE, FAN,
          Table    \* the page tables there may be

ASSUME SizesAssumption == NPAGES \in Nat /\ PGSIZE \in Nat \ {0} /\ FAN \in Nat \ {0, 1}

Page == 1..NPAGES
NoPage == 0
Trampoline == NPAGES + 1     \* a page of the kernel's text
Vpn == 0..(FAN * FAN * FAN - 1)
TRAMPOLINE == FAN * FAN * FAN - 1
TRAPFRAME == FAN * FAN * FAN - 2
Node == {<<2, 0>>} \cup {1} \X (0..(FAN - 1)) \cup {0} \X (0..(FAN * FAN - 1))
NodeOf(level, v) == <<level, v \div (IF level = 0 THEN FAN ELSE FAN * FAN)>>
Zero == 0
Junk == -1

(* r: PTE_R or PTE_X;  rw: with PTE_W;  guard, kernel: without PTE_U. *)
Pte == [page : 0..(NPAGES + 1), perm : {"none", "r", "rw", "guard", "kernel"}]
NoPte == [page |-> NoPage, perm |-> "none"]
NoTable == [n \in Node |-> NoPage]
NoPtes == [v \in Vpn |-> NoPte]

(* kinit() *)
AllFree == [free |-> [g \in Page |-> 1], data |-> [g \in Page |-> Junk],
            tab |-> [k \in Table |-> NoTable], pte |-> [k \in Table |-> NoPtes],
            ok |-> TRUE, got |-> NoPage, panic |-> FALSE]

Ok(m) == [m EXCEPT !.ok = TRUE]
Fail(m) == [m EXCEPT !.ok = FALSE]
Panic(m) == [m EXCEPT !.ok = FALSE, !.panic = TRUE]

(* What follows when all went well so far, and what when it did not. *)
Then(m, F(_)) == IF m.ok THEN F(m) ELSE m
Else(m, F(_)) == IF m.ok THEN m ELSE F(m)

Pages(sz) == (sz + PGSIZE - 1) \div PGSIZE      \* PGROUNDUP(sz) / PGSIZE

-----------------------------------------------------------------------------
FreeList(m) == {g \in Page : m.free[g] > 0}

(* The free pages are all alike: the first one. *)
Kalloc(m) ==
  IF FreeList(m) = {} THEN Fail(m)
  ELSE LET g == CHOOSE g \in FreeList(m) : \A h \in FreeList(m) : g <= h IN
       [Ok(m) EXCEPT !.free[g] = @ - 1, !.data[g] = Junk, !.got = g]

Kfree(m, g) ==
  IF g \notin Page THEN Panic(m) ELSE [m EXCEPT !.free[g] = @ + 1, !.data[g] = Junk]

-----------------------------------------------------------------------------
(* walk() with alloc: the table one level down, which may be new. *)
WalkDown(m, k, level, v) ==
  LET link(a) == [a EXCEPT !.tab[k][NodeOf(level, v)] = a.got, !.data[a.got] = Zero] IN
  IF m.tab[k][NodeOf(level, v)] # NoPage THEN Ok(m) ELSE Then(Kalloc(m), link)

WalkAlloc(m, k, v) ==
  LET leaf(w) == WalkDown(w, k, 0, v) IN Then(WalkDown(m, k, 1, v), leaf)

(* mappages() of one page *)
Mappages(m, k, v, g, perm) ==
  LET enter(w) == IF w.pte[k][v] # NoPte THEN Panic(w)
                  ELSE [w EXCEPT !.pte[k][v] = [page |-> g, perm |-> perm]] IN
  Then(WalkAlloc(m, k, v), enter)

(* kalloc() and mappages() of a page that holds val, which goes back if it  *)
(* cannot be mapped: in uvmalloc(), uvmcopy() and vmfault().                *)
MapNew(m, k, v, perm, val) ==
  LET map(a) == LET giveBack(b) == Kfree(b, a.got) IN
                Else(Mappages([a EXCEPT !.data[a.got] = val], k, v, a.got, perm), giveBack) IN
  Then(Kalloc(m), map)

(* uvmunmap() of the pages first to last - 1 *)
Uvmunmap(m, k, first, last, doFree) ==
  LET gone == {v \in first..(last - 1) : m.pte[k][v] # NoPte}
      times(g) == IF doFree THEN Cardinality({v \in gone : m.pte[k][v].page = g}) ELSE 0
      kernel == doFree /\ \E v \in gone : m.pte[k][v].page \notin Page IN
  [m EXCEPT !.free = [g \in Page |-> @[g] + times(g)],
            !.data = [g \in Page |-> IF times(g) > 0 THEN Junk ELSE @[g]],
            !.pte[k] = [v \in Vpn |-> IF v \in gone THEN NoPte ELSE @[v]],
            !.panic = @ \/ kernel]

(* uvmcreate() *)
Uvmcreate(m, k) ==
  LET root(a) == [a EXCEPT !.tab[k][<<2, 0>>] = a.got, !.data[a.got] = Zero] IN
  Then(Kalloc(m), root)

(* Wrong: takes back the entries but not the pages. *)
UvmdeallocKeeps(m, k, oldsz, newsz) ==
  IF newsz >= oldsz THEN m ELSE Uvmunmap(m, k, Pages(newsz), Pages(oldsz), FALSE)
Uvmdealloc(m, k, oldsz, newsz) ==
  IF newsz >= oldsz THEN m ELSE Uvmunmap(m, k, Pages(newsz), Pages(oldsz), TRUE)

(* One round of uvmalloc(): a page v, or all that it has added is undone. *)
UvmallocPage(m, k, first, v, perm) ==
  LET undo(u) == Fail(Uvmdealloc(u, k, v * PGSIZE, first * PGSIZE))
      page(u) == Else(MapNew(u, k, v, perm, Zero), undo) IN
  Then(m, page)

(* at[v] is the memory when the loop has come to page v. *)
Uvmalloc(m, k, oldsz, newsz, perm) ==
  LET first == Pages(oldsz)
      at[v \in first..Pages(newsz)] ==
        IF v = first THEN Ok(m) ELSE UvmallocPage(at[v - 1], k, first, v - 1, perm) IN
  IF newsz < oldsz THEN Ok(m) ELSE at[Pages(newsz)]

(* freewalk(): every page-table page; a leaf that is left is a panic. *)
Freewalk(m, k) ==
  LET times(g) == Cardinality({n \in Node : m.tab[k][n] = g}) IN
  IF m.pte[k] # NoPtes THEN Panic(m)
  ELSE [m EXCEPT !.free = [g \in Page |-> @[g] + times(g)],
                 !.data = [g \in Page |-> IF times(g) > 0 THEN Junk ELSE @[g]],
                 !.tab[k] = NoTable]

Uvmfree(m, k, sz) == Freewalk(Uvmunmap(m, k, 0, Pages(sz), TRUE), k)

(* One round of uvmcopy(). *)
UvmcopyPage(m, old, new, v) ==
  LET e == m.pte[old][v]
      undo(u) == Fail(Uvmunmap(u, new, 0, v, TRUE))
      page(u) == Else(MapNew(u, new, v, e.perm, u.data[e.page]), undo) IN
  IF e = NoPte THEN m ELSE Then(m, page)

Uvmcopy(m, old, new, sz) ==
  LET at[v \in 0..Pages(sz)] ==
        IF v = 0 THEN Ok(m) ELSE UvmcopyPage(at[v - 1], old, new, v - 1) IN
  at[Pages(sz)]

(* uvmclear() *)
Uvmclear(m, k, v) == [m EXCEPT !.pte[k][v].perm = "guard"]

-----------------------------------------------------------------------------
(* Wrong: gives the page out as kalloc() left it. *)
VmfaultJunk(m, k, sz, va) ==
  LET v == va \div PGSIZE IN
  IF va >= sz \/ m.pte[k][v] # NoPte THEN Fail(m) ELSE MapNew(m, k, v, "rw", Junk)

(* vmfault(): a page that sbrk() has promised. *)
Vmfault(m, k, sz, va) ==
  LET v == va \div PGSIZE IN
  IF va >= sz \/ m.pte[k][v] # NoPte THEN Fail(m) ELSE MapNew(m, k, v, "rw", Zero)

User(m, k, v) == m.pte[k][v].perm \in {"r", "rw"}
Store(m, k, v, val) == [m EXCEPT !.data[m.pte[k][v].page] = val]

(* One round of copyin() *)
CopyinPage(m, k, sz, v) ==
  IF ~m.ok \/ User(m, k, v) THEN m ELSE Vmfault(m, k, sz, v * PGSIZE)

(* One round of copyout() *)
CopyoutPage(m, k, sz, v, val) ==
  LET store(f) == IF f.pte[k][v].perm # "rw" THEN Fail(f) ELSE Store(f, k, v, val) IN
  Then(CopyinPage(m, k, sz, v), store)
=============================================================================
