----------------------------- MODULE MemProofs -----------------------------
(***************************************************************************)
(* Proofs about UserMemory, for any number of processes and pages, any     *)
(* sizes, programs and addresses: it does not panic, a page has one owner, *)
(* and it implements PrivateMemory.                                        *)
(***************************************************************************)
EXTENDS UserMemory, WellFoundedInduction, FiniteSetTheorems, TLAPS

(* The pages of a table that hold the user's memory. *)
UserVpn == 0..(TRAPFRAME - 1)
Stored == Val \cup {Zero}
Memory == [free : [Page -> Nat], data : [Page -> Stored \cup {Junk}],
           tab : [Table -> [Node -> 0..NPAGES]], pte : [Table -> [Vpn -> Pte]],
           ok : BOOLEAN, got : 0..NPAGES, panic : BOOLEAN]

Perms == {"r", "rw", "guard"}

(* The page-table pages, the pages of the user's memory, and those in out,  *)
(* which something else has, are all different ...                          *)
TablesOnce(n, out) ==
  \A k \in Table, x \in Node : n.tab[k][x] # NoPage =>
    /\ n.tab[k][x] \notin out
    /\ \A l \in Table, y \in Node : n.tab[l][y] = n.tab[k][x] => l = k /\ y = x
    /\ \A l \in Table, v \in UserVpn : n.pte[l][v].page # n.tab[k][x]
MappedOnce(n, out) ==
  \A k \in Table, v \in UserVpn : n.pte[k][v] # NoPte =>
    /\ n.pte[k][v].page \in Page \ out
    /\ n.pte[k][v].perm \in Perms
    /\ n.data[n.pte[k][v].page] \in Stored
    /\ \A l \in Table, w \in UserVpn : n.pte[l][w].page = n.pte[k][v].page => l = k /\ w = v
(* ... and the others are free, once. *)
HasTable(n, g) == \E k \in Table, x \in Node : n.tab[k][x] = g
Mapped(n, g) == \E k \in Table, v \in UserVpn : n.pte[k][v].page = g
Counted(n, out) ==
  \A g \in Page : n.free[g] = IF g \in out \/ HasTable(n, g) \/ Mapped(n, g) THEN 0 ELSE 1

Sound(n, out) ==
  /\ n \in Memory /\ ~n.panic /\ out \subseteq Page
  /\ TablesOnce(n, out) /\ MappedOnce(n, out) /\ Counted(n, out)

(* What there is to see of a table, but for the numbers of pages. *)
Leaf(g, perm) == [page |-> g, perm |-> perm]
Full(perm, val) == [perm |-> perm, val |-> val]
NoCell == [perm |-> "none", val |-> Zero]
Cell(n, k, v) ==
  IF n.pte[k][v] = NoPte THEN NoCell
  ELSE [perm |-> n.pte[k][v].perm, val |-> n.data[n.pte[k][v].page]]
NoCells == [v \in UserVpn |-> NoCell]
Make(cells, frame, tramp, tables) ==
  [cells |-> cells, frame |-> frame, tramp |-> tramp, tables |-> tables]
CellsOf(n, k) == [v \in UserVpn |-> Cell(n, k, v)]
TablesOf(n, k) == IF n.tab[k] = NoTable THEN "none" ELSE "some"
Space(n, k) == Make(CellsOf(n, k), n.pte[k][TRAPFRAME], n.pte[k][TRAMPOLINE], TablesOf(n, k))
NoSpace == Make(NoCells, NoPte, NoPte, "none")
(* Changes to it. *)
Put(s, v, c) == Make([s.cells EXCEPT ![v] = c], s.frame, s.tramp, s.tables)
Wipe(s, pages) ==
  Make([v \in UserVpn |-> IF v \in pages THEN NoCell ELSE s.cells[v]], s.frame, s.tramp, s.tables)
Frame(s, e) == Make(s.cells, e, s.tramp, s.tables)
Tramp(s, e) == Make(s.cells, s.frame, e, s.tables)
Root(s) == Make(s.cells, s.frame, s.tramp, "some")
Others(r, n, k) == \A l \in Table \ {k} : Space(r, l) = Space(n, l)
Alike(r, n) == \A l \in Table : Space(r, l) = Space(n, l)

-----------------------------------------------------------------------------
(* Numbers. *)

LEMMA DivBelow ==
  ASSUME NEW a \in Nat, NEW b \in Nat \ {0}, NEW v \in Nat, v < a * b
  PROVE  v \div b \in 0..(a - 1)
<1>1. v \div b \in Nat /\ v % b \in 0..(b - 1) /\ v = b * (v \div b) + (v % b)
  OBVIOUS
<1>2. CASE v \div b >= a
  <2>1. b * (v \div b) >= b * a
    BY <1>1, <1>2
  <2> QED BY <1>1, <2>1
<1> QED BY <1>1, <1>2

LEMMA Sizes ==
  /\ TRAPFRAME \in Nat /\ TRAPFRAME >= 6 /\ TRAMPOLINE = TRAPFRAME + 1 /\ Vpn = 0..(TRAPFRAME + 1)
  /\ \A v \in Vpn : NodeOf(0, v) \in Node /\ NodeOf(1, v) \in Node
                    /\ NodeOf(0, v) # <<2, 0>> /\ NodeOf(1, v) # <<2, 0>>
  /\ <<2, 0>> \in Node
<1>1. FAN \in Nat /\ FAN >= 2
  BY SizesAssumption
<1>2. FAN * FAN \in Nat /\ FAN * FAN >= 4
  BY <1>1
<1>3. FAN * FAN * FAN \in Nat /\ FAN * FAN * FAN >= 8
  <2>1. (FAN * FAN) * FAN >= 4 * FAN
    BY <1>1, <1>2
  <2> QED BY <1>1, <1>2, <2>1
<1>4. TRAPFRAME \in Nat /\ TRAPFRAME >= 6 /\ TRAMPOLINE = TRAPFRAME + 1 /\ Vpn = 0..(TRAPFRAME + 1)
  BY <1>3 DEF TRAPFRAME, TRAMPOLINE, Vpn
<1>5. ASSUME NEW v \in Vpn
      PROVE  v \div FAN \in 0..(FAN * FAN - 1) /\ v \div (FAN * FAN) \in 0..(FAN - 1)
  <2> DEFINE s == FAN * FAN
  <2>1. v \in Nat /\ v < s * FAN
    BY <1>3 DEF Vpn
  <2>2. v < FAN * s /\ FAN \in Nat \ {0} /\ s \in Nat \ {0}
    BY <2>1, <1>1, <1>2
  <2> HIDE DEF s
  <2>3. v \div FAN \in 0..(s - 1) /\ v \div s \in 0..(FAN - 1)
    BY <2>1, <2>2, DivBelow
  <2> QED BY <2>3 DEF s
<1>6. ASSUME NEW v \in Vpn
      PROVE  /\ NodeOf(0, v) \in Node /\ NodeOf(1, v) \in Node
             /\ NodeOf(0, v) # <<2, 0>> /\ NodeOf(1, v) # <<2, 0>>
  BY <1>5 DEF NodeOf, Node
<1>7. <<2, 0>> \in Node
  BY DEF Node
<1> QED BY <1>4, <1>6, <1>7

(* Numbers of pages grow with the size, and a whole number of them is exact. *)
LEMMA PagesIs ==
  ASSUME NEW s \in Nat
  PROVE  /\ Pages(s) \in Nat /\ PGSIZE \in Nat \ {0}
         /\ Pages(s) * PGSIZE >= s /\ \A v \in Nat : v * PGSIZE >= s => Pages(s) <= v
<1>1. PGSIZE \in Nat /\ PGSIZE > 0
  BY SizesAssumption
<1> DEFINE a == s + PGSIZE - 1  q == a \div PGSIZE
<1>2. q \in Nat /\ a % PGSIZE \in 0..(PGSIZE - 1) /\ a = PGSIZE * q + (a % PGSIZE)
  BY <1>1
<1>3. PGSIZE * q >= s
  BY <1>1, <1>2
<1>4. ASSUME NEW v \in Nat, v * PGSIZE >= s, q > v PROVE FALSE
  <2>1. PGSIZE * q >= PGSIZE * (v + 1)
    BY <1>1, <1>2, <1>4
  <2>2. PGSIZE * (v + 1) = v * PGSIZE + PGSIZE
    BY <1>1
  <2> QED BY <2>1, <2>2, <1>1, <1>2, <1>4
<1>5. Pages(s) = q
  BY DEF Pages
<1>6. q * PGSIZE = PGSIZE * q
  BY <1>1, <1>2
<1> HIDE DEF q
<1> QED BY <1>1, <1>2, <1>3, <1>4, <1>5, <1>6

LEMMA PagesGrow ==
  ASSUME NEW s \in Nat, NEW t \in Nat, s <= t
  PROVE  Pages(s) <= Pages(t)
<1>1. Pages(t) \in Nat /\ Pages(t) * PGSIZE >= t /\ PGSIZE \in Nat
  BY PagesIs
<1>2. Pages(t) * PGSIZE \in Nat
  BY <1>1
<1>3. Pages(t) * PGSIZE >= s
  BY <1>1, <1>2
<1> QED BY <1>1, <1>3, PagesIs

LEMMA PagesWhole ==
  ASSUME NEW v \in Nat
  PROVE  v * PGSIZE \in Nat /\ Pages(v * PGSIZE) = v
<1>1. PGSIZE \in Nat /\ PGSIZE > 0
  BY SizesAssumption
<1>2. v * PGSIZE \in Nat
  BY <1>1
<1> DEFINE q == Pages(v * PGSIZE)
<1>3. q \in Nat /\ q * PGSIZE >= v * PGSIZE /\ q <= v
  BY <1>2, PagesIs
<1>4. CASE q < v
  <2>1. (q + 1) * PGSIZE <= v * PGSIZE
    BY <1>1, <1>3, <1>4
  <2>2. (q + 1) * PGSIZE = q * PGSIZE + PGSIZE
    BY <1>1, <1>3
  <2> HIDE DEF q
  <2> QED BY <1>1, <1>2, <1>3, <2>1, <2>2
<1> QED BY <1>2, <1>3, <1>4

-----------------------------------------------------------------------------
(* The least of a set of numbers, and induction over a set of them.         *)

LEMMA Least ==
  ASSUME NEW S, S \subseteq Nat, S # {}
  PROVE  \E x \in S : \A y \in S : x <= y
<1> DEFINE R == {x \in Nat \X Nat : x[1] < x[2]}
<1>1. R = OpToRel(<, Nat)
  BY Zenon DEF OpToRel
<1>2. IsWellFoundedOn(R, Nat)
  BY <1>1, NatLessThanWellFounded, Zenon
<1>h. HIDE DEF R
<1>3. PICK x \in S : \A y \in S : <<y, x>> \notin R
  BY <1>2, WFMin, Zenon
<1>4. ASSUME NEW y \in S PROVE x <= y
  <2>1. x \in Nat /\ y \in Nat
    OBVIOUS
  <2>2. ~(y < x)
    BY <1>3, <2>1 DEF R
  <2> QED BY <2>1, <2>2
<1> QED BY <1>4

LEMMA Inductive ==
  ASSUME NEW S, 0 \in S, \A i \in Nat : i \in S => i + 1 \in S
  PROVE  Nat \subseteq S
<1> SUFFICES ASSUME Nat \ S # {} PROVE FALSE
  OBVIOUS
<1> DEFINE T == Nat \ S
<1>1. PICK x \in T : \A y \in T : x <= y
  <2>1. T \subseteq Nat /\ T # {}
    OBVIOUS
  <2> HIDE DEF T
  <2> QED BY <2>1, Least
<1>2. x - 1 \in Nat
  OBVIOUS
<1>3. x - 1 \notin T
  BY <1>1, <1>2
<1>4. (x - 1) + 1 \in S
  BY <1>2, <1>3
<1> QED BY <1>4

-----------------------------------------------------------------------------
(* What there is to see of a table. *)

LEMMA Entry == /\ NoPte \in Pte /\ NoPte.page = NoPage /\ NoPte.perm = "none" /\ NoPage \notin Page
               /\ \A e \in Pte : e = NoPte <=> e.page = NoPage /\ e.perm = "none"
  BY SizesAssumption DEF NoPte, Pte, NoPage, Page

LEMMA Made ==
  ASSUME NEW c, NEW f, NEW t, NEW b
  PROVE  /\ Make(c, f, t, b).cells = c /\ Make(c, f, t, b).frame = f
         /\ Make(c, f, t, b).tramp = t /\ Make(c, f, t, b).tables = b
  BY DEF Make

LEMMA Spaces ==
  ASSUME NEW n, NEW k
  PROVE  /\ Space(n, k).cells = CellsOf(n, k) /\ \A v \in UserVpn : Space(n, k).cells[v] = Cell(n, k, v)
         /\ Space(n, k).frame = n.pte[k][TRAPFRAME] /\ Space(n, k).tramp = n.pte[k][TRAMPOLINE]
         /\ Space(n, k).tables = TablesOf(n, k)
<1>1. /\ Space(n, k).cells = CellsOf(n, k)
      /\ Space(n, k).frame = n.pte[k][TRAPFRAME] /\ Space(n, k).tramp = n.pte[k][TRAMPOLINE]
      /\ Space(n, k).tables = TablesOf(n, k)
  BY Made DEF Space
<1>2. \A v \in UserVpn : CellsOf(n, k)[v] = Cell(n, k, v)
  BY DEF CellsOf
<1> QED BY <1>1, <1>2

LEMMA PutIs ==
  ASSUME NEW s, NEW v, NEW c
  PROVE  /\ Put(s, v, c).cells = [s.cells EXCEPT ![v] = c] /\ Put(s, v, c).frame = s.frame
         /\ Put(s, v, c).tramp = s.tramp /\ Put(s, v, c).tables = s.tables
  BY DEF Put, Make

LEMMA WipeIs ==
  ASSUME NEW s, NEW p
  PROVE  /\ Wipe(s, p).cells = [v \in UserVpn |-> IF v \in p THEN NoCell ELSE s.cells[v]]
         /\ Wipe(s, p).frame = s.frame /\ Wipe(s, p).tramp = s.tramp /\ Wipe(s, p).tables = s.tables
  BY DEF Wipe, Make

LEMMA FrameIs ==
  ASSUME NEW s, NEW e
  PROVE  /\ Frame(s, e).cells = s.cells /\ Frame(s, e).frame = e
         /\ Frame(s, e).tramp = s.tramp /\ Frame(s, e).tables = s.tables
  BY DEF Frame, Make

LEMMA TrampIs ==
  ASSUME NEW s, NEW e
  PROVE  /\ Tramp(s, e).cells = s.cells /\ Tramp(s, e).frame = s.frame
         /\ Tramp(s, e).tramp = e /\ Tramp(s, e).tables = s.tables
  BY DEF Tramp, Make

LEMMA RootIs ==
  ASSUME NEW s
  PROVE  /\ Root(s).cells = s.cells /\ Root(s).frame = s.frame /\ Root(s).tramp = s.tramp
         /\ Root(s).tables = "some"
  BY DEF Root, Make

LEMMA CellIs ==
  ASSUME NEW n, NEW out, Sound(n, out), NEW k \in Table, NEW v \in UserVpn
  PROVE  /\ n.pte[k][v] = NoPte <=> Cell(n, k, v) = NoCell
         /\ n.pte[k][v] # NoPte => /\ Cell(n, k, v).perm = n.pte[k][v].perm
                                   /\ Cell(n, k, v).val = n.data[n.pte[k][v].page]
                                   /\ Cell(n, k, v).perm \in Perms
                                   /\ Cell(n, k, v).val \in Stored
  BY DEF Sound, MappedOnce, Cell, NoCell, Perms

LEMMA SpaceKept ==
  ASSUME NEW n, NEW r, NEW k \in Table, r.pte[k] = n.pte[k],
         r.tab[k] # NoTable <=> n.tab[k] # NoTable,
         \A v \in UserVpn : n.pte[k][v] # NoPte => r.data[n.pte[k][v].page] = n.data[n.pte[k][v].page]
  PROVE  Space(r, k) = Space(n, k)
<1>1. \A v \in UserVpn : Cell(r, k, v) = Cell(n, k, v)
  BY DEF Cell
<1>2. CellsOf(r, k) = CellsOf(n, k)
  BY <1>1 DEF CellsOf
<1> QED BY <1>2 DEF Space, TablesOf

(* The record that an EXCEPT makes. *)
LEMMA Fields ==
  ASSUME NEW n \in Memory
  PROVE  /\ n = [free |-> n.free, data |-> n.data, tab |-> n.tab, pte |-> n.pte,
                 ok |-> n.ok, got |-> n.got, panic |-> n.panic]
         /\ n.free \in [Page -> Nat] /\ n.data \in [Page -> Stored \cup {Junk}]
         /\ n.tab \in [Table -> [Node -> 0..NPAGES]] /\ n.pte \in [Table -> [Vpn -> Pte]]
         /\ n.ok \in BOOLEAN /\ n.got \in 0..NPAGES /\ n.panic \in BOOLEAN
  BY DEF Memory

(* The registers do not matter. *)
LEMMA Neutral ==
  ASSUME NEW n, NEW out, Sound(n, out), NEW r \in Memory, ~r.panic,
         r.free = n.free, r.tab = n.tab, r.pte = n.pte,
         \A k \in Table, v \in UserVpn : n.pte[k][v] # NoPte =>
            r.data[n.pte[k][v].page] = n.data[n.pte[k][v].page]
  PROVE  Sound(r, out) /\ Alike(r, n)
<1>1. TablesOnce(r, out)
  BY DEF Sound, TablesOnce
<1>2. MappedOnce(r, out)
  BY DEF Sound, MappedOnce
<1>3. Counted(r, out)
  BY DEF Sound, Counted, HasTable, Mapped
<1>4. Alike(r, n)
  BY SpaceKept DEF Alike
<1> QED BY <1>1, <1>2, <1>3, <1>4 DEF Sound

LEMMA Registers ==
  ASSUME NEW n, NEW out, Sound(n, out), NEW r \in Memory,
         r.free = n.free, r.data = n.data, r.tab = n.tab, r.pte = n.pte, r.panic = n.panic
  PROVE  Sound(r, out) /\ Alike(r, n)
<1>1. ~r.panic
  BY DEF Sound
<1> QED BY <1>1, Neutral

LEMMA OkIs ==
  ASSUME NEW n, NEW out, Sound(n, out)
  PROVE  /\ Sound(Ok(n), out) /\ Alike(Ok(n), n) /\ Ok(n).ok
         /\ Ok(n).tab = n.tab /\ Ok(n).pte = n.pte /\ Ok(n).got = n.got /\ Ok(n).data = n.data
         /\ Ok(n).free = n.free
<1> DEFINE r == [n EXCEPT !.ok = TRUE]
<1>1. n \in Memory
  BY DEF Sound
<1>2. /\ r \in Memory /\ r.free = n.free /\ r.data = n.data /\ r.tab = n.tab /\ r.pte = n.pte
      /\ r.panic = n.panic /\ r.ok = TRUE /\ r.got = n.got
  BY <1>1 DEF Memory
<1> HIDE DEF r
<1>3. Sound(r, out) /\ Alike(r, n)
  BY <1>2, Registers
<1> QED BY <1>2, <1>3 DEF r, Ok

LEMMA FailIs ==
  ASSUME NEW n, NEW out, Sound(n, out)
  PROVE  /\ Sound(Fail(n), out) /\ Alike(Fail(n), n) /\ Fail(n).ok = FALSE
         /\ Fail(n).tab = n.tab /\ Fail(n).pte = n.pte /\ Fail(n).got = n.got /\ Fail(n).data = n.data
<1> DEFINE r == [n EXCEPT !.ok = FALSE]
<1>1. n \in Memory
  BY DEF Sound
<1>2. /\ r \in Memory /\ r.free = n.free /\ r.data = n.data /\ r.tab = n.tab /\ r.pte = n.pte
      /\ r.panic = n.panic /\ r.ok = FALSE /\ r.got = n.got
  BY <1>1 DEF Memory
<1> HIDE DEF r
<1>3. Sound(r, out) /\ Alike(r, n)
  BY <1>2, Registers
<1> QED BY <1>2, <1>3 DEF r, Fail

-----------------------------------------------------------------------------
(* kalloc() and kfree() *)

(* A free page is taken ... *)
LEMMA TakeFree ==
  ASSUME NEW n, NEW out, Sound(n, out), NEW g \in Page, n.free[g] > 0,
         NEW r \in Memory, ~r.panic, r.tab = n.tab, r.pte = n.pte,
         r.free = [n.free EXCEPT ![g] = n.free[g] - 1],
         \A h \in Page \ {g} : r.data[h] = n.data[h]
  PROVE  Sound(r, out \cup {g}) /\ Alike(r, n) /\ g \notin out
<1>1. g \notin out /\ ~HasTable(n, g) /\ ~Mapped(n, g) /\ n.free[g] = 1
  BY DEF Sound, Counted
<1>2. \A k \in Table, v \in UserVpn : n.pte[k][v] # NoPte =>
         n.pte[k][v].page # g /\ r.data[n.pte[k][v].page] = n.data[n.pte[k][v].page]
  BY <1>1 DEF Sound, MappedOnce, Mapped
<1>3. TablesOnce(r, out \cup {g})
  BY <1>1 DEF Sound, TablesOnce, HasTable
<1>4. MappedOnce(r, out \cup {g})
  BY <1>1, <1>2 DEF Sound, MappedOnce
<1>5. Counted(r, out \cup {g})
  <2>1. \A h \in Page : HasTable(r, h) = HasTable(n, h) /\ Mapped(r, h) = Mapped(n, h)
    BY DEF HasTable, Mapped
  <2>2. \A h \in Page : r.free[h] = IF h = g THEN 0 ELSE n.free[h]
    BY <1>1 DEF Sound, Memory
  <2> QED BY <1>1, <2>1, <2>2 DEF Sound, Counted
<1>6. Alike(r, n)
  BY <1>2, SpaceKept DEF Alike
<1> QED BY <1>1, <1>3, <1>4, <1>5, <1>6 DEF Sound

(* ... and given back. *)
LEMMA GiveBack ==
  ASSUME NEW n, NEW out, Sound(n, out), NEW g \in out,
         NEW r \in Memory, ~r.panic, r.tab = n.tab, r.pte = n.pte,
         r.free = [n.free EXCEPT ![g] = n.free[g] + 1],
         \A h \in Page \ {g} : r.data[h] = n.data[h]
  PROVE  Sound(r, out \ {g}) /\ Alike(r, n)
<1>1. g \in Page /\ ~HasTable(n, g) /\ ~Mapped(n, g) /\ n.free[g] = 0
  <2>1. g \in Page /\ n.free[g] = 0 /\ g # NoPage
    BY Entry DEF Sound, Counted
  <2>2. ~HasTable(n, g)
    BY <2>1 DEF Sound, TablesOnce, HasTable
  <2>3. ~Mapped(n, g)
    BY <2>1, Entry DEF Sound, MappedOnce, Mapped
  <2> QED BY <2>1, <2>2, <2>3
<1>2. \A k \in Table, v \in UserVpn : n.pte[k][v] # NoPte =>
         n.pte[k][v].page # g /\ r.data[n.pte[k][v].page] = n.data[n.pte[k][v].page]
  BY <1>1 DEF Sound, MappedOnce, Mapped
<1>3. TablesOnce(r, out \ {g})
  BY <1>1 DEF Sound, TablesOnce, HasTable
<1>4. MappedOnce(r, out \ {g})
  BY <1>1, <1>2 DEF Sound, MappedOnce
<1>5. Counted(r, out \ {g})
  <2>1. \A h \in Page : HasTable(r, h) = HasTable(n, h) /\ Mapped(r, h) = Mapped(n, h)
    BY DEF HasTable, Mapped
  <2>2. \A h \in Page : r.free[h] = IF h = g THEN 1 ELSE n.free[h]
    BY <1>1 DEF Sound, Memory
  <2> QED BY <1>1, <2>1, <2>2 DEF Sound, Counted
<1>6. Alike(r, n)
  BY <1>2, SpaceKept DEF Alike
<1> QED BY <1>3, <1>4, <1>5, <1>6 DEF Sound

LEMMA KallocIs ==
  ASSUME NEW n, NEW out, Sound(n, out)
  PROVE  LET r == Kalloc(n) IN
         /\ Alike(r, n) /\ r.tab = n.tab /\ r.pte = n.pte /\ r.ok \in BOOLEAN
         /\ \A h \in out : r.data[h] = n.data[h]
         /\ r.ok => /\ r.got \in Page \ out /\ Sound(r, out \cup {r.got})
         /\ ~r.ok => Sound(r, out)
<1>1. CASE FreeList(n) = {}
  <2>1. Kalloc(n) = Fail(n)
    BY <1>1 DEF Kalloc
  <2> QED BY <2>1, FailIs DEF Sound
<1>2. CASE FreeList(n) # {}
  <2> DEFINE g == CHOOSE g \in FreeList(n) : \A h \in FreeList(n) : g <= h
             o == Ok(n)
             f == [n.free EXCEPT ![g] = n.free[g] - 1]
             d == [n.data EXCEPT ![g] = Junk]
             r == [o EXCEPT !.free[g] = @ - 1, !.data[g] = Junk, !.got = g]
  <2>1. Kalloc(n) = r
    BY <1>2 DEF Kalloc
  <2>2. g \in FreeList(n)
    <3>1. FreeList(n) \subseteq Nat
      BY SizesAssumption DEF FreeList, Page
    <3>2. \E x \in FreeList(n) : \A y \in FreeList(n) : x <= y
      BY <1>2, <3>1, Least
    <3> QED BY <3>2
  <2> HIDE DEF g
  <2>3. g \in Page /\ n.free[g] > 0 /\ g \in 0..NPAGES /\ n.free[g] \in Nat
    BY <2>2, SizesAssumption DEF FreeList, Sound, Memory, Page
  <2>4. /\ o \in Memory /\ ~o.panic /\ o.ok = TRUE /\ o.free = n.free /\ o.data = n.data
        /\ o.tab = n.tab /\ o.pte = n.pte
    BY OkIs DEF Sound
  <2> HIDE DEF o
  <2>5. f \in [Page -> Nat] /\ d \in [Page -> Stored \cup {Junk}]
    BY <2>3, <2>4, Fields
  <2>6. r = [o EXCEPT !.free = f, !.data = d, !.got = g]
    BY <2>4
  <2>7. \A h \in Page \ {g} : d[h] = n.data[h]
    BY <2>4, Fields
  <2> HIDE DEF f, d, r
  <2>8. r \in Memory
    BY <2>3, <2>4, <2>5, <2>6 DEF Memory
  <2>9. /\ r.tab = n.tab /\ r.pte = n.pte /\ ~r.panic /\ r.ok = TRUE /\ r.got = g
        /\ r.free = f /\ r.data = d
    BY <2>4, <2>6 DEF Memory
  <2>10. Sound(r, out \cup {g}) /\ Alike(r, n) /\ g \notin out
    BY <2>3, <2>7, <2>8, <2>9, TakeFree DEF f
  <2> QED BY <2>1, <2>3, <2>7, <2>9, <2>10 DEF Sound
<1> QED BY <1>1, <1>2

LEMMA KfreeIs ==
  ASSUME NEW n, NEW out, Sound(n, out), NEW g \in out
  PROVE  LET r == Kfree(n, g) IN
         Sound(r, out \ {g}) /\ Alike(r, n) /\ r.tab = n.tab /\ r.pte = n.pte /\ r.ok = n.ok
<1> DEFINE f == [n.free EXCEPT ![g] = n.free[g] + 1]
           d == [n.data EXCEPT ![g] = Junk]
           r == [n EXCEPT !.free = f, !.data = d]
<1>1. n \in Memory /\ ~n.panic /\ g \in Page /\ n.free[g] \in Nat
  BY DEF Sound, Memory
<1>2. Kfree(n, g) = r
  BY <1>1 DEF Kfree
<1>3. f \in [Page -> Nat] /\ d \in [Page -> Stored \cup {Junk}]
  BY <1>1, Fields
<1>4. \A h \in Page \ {g} : d[h] = n.data[h]
  BY <1>1, Fields
<1> HIDE DEF f, d
<1>5. r \in Memory
  BY <1>1, <1>3 DEF Memory
<1>6. /\ r.tab = n.tab /\ r.pte = n.pte /\ r.panic = n.panic /\ r.ok = n.ok
      /\ r.free = f /\ r.data = d
  BY <1>1 DEF Memory
<1> HIDE DEF r
<1>7. Sound(r, out \ {g}) /\ Alike(r, n)
  BY <1>1, <1>4, <1>5, <1>6, GiveBack DEF f
<1> QED BY <1>2, <1>6, <1>7

-----------------------------------------------------------------------------
(* walk() and mappages() *)

LEMMA Rooted ==
  ASSUME NEW n, NEW k
  PROVE  /\ n.tab[k] # NoTable <=> Space(n, k).tables = "some"
         /\ n.tab[k] = NoTable <=> Space(n, k).tables = "none"
         /\ Space(n, k).tables = "some" => Root(Space(n, k)) = Space(n, k)
<1>1. Space(n, k).tables = IF n.tab[k] = NoTable THEN "none" ELSE "some"
  BY Spaces DEF TablesOf
<1>2. Space(n, k).tables = "some" => Root(Space(n, k)) = Space(n, k)
  BY Spaces DEF Root, Space
<1> QED BY <1>1, <1>2

(* A page becomes a page-table page. *)
Link(n, k, x) == [n EXCEPT !.tab[k][x] = n.got, !.data[n.got] = Zero]
LEMMA LinkIs ==
  ASSUME NEW n, NEW out, Sound(n, out), NEW k \in Table, NEW x \in Node,
         n.tab[k][x] = NoPage, n.got \in out
  PROVE  LET r == Link(n, k, x) IN
         /\ Sound(r, out \ {n.got}) /\ Others(r, n, k) /\ r.pte = n.pte /\ r.ok = n.ok
         /\ Space(r, k) = Root(Space(n, k)) /\ r.tab[k] # NoTable
         /\ \A h \in out \ {n.got} : r.data[h] = n.data[h]
<1> DEFINE g == n.got
           t == [n.tab EXCEPT ![k][x] = g]
           d == [n.data EXCEPT ![g] = Zero]
           r == Link(n, k, x)
<1>1. n \in Memory /\ ~n.panic /\ g \in Page /\ g \in out /\ g \in 0..NPAGES /\ g # NoPage
  BY Entry DEF Sound, Memory
<1>2. t \in [Table -> [Node -> 0..NPAGES]] /\ d \in [Page -> Stored \cup {Junk}]
  BY <1>1, Fields DEF Stored
<1>3. /\ \A l \in Table, y \in Node : t[l][y] = IF l = k /\ y = x THEN g ELSE n.tab[l][y]
      /\ \A l \in Table : l # k => t[l] = n.tab[l]
      /\ \A h \in Page : d[h] = IF h = g THEN Zero ELSE n.data[h]
  BY <1>1, Fields
<1>4. r = [n EXCEPT !.tab = t, !.data = d]
  BY DEF Link
<1> HIDE DEF t, d
<1>6. r \in Memory
  BY <1>1, <1>2, <1>4 DEF Memory
<1>5. /\ r.tab = t /\ r.data = d /\ r.pte = n.pte /\ r.free = n.free /\ r.ok = n.ok /\ r.panic = n.panic
  BY <1>1, <1>4 DEF Memory
<1>7. /\ \A l \in Table, y \in Node : n.tab[l][y] # g
      /\ \A l \in Table, v \in UserVpn : n.pte[l][v].page # g
  <2>1. \A l \in Table, y \in Node : n.tab[l][y] # g
    BY <1>1 DEF Sound, TablesOnce
  <2>2. \A l \in Table, v \in UserVpn : n.pte[l][v].page # g
    BY <1>1, Entry DEF Sound, MappedOnce
  <2> QED BY <2>1, <2>2
<1> HIDE DEF g, r
<1>8. TablesOnce(r, out \ {g})
  <2> SUFFICES ASSUME NEW l \in Table, NEW y \in Node, t[l][y] # NoPage
               PROVE  /\ t[l][y] \notin out \ {g}
                      /\ \A i \in Table, z \in Node : t[i][z] = t[l][y] => i = l /\ z = y
                      /\ \A i \in Table, v \in UserVpn : n.pte[i][v].page # t[l][y]
    BY <1>5 DEF TablesOnce
  <2>1. CASE l = k /\ y = x
    BY <2>1, <1>3, <1>7
  <2>2. CASE ~(l = k /\ y = x)
    <3>1. t[l][y] = n.tab[l][y] /\ n.tab[l][y] # NoPage /\ n.tab[l][y] # g
      BY <2>2, <1>3, <1>7
    <3>2. /\ n.tab[l][y] \notin out
          /\ \A i \in Table, z \in Node : n.tab[i][z] = n.tab[l][y] => i = l /\ z = y
          /\ \A i \in Table, v \in UserVpn : n.pte[i][v].page # n.tab[l][y]
      BY <3>1 DEF Sound, TablesOnce
    <3> QED BY <3>1, <3>2, <1>3
  <2> QED BY <2>1, <2>2
<1>9. \A l \in Table, v \in UserVpn : n.pte[l][v] # NoPte => r.data[n.pte[l][v].page] = n.data[n.pte[l][v].page]
  BY <1>3, <1>5, <1>7 DEF Sound, MappedOnce
<1>10. MappedOnce(r, out \ {g})
  BY <1>5, <1>9 DEF Sound, MappedOnce
<1>11. Counted(r, out \ {g})
  <2> SUFFICES ASSUME NEW h \in Page
               PROVE  n.free[h] = IF h \in out \ {g} \/ HasTable(r, h) \/ Mapped(r, h) THEN 0 ELSE 1
    BY <1>5 DEF Counted
  <2>1. n.free[h] = IF h \in out \/ HasTable(n, h) \/ Mapped(n, h) THEN 0 ELSE 1
    BY DEF Sound, Counted
  <2>2. Mapped(r, h) = Mapped(n, h)
    BY <1>5 DEF Mapped
  <2>3. CASE h = g
    <3>1. HasTable(r, h)
      BY <2>3, <1>3, <1>5 DEF HasTable
    <3> QED BY <2>1, <2>3, <3>1, <1>1
  <2>4. CASE h # g
    <3>1. HasTable(r, h) <=> HasTable(n, h)
      <4>1. \A l \in Table, y \in Node : r.tab[l][y] = h <=> n.tab[l][y] = h
        <5>1. h # NoPage
          BY Entry
        <5>2. n.tab[k][x] = NoPage
          OBVIOUS
        <5> QED BY <2>4, <1>3, <1>5, <5>1, <5>2
      <4> QED BY <4>1 DEF HasTable
    <3> QED BY <2>1, <2>2, <2>4, <3>1
  <2> QED BY <2>3, <2>4
<1>12. Others(r, n, k)
  BY <1>3, <1>5, <1>9, SpaceKept DEF Others
<1>13. r.tab[k] # NoTable
  BY <1>1, <1>3, <1>5 DEF NoTable
<1>14. Space(r, k) = Root(Space(n, k))
  <2>1. \A v \in UserVpn : Cell(r, k, v) = Cell(n, k, v)
    BY <1>5, <1>9 DEF Cell
  <2>2. CellsOf(r, k) = CellsOf(n, k)
    BY <2>1 DEF CellsOf
  <2>3. TablesOf(r, k) = "some"
    BY <1>13 DEF TablesOf
  <2> QED BY <2>2, <2>3, <1>5, Spaces DEF Space, Root
<1>15. \A h \in out \ {g} : r.data[h] = n.data[h]
  BY <1>3, <1>5 DEF Sound
<1>16. Sound(r, out \ {g})
  BY <1>1, <1>5, <1>6, <1>8, <1>10, <1>11 DEF Sound
<1> QED BY <1>5, <1>12, <1>13, <1>14, <1>15, <1>16 DEF g, r

(* walk() looks one level down, and makes a page-table page if it may. *)
LEMMA WalkDownIs ==
  ASSUME NEW n, NEW out, Sound(n, out), NEW k \in Table, n.tab[k] # NoTable,
         NEW level, NEW v, NodeOf(level, v) \in Node
  PROVE  LET r == WalkDown(n, k, level, v) IN
         /\ Sound(r, out) /\ Alike(r, n) /\ r.pte = n.pte /\ r.ok \in BOOLEAN
         /\ r.tab[k] # NoTable /\ \A h \in out : r.data[h] = n.data[h]
<1> DEFINE x == NodeOf(level, v)
           a == Kalloc(n)
           r == WalkDown(n, k, level, v)
           link == Link(a, k, x)
<1>1. CASE n.tab[k][x] # NoPage
  <2>1. r = Ok(n)
    BY <1>1 DEF WalkDown
  <2> QED BY <2>1, OkIs
<1>2. CASE n.tab[k][x] = NoPage
  <2>1. r = IF a.ok THEN link ELSE a
    BY <1>2 DEF WalkDown, Then, Link
  <2>2. /\ Alike(a, n) /\ a.tab = n.tab /\ a.pte = n.pte /\ a.ok \in BOOLEAN
        /\ \A h \in out : a.data[h] = n.data[h]
        /\ a.ok => a.got \in Page \ out /\ Sound(a, out \cup {a.got})
        /\ ~a.ok => Sound(a, out)
    BY KallocIs
  <2>3. CASE ~a.ok
    BY <2>1, <2>2, <2>3
  <2>4. CASE a.ok
    <3> DEFINE all == out \cup {a.got}
    <3>1. Sound(a, all) /\ a.got \in all /\ a.tab[k][x] = NoPage /\ x \in Node
      BY <1>2, <2>2, <2>4
    <3>2. all \ {a.got} = out
      BY <2>2, <2>4
    <3>3. r = link
      BY <2>1, <2>4
    <3> HIDE DEF r, link, all, a, x
    <3>4. /\ Sound(link, all \ {a.got}) /\ Others(link, a, k) /\ link.pte = a.pte /\ link.ok = a.ok
          /\ Space(link, k) = Root(Space(a, k)) /\ link.tab[k] # NoTable
          /\ \A h \in all \ {a.got} : link.data[h] = a.data[h]
      BY <3>1, LinkIs, SMTT(20) DEF link
    <3>5. Space(a, k).tables = "some"
      BY <2>2, Rooted
    <3>6. Space(link, k) = Space(a, k)
      BY <3>4, <3>5, Rooted
    <3>7. Alike(link, n)
      BY <2>2, <3>4, <3>6 DEF Others, Alike
    <3>8. \A h \in out : link.data[h] = n.data[h]
      BY <2>2, <3>2, <3>4
    <3>9. Sound(link, out)
      BY <3>2, <3>4
    <3> QED BY <2>2, <3>3, <3>4, <3>7, <3>8, <3>9 DEF r
  <2> QED BY <2>2, <2>3, <2>4
<1> QED BY <1>1, <1>2

LEMMA WalkAllocIs ==
  ASSUME NEW n, NEW out, Sound(n, out), NEW k \in Table, n.tab[k] # NoTable, NEW v \in Vpn
  PROVE  LET r == WalkAlloc(n, k, v) IN
         /\ Sound(r, out) /\ Alike(r, n) /\ r.pte = n.pte /\ r.ok \in BOOLEAN
         /\ r.tab[k] # NoTable /\ \A h \in out : r.data[h] = n.data[h]
<1> DEFINE a == WalkDown(n, k, 1, v)
           b == WalkDown(a, k, 0, v)
<1>1. NodeOf(1, v) \in Node /\ NodeOf(0, v) \in Node
  BY Sizes
<1>2. /\ Sound(a, out) /\ Alike(a, n) /\ a.pte = n.pte /\ a.ok \in BOOLEAN
      /\ a.tab[k] # NoTable /\ \A h \in out : a.data[h] = n.data[h]
  BY <1>1, WalkDownIs
<1> HIDE DEF a
<1>3. /\ Sound(b, out) /\ Alike(b, a) /\ b.pte = a.pte /\ b.ok \in BOOLEAN
      /\ b.tab[k] # NoTable /\ \A h \in out : b.data[h] = a.data[h]
  BY <1>1, <1>2, WalkDownIs
<1>4. WalkAlloc(n, k, v) = IF a.ok THEN b ELSE a
  BY DEF WalkAlloc, Then, a
<1> HIDE DEF b
<1>5. Alike(b, n)
  BY <1>2, <1>3 DEF Alike
<1> QED BY <1>2, <1>3, <1>4, <1>5

LEMMA Vpns == /\ UserVpn \subseteq Vpn /\ TRAPFRAME \in Vpn /\ TRAMPOLINE \in Vpn
              /\ TRAPFRAME \notin UserVpn /\ TRAMPOLINE \notin UserVpn /\ TRAPFRAME # TRAMPOLINE
              /\ \A v \in Vpn : v \in UserVpn \/ v = TRAPFRAME \/ v = TRAMPOLINE
  BY Sizes DEF UserVpn

(* An entry is made for a page of the user's ... *)
Enter(n, k, v, e) == [n EXCEPT !.pte[k][v] = e]

LEMMA EnterIs ==
  ASSUME NEW n, n \in Memory, NEW k \in Table, NEW v \in Vpn, NEW e \in Pte
  PROVE  LET r == Enter(n, k, v, e) IN
         /\ r \in Memory /\ r.tab = n.tab /\ r.data = n.data /\ r.free = n.free /\ r.ok = n.ok
         /\ r.panic = n.panic /\ r.got = n.got
         /\ \A l \in Table, w \in Vpn : r.pte[l][w] = IF l = k /\ w = v THEN e ELSE n.pte[l][w]
         /\ \A l \in Table : l # k => r.pte[l] = n.pte[l]
<1> DEFINE p == [n.pte EXCEPT ![k][v] = e]
           r == Enter(n, k, v, e)
<1>1. r = [n EXCEPT !.pte = p]
  BY DEF Enter
<1>2. p \in [Table -> [Vpn -> Pte]]
  BY Fields
<1>3. /\ \A l \in Table, w \in Vpn : p[l][w] = IF l = k /\ w = v THEN e ELSE n.pte[l][w]
      /\ \A l \in Table : l # k => p[l] = n.pte[l]
  BY Fields
<1> HIDE DEF p, r
<1>4. /\ r \in Memory /\ r.tab = n.tab /\ r.data = n.data /\ r.free = n.free /\ r.ok = n.ok
      /\ r.panic = n.panic /\ r.got = n.got /\ r.pte = p
  BY <1>1, <1>2 DEF Memory
<1> QED BY <1>3, <1>4 DEF r

LEMMA EnterUser ==
  ASSUME NEW n, NEW out, Sound(n, out), NEW k \in Table, NEW v \in UserVpn, n.pte[k][v] = NoPte,
         NEW g \in out, n.data[g] \in Stored, NEW perm \in Perms
  PROVE  LET r == Enter(n, k, v, Leaf(g, perm)) IN
         /\ Sound(r, out \ {g}) /\ Others(r, n, k) /\ r.tab = n.tab /\ r.ok = n.ok
         /\ Space(r, k) = Put(Space(n, k), v, Full(perm, n.data[g]))
<1> DEFINE e == Leaf(g, perm)
           r == Enter(n, k, v, e)
           c == Full(perm, n.data[g])
<1>1. g \in Page /\ e \in Pte /\ e.page = g /\ e.perm = perm /\ e # NoPte /\ g # NoPage
  <2>1. g \in Page /\ g \in 0..(NPAGES + 1) /\ g # NoPage
    <3>1. out \subseteq Page
      BY DEF Sound
    <3>2. g \in Page
      BY <3>1
    <3> HIDE DEF e, r, c
    <3>3. g \in 0..(NPAGES + 1)
      BY <3>2, SizesAssumption DEF Page
    <3> QED BY <3>2, <3>3, Entry
  <2>2. perm \in {"none", "r", "rw", "guard", "kernel"}
    BY DEF Perms
  <2>3. e = [page |-> g, perm |-> perm]
    BY DEF Leaf
  <2>4. e \in Pte /\ e.page = g /\ e.perm = perm
    BY <2>1, <2>2, <2>3 DEF Pte
  <2> QED BY <2>1, <2>4, Entry
<1>2. v \in Vpn /\ v # TRAPFRAME /\ v # TRAMPOLINE /\ TRAPFRAME \in Vpn /\ TRAMPOLINE \in Vpn /\ UserVpn \subseteq Vpn
  BY Vpns
<1>h. HIDE DEF e
<1>3. /\ r \in Memory /\ r.tab = n.tab /\ r.data = n.data /\ r.free = n.free /\ r.ok = n.ok
      /\ r.panic = n.panic
      /\ \A l \in Table, w \in Vpn : r.pte[l][w] = IF l = k /\ w = v THEN e ELSE n.pte[l][w]
      /\ \A l \in Table : l # k => r.pte[l] = n.pte[l]
  BY <1>1, <1>2, EnterIs DEF Sound
<1> HIDE DEF r
<1>4. /\ \A l \in Table, x \in Node : n.tab[l][x] # g
      /\ \A l \in Table, w \in UserVpn : n.pte[l][w].page # g
  <2>1. \A l \in Table, x \in Node : n.tab[l][x] # g
    BY <1>1 DEF Sound, TablesOnce
  <2>2. \A l \in Table, w \in UserVpn : n.pte[l][w].page # g
    BY <1>1, Entry DEF Sound, MappedOnce
  <2> QED BY <2>1, <2>2
<1>5. TablesOnce(r, out \ {g})
  <2> SUFFICES ASSUME NEW l \in Table, NEW x \in Node, n.tab[l][x] # NoPage
               PROVE  /\ n.tab[l][x] \notin out \ {g}
                      /\ \A i \in Table, y \in Node : n.tab[i][y] = n.tab[l][x] => i = l /\ y = x
                      /\ \A i \in Table, w \in UserVpn : r.pte[i][w].page # n.tab[l][x]
    BY <1>3 DEF TablesOnce
  <2>1. /\ n.tab[l][x] \notin out
        /\ \A i \in Table, y \in Node : n.tab[i][y] = n.tab[l][x] => i = l /\ y = x
        /\ \A i \in Table, w \in UserVpn : n.pte[i][w].page # n.tab[l][x]
    BY DEF Sound, TablesOnce
  <2>2. \A i \in Table, w \in UserVpn : r.pte[i][w].page # n.tab[l][x]
    BY <2>1, <1>1, <1>2, <1>3, <1>4
  <2> QED BY <2>1, <2>2
<1>6. MappedOnce(r, out \ {g})
  <2> SUFFICES ASSUME NEW l \in Table, NEW w \in UserVpn, r.pte[l][w] # NoPte
               PROVE  /\ r.pte[l][w].page \in Page \ (out \ {g})
                      /\ r.pte[l][w].perm \in Perms
                      /\ n.data[r.pte[l][w].page] \in Stored
                      /\ \A i \in Table, z \in UserVpn : r.pte[i][z].page = r.pte[l][w].page => i = l /\ z = w
    BY <1>3 DEF MappedOnce
  <2>1. CASE l = k /\ w = v
    <3>1. r.pte[l][w] = e
      BY <2>1, <1>2, <1>3
    <3>2. \A i \in Table, z \in UserVpn : r.pte[i][z].page = g => i = l /\ z = w
      BY <2>1, <1>2, <1>3, <1>4
    <3> QED BY <3>1, <3>2, <1>1
  <2>2. CASE ~(l = k /\ w = v)
    <3>1. r.pte[l][w] = n.pte[l][w]
      BY <2>2, <1>2, <1>3
    <3>2. /\ n.pte[l][w].page \in Page \ out
          /\ n.pte[l][w].perm \in Perms
          /\ n.data[n.pte[l][w].page] \in Stored
          /\ \A i \in Table, z \in UserVpn : n.pte[i][z].page = n.pte[l][w].page => i = l /\ z = w
      BY <3>1 DEF Sound, MappedOnce
    <3>3. \A i \in Table, z \in UserVpn : r.pte[i][z].page = n.pte[l][w].page => i = l /\ z = w
      BY <3>2, <1>1, <1>2, <1>3
    <3> QED BY <3>1, <3>2, <3>3
  <2> QED BY <2>1, <2>2
<1>7. Counted(r, out \ {g})
  <2> SUFFICES ASSUME NEW h \in Page
               PROVE  n.free[h] = IF h \in out \ {g} \/ HasTable(r, h) \/ Mapped(r, h) THEN 0 ELSE 1
    BY <1>3 DEF Counted
  <2>1. n.free[h] = IF h \in out \/ HasTable(n, h) \/ Mapped(n, h) THEN 0 ELSE 1
    BY DEF Sound, Counted
  <2>2. HasTable(r, h) <=> HasTable(n, h)
    BY <1>3 DEF HasTable
  <2>3. CASE h = g
    <3>1. Mapped(r, h)
      BY <2>3, <1>1, <1>2, <1>3 DEF Mapped
    <3> QED BY <2>1, <2>3, <3>1
  <2>4. CASE h # g
    <3>1. \A l \in Table, w \in UserVpn : r.pte[l][w].page = h <=> n.pte[l][w].page = h
      <4>1. h # NoPage
        BY Entry
      <4> QED BY <2>4, <4>1, <1>1, <1>2, <1>3, Entry
    <3>2. Mapped(r, h) <=> Mapped(n, h)
      BY <3>1 DEF Mapped
    <3> QED BY <2>1, <2>2, <2>4, <3>2
  <2> QED BY <2>3, <2>4
<1>8. Sound(r, out \ {g})
  BY <1>3, <1>5, <1>6, <1>7 DEF Sound
<1>9. Others(r, n, k)
  BY <1>3, SpaceKept DEF Others
<1>10. \A w \in UserVpn : Cell(r, k, w) = IF w = v THEN c ELSE Cell(n, k, w)
  <2> SUFFICES ASSUME NEW w \in UserVpn PROVE Cell(r, k, w) = IF w = v THEN c ELSE Cell(n, k, w)
    OBVIOUS
  <2>1. r.pte[k][w] = IF w = v THEN e ELSE n.pte[k][w]
    BY <1>2, <1>3
  <2> QED BY <2>1, <1>1, <1>3 DEF Cell, Full
<1>11. CellsOf(r, k) = [CellsOf(n, k) EXCEPT ![v] = c]
  BY <1>10 DEF CellsOf
<1>12. Space(r, k) = Put(Space(n, k), v, c)
  <2>1. r.pte[k][TRAPFRAME] = n.pte[k][TRAPFRAME] /\ r.pte[k][TRAMPOLINE] = n.pte[k][TRAMPOLINE]
    BY <1>2, <1>3
  <2>2. TablesOf(r, k) = TablesOf(n, k)
    BY <1>3 DEF TablesOf
  <2>3. Put(Space(n, k), v, c) =
          Make([CellsOf(n, k) EXCEPT ![v] = c], n.pte[k][TRAPFRAME], n.pte[k][TRAMPOLINE], TablesOf(n, k))
    BY Spaces, Zenon DEF Put
  <2>4. Space(r, k) = Make(CellsOf(r, k), r.pte[k][TRAPFRAME], r.pte[k][TRAMPOLINE], TablesOf(r, k))
    BY Zenon DEF Space
  <2> QED BY <1>11, <2>1, <2>2, <2>3, <2>4, Zenon
<1> QED BY <1>3, <1>8, <1>9, <1>12 DEF r, e

(* ... or for the trapframe and the trampoline. *)
LEMMA EnterKernel ==
  ASSUME NEW n, NEW out, Sound(n, out), NEW k \in Table, NEW v \in {TRAPFRAME, TRAMPOLINE}, NEW e \in Pte
  PROVE  LET r == Enter(n, k, v, e) IN
         /\ Sound(r, out) /\ Others(r, n, k) /\ r.tab = n.tab /\ r.ok = n.ok
         /\ v = TRAPFRAME => Space(r, k) = Frame(Space(n, k), e)
         /\ v = TRAMPOLINE => Space(r, k) = Tramp(Space(n, k), e)
<1> DEFINE r == Enter(n, k, v, e)
<1>1. v \in Vpn /\ v \notin UserVpn /\ UserVpn \subseteq Vpn /\ TRAPFRAME # TRAMPOLINE
      /\ TRAPFRAME \in Vpn /\ TRAMPOLINE \in Vpn
  BY Vpns
<1>2. /\ r \in Memory /\ r.tab = n.tab /\ r.data = n.data /\ r.free = n.free /\ r.ok = n.ok
      /\ r.panic = n.panic
      /\ \A l \in Table, w \in Vpn : r.pte[l][w] = IF l = k /\ w = v THEN e ELSE n.pte[l][w]
      /\ \A l \in Table : l # k => r.pte[l] = n.pte[l]
  BY <1>1, EnterIs DEF Sound
<1> HIDE DEF r
<1>3. \A l \in Table, w \in UserVpn : r.pte[l][w] = n.pte[l][w]
  BY <1>1, <1>2
<1>4. TablesOnce(r, out)
  BY <1>2, <1>3 DEF Sound, TablesOnce
<1>5. MappedOnce(r, out)
  BY <1>2, <1>3 DEF Sound, MappedOnce
<1>6. Counted(r, out)
  <2>1. \A h \in Page : HasTable(r, h) <=> HasTable(n, h)
    BY <1>2 DEF HasTable
  <2>2. \A h \in Page : Mapped(r, h) <=> Mapped(n, h)
    BY <1>3 DEF Mapped
  <2> QED BY <2>1, <2>2, <1>2 DEF Sound, Counted
<1>7. Sound(r, out)
  BY <1>2, <1>4, <1>5, <1>6 DEF Sound
<1>8. Others(r, n, k)
  BY <1>2, SpaceKept DEF Others
<1>9. CellsOf(r, k) = CellsOf(n, k) /\ TablesOf(r, k) = TablesOf(n, k)
  <2>1. \A w \in UserVpn : Cell(r, k, w) = Cell(n, k, w)
    BY <1>2, <1>3 DEF Cell
  <2> QED BY <2>1, <1>2 DEF CellsOf, TablesOf
<1>10. /\ v = TRAPFRAME => r.pte[k][TRAPFRAME] = e /\ r.pte[k][TRAMPOLINE] = n.pte[k][TRAMPOLINE]
       /\ v = TRAMPOLINE => r.pte[k][TRAMPOLINE] = e /\ r.pte[k][TRAPFRAME] = n.pte[k][TRAPFRAME]
  BY <1>1, <1>2
<1>12. v = TRAPFRAME => Space(r, k) = Frame(Space(n, k), e)
  BY <1>9, <1>10, Spaces DEF Space, Frame
<1>13. v = TRAMPOLINE => Space(r, k) = Tramp(Space(n, k), e)
  BY <1>9, <1>10, Spaces DEF Space, Tramp
<1> QED BY <1>2, <1>7, <1>8, <1>12, <1>13 DEF r

(* mappages() makes the entry, or runs out of memory and changes nothing.   *)
LEMMA MappagesUser ==
  ASSUME NEW n, NEW out, Sound(n, out), NEW k \in Table, n.tab[k] # NoTable,
         NEW v \in UserVpn, n.pte[k][v] = NoPte,
         NEW g \in out, n.data[g] \in Stored, NEW perm \in Perms
  PROVE  LET r == Mappages(n, k, v, g, perm) IN
         /\ r.ok \in BOOLEAN /\ Others(r, n, k)
         /\ r.ok => /\ Sound(r, out \ {g})
                    /\ Space(r, k) = Put(Space(n, k), v, Full(perm, n.data[g]))
         /\ ~r.ok => Sound(r, out) /\ Space(r, k) = Space(n, k)
<1> DEFINE w == WalkAlloc(n, k, v)
           e == Leaf(g, perm)
           r == Enter(w, k, v, e)
           c == Full(perm, n.data[g])
<1>1. v \in Vpn
  BY Vpns
<1>2. /\ Sound(w, out) /\ Alike(w, n) /\ w.pte = n.pte /\ w.ok \in BOOLEAN
      /\ w.data[g] = n.data[g]
  BY <1>1, WalkAllocIs
<1>3. Mappages(n, k, v, g, perm) = IF w.ok THEN r ELSE w
  BY <1>2 DEF Mappages, Then, Enter, Leaf
<1> HIDE DEF w
<1>4. /\ Sound(r, out \ {g}) /\ Others(r, w, k) /\ r.ok = w.ok
      /\ Space(r, k) = Put(Space(w, k), v, Full(perm, w.data[g]))
  <2>1. w.pte[k][v] = NoPte /\ w.data[g] \in Stored
    BY <1>2
  <2> QED BY <1>2, <2>1, EnterUser, SMTT(20)
<1> HIDE DEF r
<1>5. Space(w, k) = Space(n, k) /\ Others(w, n, k)
  BY <1>2 DEF Alike, Others
<1>6. Others(r, n, k)
  BY <1>4, <1>5 DEF Others
<1>7. Space(r, k) = Put(Space(n, k), v, c)
  BY <1>2, <1>4, <1>5
<1> QED BY <1>2, <1>3, <1>4, <1>5, <1>6, <1>7

LEMMA MappagesKernel ==
  ASSUME NEW n, NEW out, Sound(n, out), NEW k \in Table, n.tab[k] # NoTable,
         NEW v \in {TRAPFRAME, TRAMPOLINE}, n.pte[k][v] = NoPte, NEW g \in 0..(NPAGES + 1)
  PROVE  LET r == Mappages(n, k, v, g, "kernel")
             e == [page |-> g, perm |-> "kernel"] IN
         /\ r.ok \in BOOLEAN /\ Others(r, n, k) /\ Sound(r, out) /\ r.tab[k] # NoTable
         /\ r.ok /\ v = TRAPFRAME => Space(r, k) = Frame(Space(n, k), e)
         /\ r.ok /\ v = TRAMPOLINE => Space(r, k) = Tramp(Space(n, k), e)
         /\ ~r.ok => Space(r, k) = Space(n, k)
<1> DEFINE w == WalkAlloc(n, k, v)
           e == [page |-> g, perm |-> "kernel"]
           r == Enter(w, k, v, e)
<1>1. v \in Vpn /\ e \in Pte
  BY Vpns DEF Pte
<1>2. Sound(w, out) /\ Alike(w, n) /\ w.pte = n.pte /\ w.ok \in BOOLEAN /\ w.tab[k] # NoTable
  BY <1>1, WalkAllocIs
<1>3. Mappages(n, k, v, g, "kernel") = IF w.ok THEN r ELSE w
  BY <1>2 DEF Mappages, Then, Enter
<1> HIDE DEF w, e
<1>4. /\ Sound(r, out) /\ Others(r, w, k) /\ r.ok = w.ok /\ r.tab = w.tab
      /\ v = TRAPFRAME => Space(r, k) = Frame(Space(w, k), e)
      /\ v = TRAMPOLINE => Space(r, k) = Tramp(Space(w, k), e)
  BY <1>1, <1>2, EnterKernel
<1> HIDE DEF r
<1>5. Space(w, k) = Space(n, k) /\ Others(w, n, k)
  BY <1>2 DEF Alike, Others
<1>6. Others(r, n, k)
  BY <1>4, <1>5 DEF Others
<1> QED BY <1>2, <1>3, <1>4, <1>5, <1>6 DEF e

(* A new page is mapped, or goes back. *)
LEMMA MapNewIs ==
  ASSUME NEW n, NEW out, Sound(n, out), NEW k \in Table, n.tab[k] # NoTable,
         NEW v \in UserVpn, n.pte[k][v] = NoPte,
         NEW perm \in Perms, NEW val \in Stored
  PROVE  LET r == MapNew(n, k, v, perm, val) IN
         /\ Sound(r, out) /\ r.ok \in BOOLEAN /\ Others(r, n, k)
         /\ r.ok => Space(r, k) = Put(Space(n, k), v, Full(perm, val))
         /\ ~r.ok => Space(r, k) = Space(n, k)
<1> DEFINE a == Kalloc(n)
           g == a.got
           b == [a EXCEPT !.data[g] = val]
           r == Mappages(b, k, v, g, perm)
           s == Kfree(r, g)
           all == out \cup {g}
<1>1. /\ Alike(a, n) /\ a.tab = n.tab /\ a.pte = n.pte /\ a.ok \in BOOLEAN
      /\ a.ok => a.got \in Page \ out /\ Sound(a, out \cup {a.got})
      /\ ~a.ok => Sound(a, out)
  BY KallocIs
<1>2. MapNew(n, k, v, perm, val) = IF ~a.ok THEN a ELSE IF r.ok THEN r ELSE s
  BY <1>1 DEF MapNew, Then, Else
<1>3. CASE ~a.ok
  BY <1>1, <1>2, <1>3 DEF Alike, Others
<1>4. CASE a.ok
  <2> HIDE DEF a
  <2>1. g \in Page /\ g \notin out /\ g \in all /\ Sound(a, all) /\ all \ {g} = out
    BY <1>1, <1>4
  <2>2. a \in Memory /\ ~a.panic
    BY <2>1 DEF Sound
  <2> HIDE DEF g, all
  <2>3. b \in Memory /\ b.tab = a.tab /\ b.pte = a.pte /\ b.free = a.free /\ b.panic = a.panic
        /\ b.data = [a.data EXCEPT ![g] = val]
    BY <2>1, <2>2 DEF Memory, Stored
  <2> HIDE DEF b
  <2>4. b.data[g] = val /\ \A h \in Page \ {g} : b.data[h] = a.data[h]
    BY <2>1, <2>2, <2>3, Fields
  <2>5. \A l \in Table, w \in UserVpn : a.pte[l][w] # NoPte =>
           a.pte[l][w].page # g /\ a.pte[l][w].page \in Page
    BY <2>1 DEF Sound, MappedOnce
  <2>6. Sound(b, all) /\ Alike(b, a)
    BY <2>1, <2>2, <2>3, <2>4, <2>5, Neutral
  <2>7. /\ r.ok \in BOOLEAN /\ Others(r, b, k)
        /\ r.ok => /\ Sound(r, all \ {g})
                   /\ Space(r, k) = Put(Space(b, k), v, Full(perm, b.data[g]))
        /\ ~r.ok => Sound(r, all) /\ Space(r, k) = Space(b, k)
    <3>1. b.pte[k][v] = NoPte /\ b.tab[k] # NoTable /\ b.data[g] \in Stored
      BY <1>1, <2>3, <2>4
    <3> QED BY <2>1, <2>6, <3>1, MappagesUser, SMTT(20)
  <2> HIDE DEF r
  <2>8. ~r.ok => Sound(s, out) /\ Alike(s, r) /\ s.ok = FALSE
    <3>1. ~r.ok => Sound(s, all \ {g}) /\ Alike(s, r) /\ s.ok = r.ok
      BY <2>1, <2>7, KfreeIs
    <3> QED BY <2>1, <2>7, <3>1
  <2> HIDE DEF s
  <2>9. Space(b, k) = Space(n, k) /\ Others(b, n, k)
    BY <1>1, <2>6 DEF Alike, Others
  <2>10. Others(r, n, k)
    BY <2>7, <2>9 DEF Others
  <2>11. ~r.ok => Others(s, n, k) /\ Space(s, k) = Space(n, k)
    BY <2>7, <2>8, <2>9, <2>10 DEF Others, Alike
  <2>12. r.ok => Space(r, k) = Put(Space(n, k), v, Full(perm, val))
    BY <2>4, <2>7, <2>9
  <2> QED BY <1>2, <1>4, <2>1, <2>7, <2>8, <2>10, <2>11, <2>12
<1> QED BY <1>1, <1>3, <1>4

-----------------------------------------------------------------------------
(* uvmunmap(), uvmcreate() and freewalk() *)

Gone(n, k, first, last) == {v \in first..(last - 1) : n.pte[k][v] # NoPte}
Span(first, last) == first..(last - 1)
Times(n, k, first, last, g) ==
  Cardinality({v \in Gone(n, k, first, last) : n.pte[k][v].page = g})

UnmapFreeing(n, k, first, last) == Uvmunmap(n, k, first, last, TRUE)
UnmapKeeping(n, k, first, last) == Uvmunmap(n, k, first, last, FALSE)
Frees(n, k, first, last, free, junk) ==
  /\ free \in [Page -> Nat] /\ junk \subseteq Page
  /\ \A g \in Page : free[g] = n.free[g] + Times(n, k, first, last, g)
  /\ \A g \in Page : Times(n, k, first, last, g) > 0 <=> g \in junk
  /\ \A v \in Gone(n, k, first, last) : n.pte[k][v].page \in Page

LEMMA UnmapFrees ==
  ASSUME NEW n \in Memory, NEW k \in Table, NEW first \in Nat, NEW last \in Nat, last <= TRAPFRAME + 2,
         NEW free, NEW junk, Frees(n, k, first, last, free, junk)
  PROVE  LET r == UnmapFreeing(n, k, first, last) IN
         /\ r \in Memory /\ r.free = free /\ r.tab = n.tab /\ r.ok = n.ok /\ r.got = n.got /\ r.panic = n.panic
         /\ \A h \in Page \ junk : r.data[h] = n.data[h]
         /\ \A l \in Table : l # k => r.pte[l] = n.pte[l]
         /\ \A v \in Vpn : r.pte[k][v] = IF v \in Span(first, last) THEN NoPte ELSE n.pte[k][v]
<1> DEFINE gone == Gone(n, k, first, last)
           times(g) == IF TRUE THEN Times(n, k, first, last, g) ELSE 0
           f == [g \in Page |-> n.free[g] + times(g)]
           d == [g \in Page |-> IF times(g) > 0 THEN Junk ELSE n.data[g]]
           q == [v \in Vpn |-> IF v \in gone THEN NoPte ELSE n.pte[k][v]]
           p == [n.pte EXCEPT ![k] = q]
           c == n.panic \/ (TRUE /\ \E v \in gone : n.pte[k][v].page \notin Page)
           r == UnmapFreeing(n, k, first, last)
<1>0. /\ free \in [Page -> Nat] /\ junk \subseteq Page
      /\ \A g \in Page : free[g] = n.free[g] + Times(n, k, first, last, g)
      /\ \A g \in Page : Times(n, k, first, last, g) > 0 <=> g \in junk
      /\ \A v \in Gone(n, k, first, last) : n.pte[k][v].page \in Page
  BY DEF Frees
<1>1. r = [n EXCEPT !.free = f, !.data = d, !.pte = p, !.panic = c]
  BY Zenon DEF UnmapFreeing, UnmapKeeping, Uvmunmap, Gone, Times
<1>2. f = free
  BY <1>0, Fields
<1>3. d = [g \in Page |-> IF g \in junk THEN Junk ELSE n.data[g]]
  BY <1>0
<1>4. c = n.panic
  BY <1>0, Fields
<1>5. q = [v \in Vpn |-> IF v \in Span(first, last) THEN NoPte ELSE n.pte[k][v]]
  BY DEF Span, Gone
<1> HIDE DEF gone, times, f, d, q, c, r
<1>6. d \in [Page -> Stored \cup {Junk}] /\ n.free \in [Page -> Nat] /\ \A h \in Page \ junk : d[h] = n.data[h]
  BY <1>0, <1>3, Fields
<1>7. q \in [Vpn -> Pte]
  BY <1>5, Fields, Entry
<1>8. p \in [Table -> [Vpn -> Pte]] /\ p[k] = q /\ \A l \in Table : l # k => p[l] = n.pte[l]
  BY <1>7, Fields
<1> HIDE DEF p
<1>9. r \in Memory /\ r.free = f /\ r.data = d /\ r.tab = n.tab /\ r.pte = p /\ r.ok = n.ok
      /\ r.got = n.got /\ r.panic = n.panic
  BY <1>0, <1>1, <1>2, <1>4, <1>6, <1>8 DEF Memory
<1>10. \A v \in Vpn : q[v] = IF v \in Span(first, last) THEN NoPte ELSE n.pte[k][v]
  BY <1>5
<1>11. /\ r \in Memory /\ r.free = free /\ r.tab = n.tab /\ r.ok = n.ok /\ r.got = n.got /\ r.panic = n.panic
       /\ \A h \in Page \ junk : r.data[h] = n.data[h]
       /\ \A l \in Table : l # k => r.pte[l] = n.pte[l]
  BY <1>2, <1>6, <1>8, <1>9
<1>12. \A v \in Vpn : r.pte[k][v] = IF v \in Span(first, last) THEN NoPte ELSE n.pte[k][v]
  BY <1>8, <1>9, <1>10
<1> QED BY <1>11, <1>12 DEF r

LEMMA UnmapKeeps ==
  ASSUME NEW n \in Memory, NEW k \in Table, NEW first \in Nat, NEW last \in Nat, last <= TRAPFRAME + 2
  PROVE  LET r == UnmapKeeping(n, k, first, last) IN
         /\ r \in Memory /\ r.free = n.free /\ r.tab = n.tab /\ r.ok = n.ok /\ r.got = n.got /\ r.panic = n.panic
         /\ r.data = n.data
         /\ \A l \in Table : l # k => r.pte[l] = n.pte[l]
         /\ \A v \in Vpn : r.pte[k][v] = IF v \in Span(first, last) THEN NoPte ELSE n.pte[k][v]
<1> DEFINE gone == Gone(n, k, first, last)
           times(g) == IF FALSE THEN Times(n, k, first, last, g) ELSE 0
           f == [g \in Page |-> n.free[g] + times(g)]
           d == [g \in Page |-> IF times(g) > 0 THEN Junk ELSE n.data[g]]
           q == [v \in Vpn |-> IF v \in gone THEN NoPte ELSE n.pte[k][v]]
           p == [n.pte EXCEPT ![k] = q]
           c == n.panic \/ (FALSE /\ \E v \in gone : n.pte[k][v].page \notin Page)
           r == UnmapKeeping(n, k, first, last)
<1>1. r = [n EXCEPT !.free = f, !.data = d, !.pte = p, !.panic = c]
  BY Zenon DEF UnmapFreeing, UnmapKeeping, Uvmunmap, Gone, Times
<1>2. f = n.free
  BY Fields
<1>3. d = n.data
  BY Fields
<1>4. c = n.panic
  BY Fields
<1>5. q = [v \in Vpn |-> IF v \in Span(first, last) THEN NoPte ELSE n.pte[k][v]]
  BY DEF Span, Gone
<1> HIDE DEF gone, times, f, d, q, c, r
<1>6. d \in [Page -> Stored \cup {Junk}] /\ n.free \in [Page -> Nat]
  BY <1>3, Fields
<1>7. q \in [Vpn -> Pte]
  BY <1>5, Fields, Entry
<1>8. p \in [Table -> [Vpn -> Pte]] /\ p[k] = q /\ \A l \in Table : l # k => p[l] = n.pte[l]
  BY <1>7, Fields
<1> HIDE DEF p
<1>9. r \in Memory /\ r.free = f /\ r.data = d /\ r.tab = n.tab /\ r.pte = p /\ r.ok = n.ok
      /\ r.got = n.got /\ r.panic = n.panic
  BY <1>1, <1>2, <1>4, <1>6, <1>8 DEF Memory
<1> QED BY <1>2, <1>3, <1>5, <1>6, <1>8, <1>9 DEF r

(* The user's pages from first to last are freed, if there are any. *)
LEMMA UnmapUser ==
  ASSUME NEW n, NEW out, Sound(n, out), NEW k \in Table,
         NEW first \in Nat, NEW last \in Nat, last <= TRAPFRAME
  PROVE  LET r == UnmapFreeing(n, k, first, last) IN
         /\ Sound(r, out) /\ Others(r, n, k) /\ r.tab = n.tab /\ r.ok = n.ok /\ r.got = n.got
         /\ Space(r, k) = Wipe(Space(n, k), Span(first, last))
<1> DEFINE gone == Gone(n, k, first, last)
           junk == {n.pte[k][v].page : v \in gone}
           free == [g \in Page |-> IF g \in junk THEN 1 ELSE n.free[g]]
           r == UnmapFreeing(n, k, first, last)
<1>1. n \in Memory /\ ~n.panic /\ gone \subseteq UserVpn
  BY Sizes DEF Sound, Gone, UserVpn
<1>2. junk \in SUBSET Page /\ \A v \in gone : n.pte[k][v].page \in Page /\ n.pte[k][v] # NoPte
  BY <1>1 DEF Sound, MappedOnce, Gone
<1>3. free \in [Page -> Nat]
  BY <1>1, Fields
<1>4. \A l \in Table, v \in UserVpn : n.pte[l][v].page \in junk =>
         l = k /\ v \in gone /\ v \in Span(first, last) /\ n.pte[l][v] # NoPte
  <2> SUFFICES ASSUME NEW l \in Table, NEW v \in UserVpn, n.pte[l][v].page \in junk
               PROVE  l = k /\ v \in gone /\ v \in Span(first, last) /\ n.pte[l][v] # NoPte
    OBVIOUS
  <2>1. PICK w \in gone : n.pte[l][v].page = n.pte[k][w].page
    OBVIOUS
  <2>2. w \in UserVpn /\ n.pte[k][w] # NoPte
    BY <1>1, <1>2, <2>1
  <2>3. l = k /\ v = w
    BY <2>1, <2>2 DEF Sound, MappedOnce
  <2> QED BY <2>1, <2>2, <2>3 DEF Gone, Span
<1>5. \A g \in junk : n.free[g] = 0 /\ g \notin out /\ ~HasTable(n, g)
  <2> SUFFICES ASSUME NEW g \in junk PROVE n.free[g] = 0 /\ g \notin out /\ ~HasTable(n, g)
    OBVIOUS
  <2>1. PICK v \in gone : g = n.pte[k][v].page
    OBVIOUS
  <2>2. v \in UserVpn /\ n.pte[k][v] # NoPte /\ g \in Page /\ g # NoPage
    BY <1>1, <1>2, <2>1, Entry
  <2>3. g \notin out /\ Mapped(n, g)
    BY <2>1, <2>2 DEF Sound, MappedOnce, Mapped
  <2>4. ~HasTable(n, g)
    BY <2>1, <2>2 DEF Sound, TablesOnce, HasTable
  <2>5. n.free[g] = 0
    BY <2>2, <2>3 DEF Sound, Counted
  <2> QED BY <2>3, <2>4, <2>5
<1>6. ASSUME NEW g \in Page
      PROVE  Cardinality({v \in gone : n.pte[k][v].page = g}) = IF g \in junk THEN 1 ELSE 0
  <2>1. CASE g \in junk
    <3>1. PICK v \in gone : g = n.pte[k][v].page
      BY <2>1
    <3>2. v \in UserVpn /\ n.pte[k][v] # NoPte
      BY <1>1, <1>2, <3>1
    <3>3. \A w \in gone : n.pte[k][w].page = g => w = v
      BY <1>1, <3>1, <3>2 DEF Sound, MappedOnce
    <3>4. {w \in gone : n.pte[k][w].page = g} = {v}
      BY <3>1, <3>3
    <3> QED BY <2>1, <3>4, FS_Singleton
  <2>2. CASE g \notin junk
    <3>1. {w \in gone : n.pte[k][w].page = g} = {}
      BY <2>2
    <3> QED BY <2>2, <3>1, FS_EmptySet
  <2> QED BY <2>1, <2>2
<1>7. ASSUME NEW g \in Page
      PROVE  /\ free[g] = n.free[g] + Times(n, k, first, last, g)
             /\ Times(n, k, first, last, g) > 0 <=> g \in junk
  <2>1. n.free[g] \in Nat
    BY <1>1, Fields
  <2>2. Times(n, k, first, last, g) = IF g \in junk THEN 1 ELSE 0
    BY <1>6 DEF Times
  <2> HIDE DEF junk
  <2> QED BY <2>1, <2>2, <1>5
<1>a. Frees(n, k, first, last, free, junk)
  <2>1. \A v \in Gone(n, k, first, last) : n.pte[k][v].page \in Page
    BY <1>2
  <2> HIDE DEF free, junk, gone
  <2> QED BY <1>2, <1>3, <1>7, <2>1 DEF Frees
<1> HIDE DEF r, junk, free, gone
<1>8. /\ r \in Memory /\ r.free = free /\ r.tab = n.tab /\ r.ok = n.ok /\ r.got = n.got /\ r.panic = n.panic
      /\ \A h \in Page \ junk : r.data[h] = n.data[h]
      /\ \A l \in Table : l # k => r.pte[l] = n.pte[l]
      /\ \A v \in Vpn : r.pte[k][v] = IF v \in Span(first, last) THEN NoPte ELSE n.pte[k][v]
  <2>1. last <= TRAPFRAME + 2
    BY Sizes
  <2> QED BY <1>1, <1>a, <2>1, UnmapFrees DEF r
<1>9. \A l \in Table, v \in UserVpn :
         /\ r.pte[l][v] = IF l = k /\ v \in Span(first, last) THEN NoPte ELSE n.pte[l][v]
         /\ r.pte[l][v] # NoPte => r.pte[l][v] = n.pte[l][v] /\ n.pte[l][v].page \notin junk
                                   /\ n.pte[l][v].page \in Page
                                   /\ r.data[n.pte[l][v].page] = n.data[n.pte[l][v].page]
  <2> SUFFICES ASSUME NEW l \in Table, NEW v \in UserVpn
               PROVE  /\ r.pte[l][v] = IF l = k /\ v \in Span(first, last) THEN NoPte ELSE n.pte[l][v]
                      /\ r.pte[l][v] # NoPte => r.pte[l][v] = n.pte[l][v] /\ n.pte[l][v].page \notin junk
                                                /\ n.pte[l][v].page \in Page
                                                /\ r.data[n.pte[l][v].page] = n.data[n.pte[l][v].page]
    OBVIOUS
  <2>1. r.pte[l][v] = IF l = k /\ v \in Span(first, last) THEN NoPte ELSE n.pte[l][v]
    BY <1>8, Vpns
  <2>2. ASSUME r.pte[l][v] # NoPte
        PROVE  r.pte[l][v] = n.pte[l][v] /\ n.pte[l][v].page \notin junk /\ n.pte[l][v].page \in Page
    <3>1. r.pte[l][v] = n.pte[l][v] /\ ~(l = k /\ v \in Span(first, last))
      BY <2>1, <2>2
    <3> QED BY <2>2, <3>1, <1>4 DEF Sound, MappedOnce
  <2> QED BY <2>1, <2>2, <1>8
<1>10. TablesOnce(r, out)
  <2>1. \A l \in Table, v \in UserVpn : r.pte[l][v].page = n.pte[l][v].page \/ r.pte[l][v].page = NoPage
    BY <1>9, Entry
  <2> QED BY <1>8, <2>1 DEF Sound, TablesOnce
<1>11. MappedOnce(r, out)
  <2> SUFFICES ASSUME NEW l \in Table, NEW v \in UserVpn, r.pte[l][v] # NoPte
               PROVE  /\ r.pte[l][v].page \in Page \ out
                      /\ r.pte[l][v].perm \in Perms
                      /\ r.data[r.pte[l][v].page] \in Stored
                      /\ \A i \in Table, w \in UserVpn : r.pte[i][w].page = r.pte[l][v].page => i = l /\ w = v
    BY DEF MappedOnce
  <2>1. /\ r.pte[l][v] = n.pte[l][v] /\ n.pte[l][v].page \in Page
        /\ r.data[n.pte[l][v].page] = n.data[n.pte[l][v].page]
    BY <1>9
  <2>2. /\ n.pte[l][v].page \in Page \ out
        /\ n.pte[l][v].perm \in Perms
        /\ n.data[n.pte[l][v].page] \in Stored
        /\ \A i \in Table, w \in UserVpn : n.pte[i][w].page = n.pte[l][v].page => i = l /\ w = v
    BY <2>1 DEF Sound, MappedOnce
  <2>3. \A i \in Table, w \in UserVpn : r.pte[i][w].page = n.pte[l][v].page => i = l /\ w = v
    <3>1. \A i \in Table, w \in UserVpn : r.pte[i][w] = n.pte[i][w] \/ r.pte[i][w].page = NoPage
      BY <1>9, Entry
    <3> QED BY <2>1, <2>2, <3>1, Entry
  <2> QED BY <2>1, <2>2, <2>3
<1>12. Counted(r, out)
  <2> SUFFICES ASSUME NEW g \in Page
               PROVE  free[g] = IF g \in out \/ HasTable(r, g) \/ Mapped(r, g) THEN 0 ELSE 1
    BY <1>8 DEF Counted
  <2>1. n.free[g] = IF g \in out \/ HasTable(n, g) \/ Mapped(n, g) THEN 0 ELSE 1
    BY DEF Sound, Counted
  <2>2. HasTable(r, g) <=> HasTable(n, g)
    BY <1>8 DEF HasTable
  <2>3. g # NoPage /\ NoPte.page = NoPage
    BY Entry
  <2>4. CASE g \in junk
    <3>1. ~Mapped(r, g)
      BY <2>3, <2>4, <1>9 DEF Mapped
    <3>2. free[g] = 1
      BY <2>4 DEF free
    <3> QED BY <2>2, <2>4, <3>1, <3>2, <1>5
  <2>5. CASE g \notin junk
    <3>1. Mapped(r, g) <=> Mapped(n, g)
      <4>1. ASSUME NEW l \in Table, NEW v \in UserVpn, n.pte[l][v].page = g
            PROVE  r.pte[l][v].page = g
        <5>1. n.pte[l][v] # NoPte
          BY <4>1, <2>3
        <5>2. ~(l = k /\ v \in Span(first, last))
          BY <5>1, <4>1, <2>5, <1>1 DEF junk, gone, Gone, Span
        <5> QED BY <5>2, <4>1, <1>9
      <4>2. \A l \in Table, v \in UserVpn : r.pte[l][v].page = g => n.pte[l][v].page = g
        BY <2>3, <1>9
      <4> QED BY <4>1, <4>2 DEF Mapped
    <3>2. free[g] = n.free[g]
      BY <2>5 DEF free
    <3> QED BY <2>1, <2>2, <3>1, <3>2
  <2> QED BY <2>4, <2>5
<1>13. Sound(r, out)
  BY <1>1, <1>8, <1>10, <1>11, <1>12 DEF Sound
<1>14. Others(r, n, k)
  <2> SUFFICES ASSUME NEW l \in Table, l # k PROVE Space(r, l) = Space(n, l)
    BY DEF Others
  <2>1. r.pte[l] = n.pte[l] /\ r.tab[l] = n.tab[l]
    BY <1>8
  <2> QED BY <2>1, <1>9, SpaceKept
<1>15. Space(r, k) = Wipe(Space(n, k), Span(first, last))
  <2> DEFINE c == [v \in UserVpn |-> IF v \in Span(first, last) THEN NoCell ELSE Space(n, k).cells[v]]
  <2>1. \A v \in UserVpn : Cell(r, k, v) = IF v \in Span(first, last) THEN NoCell ELSE Cell(n, k, v)
    BY <1>9 DEF Cell
  <2>2. \A v \in UserVpn : Space(n, k).cells[v] = Cell(n, k, v)
    BY Spaces
  <2>3. c = CellsOf(r, k)
    BY <2>1, <2>2 DEF CellsOf
  <2>4. r.pte[k][TRAPFRAME] = n.pte[k][TRAPFRAME] /\ r.pte[k][TRAMPOLINE] = n.pte[k][TRAMPOLINE]
    <3>1. TRAPFRAME \in Vpn \ Span(first, last) /\ TRAMPOLINE \in Vpn \ Span(first, last)
      BY Sizes DEF Span
    <3> QED BY <3>1, <1>8
  <2>5. Wipe(Space(n, k), Span(first, last)) =
          Make(c, Space(n, k).frame, Space(n, k).tramp, Space(n, k).tables)
    BY Zenon DEF Wipe
  <2> HIDE DEF c
  <2>6. TablesOf(r, k) = TablesOf(n, k)
    BY <1>8, SMTT(20) DEF TablesOf
  <2> QED BY <2>3, <2>4, <2>5, <2>6, Spaces DEF Space
<1> QED BY <1>8, <1>13, <1>14, <1>15 DEF r

LEMMA SameSpace ==
  ASSUME NEW n, NEW k, NEW r, NEW l,
         Space(r, l).cells = Space(n, k).cells, Space(r, l).frame = Space(n, k).frame,
         Space(r, l).tramp = Space(n, k).tramp, Space(r, l).tables = Space(n, k).tables
  PROVE  Space(r, l) = Space(n, k)
  BY Spaces DEF Space

LEMMA Bare ==
  ASSUME NEW n, NEW k,
         Space(n, k).cells = NoCells, Space(n, k).frame = NoPte,
         Space(n, k).tramp = NoPte, Space(n, k).tables = "none"
  PROVE  Space(n, k) = NoSpace
  BY Spaces DEF Space, NoSpace

(* The trampoline, or the trapframe and the trampoline, are unmapped. *)
LEMMA UnmapKernel ==
  ASSUME NEW n, NEW out, Sound(n, out), NEW k \in Table, NEW first \in {TRAPFRAME, TRAMPOLINE}
  PROVE  LET r == UnmapKeeping(n, k, first, TRAMPOLINE + 1) IN
         /\ Sound(r, out) /\ Others(r, n, k) /\ r.tab = n.tab /\ r.ok = n.ok /\ r.got = n.got
         /\ first = TRAPFRAME => Space(r, k) = Frame(Tramp(Space(n, k), NoPte), NoPte)
         /\ first = TRAMPOLINE => Space(r, k) = Tramp(Space(n, k), NoPte)
<1> DEFINE r == UnmapKeeping(n, k, first, TRAMPOLINE + 1)
<1>1. /\ first \in Nat /\ TRAMPOLINE + 1 \in Nat /\ TRAMPOLINE + 1 <= TRAPFRAME + 2
      /\ \A v \in UserVpn : v \in Vpn /\ v \notin Span(first, TRAMPOLINE + 1)
      /\ TRAPFRAME \in Vpn /\ TRAMPOLINE \in Vpn
      /\ TRAMPOLINE \in Span(first, TRAMPOLINE + 1)
      /\ TRAPFRAME \in Span(first, TRAMPOLINE + 1) <=> first = TRAPFRAME
      /\ TRAPFRAME # TRAMPOLINE
  BY Sizes DEF UserVpn, Span
<1>2. n \in Memory /\ ~n.panic
  BY DEF Sound
<1>3. /\ r \in Memory /\ r.free = n.free /\ r.tab = n.tab /\ r.ok = n.ok /\ r.got = n.got /\ r.panic = n.panic
      /\ r.data = n.data
      /\ \A l \in Table : l # k => r.pte[l] = n.pte[l]
      /\ \A v \in Vpn : r.pte[k][v] = IF v \in Span(first, TRAMPOLINE + 1) THEN NoPte ELSE n.pte[k][v]
  BY <1>1, <1>2, UnmapKeeps
<1> HIDE DEF r
<1>4. \A l \in Table, v \in UserVpn : r.pte[l][v] = n.pte[l][v]
  BY <1>1, <1>3
<1>5. TablesOnce(r, out)
  BY <1>3, <1>4 DEF Sound, TablesOnce
<1>6. MappedOnce(r, out)
  BY <1>3, <1>4 DEF Sound, MappedOnce
<1>7. Counted(r, out)
  <2>1. \A h \in Page : HasTable(r, h) <=> HasTable(n, h)
    BY <1>3 DEF HasTable
  <2>2. \A h \in Page : Mapped(r, h) <=> Mapped(n, h)
    BY <1>4 DEF Mapped
  <2> QED BY <2>1, <2>2, <1>3 DEF Sound, Counted
<1>8. Sound(r, out)
  BY <1>2, <1>3, <1>5, <1>6, <1>7 DEF Sound
<1>9. Others(r, n, k)
  BY <1>3, SpaceKept DEF Others
<1>10. CellsOf(r, k) = CellsOf(n, k) /\ TablesOf(r, k) = TablesOf(n, k)
  <2>1. \A w \in UserVpn : Cell(r, k, w) = Cell(n, k, w)
    BY <1>3, <1>4 DEF Cell
  <2> QED BY <2>1, <1>3 DEF CellsOf, TablesOf
<1>11. /\ r.pte[k][TRAMPOLINE] = NoPte
       /\ first = TRAPFRAME => r.pte[k][TRAPFRAME] = NoPte
       /\ first = TRAMPOLINE => r.pte[k][TRAPFRAME] = n.pte[k][TRAPFRAME]
  BY <1>1, <1>3
<1>12. first = TRAMPOLINE => Space(r, k) = Tramp(Space(n, k), NoPte)
  BY <1>10, <1>11, Spaces DEF Space, Tramp
<1>13. first = TRAPFRAME => Space(r, k) = Frame(Tramp(Space(n, k), NoPte), NoPte)
  BY <1>10, <1>11, Spaces, TrampIs DEF Space, Frame
<1> QED BY <1>3, <1>8, <1>9, <1>12, <1>13 DEF r

LEMMA UvmcreateIs ==
  ASSUME NEW n, NEW out, Sound(n, out), NEW k \in Table, n.tab[k] = NoTable
  PROVE  LET r == Uvmcreate(n, k) IN
         /\ Sound(r, out) /\ Others(r, n, k) /\ r.ok \in BOOLEAN
         /\ \A h \in out : r.data[h] = n.data[h]
         /\ r.ok => Space(r, k) = Root(Space(n, k))
         /\ ~r.ok => Space(r, k) = Space(n, k)
<1> DEFINE x == <<2, 0>>
           a == Kalloc(n)
           link == Link(a, k, x)
           r == Uvmcreate(n, k)
<1>1. x \in Node /\ n.tab[k][x] = NoPage
  BY Sizes DEF NoTable
<1>2. r = IF a.ok THEN link ELSE a
  BY DEF Uvmcreate, Then, Link
<1>3. /\ Alike(a, n) /\ a.tab = n.tab /\ a.pte = n.pte /\ a.ok \in BOOLEAN
      /\ \A h \in out : a.data[h] = n.data[h]
      /\ a.ok => a.got \in Page \ out /\ Sound(a, out \cup {a.got})
      /\ ~a.ok => Sound(a, out)
  BY KallocIs
<1> HIDE DEF a
<1>4. CASE ~a.ok
  BY <1>2, <1>3, <1>4 DEF Alike, Others
<1>5. CASE a.ok
  <2> DEFINE all == out \cup {a.got}
  <2>1. Sound(a, all) /\ a.got \in all /\ a.tab[k][x] = NoPage
    BY <1>1, <1>3, <1>5
  <2>2. all \ {a.got} = out
    BY <1>3, <1>5
  <2> HIDE DEF all, x
  <2>3. /\ Sound(link, all \ {a.got}) /\ Others(link, a, k) /\ link.pte = a.pte /\ link.ok = a.ok
        /\ Space(link, k) = Root(Space(a, k)) /\ link.tab[k] # NoTable
        /\ \A h \in all \ {a.got} : link.data[h] = a.data[h]
    BY <2>1, <1>1, LinkIs
  <2> HIDE DEF link
  <2>4. Space(a, k) = Space(n, k) /\ Others(a, n, k)
    BY <1>3 DEF Alike, Others
  <2>5. Others(link, n, k)
    BY <2>3, <2>4 DEF Others
  <2>6. \A h \in out : link.data[h] = n.data[h]
    BY <1>3, <2>2, <2>3
  <2> QED BY <1>2, <1>3, <1>5, <2>2, <2>3, <2>4, <2>5, <2>6
<1> QED BY <1>3, <1>4, <1>5

(* freewalk() gives the page-table pages back, of a table without leaves.   *)
Linked(n, k, g) == Cardinality({x \in Node : n.tab[k][x] = g})

LEMMA FreewalkIs ==
  ASSUME NEW n, NEW out, Sound(n, out), NEW k \in Table, Space(n, k).cells = NoCells,
         Space(n, k).frame = NoPte, Space(n, k).tramp = NoPte
  PROVE  LET r == Freewalk(n, k) IN
         Sound(r, out) /\ Others(r, n, k) /\ Space(r, k) = NoSpace /\ r.ok = n.ok /\ r.got = n.got
<1> DEFINE junk == {g \in Page : \E x \in Node : n.tab[k][x] = g}
           f == [g \in Page |-> n.free[g] + Linked(n, k, g)]
           d == [g \in Page |-> IF Linked(n, k, g) > 0 THEN Junk ELSE n.data[g]]
           t == [n.tab EXCEPT ![k] = NoTable]
           r == [n EXCEPT !.free = f, !.data = d, !.tab = t]
<1>1. n \in Memory /\ ~n.panic
  BY DEF Sound
<1>2. \A v \in UserVpn : n.pte[k][v] = NoPte
  <2> SUFFICES ASSUME NEW v \in UserVpn PROVE n.pte[k][v] = NoPte
    OBVIOUS
  <2>1. Cell(n, k, v) = NoCell
    BY Spaces DEF NoCells
  <2> QED BY <2>1, CellIs
<1>3. n.pte[k] = NoPtes
  <2>1. \A v \in Vpn : n.pte[k][v] = NoPte
    BY <1>2, Vpns, Spaces
  <2> QED BY <1>1, <2>1, Fields DEF NoPtes
<1>4. Freewalk(n, k) = r
  BY <1>3, Zenon DEF Freewalk, Linked
<1>5. ASSUME NEW g \in Page
      PROVE  Linked(n, k, g) = IF g \in junk THEN 1 ELSE 0
  <2>0. g # NoPage
    BY Entry
  <2>1. CASE g \in junk
    <3>1. PICK x \in Node : n.tab[k][x] = g
      BY <2>1
    <3>2. \A y \in Node : n.tab[k][y] = g => y = x
      BY <2>0, <3>1 DEF Sound, TablesOnce
    <3>3. {y \in Node : n.tab[k][y] = g} = {x}
      BY <3>1, <3>2
    <3> QED BY <2>1, <3>3, FS_Singleton DEF Linked
  <2>2. CASE g \notin junk
    <3>1. {y \in Node : n.tab[k][y] = g} = {}
      BY <2>2
    <3> QED BY <2>2, <3>1, FS_EmptySet DEF Linked
  <2> QED BY <2>1, <2>2
<1>6. \A g \in junk : /\ n.free[g] = 0 /\ g \notin out /\ g # NoPage
                      /\ \A l \in Table, x \in Node : n.tab[l][x] = g => l = k
                      /\ \A l \in Table, v \in UserVpn : n.pte[l][v].page # g
  <2> SUFFICES ASSUME NEW g \in junk
               PROVE  /\ n.free[g] = 0 /\ g \notin out /\ g # NoPage
                      /\ \A l \in Table, x \in Node : n.tab[l][x] = g => l = k
                      /\ \A l \in Table, v \in UserVpn : n.pte[l][v].page # g
    OBVIOUS
  <2>1. PICK x \in Node : n.tab[k][x] = g
    OBVIOUS
  <2>2. g \in Page /\ g # NoPage /\ HasTable(n, g)
    BY <2>1, Entry DEF HasTable
  <2>3. g \notin out /\ \A l \in Table, y \in Node : n.tab[l][y] = g => l = k
    BY <2>1, <2>2 DEF Sound, TablesOnce
  <2>4. \A l \in Table, v \in UserVpn : n.pte[l][v].page # g
    BY <2>1, <2>2 DEF Sound, TablesOnce
  <2>5. n.free[g] = 0
    BY <2>2 DEF Sound, Counted
  <2> QED BY <2>2, <2>3, <2>4, <2>5
<1>7. /\ f = [g \in Page |-> IF g \in junk THEN 1 ELSE n.free[g]]
      /\ d = [g \in Page |-> IF g \in junk THEN Junk ELSE n.data[g]]
  <2>1. \A g \in Page : n.free[g] + Linked(n, k, g) = IF g \in junk THEN 1 ELSE n.free[g]
    <3> HIDE DEF junk
    <3> SUFFICES ASSUME NEW g \in Page
                 PROVE  n.free[g] + Linked(n, k, g) = IF g \in junk THEN 1 ELSE n.free[g]
      OBVIOUS
    <3>1. n.free[g] \in Nat
      BY <1>1, Fields
    <3> QED BY <3>1, <1>5, <1>6
  <2>2. \A g \in Page : (IF Linked(n, k, g) > 0 THEN Junk ELSE n.data[g]) = IF g \in junk THEN Junk ELSE n.data[g]
    <3> HIDE DEF junk
    <3> QED BY <1>5
  <2> HIDE DEF junk
  <2> QED BY <2>1, <2>2
<1> HIDE DEF f, d
<1>8. f \in [Page -> Nat] /\ d \in [Page -> Stored \cup {Junk}] /\ t \in [Table -> [Node -> 0..NPAGES]]
  <2>1. NoTable \in [Node -> 0..NPAGES]
    BY SizesAssumption DEF NoTable, NoPage
  <2> HIDE DEF junk
  <2> QED BY <1>1, <1>7, <2>1, Fields
<1>9. t[k] = NoTable /\ \A l \in Table : l # k => t[l] = n.tab[l]
  BY <1>1, Fields
<1>10. \A x \in Node : t[k][x] = NoPage
  BY <1>9 DEF NoTable
<1> HIDE DEF t
<1>11. r \in Memory
  BY <1>1, <1>8 DEF Memory
<1>12. /\ r.free = f /\ r.data = d /\ r.tab = t /\ r.pte = n.pte /\ r.ok = n.ok
       /\ r.got = n.got /\ r.panic = n.panic
  BY <1>1 DEF Memory
<1> HIDE DEF r
<1>13. TablesOnce(r, out)
  BY <1>9, <1>10, <1>12 DEF Sound, TablesOnce
<1>14. \A l \in Table, v \in UserVpn : n.pte[l][v] # NoPte =>
          n.pte[l][v].page \in Page /\ r.data[n.pte[l][v].page] = n.data[n.pte[l][v].page]
  BY <1>6, <1>7, <1>12 DEF Sound, MappedOnce
<1>15. MappedOnce(r, out)
  BY <1>12, <1>14 DEF Sound, MappedOnce
<1>16. Counted(r, out)
  <2> SUFFICES ASSUME NEW g \in Page
               PROVE  f[g] = IF g \in out \/ HasTable(r, g) \/ Mapped(r, g) THEN 0 ELSE 1
    BY <1>12 DEF Counted
  <2>1. n.free[g] = IF g \in out \/ HasTable(n, g) \/ Mapped(n, g) THEN 0 ELSE 1
    BY DEF Sound, Counted
  <2>2. Mapped(r, g) <=> Mapped(n, g)
    BY <1>12 DEF Mapped
  <2>3. g # NoPage
    BY Entry
  <2>4. CASE g \in junk
    <3>1. ~HasTable(r, g)
      BY <2>3, <2>4, <1>6, <1>9, <1>10, <1>12 DEF HasTable
    <3>2. ~Mapped(n, g)
      BY <2>4, <1>6 DEF Mapped
    <3>3. f[g] = 1
      BY <2>4, <1>7
    <3> QED BY <2>2, <2>4, <3>1, <3>2, <3>3, <1>6
  <2>5. CASE g \notin junk
    <3>1. HasTable(r, g) <=> HasTable(n, g)
      BY <2>3, <2>5, <1>9, <1>10, <1>12 DEF HasTable
    <3>2. f[g] = n.free[g]
      BY <2>5, <1>7
    <3> QED BY <2>1, <2>2, <3>1, <3>2
  <2> QED BY <2>4, <2>5
<1>17. Sound(r, out)
  BY <1>1, <1>11, <1>12, <1>13, <1>15, <1>16 DEF Sound
<1>18. Others(r, n, k)
  <2> SUFFICES ASSUME NEW l \in Table, l # k PROVE Space(r, l) = Space(n, l)
    BY DEF Others
  <2> QED BY <1>9, <1>12, <1>14, SpaceKept
<1>19. Space(r, k) = NoSpace
  <2>1. \A v \in UserVpn : Cell(r, k, v) = NoCell
    BY <1>2, <1>12 DEF Cell
  <2>2. CellsOf(r, k) = NoCells
    BY <2>1 DEF CellsOf, NoCells
  <2>3. TablesOf(r, k) = "none"
    BY <1>9, <1>12 DEF TablesOf
  <2>4. r.pte[k][TRAPFRAME] = NoPte /\ r.pte[k][TRAMPOLINE] = NoPte
    BY <1>12, Spaces
  <2> QED BY <2>2, <2>3, <2>4, Spaces, Bare
<1> QED BY <1>4, <1>12, <1>17, <1>18, <1>19

-----------------------------------------------------------------------------
(* uvmdealloc() and uvmalloc() *)

(* The pages are all alike. *)
Fill(s, pages, c) ==
  Make([v \in UserVpn |-> IF v \in pages THEN c ELSE s.cells[v]], s.frame, s.tramp, s.tables)

LEMMA FillNone ==
  ASSUME NEW n, NEW k, NEW a \in Nat, NEW b \in Nat, b <= a, NEW c
  PROVE  Fill(Space(n, k), Span(a, b), c) = Space(n, k) /\ Wipe(Space(n, k), Span(a, b)) = Space(n, k)
<1>1. Span(a, b) = {}
  BY DEF Span
<1>2. /\ [v \in UserVpn |-> IF v \in {} THEN c ELSE Space(n, k).cells[v]] = CellsOf(n, k)
      /\ [v \in UserVpn |-> IF v \in {} THEN NoCell ELSE Space(n, k).cells[v]] = CellsOf(n, k)
  BY Spaces DEF CellsOf
<1>3. Space(n, k) = Make(CellsOf(n, k), Space(n, k).frame, Space(n, k).tramp, Space(n, k).tables)
  BY Spaces DEF Space
<1> QED BY <1>1, <1>2, <1>3 DEF Fill, Wipe

LEMMA FillPut ==
  ASSUME NEW s, NEW a \in Nat, NEW v \in UserVpn, a <= v, NEW c
  PROVE  Put(Fill(s, Span(a, v), c), v, c) = Fill(s, Span(a, v + 1), c)
<1> DEFINE f == [w \in UserVpn |-> IF w \in Span(a, v) THEN c ELSE s.cells[w]]
           g == [w \in UserVpn |-> IF w \in Span(a, v + 1) THEN c ELSE s.cells[w]]
<1>1. \A w \in UserVpn : w \in Span(a, v + 1) <=> w \in Span(a, v) \/ w = v
  BY Sizes DEF UserVpn, Span
<1>2. [f EXCEPT ![v] = c] = g
  BY <1>1
<1>3. Fill(s, Span(a, v), c) = Make(f, s.frame, s.tramp, s.tables)
      /\ Fill(s, Span(a, v + 1), c) = Make(g, s.frame, s.tramp, s.tables)
  BY Zenon DEF Fill
<1> HIDE DEF f, g
<1> QED BY <1>2, <1>3, Made DEF Put

LEMMA WipeFill ==
  ASSUME NEW n, NEW k, NEW pages, \A v \in UserVpn : v \in pages => Cell(n, k, v) = NoCell, NEW c
  PROVE  Wipe(Fill(Space(n, k), pages, c), pages) = Space(n, k)
<1> DEFINE s == Space(n, k)
           f == [w \in UserVpn |-> IF w \in pages THEN c ELSE s.cells[w]]
           g == [w \in UserVpn |-> IF w \in pages THEN NoCell ELSE f[w]]
<1>1. \A w \in UserVpn : s.cells[w] = Cell(n, k, w)
  BY Spaces
<1>2. g = CellsOf(n, k)
  BY <1>1 DEF CellsOf
<1>3. Fill(s, pages, c) = Make(f, s.frame, s.tramp, s.tables)
  BY Zenon DEF Fill
<1>4. Wipe(Fill(s, pages, c), pages) = Make(g, s.frame, s.tramp, s.tables)
  <2> HIDE DEF f, s
  <2> QED BY <1>3, Made DEF Wipe
<1> HIDE DEF g
<1> QED BY <1>2, <1>4, Spaces DEF Space

LEMMA DeallocIs ==
  ASSUME NEW n, NEW out, Sound(n, out), NEW k \in Table,
         NEW oldsz \in Nat, NEW newsz \in Nat, Pages(oldsz) <= TRAPFRAME
  PROVE  LET r == Uvmdealloc(n, k, oldsz, newsz) IN
         /\ Sound(r, out) /\ Others(r, n, k) /\ r.tab = n.tab /\ r.ok = n.ok /\ r.got = n.got
         /\ Space(r, k) = Wipe(Space(n, k), Span(Pages(newsz), Pages(oldsz)))
<1>1. Pages(oldsz) \in Nat /\ Pages(newsz) \in Nat
  BY PagesIs
<1>2. CASE newsz >= oldsz
  <2>1. Pages(oldsz) <= Pages(newsz)
    BY <1>2, PagesGrow
  <2>2. Wipe(Space(n, k), Span(Pages(newsz), Pages(oldsz))) = Space(n, k)
    BY <1>1, <2>1, FillNone
  <2>3. Uvmdealloc(n, k, oldsz, newsz) = n
    BY <1>2 DEF Uvmdealloc
  <2> QED BY <2>2, <2>3 DEF Others
<1>3. CASE ~(newsz >= oldsz)
  <2>1. Uvmdealloc(n, k, oldsz, newsz) = UnmapFreeing(n, k, Pages(newsz), Pages(oldsz))
    BY <1>3, Zenon DEF Uvmdealloc, UnmapFreeing
  <2> QED BY <1>1, <2>1, UnmapUser
<1> QED BY <1>2, <1>3

(* One round of uvmalloc(): a page more, or all that were added are gone.   *)
Allocated(u, n, k, out, first, v, perm) ==
  /\ Sound(u, out) /\ Others(u, n, k) /\ u.ok \in BOOLEAN
  /\ u.ok => Space(u, k) = Fill(Space(n, k), Span(first, v), Full(perm, Zero))
  /\ ~u.ok => Space(u, k) = Space(n, k)

LEMMA AllocRound ==
  ASSUME NEW n, NEW k \in Table, n.tab[k] # NoTable, NEW out, NEW u, NEW first \in Nat,
         NEW v \in Nat, first <= v, v < TRAPFRAME, NEW perm \in Perms,
         \A w \in UserVpn : w \in Span(first, v + 1) => Cell(n, k, w) = NoCell,
         Allocated(u, n, k, out, first, v, perm)
  PROVE  Allocated(UvmallocPage(u, k, first, v, perm), n, k, out, first, v + 1, perm)
<1> DEFINE c == Full(perm, Zero)
           a == MapNew(u, k, v, perm, Zero)
           b == Uvmdealloc(a, k, v * PGSIZE, first * PGSIZE)
           r == UvmallocPage(u, k, first, v, perm)
<1>1. /\ Sound(u, out) /\ Others(u, n, k) /\ u.ok \in BOOLEAN
      /\ u.ok => Space(u, k) = Fill(Space(n, k), Span(first, v), c)
      /\ ~u.ok => Space(u, k) = Space(n, k)
  BY DEF Allocated
<1>2. v \in UserVpn
  BY Sizes DEF UserVpn
<1>3. CASE ~u.ok
  <2>1. r = u
    BY <1>3 DEF UvmallocPage, Then
  <2> QED BY <1>1, <1>3, <2>1 DEF Allocated
<1>4. CASE u.ok
  <2>1. r = IF a.ok THEN a ELSE Fail(b)
    BY <1>4 DEF UvmallocPage, Then, Else
  <2>2. /\ Space(u, k) = Fill(Space(n, k), Span(first, v), c)
        /\ \A w \in UserVpn : Space(u, k).cells[w] = IF w \in Span(first, v) THEN c ELSE Cell(n, k, w)
    <3>1. Space(u, k) = Fill(Space(n, k), Span(first, v), c)
      BY <1>1, <1>4
    <3>2. Space(u, k).cells = [w \in UserVpn |-> IF w \in Span(first, v) THEN c ELSE Space(n, k).cells[w]]
      BY <3>1, Made DEF Fill
    <3> QED BY <3>1, <3>2, Spaces
  <2>3. u.pte[k][v] = NoPte
    <3>1. v \notin Span(first, v) /\ v \in Span(first, v + 1)
      BY DEF Span
    <3>2. Cell(u, k, v) = NoCell
      BY <1>2, <2>2, <3>1, Spaces
    <3> QED BY <1>1, <1>2, <3>2, CellIs
  <2>4. u.tab[k] # NoTable
    <3>1. Space(u, k).tables = Space(n, k).tables
      BY <2>2, Made DEF Fill
    <3> QED BY <3>1, Rooted
  <2>5. Zero \in Stored
    BY DEF Stored
  <2>6. /\ Sound(a, out) /\ a.ok \in BOOLEAN /\ Others(a, u, k)
        /\ a.ok => Space(a, k) = Put(Space(u, k), v, c)
        /\ ~a.ok => Space(a, k) = Space(u, k)
    BY <1>1, <1>2, <2>3, <2>4, <2>5, MapNewIs
  <2> HIDE DEF a, c
  <2>7. Others(a, n, k)
    BY <1>1, <2>6 DEF Others
  <2>8. CASE a.ok
    <3>1. Space(a, k) = Fill(Space(n, k), Span(first, v + 1), c)
      BY <1>2, <2>2, <2>6, <2>8, FillPut
    <3> QED BY <2>1, <2>6, <2>7, <2>8, <3>1 DEF Allocated, c
  <2>9. CASE ~a.ok
    <3>1. v * PGSIZE \in Nat /\ first * PGSIZE \in Nat /\ Pages(v * PGSIZE) = v /\ Pages(first * PGSIZE) = first
      BY PagesWhole
    <3>2. Sound(b, out) /\ Others(b, a, k) /\ Space(b, k) = Wipe(Space(a, k), Span(first, v))
      <4>1. Pages(v * PGSIZE) <= TRAPFRAME
        BY <3>1, Sizes
      <4> QED BY <2>6, <3>1, <4>1, DeallocIs
    <3> HIDE DEF b
    <3>3. Space(b, k) = Space(n, k)
      <4>1. \A w \in UserVpn : w \in Span(first, v) => Cell(n, k, w) = NoCell
        BY DEF Span
      <4> QED BY <2>2, <2>6, <2>9, <3>2, <4>1, WipeFill
    <3>4. Sound(Fail(b), out) /\ Alike(Fail(b), b) /\ Fail(b).ok = FALSE
      BY <3>2, FailIs
    <3>5. Others(Fail(b), n, k) /\ Space(Fail(b), k) = Space(n, k)
      BY <2>7, <3>2, <3>3, <3>4 DEF Others, Alike
    <3> QED BY <2>1, <2>9, <3>4, <3>5 DEF Allocated
  <2> QED BY <2>6, <2>8, <2>9
<1> QED BY <1>1, <1>3, <1>4

(* The loop of uvmalloc(), as a function of the page it has come to.        *)
IsLoop(h, n, k, first, last, perm) ==
  h = [v \in first..last |-> IF v = first THEN Ok(n) ELSE UvmallocPage(h[v - 1], k, first, v - 1, perm)]

LEMMA LoopExists ==
  ASSUME NEW n, NEW k, NEW first \in Nat, NEW last \in Nat, first <= last, NEW perm
  PROVE  \E h : IsLoop(h, n, k, first, last, perm)
<1> DEFINE S == {i \in Nat : \E h : IsLoop(h, n, k, first, first + i, perm)}
<1>1. 0 \in S
  <2> DEFINE h == [v \in first..(first + 0) |-> Ok(n)]
  <2>1. \A v \in first..(first + 0) : v = first
    OBVIOUS
  <2>2. IsLoop(h, n, k, first, first + 0, perm)
    BY <2>1 DEF IsLoop
  <2> QED BY <2>2
<1>2. ASSUME NEW i \in Nat, i \in S
      PROVE  i + 1 \in S
  <2>1. PICK h : IsLoop(h, n, k, first, first + i, perm)
    BY <1>2
  <2> DEFINE g == [v \in first..(first + (i + 1)) |->
                     IF v = first THEN Ok(n) ELSE UvmallocPage(h[v - 1], k, first, v - 1, perm)]
  <2>2. \A v \in first..(first + i) : g[v] = h[v]
    BY <2>1 DEF IsLoop
  <2>3. \A v \in first..(first + (i + 1)) : v # first => v - 1 \in first..(first + i)
    OBVIOUS
  <2>4. \A v \in first..(first + (i + 1)) : v # first => g[v - 1] = h[v - 1]
    BY <2>2, <2>3
  <2>5. IsLoop(g, n, k, first, first + (i + 1), perm)
    BY <2>4, Zenon DEF IsLoop
  <2> QED BY <2>5
<1> HIDE DEF S
<1>3. Nat \subseteq S
  BY <1>1, <1>2, Inductive
<1>4. last - first \in S /\ first + (last - first) = last
  BY <1>3
<1> QED BY <1>4 DEF S

LEMMA LoopRuns ==
  ASSUME NEW n, NEW k \in Table, n.tab[k] # NoTable, NEW out, Sound(n, out),
         NEW first \in Nat, NEW last \in Nat, first <= last, last <= TRAPFRAME, NEW perm \in Perms,
         \A w \in UserVpn : w \in Span(first, last) => Cell(n, k, w) = NoCell,
         NEW h, IsLoop(h, n, k, first, last, perm)
  PROVE  Allocated(h[last], n, k, out, first, last, perm)
<1> DEFINE S == {i \in Nat : first + i <= last => Allocated(h[first + i], n, k, out, first, first + i, perm)}
<1>1. 0 \in S
  <2>1. h[first] = Ok(n)
    BY DEF IsLoop
  <2>2. Sound(Ok(n), out) /\ Alike(Ok(n), n) /\ Ok(n).ok
    BY OkIs
  <2>3. Ok(n).ok = TRUE
    BY DEF Ok, Sound, Memory
  <2>4. Fill(Space(n, k), Span(first, first), Full(perm, Zero)) = Space(n, k)
    BY FillNone
  <2>5. Others(Ok(n), n, k) /\ Space(Ok(n), k) = Space(n, k)
    BY <2>2 DEF Alike, Others
  <2>6. Allocated(Ok(n), n, k, out, first, first, perm)
    BY <2>2, <2>3, <2>4, <2>5 DEF Allocated
  <2>7. first + 0 = first
    OBVIOUS
  <2> QED BY <2>1, <2>6, <2>7
<1>2. ASSUME NEW i \in Nat, i \in S
      PROVE  i + 1 \in S
  <2> SUFFICES ASSUME first + (i + 1) <= last
               PROVE  Allocated(h[first + (i + 1)], n, k, out, first, first + (i + 1), perm)
    OBVIOUS
  <2> DEFINE v == first + i
  <2>1. v \in Nat /\ first <= v /\ v < TRAPFRAME /\ v + 1 \in first..last /\ v + 1 # first
        /\ (v + 1) - 1 = v /\ first + (i + 1) = v + 1
    BY Sizes
  <2>2. Allocated(h[v], n, k, out, first, v, perm)
    BY <1>2, <2>1
  <2>3. h[v + 1] = UvmallocPage(h[v], k, first, v, perm)
    <3>1. h[v + 1] = IF v + 1 = first THEN Ok(n) ELSE UvmallocPage(h[(v + 1) - 1], k, first, (v + 1) - 1, perm)
      BY <2>1, Zenon DEF IsLoop
    <3> QED BY <2>1, <3>1
  <2>4. \A w \in UserVpn : w \in Span(first, v + 1) => Cell(n, k, w) = NoCell
    BY DEF Span
  <2> HIDE DEF v
  <2> QED BY <2>1, <2>2, <2>3, <2>4, AllocRound
<1> HIDE DEF S
<1>3. Nat \subseteq S
  BY <1>1, <1>2, Inductive
<1>4. last - first \in S /\ first + (last - first) = last
  BY <1>3
<1> QED BY <1>4 DEF S

LEMMA AllocIs ==
  ASSUME NEW n, NEW k \in Table, n.tab[k] # NoTable, NEW out, Sound(n, out),
         NEW oldsz \in Nat, NEW newsz \in Nat, oldsz <= newsz, Pages(newsz) <= TRAPFRAME, NEW perm \in Perms,
         \A w \in UserVpn : w \in Span(Pages(oldsz), Pages(newsz)) => Cell(n, k, w) = NoCell
  PROVE  Allocated(Uvmalloc(n, k, oldsz, newsz, perm), n, k, out, Pages(oldsz), Pages(newsz), perm)
<1> DEFINE first == Pages(oldsz)
           last == Pages(newsz)
           h == CHOOSE h : IsLoop(h, n, k, first, last, perm)
<1>1. first \in Nat /\ last \in Nat /\ first <= last
  BY PagesIs, PagesGrow
<1>2. ~(newsz < oldsz)
  OBVIOUS
<1>3. Uvmalloc(n, k, oldsz, newsz, perm) = h[last]
  BY <1>2, Zenon DEF Uvmalloc, IsLoop
<1>4. IsLoop(h, n, k, first, last, perm)
  BY <1>1, LoopExists, Zenon
<1> HIDE DEF h, first, last
<1>5. \A w \in UserVpn : w \in Span(first, last) => Cell(n, k, w) = NoCell
  BY DEF first, last
<1>6. Allocated(h[last], n, k, out, first, last, perm)
  BY <1>1, <1>4, <1>5, LoopRuns DEF first, last
<1> QED BY <1>3, <1>6 DEF first, last

-----------------------------------------------------------------------------
(* uvmcopy() *)

Merge(s, t, pages) ==
  Make([v \in UserVpn |-> IF v \in pages THEN t.cells[v] ELSE s.cells[v]], s.frame, s.tramp, s.tables)

LEMMA MergeNone ==
  ASSUME NEW n, NEW k, NEW t
  PROVE  Merge(Space(n, k), t, Span(0, 0)) = Space(n, k)
<1>1. Span(0, 0) = {}
  BY DEF Span
<1>2. [v \in UserVpn |-> IF v \in {} THEN t.cells[v] ELSE Space(n, k).cells[v]] = CellsOf(n, k)
  BY Spaces DEF CellsOf
<1>3. Space(n, k) = Make(CellsOf(n, k), Space(n, k).frame, Space(n, k).tramp, Space(n, k).tables)
  BY Spaces DEF Space
<1> QED BY <1>1, <1>2, <1>3 DEF Merge

LEMMA MergePut ==
  ASSUME NEW s, NEW t, NEW v \in UserVpn
  PROVE  /\ Put(Merge(s, t, Span(0, v)), v, t.cells[v]) = Merge(s, t, Span(0, v + 1))
         /\ s.cells[v] = t.cells[v] => Merge(s, t, Span(0, v)) = Merge(s, t, Span(0, v + 1))
<1> DEFINE f == [w \in UserVpn |-> IF w \in Span(0, v) THEN t.cells[w] ELSE s.cells[w]]
           g == [w \in UserVpn |-> IF w \in Span(0, v + 1) THEN t.cells[w] ELSE s.cells[w]]
<1>1. \A w \in UserVpn : w \in Span(0, v + 1) <=> w \in Span(0, v) \/ w = v
  BY Sizes DEF UserVpn, Span
<1>2. [f EXCEPT ![v] = t.cells[v]] = g
  BY <1>1
<1>3. s.cells[v] = t.cells[v] => f = g
  BY <1>1
<1>4. Merge(s, t, Span(0, v)) = Make(f, s.frame, s.tramp, s.tables)
      /\ Merge(s, t, Span(0, v + 1)) = Make(g, s.frame, s.tramp, s.tables)
  BY Zenon DEF Merge
<1> HIDE DEF f, g
<1> QED BY <1>2, <1>3, <1>4, Made DEF Put

LEMMA WipeMerge ==
  ASSUME NEW n, NEW k, NEW pages, \A v \in UserVpn : v \in pages => Cell(n, k, v) = NoCell, NEW t
  PROVE  Wipe(Merge(Space(n, k), t, pages), pages) = Space(n, k)
<1> DEFINE s == Space(n, k)
           f == [w \in UserVpn |-> IF w \in pages THEN t.cells[w] ELSE s.cells[w]]
           g == [w \in UserVpn |-> IF w \in pages THEN NoCell ELSE f[w]]
<1>1. \A w \in UserVpn : s.cells[w] = Cell(n, k, w)
  BY Spaces
<1>2. g = CellsOf(n, k)
  BY <1>1 DEF CellsOf
<1>3. Merge(s, t, pages) = Make(f, s.frame, s.tramp, s.tables)
  BY Zenon DEF Merge
<1>4. Wipe(Merge(s, t, pages), pages) = Make(g, s.frame, s.tramp, s.tables)
  <2> HIDE DEF f, s
  <2> QED BY <1>3, Made DEF Wipe
<1> HIDE DEF g
<1> QED BY <1>2, <1>4, Spaces DEF Space

(* One round of uvmcopy(). *)
Copied(u, n, old, new, out, v) ==
  /\ Sound(u, out) /\ Others(u, n, new) /\ u.ok \in BOOLEAN
  /\ u.ok => Space(u, new) = Merge(Space(n, new), Space(n, old), Span(0, v))
  /\ ~u.ok => Space(u, new) = Space(n, new)

LEMMA CopyRound ==
  ASSUME NEW n, NEW old \in Table, NEW new \in Table, old # new, n.tab[new] # NoTable, NEW out, NEW u,
         NEW v \in Nat, v < TRAPFRAME,
         \A w \in UserVpn : Cell(n, new, w) = NoCell,
         Copied(u, n, old, new, out, v)
  PROVE  Copied(UvmcopyPage(u, old, new, v), n, old, new, out, v + 1)
<1> DEFINE e == u.pte[old][v]
           t == Space(n, old)
           a == MapNew(u, new, v, e.perm, u.data[e.page])
           b == UnmapFreeing(a, new, 0, v)
           r == UvmcopyPage(u, old, new, v)
<1>1. /\ Sound(u, out) /\ Others(u, n, new) /\ u.ok \in BOOLEAN
      /\ u.ok => Space(u, new) = Merge(Space(n, new), t, Span(0, v))
      /\ ~u.ok => Space(u, new) = Space(n, new)
  BY DEF Copied
<1>2. v \in UserVpn
  BY Sizes DEF UserVpn
<1>3. Space(u, old) = t /\ Cell(u, old, v) = t.cells[v]
  <2>1. Space(u, old) = t
    BY <1>1 DEF Others
  <2>2. Space(u, old).cells[v] = Cell(u, old, v)
    BY <1>2, Spaces
  <2> QED BY <2>1, <2>2
<1>4. Space(n, new).cells[v] = NoCell
  BY <1>2, Spaces
<1>5. CASE e = NoPte
  <2>1. r = u
    BY <1>5 DEF UvmcopyPage
  <2>2. t.cells[v] = NoCell
    BY <1>1, <1>2, <1>3, <1>5, CellIs
  <2>3. Merge(Space(n, new), t, Span(0, v)) = Merge(Space(n, new), t, Span(0, v + 1))
    BY <1>2, <1>4, <2>2, MergePut
  <2> QED BY <1>1, <2>1, <2>3 DEF Copied
<1>6. CASE e # NoPte /\ ~u.ok
  <2>1. r = u
    BY <1>6 DEF UvmcopyPage, Then
  <2> QED BY <1>1, <1>6, <2>1 DEF Copied
<1>7. CASE e # NoPte /\ u.ok
  <2>1. r = IF a.ok THEN a ELSE Fail(b)
    BY <1>7, Zenon DEF UvmcopyPage, Then, Else, UnmapFreeing
  <2>2. /\ Space(u, new) = Merge(Space(n, new), t, Span(0, v))
        /\ Space(u, new).cells[v] = NoCell
    <3>1. Space(u, new) = Merge(Space(n, new), t, Span(0, v))
      BY <1>1, <1>7
    <3>2. Space(u, new).cells = [w \in UserVpn |-> IF w \in Span(0, v) THEN t.cells[w] ELSE Space(n, new).cells[w]]
      <4>1. Merge(Space(n, new), t, Span(0, v)).cells =
              [w \in UserVpn |-> IF w \in Span(0, v) THEN t.cells[w] ELSE Space(n, new).cells[w]]
        BY Made DEF Merge
      <4> QED BY <3>1, <4>1, Zenon
    <3>3. v \notin Span(0, v)
      BY DEF Span
    <3> QED BY <3>1, <3>2, <3>3, <1>2, <1>4
  <2>3. u.pte[new][v] = NoPte
    <3>1. Cell(u, new, v) = NoCell
      BY <1>2, <2>2, Spaces
    <3> QED BY <1>1, <1>2, <3>1, CellIs
  <2>4. u.tab[new] # NoTable
    <3>1. Space(u, new).tables = Space(n, new).tables
      BY <2>2, Made DEF Merge
    <3> QED BY <3>1, Rooted
  <2> DEFINE perm == e.perm
             val == u.data[e.page]
  <2>5. perm \in Perms /\ val \in Stored /\ Full(perm, val) = t.cells[v]
    <3>1. perm \in Perms /\ val \in Stored
      BY <1>1, <1>2, <1>7 DEF Sound, MappedOnce
    <3>2. Cell(u, old, v) = Full(perm, val)
      BY <1>7 DEF Cell, Full
    <3> QED BY <1>3, <3>1, <3>2
  <2> HIDE DEF perm, val
  <2>a. a = MapNew(u, new, v, perm, val)
    BY DEF perm, val
  <2> HIDE DEF a
  <2>6. /\ Sound(a, out) /\ a.ok \in BOOLEAN /\ Others(a, u, new)
        /\ a.ok => Space(a, new) = Put(Space(u, new), v, Full(perm, val))
        /\ ~a.ok => Space(a, new) = Space(u, new)
    BY <1>1, <1>2, <2>3, <2>4, <2>5, <2>a, MapNewIs
  <2>7. Others(a, n, new)
    BY <1>1, <2>6 DEF Others
  <2>8. CASE a.ok
    <3>1. Space(a, new) = Merge(Space(n, new), t, Span(0, v + 1))
      BY <1>2, <2>2, <2>5, <2>6, <2>8, MergePut
    <3> QED BY <2>1, <2>6, <2>7, <2>8, <3>1 DEF Copied
  <2>9. CASE ~a.ok
    <3>2. Sound(b, out) /\ Others(b, a, new) /\ Space(b, new) = Wipe(Space(a, new), Span(0, v))
      <4>1. 0 \in Nat /\ v <= TRAPFRAME
        BY Sizes
      <4> QED BY <2>6, <4>1, UnmapUser
    <3> HIDE DEF b
    <3>3. Space(b, new) = Space(n, new)
      BY <2>2, <2>6, <2>9, <3>2, WipeMerge
    <3>4. Sound(Fail(b), out) /\ Alike(Fail(b), b) /\ Fail(b).ok = FALSE
      BY <3>2, FailIs
    <3>5. Others(Fail(b), n, new) /\ Space(Fail(b), new) = Space(n, new)
      BY <2>7, <3>2, <3>3, <3>4 DEF Others, Alike
    <3> QED BY <2>1, <2>9, <3>4, <3>5 DEF Copied
  <2> QED BY <2>6, <2>8, <2>9
<1> QED BY <1>1, <1>5, <1>6, <1>7

IsCopy(h, n, old, new, last) ==
  h = [v \in 0..last |-> IF v = 0 THEN Ok(n) ELSE UvmcopyPage(h[v - 1], old, new, v - 1)]

LEMMA CopyExists ==
  ASSUME NEW n, NEW old, NEW new, NEW last \in Nat
  PROVE  \E h : IsCopy(h, n, old, new, last)
<1> DEFINE S == {i \in Nat : \E h : IsCopy(h, n, old, new, i)}
<1>1. 0 \in S
  <2> DEFINE h == [v \in 0..0 |-> Ok(n)]
  <2>1. \A v \in 0..0 : v = 0
    OBVIOUS
  <2>2. IsCopy(h, n, old, new, 0)
    BY <2>1 DEF IsCopy
  <2> QED BY <2>2
<1>2. ASSUME NEW i \in Nat, i \in S
      PROVE  i + 1 \in S
  <2>1. PICK h : IsCopy(h, n, old, new, i)
    BY <1>2
  <2> DEFINE g == [v \in 0..(i + 1) |-> IF v = 0 THEN Ok(n) ELSE UvmcopyPage(h[v - 1], old, new, v - 1)]
  <2>2. \A v \in 0..i : g[v] = h[v]
    BY <2>1 DEF IsCopy
  <2>3. \A v \in 0..(i + 1) : v # 0 => v - 1 \in 0..i
    OBVIOUS
  <2>4. \A v \in 0..(i + 1) : v # 0 => g[v - 1] = h[v - 1]
    BY <2>2, <2>3
  <2>5. IsCopy(g, n, old, new, i + 1)
    BY <2>4, Zenon DEF IsCopy
  <2> QED BY <2>5
<1> HIDE DEF S
<1>3. Nat \subseteq S
  BY <1>1, <1>2, Inductive
<1> QED BY <1>3 DEF S

LEMMA CopyIs ==
  ASSUME NEW n, NEW old \in Table, NEW new \in Table, old # new, n.tab[new] # NoTable,
         NEW out, Sound(n, out), NEW sz0 \in Nat, Pages(sz0) <= TRAPFRAME,
         \A w \in UserVpn : Cell(n, new, w) = NoCell
  PROVE  Copied(Uvmcopy(n, old, new, sz0), n, old, new, out, Pages(sz0))
<1> DEFINE last == Pages(sz0)
           h == CHOOSE h : IsCopy(h, n, old, new, last)
           S == {i \in Nat : i <= last => Copied(h[i], n, old, new, out, i)}
<1>1. last \in Nat /\ last <= TRAPFRAME
  BY PagesIs
<1>2. Uvmcopy(n, old, new, sz0) = h[last]
  BY Zenon DEF Uvmcopy, IsCopy
<1> HIDE DEF last
<1>3. IsCopy(h, n, old, new, last)
  BY <1>1, CopyExists, Zenon
<1> HIDE DEF h
<1>4. 0 \in S
  <2>1. h[0] = Ok(n)
    BY <1>1, <1>3 DEF IsCopy
  <2>2. Sound(Ok(n), out) /\ Alike(Ok(n), n)
    BY OkIs
  <2>3. Ok(n).ok = TRUE
    BY DEF Ok, Sound, Memory
  <2>4. Merge(Space(n, new), Space(n, old), Span(0, 0)) = Space(n, new)
    BY MergeNone
  <2>5. Others(Ok(n), n, new) /\ Space(Ok(n), new) = Space(n, new)
    BY <2>2 DEF Alike, Others
  <2>6. Copied(Ok(n), n, old, new, out, 0)
    BY <2>2, <2>3, <2>4, <2>5 DEF Copied
  <2> QED BY <2>1, <2>6
<1>5. ASSUME NEW i \in Nat, i \in S
      PROVE  i + 1 \in S
  <2> SUFFICES ASSUME i + 1 <= last
               PROVE  Copied(h[i + 1], n, old, new, out, i + 1)
    OBVIOUS
  <2>1. i < TRAPFRAME /\ i + 1 \in 0..last /\ i + 1 # 0 /\ (i + 1) - 1 = i /\ i <= last
    BY <1>1, Sizes
  <2>2. Copied(h[i], n, old, new, out, i)
    BY <1>5, <2>1
  <2>3. h[i + 1] = UvmcopyPage(h[i], old, new, i)
    <3>1. h[i + 1] = IF i + 1 = 0 THEN Ok(n) ELSE UvmcopyPage(h[(i + 1) - 1], old, new, (i + 1) - 1)
      BY <1>3, <2>1, Zenon DEF IsCopy
    <3> QED BY <2>1, <3>1
  <2> QED BY <2>1, <2>2, <2>3, CopyRound
<1> HIDE DEF S
<1>6. Nat \subseteq S
  BY <1>4, <1>5, Inductive
<1>7. Copied(h[last], n, old, new, out, last)
  BY <1>1, <1>6 DEF S
<1> QED BY <1>2, <1>7 DEF last

-----------------------------------------------------------------------------
(* Whole page tables: uvmfree(), proc_pagetable() and what takes it back.   *)

Within(n, k, s) == \A w \in UserVpn : w \notin Span(0, Pages(s)) => Cell(n, k, w) = NoCell
NewSpace(g) == Make(NoCells, Leaf(g, "kernel"), Leaf(Trampoline, "kernel"), "some")

LEMMA UvmfreeIs ==
  ASSUME NEW n, NEW out, Sound(n, out), NEW k \in Table, NEW s \in Nat, Pages(s) <= TRAPFRAME,
         Space(n, k).frame = NoPte, Space(n, k).tramp = NoPte, Within(n, k, s)
  PROVE  LET r == Uvmfree(n, k, s) IN
         Sound(r, out) /\ Others(r, n, k) /\ Space(r, k) = NoSpace /\ r.ok = n.ok /\ r.got = n.got
<1> DEFINE a == UnmapFreeing(n, k, 0, Pages(s))
           r == Freewalk(a, k)
<1>1. Uvmfree(n, k, s) = r
  BY Zenon DEF Uvmfree, UnmapFreeing
<1>2. /\ Sound(a, out) /\ Others(a, n, k) /\ a.tab = n.tab /\ a.ok = n.ok /\ a.got = n.got
      /\ Space(a, k) = Wipe(Space(n, k), Span(0, Pages(s)))
  <2>1. 0 \in Nat /\ Pages(s) \in Nat
    BY PagesIs
  <2> QED BY <2>1, UnmapUser
<1> HIDE DEF a
<1>3. Space(a, k).cells = NoCells
  <2>1. Space(a, k).cells = [w \in UserVpn |-> IF w \in Span(0, Pages(s)) THEN NoCell ELSE Space(n, k).cells[w]]
    BY <1>2, WipeIs
  <2>2. \A w \in UserVpn : w \notin Span(0, Pages(s)) => Space(n, k).cells[w] = NoCell
    BY Spaces DEF Within
  <2> QED BY <2>1, <2>2 DEF NoCells
<1>4. Space(a, k).frame = NoPte /\ Space(a, k).tramp = NoPte
  <2>1. /\ Wipe(Space(n, k), Span(0, Pages(s))).frame = Space(n, k).frame
        /\ Wipe(Space(n, k), Span(0, Pages(s))).tramp = Space(n, k).tramp
    BY WipeIs
  <2> QED BY <1>2, <2>1
<1>5. Sound(r, out) /\ Others(r, a, k) /\ Space(r, k) = NoSpace /\ r.ok = a.ok /\ r.got = a.got
  BY <1>2, <1>3, <1>4, FreewalkIs
<1> HIDE DEF r
<1>6. Others(r, n, k)
  BY <1>2, <1>5 DEF Others
<1> QED BY <1>1, <1>2, <1>5, <1>6

LEMMA FreepagetableIs ==
  ASSUME NEW n, NEW out, Sound(n, out), NEW k \in Table, NEW s \in Nat, Pages(s) <= TRAPFRAME, Within(n, k, s)
  PROVE  LET r == ProcFreepagetable(n, k, s) IN
         Sound(r, out) /\ Others(r, n, k) /\ Space(r, k) = NoSpace /\ r.ok = n.ok /\ r.got = n.got
<1> DEFINE a == UnmapKeeping(n, k, TRAPFRAME, TRAMPOLINE + 1)
           r == Uvmfree(a, k, s)
<1>1. ProcFreepagetable(n, k, s) = r
  BY Zenon DEF ProcFreepagetable, UnmapKeeping
<1>2. /\ Sound(a, out) /\ Others(a, n, k) /\ a.ok = n.ok /\ a.got = n.got
      /\ Space(a, k) = Frame(Tramp(Space(n, k), NoPte), NoPte)
  BY UnmapKernel
<1> HIDE DEF a
<1>3. Space(a, k).frame = NoPte /\ Space(a, k).tramp = NoPte /\ Space(a, k).cells = Space(n, k).cells
  BY <1>2, FrameIs, TrampIs
<1>4. Within(a, k, s)
  BY <1>3, Spaces DEF Within
<1>5. Sound(r, out) /\ Others(r, a, k) /\ Space(r, k) = NoSpace /\ r.ok = a.ok /\ r.got = a.got
  BY <1>2, <1>3, <1>4, UvmfreeIs
<1> HIDE DEF r
<1>6. Others(r, n, k)
  BY <1>2, <1>5 DEF Others
<1> QED BY <1>1, <1>2, <1>5, <1>6

LEMMA NoSpaceIs ==
  /\ NoSpace.cells = NoCells /\ NoSpace.frame = NoPte /\ NoSpace.tramp = NoPte /\ NoSpace.tables = "none"
  /\ \A w \in UserVpn : NoCells[w] = NoCell
  BY Made DEF NoSpace, NoCells

LEMMA PagesZero == Pages(0) = 0
<1>1. 0 * PGSIZE = 0
  BY SizesAssumption
<1> QED BY <1>1, PagesWhole

LEMMA PagetableIs ==
  ASSUME NEW n, NEW out, Sound(n, out), NEW k \in Table, Space(n, k) = NoSpace, NEW g \in out
  PROVE  LET r == ProcPagetable(n, k, g) IN
         /\ Sound(r, out) /\ Others(r, n, k) /\ r.ok \in BOOLEAN
         /\ r.ok => Space(r, k) = NewSpace(g)
         /\ ~r.ok => Space(r, k) = NoSpace
<1> DEFINE a == Uvmcreate(n, k)
           b == Mappages(a, k, TRAMPOLINE, Trampoline, "kernel")
           c == Mappages(b, k, TRAPFRAME, g, "kernel")
           d == UnmapKeeping(c, k, TRAMPOLINE, TRAMPOLINE + 1)
           fb == Uvmfree(b, k, 0)
           fd == Uvmfree(d, k, 0)
           r == ProcPagetable(n, k, g)
<1>1. n.tab[k] = NoTable
  BY NoSpaceIs, Rooted
<1>2. /\ Sound(a, out) /\ Others(a, n, k) /\ a.ok \in BOOLEAN
      /\ a.ok => Space(a, k) = Root(NoSpace)
      /\ ~a.ok => Space(a, k) = NoSpace
  BY <1>1, UvmcreateIs
<1>3. CASE ~a.ok
  <2>1. r = a
    BY <1>3 DEF ProcPagetable, Then
  <2> QED BY <1>2, <1>3, <2>1
<1>4. CASE a.ok
  <2>1. r = IF ~b.ok THEN fb ELSE IF c.ok THEN c ELSE IF d.ok THEN d ELSE fd
    BY <1>4, Zenon DEF ProcPagetable, Then, Else, UnmapKeeping
  <2> HIDE DEF r
  <2>2. /\ Space(a, k) = Root(NoSpace) /\ Space(a, k).cells = NoCells /\ Space(a, k).frame = NoPte
        /\ Space(a, k).tramp = NoPte /\ Space(a, k).tables = "some"
    BY <1>2, <1>4, RootIs, NoSpaceIs
  <2>3. a.tab[k] # NoTable /\ a.pte[k][TRAMPOLINE] = NoPte
    BY <2>2, Rooted, Spaces
  <2>4. Trampoline \in 0..(NPAGES + 1) /\ g \in 0..(NPAGES + 1)
    BY SizesAssumption DEF Trampoline, Sound, Page
  <2>5. TRAPFRAME # TRAMPOLINE
    BY Vpns
  <2> HIDE DEF a
  <2>6. /\ b.ok \in BOOLEAN /\ Others(b, a, k) /\ Sound(b, out) /\ b.tab[k] # NoTable
        /\ b.ok => Space(b, k) = Tramp(Space(a, k), Leaf(Trampoline, "kernel"))
        /\ ~b.ok => Space(b, k) = Space(a, k)
    BY <1>2, <2>3, <2>4, <2>5, MappagesKernel DEF Leaf
  <2>7. Others(b, n, k)
    BY <1>2, <2>6 DEF Others
  <2> HIDE DEF b
  <2>8. CASE ~b.ok
    <3>1. Within(b, k, 0)
      BY <2>2, <2>6, <2>8, Spaces, NoSpaceIs DEF Within
    <3>2. 0 \in Nat /\ Pages(0) <= TRAPFRAME
      BY PagesZero, Sizes
    <3>3. Space(b, k).frame = NoPte /\ Space(b, k).tramp = NoPte
      BY <2>2, <2>6, <2>8
    <3>4. Sound(fb, out) /\ Others(fb, b, k) /\ Space(fb, k) = NoSpace /\ fb.ok = b.ok
      BY <2>6, <3>1, <3>2, <3>3, UvmfreeIs
    <3> HIDE DEF fb
    <3>5. Others(fb, n, k)
      BY <2>7, <3>4 DEF Others
    <3> QED BY <2>1, <2>6, <2>8, <3>4, <3>5 DEF r
  <2>9. CASE b.ok
    <3>1. /\ Space(b, k) = Tramp(Space(a, k), Leaf(Trampoline, "kernel"))
          /\ Space(b, k).cells = NoCells /\ Space(b, k).frame = NoPte
          /\ Space(b, k).tramp = Leaf(Trampoline, "kernel") /\ Space(b, k).tables = "some"
      <4>1. Space(b, k) = Tramp(Space(a, k), Leaf(Trampoline, "kernel"))
        BY <2>6, <2>9
      <4> QED BY <4>1, <2>2, TrampIs
    <3>2. b.pte[k][TRAPFRAME] = NoPte
      BY <3>1, Spaces
    <3>3. /\ c.ok \in BOOLEAN /\ Others(c, b, k) /\ Sound(c, out) /\ c.tab[k] # NoTable
          /\ c.ok => Space(c, k) = Frame(Space(b, k), Leaf(g, "kernel"))
          /\ ~c.ok => Space(c, k) = Space(b, k)
      BY <2>4, <2>5, <2>6, <3>2, MappagesKernel DEF Leaf
    <3>4. Others(c, n, k)
      BY <2>7, <3>3 DEF Others
    <3> HIDE DEF c
    <3>5. CASE c.ok
      <4>1. Space(c, k) = NewSpace(g)
        BY <3>1, <3>3, <3>5 DEF Frame, NewSpace
      <4> QED BY <2>1, <2>9, <3>3, <3>4, <3>5, <4>1 DEF r
    <3>6. CASE ~c.ok
      <4>1. Sound(d, out) /\ Others(d, c, k) /\ d.ok = c.ok /\ Space(d, k) = Tramp(Space(c, k), NoPte)
        BY <2>5, <3>3, UnmapKernel
      <4> HIDE DEF d
      <4>2. Space(d, k).cells = NoCells /\ Space(d, k).frame = NoPte /\ Space(d, k).tramp = NoPte
        BY <3>1, <3>3, <3>6, <4>1, TrampIs
      <4>3. Within(d, k, 0)
        BY <4>2, Spaces, NoSpaceIs DEF Within
      <4>4. 0 \in Nat /\ Pages(0) <= TRAPFRAME
        BY PagesZero, Sizes
      <4>5. Sound(fd, out) /\ Others(fd, d, k) /\ Space(fd, k) = NoSpace /\ fd.ok = d.ok
        BY <4>1, <4>2, <4>3, <4>4, UvmfreeIs
      <4> HIDE DEF fd
      <4>6. Others(fd, n, k)
        BY <3>4, <4>1, <4>5 DEF Others
      <4> QED BY <2>1, <2>9, <3>3, <3>6, <4>1, <4>5, <4>6 DEF r
    <3> QED BY <3>3, <3>5, <3>6
  <2> QED BY <2>6, <2>8, <2>9
<1> QED BY <1>2, <1>3, <1>4

LEMMA TablesAre ==
  \A p \in Proc : /\ Own(p) \in Table /\ New(p) \in Table /\ Own(p) # New(p)
                  /\ \A q \in Proc : Own(q) # New(p) /\ (q # p => Own(q) # Own(p) /\ New(q) # New(p))
  BY TableAssumption DEF Own, New, Tables

LEMMA FreeprocIs ==
  ASSUME NEW n, NEW out, Sound(n, out), NEW p \in Proc, NEW g, g = NoPage \/ g \in out,
         NEW s \in Nat, Pages(s) <= TRAPFRAME,
         Space(n, Own(p)) = NoSpace \/ Within(n, Own(p), s)
  PROVE  LET r == Freeproc(n, p, g, s) IN
         /\ Sound(r, out \ {g}) /\ Others(r, n, Own(p)) /\ r.ok = n.ok
         /\ Space(n, Own(p)).tables = "some" \/ Space(n, Own(p)) = NoSpace => Space(r, Own(p)) = NoSpace
<1> DEFINE k == Own(p)
           a == IF g = NoPage THEN n ELSE Kfree(n, g)
           f == ProcFreepagetable(a, k, s)
           r == Freeproc(n, p, g, s)
<1>1. k \in Table
  BY TablesAre
<1>2. r = IF a.tab[k] = NoTable THEN a ELSE f
  BY DEF Freeproc
<1>3. Sound(a, out \ {g}) /\ Alike(a, n) /\ a.ok = n.ok
  <2>1. CASE g = NoPage
    <3>1. out \ {g} = out
      BY <2>1, Entry DEF Sound
    <3> QED BY <2>1, <3>1 DEF Alike
  <2>2. CASE g # NoPage
    BY <2>2, KfreeIs
  <2> QED BY <2>1, <2>2
<1> HIDE DEF a, r
<1>4. Space(a, k) = Space(n, k) /\ Others(a, n, k)
  BY <1>1, <1>3 DEF Alike, Others
<1>5. CASE a.tab[k] = NoTable
  <2>1. Space(n, k).tables = "none"
    BY <1>4, <1>5, Rooted
  <2> QED BY <1>2, <1>3, <1>4, <1>5, <2>1 DEF r
<1>6. CASE a.tab[k] # NoTable
  <2>1. Space(n, k) # NoSpace
    BY <1>4, <1>6, Rooted, NoSpaceIs
  <2>2. Within(a, k, s)
    <3>1. Within(n, k, s)
      BY <2>1
    <3> QED BY <3>1, <1>4, Spaces DEF Within
  <2> HIDE DEF k
  <2>3. Sound(f, out \ {g}) /\ Others(f, a, k) /\ Space(f, k) = NoSpace /\ f.ok = a.ok
    BY <1>1, <1>3, <2>2, FreepagetableIs
  <2> HIDE DEF f
  <2>4. Others(f, n, k)
    BY <1>4, <2>3 DEF Others
  <2> QED BY <1>2, <1>3, <1>6, <2>3, <2>4 DEF r, k
<1> QED BY <1>5, <1>6

LEMMA AllocprocIs ==
  ASSUME NEW n, NEW out, Sound(n, out), NEW p \in Proc, Space(n, Own(p)) = NoSpace
  PROVE  LET r == Allocproc(n, p) IN
         /\ Others(r, n, Own(p)) /\ r.ok \in BOOLEAN
         /\ r.ok => /\ r.got \in Page \ out /\ Sound(r, out \cup {r.got})
                    /\ Space(r, Own(p)) = NewSpace(r.got)
         /\ ~r.ok => Sound(r, out) /\ Space(r, Own(p)) = NoSpace
<1> DEFINE k == Own(p)
           a == Kalloc(n)
           g == a.got
           b == ProcPagetable(a, k, g)
           c == [b EXCEPT !.got = g]
           fa == Freeproc(a, p, NoPage, 0)
           fb == Freeproc(b, p, g, 0)
           r == Allocproc(n, p)
           all == out \cup {g}
<1>0. k \in Table /\ 0 \in Nat /\ Pages(0) <= TRAPFRAME
  BY TablesAre, PagesZero, Sizes
<1>1. /\ Alike(a, n) /\ a.ok \in BOOLEAN
      /\ a.ok => a.got \in Page \ out /\ Sound(a, out \cup {a.got})
      /\ ~a.ok => Sound(a, out)
  BY KallocIs
<1>2. Space(a, k) = NoSpace /\ Others(a, n, k)
  BY <1>0, <1>1 DEF Alike, Others
<1>3. CASE ~a.ok
  <2>1. r = IF fa.ok THEN r ELSE fa
    BY <1>3, Zenon DEF Allocproc, Then, Else
  <2> HIDE DEF r, a, k
  <2>2. Sound(fa, out \ {NoPage}) /\ Others(fa, a, k) /\ fa.ok = a.ok /\ Space(fa, k) = NoSpace
    BY <1>0, <1>1, <1>2, <1>3, FreeprocIs DEF k
  <2> HIDE DEF fa
  <2>3. out \ {NoPage} = out
    BY Entry DEF Sound
  <2>4. Others(fa, n, k)
    BY <1>2, <2>2 DEF Others
  <2> QED BY <1>1, <1>3, <2>1, <2>2, <2>3, <2>4 DEF r, k
<1>4. CASE a.ok
  <2>1. r = IF b.ok THEN (IF c.ok THEN c ELSE r) ELSE fb
    BY <1>4, Zenon DEF Allocproc, Then, Else
  <2> HIDE DEF r, a, k
  <2>2. Sound(a, all) /\ g \in all /\ g \in Page \ out /\ all \ {g} = out
    BY <1>1, <1>4
  <2> HIDE DEF g, all
  <2>3. /\ Sound(b, all) /\ Others(b, a, k) /\ b.ok \in BOOLEAN
        /\ b.ok => Space(b, k) = NewSpace(g)
        /\ ~b.ok => Space(b, k) = NoSpace
    BY <1>0, <1>2, <2>2, PagetableIs
  <2>4. Others(b, n, k)
    BY <1>2, <2>3 DEF Others
  <2> HIDE DEF b
  <2>5. CASE b.ok
    <3>1. b \in Memory /\ g \in 0..NPAGES
      BY <2>2, <2>3, SizesAssumption DEF Sound, Page
    <3>2. /\ c \in Memory /\ c.free = b.free /\ c.data = b.data /\ c.tab = b.tab /\ c.pte = b.pte
          /\ c.panic = b.panic /\ c.ok = b.ok /\ c.got = g
      BY <3>1 DEF Memory
    <3> HIDE DEF c
    <3>3. Sound(c, all) /\ Alike(c, b)
      BY <2>3, <3>2, Registers
    <3>4. Others(c, n, k) /\ Space(c, k) = NewSpace(g)
      BY <1>0, <2>3, <2>4, <2>5, <3>3 DEF Others, Alike
    <3>5. r = c
      BY <2>1, <2>5, <3>2
    <3> QED BY <2>2, <2>3, <2>5, <3>2, <3>3, <3>4, <3>5 DEF r, k, all
  <2>6. CASE ~b.ok
    <3>1. Sound(fb, all \ {g}) /\ Others(fb, b, k) /\ fb.ok = b.ok /\ Space(fb, k) = NoSpace
      BY <1>0, <2>2, <2>3, <2>6, FreeprocIs DEF k
    <3> HIDE DEF fb
    <3>2. Others(fb, n, k)
      BY <2>4, <3>1 DEF Others
    <3> QED BY <2>1, <2>2, <2>3, <2>6, <3>1, <3>2 DEF r, k
  <2> QED BY <2>3, <2>5, <2>6
<1> QED BY <1>1, <1>3, <1>4

-----------------------------------------------------------------------------
(* Loads and stores: vmfault(), copyin(), copyout(), loadseg() and the rest. *)

(* A store to a page, or to many that one table has. *)
LEMMA DataIs ==
  ASSUME NEW n, NEW out, Sound(n, out), NEW d, d \in [Page -> Stored \cup {Junk}], NEW k \in Table,
         \A v \in UserVpn : n.pte[k][v] # NoPte => d[n.pte[k][v].page] \in Stored,
         \A l \in Table, v \in UserVpn : l # k /\ n.pte[l][v] # NoPte => d[n.pte[l][v].page] = n.data[n.pte[l][v].page]
  PROVE  LET r == [n EXCEPT !.data = d] IN
         Sound(r, out) /\ Others(r, n, k) /\ r.tab = n.tab /\ r.pte = n.pte /\ r.ok = n.ok /\ r.got = n.got /\ r.data = d
<1> DEFINE r == [n EXCEPT !.data = d]
<1>1. n \in Memory /\ ~n.panic
  BY DEF Sound
<1>2. r \in Memory /\ r.free = n.free /\ r.tab = n.tab /\ r.pte = n.pte /\ r.ok = n.ok /\ r.got = n.got
      /\ r.panic = n.panic /\ r.data = d
  BY <1>1 DEF Memory
<1> HIDE DEF r
<1>3. TablesOnce(r, out)
  BY <1>2 DEF Sound, TablesOnce
<1>4. MappedOnce(r, out)
  <2> SUFFICES ASSUME NEW l \in Table, NEW v \in UserVpn, n.pte[l][v] # NoPte
               PROVE  /\ n.pte[l][v].page \in Page \ out
                      /\ n.pte[l][v].perm \in Perms
                      /\ d[n.pte[l][v].page] \in Stored
                      /\ \A i \in Table, w \in UserVpn : n.pte[i][w].page = n.pte[l][v].page => i = l /\ w = v
    BY <1>2 DEF MappedOnce
  <2>1. /\ n.pte[l][v].page \in Page \ out
        /\ n.pte[l][v].perm \in Perms
        /\ n.data[n.pte[l][v].page] \in Stored
        /\ \A i \in Table, w \in UserVpn : n.pte[i][w].page = n.pte[l][v].page => i = l /\ w = v
    BY DEF Sound, MappedOnce
  <2>2. d[n.pte[l][v].page] \in Stored
    BY <2>1
  <2> QED BY <2>1, <2>2
<1>5. Counted(r, out)
  BY <1>2 DEF Sound, Counted, HasTable, Mapped
<1>6. Others(r, n, k)
  <2> SUFFICES ASSUME NEW l \in Table, l # k PROVE Space(r, l) = Space(n, l)
    BY DEF Others
  <2>1. \A v \in UserVpn : n.pte[l][v] # NoPte => r.data[n.pte[l][v].page] = n.data[n.pte[l][v].page]
    BY <1>2
  <2> QED BY <1>2, <2>1, SpaceKept
<1>7. Sound(r, out)
  BY <1>1, <1>2, <1>3, <1>4, <1>5 DEF Sound
<1> QED BY <1>2, <1>6, <1>7 DEF r

Patch(f, v, c) == [f EXCEPT ![v] = c]

LEMMA PutSpace ==
  ASSUME NEW n, NEW r, NEW k, NEW v, NEW c, CellsOf(r, k) = Patch(CellsOf(n, k), v, c),
         r.pte[k][TRAPFRAME] = n.pte[k][TRAPFRAME], r.pte[k][TRAMPOLINE] = n.pte[k][TRAMPOLINE],
         TablesOf(r, k) = TablesOf(n, k)
  PROVE  Space(r, k) = Put(Space(n, k), v, c)
<1> DEFINE s == Space(n, k)
<1>1. s.cells = CellsOf(n, k) /\ s.frame = n.pte[k][TRAPFRAME] /\ s.tramp = n.pte[k][TRAMPOLINE]
      /\ s.tables = TablesOf(n, k)
  BY Spaces
<1> HIDE DEF s
<1>2. Put(s, v, c) = Make([s.cells EXCEPT ![v] = c], s.frame, s.tramp, s.tables)
  BY Zenon DEF Put
<1>3. Space(r, k) = Make(CellsOf(r, k), r.pte[k][TRAPFRAME], r.pte[k][TRAMPOLINE], TablesOf(r, k))
  BY Zenon DEF Space
<1> QED BY <1>1, <1>2, <1>3 DEF s, Patch

LEMMA StoreIs ==
  ASSUME NEW n, NEW out, Sound(n, out), NEW k \in Table, NEW v \in UserVpn, n.pte[k][v] # NoPte,
         NEW val \in Stored
  PROVE  LET r == Store(n, k, v, val) IN
         /\ Sound(r, out) /\ Others(r, n, k) /\ r.ok = n.ok /\ r.got = n.got
         /\ Space(r, k) = Put(Space(n, k), v, Full(n.pte[k][v].perm, val))
<1> DEFINE g == n.pte[k][v].page
           c == Full(n.pte[k][v].perm, val)
           d == [n.data EXCEPT ![g] = val]
           r == [n EXCEPT !.data = d]
<1>1. n \in Memory /\ g \in Page /\ \A l \in Table, w \in UserVpn : n.pte[l][w].page = g => l = k /\ w = v
  BY DEF Sound, MappedOnce
<1>2. Store(n, k, v, val) = r
  BY DEF Store
<1>3. d \in [Page -> Stored \cup {Junk}] /\ \A h \in Page : d[h] = IF h = g THEN val ELSE n.data[h]
  BY <1>1, Fields
<1>4. \A l \in Table, w \in UserVpn : n.pte[l][w] # NoPte =>
         d[n.pte[l][w].page] = IF l = k /\ w = v THEN val ELSE n.data[n.pte[l][w].page]
  <2> SUFFICES ASSUME NEW l \in Table, NEW w \in UserVpn, n.pte[l][w] # NoPte
               PROVE  d[n.pte[l][w].page] = IF l = k /\ w = v THEN val ELSE n.data[n.pte[l][w].page]
    OBVIOUS
  <2>1. n.pte[l][w].page \in Page
    BY DEF Sound, MappedOnce
  <2> HIDE DEF d
  <2> QED BY <2>1, <1>1, <1>3
<1>5. \A w \in UserVpn : n.pte[k][w] # NoPte => d[n.pte[k][w].page] \in Stored
  <2>1. \A w \in UserVpn : n.pte[k][w] # NoPte => n.data[n.pte[k][w].page] \in Stored
    BY DEF Sound, MappedOnce
  <2> HIDE DEF d, g
  <2> QED BY <2>1, <1>4
<1>6. \A l \in Table, w \in UserVpn : l # k /\ n.pte[l][w] # NoPte => d[n.pte[l][w].page] = n.data[n.pte[l][w].page]
  <2> HIDE DEF d, g
  <2> QED BY <1>4
<1> HIDE DEF d
<1>7. /\ Sound(r, out) /\ Others(r, n, k) /\ r.tab = n.tab /\ r.pte = n.pte /\ r.ok = n.ok /\ r.got = n.got
      /\ r.data = d
  BY <1>3, <1>5, <1>6, DataIs
<1> HIDE DEF r
<1>8. \A w \in UserVpn : Cell(r, k, w) = IF w = v THEN c ELSE Cell(n, k, w)
  BY <1>4, <1>7 DEF Cell, Full
<1> HIDE DEF c
<1>9. CellsOf(r, k) = Patch(CellsOf(n, k), v, c)
  BY <1>8 DEF CellsOf, Patch
<1>10. Space(r, k) = Put(Space(n, k), v, c)
  <2>1. TablesOf(r, k) = TablesOf(n, k)
    BY <1>7 DEF TablesOf
  <2>2. r.pte[k][TRAPFRAME] = n.pte[k][TRAPFRAME] /\ r.pte[k][TRAMPOLINE] = n.pte[k][TRAMPOLINE]
    BY <1>7
  <2> QED BY <1>9, <2>1, <2>2, PutSpace
<1> QED BY <1>2, <1>7, <1>10 DEF c

(* uvmclear() *)
LEMMA ClearIs ==
  ASSUME NEW n, NEW out, Sound(n, out), NEW k \in Table, NEW v \in UserVpn, n.pte[k][v] # NoPte
  PROVE  LET r == Uvmclear(n, k, v) IN
         /\ Sound(r, out) /\ Others(r, n, k) /\ r.ok = n.ok /\ r.got = n.got
         /\ Space(r, k) = Put(Space(n, k), v, Full("guard", Cell(n, k, v).val))
<1> DEFINE g == n.pte[k][v].page
           e == Leaf(g, "guard")
           c == Full("guard", Cell(n, k, v).val)
           r == Enter(n, k, v, e)
<1>1. n \in Memory /\ g \in Page /\ n.pte \in [Table -> [Vpn -> Pte]] /\ v \in Vpn
      /\ n.data[g] \in Stored /\ g \notin out /\ \A i \in Table, w \in UserVpn : n.pte[i][w].page = g => i = k /\ w = v
  BY Vpns DEF Sound, MappedOnce, Memory
<1>2. Uvmclear(n, k, v) = r
  <2>1. n.pte[k][v] \in Pte
    BY <1>1
  <2>2. [n.pte[k][v] EXCEPT !.perm = "guard"] = e
    BY <2>1 DEF Pte, Leaf
  <2> QED BY <2>2 DEF Uvmclear, Enter
<1>3. e \in Pte /\ e.page = g /\ e.perm = "guard" /\ e # NoPte
  <2>1. g \in 0..(NPAGES + 1) /\ g # NoPage
    BY <1>1, SizesAssumption, Entry DEF Page
  <2>2. e \in Pte /\ e.page = g /\ e.perm = "guard"
    BY <2>1 DEF Pte, Leaf
  <2> QED BY <2>1, <2>2, Entry
<1> HIDE DEF e
<1>4. /\ r \in Memory /\ r.tab = n.tab /\ r.data = n.data /\ r.free = n.free /\ r.ok = n.ok
      /\ r.panic = n.panic /\ r.got = n.got
      /\ \A l \in Table, w \in Vpn : r.pte[l][w] = IF l = k /\ w = v THEN e ELSE n.pte[l][w]
      /\ \A l \in Table : l # k => r.pte[l] = n.pte[l]
  <2>1. n \in Memory /\ v \in Vpn /\ e \in Pte
    BY <1>1, <1>3
  <2> HIDE DEF g
  <2> QED BY <2>1, EnterIs
<1> HIDE DEF r
<1>5. \A l \in Table, w \in UserVpn : /\ r.pte[l][w].page = n.pte[l][w].page
                                      /\ r.pte[l][w] = NoPte <=> n.pte[l][w] = NoPte
                                      /\ r.pte[l][w].perm = n.pte[l][w].perm \/ r.pte[l][w].perm = "guard"
  <2> SUFFICES ASSUME NEW l \in Table, NEW w \in UserVpn
               PROVE  /\ r.pte[l][w].page = n.pte[l][w].page
                      /\ r.pte[l][w] = NoPte <=> n.pte[l][w] = NoPte
                      /\ r.pte[l][w].perm = n.pte[l][w].perm \/ r.pte[l][w].perm = "guard"
    OBVIOUS
  <2>1. r.pte[l][w] = IF l = k /\ w = v THEN e ELSE n.pte[l][w]
    BY <1>4, Vpns
  <2> QED BY <2>1, <1>3
<1>6. TablesOnce(r, out)
  BY <1>4, <1>5 DEF Sound, TablesOnce
<1>7. MappedOnce(r, out)
  <2>1. "guard" \in Perms
    BY DEF Perms
  <2> SUFFICES ASSUME NEW l \in Table, NEW w \in UserVpn, r.pte[l][w] # NoPte
               PROVE  /\ r.pte[l][w].page \in Page \ out
                      /\ r.pte[l][w].perm \in Perms
                      /\ n.data[r.pte[l][w].page] \in Stored
                      /\ \A i \in Table, z \in UserVpn : r.pte[i][z].page = r.pte[l][w].page => i = l /\ z = w
    BY <1>4 DEF MappedOnce
  <2>2. /\ n.pte[l][w].page \in Page \ out
        /\ n.pte[l][w].perm \in Perms
        /\ n.data[n.pte[l][w].page] \in Stored
        /\ \A i \in Table, z \in UserVpn : n.pte[i][z].page = n.pte[l][w].page => i = l /\ z = w
    BY <1>5 DEF Sound, MappedOnce
  <2> QED BY <2>1, <2>2, <1>5
<1>8. Counted(r, out)
  <2>1. \A h \in Page : HasTable(r, h) <=> HasTable(n, h)
    BY <1>4 DEF HasTable
  <2>2. \A h \in Page : Mapped(r, h) <=> Mapped(n, h)
    BY <1>5 DEF Mapped
  <2> QED BY <2>1, <2>2, <1>4 DEF Sound, Counted
<1>9. Sound(r, out)
  BY <1>4, <1>6, <1>7, <1>8 DEF Sound
<1>10. Others(r, n, k)
  BY <1>4, SpaceKept DEF Others
<1>11. \A w \in UserVpn : Cell(r, k, w) = IF w = v THEN c ELSE Cell(n, k, w)
  <2> SUFFICES ASSUME NEW w \in UserVpn PROVE Cell(r, k, w) = IF w = v THEN c ELSE Cell(n, k, w)
    OBVIOUS
  <2>1. r.pte[k][w] = IF w = v THEN e ELSE n.pte[k][w]
    BY <1>4, Vpns
  <2> QED BY <2>1, <1>3, <1>4 DEF Cell, Full
<1> HIDE DEF c
<1>12. CellsOf(r, k) = Patch(CellsOf(n, k), v, c)
  BY <1>11 DEF CellsOf, Patch
<1>13. Space(r, k) = Put(Space(n, k), v, c)
  <2>1. TablesOf(r, k) = TablesOf(n, k)
    BY <1>4 DEF TablesOf
  <2>2. r.pte[k][TRAPFRAME] = n.pte[k][TRAPFRAME] /\ r.pte[k][TRAMPOLINE] = n.pte[k][TRAMPOLINE]
    BY <1>4, Vpns
  <2> QED BY <2>2, <1>12, <2>1, PutSpace
<1> QED BY <1>2, <1>4, <1>9, <1>10, <1>13 DEF c

LEMMA PageBelow ==
  ASSUME NEW s \in Nat, s <= TrapframeVa, NEW va \in Nat, va < s
  PROVE  va \div PGSIZE \in UserVpn /\ va \div PGSIZE \in Span(0, Pages(s))
<1> DEFINE v == va \div PGSIZE
<1>1. PGSIZE \in Nat \ {0} /\ TRAPFRAME \in Nat /\ TRAPFRAME >= 6
  BY SizesAssumption, Sizes
<1>2. va < TRAPFRAME * PGSIZE
  <2>1. TRAPFRAME * PGSIZE \in Nat
    BY <1>1
  <2> QED BY <2>1 DEF TrapframeVa
<1>3. v \in 0..(TRAPFRAME - 1)
  BY <1>1, <1>2, DivBelow
<1>4. Pages(s) \in Nat /\ va < Pages(s) * PGSIZE
  <2>1. Pages(s) \in Nat /\ Pages(s) * PGSIZE >= s
    BY PagesIs
  <2>2. Pages(s) * PGSIZE \in Nat
    BY <1>1, <2>1
  <2> QED BY <2>1, <2>2
<1>5. v \in 0..(Pages(s) - 1)
  BY <1>1, <1>4, DivBelow
<1> QED BY <1>3, <1>5 DEF UserVpn, Span

LEMMA PagesFit ==
  ASSUME NEW s \in Nat, s <= TrapframeVa
  PROVE  Pages(s) \in Nat /\ Pages(s) <= TRAPFRAME
<1>1. TRAPFRAME \in Nat
  BY Sizes
<1> QED BY <1>1, PagesIs DEF TrapframeVa

(* A page that was promised has come, or nothing has changed. *)
Backed(t, s, v, last) ==
  \/ t = s
  \/ /\ v \in UserVpn /\ v \in Span(0, last) /\ s.cells[v] = NoCell
     /\ t = Put(s, v, Full("rw", Zero))

LEMMA VmfaultIs ==
  ASSUME NEW n, NEW out, Sound(n, out), NEW k \in Table, n.tab[k] # NoTable,
         NEW s \in Nat, s <= TrapframeVa, NEW va \in Nat
  PROVE  LET r == Vmfault(n, k, s, va)
             v == va \div PGSIZE IN
         /\ Sound(r, out) /\ Others(r, n, k) /\ r.ok \in BOOLEAN
         /\ ~r.ok => Space(r, k) = Space(n, k)
         /\ r.ok => /\ v \in UserVpn /\ v \in Span(0, Pages(s)) /\ Cell(n, k, v) = NoCell
                    /\ Space(r, k) = Put(Space(n, k), v, Full("rw", Zero))
<1> DEFINE v == va \div PGSIZE
           a == MapNew(n, k, v, "rw", Zero)
           r == Vmfault(n, k, s, va)
<1>1. r = IF va >= s \/ n.pte[k][v] # NoPte THEN Fail(n) ELSE a
  BY Zenon DEF Vmfault
<1>2. CASE va >= s \/ n.pte[k][v] # NoPte
  <2>1. Sound(Fail(n), out) /\ Alike(Fail(n), n) /\ Fail(n).ok = FALSE
    BY FailIs
  <2> QED BY <1>1, <1>2, <2>1 DEF Alike, Others
<1>3. CASE ~(va >= s) /\ n.pte[k][v] = NoPte
  <2>1. v \in UserVpn /\ v \in Span(0, Pages(s))
    BY <1>3, PageBelow
  <2>2. "rw" \in Perms /\ Zero \in Stored
    BY DEF Perms, Stored
  <2>3. Cell(n, k, v) = NoCell
    BY <1>3 DEF Cell
  <2>4. r = a
    BY <1>1, <1>3
  <2> DEFINE w == v
  <2>5. w \in UserVpn /\ n.pte[k][w] = NoPte /\ a = MapNew(n, k, w, "rw", Zero)
    BY <2>1, <1>3
  <2> HIDE DEF w, a, r
  <2>6. /\ Sound(a, out) /\ a.ok \in BOOLEAN /\ Others(a, n, k)
        /\ a.ok => Space(a, k) = Put(Space(n, k), w, Full("rw", Zero))
        /\ ~a.ok => Space(a, k) = Space(n, k)
    BY <2>2, <2>5, MapNewIs
  <2> QED BY <2>1, <2>3, <2>4, <2>6 DEF w, r
<1> QED BY <1>2, <1>3

LEMMA UserIs ==
  ASSUME NEW n, NEW out, Sound(n, out), NEW k \in Table, NEW v \in UserVpn
  PROVE  /\ User(n, k, v) <=> Cell(n, k, v).perm \in {"r", "rw"}
         /\ n.pte[k][v].perm = "rw" <=> Cell(n, k, v).perm = "rw"
         /\ User(n, k, v) \/ n.pte[k][v].perm = "rw" => n.pte[k][v] # NoPte
<1>1. n.pte[k][v].perm = Cell(n, k, v).perm
  <2>1. CASE n.pte[k][v] = NoPte
    BY <2>1 DEF Cell, NoCell, NoPte
  <2>2. CASE n.pte[k][v] # NoPte
    BY <2>2, CellIs
  <2> QED BY <2>1, <2>2
<1>2. NoPte.perm = "none"
  BY Entry
<1> QED BY <1>1, <1>2 DEF User

LEMMA CopyinIs ==
  ASSUME NEW n, NEW out, Sound(n, out), NEW k \in Table, n.tab[k] # NoTable,
         NEW s \in Nat, s <= TrapframeVa, NEW v \in Nat
  PROVE  LET r == CopyinPage(n, k, s, v) IN
         /\ Sound(r, out) /\ Others(r, n, k) /\ r.ok \in BOOLEAN
         /\ Backed(Space(r, k), Space(n, k), v, Pages(s))
         /\ n.ok /\ r.ok => \/ r = n /\ User(n, k, v)
                            \/ /\ v \in UserVpn /\ v \in Span(0, Pages(s)) /\ Cell(n, k, v) = NoCell
                               /\ Space(r, k) = Put(Space(n, k), v, Full("rw", Zero))
         /\ ~n.ok => r = n
<1> DEFINE va == v * PGSIZE
           a == Vmfault(n, k, s, va)
           r == CopyinPage(n, k, s, v)
<1>1. va \in Nat /\ va \div PGSIZE = v
  <2>1. PGSIZE \in Nat /\ PGSIZE > 0
    BY SizesAssumption
  <2>2. va \in Nat
    BY <2>1
  <2>3. va \div PGSIZE \in Nat /\ va % PGSIZE \in 0..(PGSIZE - 1) /\ va = PGSIZE * (va \div PGSIZE) + (va % PGSIZE)
    BY <2>1, <2>2
  <2> DEFINE q == va \div PGSIZE
  <2> HIDE DEF q
  <2>4. q \in Nat /\ v * PGSIZE = PGSIZE * q + (va % PGSIZE)
    BY <2>3 DEF q
  <2>5. ~(q > v)
    <3> SUFFICES ASSUME q > v PROVE FALSE
      OBVIOUS
    <3>1. PGSIZE * q >= PGSIZE * (v + 1)
      BY <2>1, <2>4
    <3>2. PGSIZE * (v + 1) = v * PGSIZE + PGSIZE
      BY <2>1
    <3> QED BY <2>1, <2>2, <2>3, <2>4, <3>1, <3>2
  <2>6. ~(q < v)
    <3> SUFFICES ASSUME q < v PROVE FALSE
      OBVIOUS
    <3>1. PGSIZE * v >= PGSIZE * (q + 1)
      BY <2>1, <2>4
    <3>2. PGSIZE * (q + 1) = PGSIZE * q + PGSIZE /\ PGSIZE * v = v * PGSIZE
      BY <2>1, <2>4
    <3> QED BY <2>1, <2>2, <2>3, <2>4, <3>1, <3>2
  <2>7. q = v
    BY <2>4, <2>5, <2>6
  <2> QED BY <2>2, <2>7 DEF q
<1>2. r = IF ~n.ok \/ User(n, k, v) THEN n ELSE a
  BY Zenon DEF CopyinPage
<1>3. n.ok \in BOOLEAN
  BY DEF Sound, Memory
<1>4. CASE ~n.ok \/ User(n, k, v)
  BY <1>2, <1>3, <1>4 DEF Others, Backed
<1>5. CASE ~(~n.ok \/ User(n, k, v))
  <2>1. r = a
    BY <1>2, <1>5
  <2> HIDE DEF va
  <2>2. /\ Sound(a, out) /\ Others(a, n, k) /\ a.ok \in BOOLEAN
        /\ ~a.ok => Space(a, k) = Space(n, k)
        /\ a.ok => /\ v \in UserVpn /\ v \in Span(0, Pages(s)) /\ Cell(n, k, v) = NoCell
                   /\ Space(a, k) = Put(Space(n, k), v, Full("rw", Zero))
    BY <1>1, VmfaultIs
  <2> HIDE DEF a
  <2>3. Backed(Space(a, k), Space(n, k), v, Pages(s))
    BY <2>2, Spaces DEF Backed
  <2> QED BY <1>5, <2>1, <2>2, <2>3
<1> QED BY <1>4, <1>5

LEMMA CopyoutIs ==
  ASSUME NEW n, NEW out, Sound(n, out), NEW k \in Table, n.tab[k] # NoTable,
         NEW s \in Nat, s <= TrapframeVa, NEW v \in Nat, NEW val \in Stored,
         v \in UserVpn \/ (v = TRAPFRAME /\ Space(n, k).frame.perm = "kernel")
  PROVE  LET r == CopyoutPage(n, k, s, v, val) IN
         /\ Sound(r, out) /\ Others(r, n, k) /\ r.ok \in BOOLEAN
         /\ ~r.ok => Backed(Space(r, k), Space(n, k), v, Pages(s))
         /\ r.ok => /\ v \in UserVpn
                    /\ Cell(n, k, v).perm = "rw" \/ (v \in Span(0, Pages(s)) /\ Cell(n, k, v) = NoCell)
                    /\ Space(r, k) = Put(Space(n, k), v, Full("rw", val))
<1> DEFINE a == CopyinPage(n, k, s, v)
           b == Store(a, k, v, val)
           r == CopyoutPage(n, k, s, v, val)
<1>1. r = IF ~a.ok THEN a ELSE IF a.pte[k][v].perm # "rw" THEN Fail(a) ELSE b
  BY DEF CopyoutPage, Then
<1>2. /\ Sound(a, out) /\ Others(a, n, k) /\ a.ok \in BOOLEAN
      /\ Backed(Space(a, k), Space(n, k), v, Pages(s))
      /\ n.ok /\ a.ok => \/ a = n /\ User(n, k, v)
                         \/ /\ v \in UserVpn /\ v \in Span(0, Pages(s)) /\ Cell(n, k, v) = NoCell
                            /\ Space(a, k) = Put(Space(n, k), v, Full("rw", Zero))
      /\ ~n.ok => a = n
  BY CopyinIs
<1> HIDE DEF a
<1>3. CASE ~a.ok
  BY <1>1, <1>2, <1>3
<1>4. CASE a.ok /\ a.pte[k][v].perm # "rw"
  <2>1. Sound(Fail(a), out) /\ Alike(Fail(a), a) /\ Fail(a).ok = FALSE
    BY <1>2, FailIs
  <2>2. Others(Fail(a), n, k) /\ Space(Fail(a), k) = Space(a, k)
    BY <1>2, <2>1 DEF Alike, Others
  <2> QED BY <1>1, <1>2, <1>4, <2>1, <2>2
<1>5. CASE a.ok /\ a.pte[k][v].perm = "rw"
  <2>1. v \in UserVpn
    <3>1. CASE v = TRAPFRAME /\ Space(n, k).frame.perm = "kernel"
      <4>1. n.pte[k][v].perm = "kernel"
        BY <3>1, Spaces
      <4>2. ~User(n, k, v)
        BY <4>1 DEF User
      <4> QED BY <1>2, <1>5, <4>1, <4>2
    <3> QED BY <3>1
  <2>2. r = b
    BY <1>1, <1>5
  <2>3. a.pte[k][v] # NoPte
    BY <1>2, <1>5, <2>1, UserIs
  <2>4. /\ Sound(b, out) /\ Others(b, a, k) /\ b.ok = a.ok
        /\ Space(b, k) = Put(Space(a, k), v, Full(a.pte[k][v].perm, val))
    BY <1>2, <2>1, <2>3, StoreIs
  <2> HIDE DEF b
  <2>5. Space(b, k) = Put(Space(a, k), v, Full("rw", val))
    BY <1>5, <2>4
  <2>6. Others(b, n, k)
    BY <1>2, <2>4 DEF Others
  <2>7. n.ok
    BY <1>2, <1>5
  <2>8. /\ Cell(n, k, v).perm = "rw" \/ (v \in Span(0, Pages(s)) /\ Cell(n, k, v) = NoCell)
        /\ Put(Space(a, k), v, Full("rw", val)) = Put(Space(n, k), v, Full("rw", val))
    <3>1. CASE a = n /\ User(n, k, v)
      BY <1>5, <2>1, <3>1, UserIs
    <3>2. CASE /\ v \in UserVpn /\ v \in Span(0, Pages(s)) /\ Cell(n, k, v) = NoCell
               /\ Space(a, k) = Put(Space(n, k), v, Full("rw", Zero))
      <4> DEFINE c == Full("rw", Zero)
                 d == Full("rw", val)
                 f == Space(n, k)
                 x == [f.cells EXCEPT ![v] = c]
                 y == [x EXCEPT ![v] = d]
      <4>1. y = [f.cells EXCEPT ![v] = d]
        OBVIOUS
      <4> HIDE DEF c, d, f
      <4>2. Put(f, v, c) = Make(x, f.frame, f.tramp, f.tables)
            /\ Put(f, v, d) = Make([f.cells EXCEPT ![v] = d], f.frame, f.tramp, f.tables)
        BY Zenon DEF Put
      <4> HIDE DEF x
      <4>3. Put(f, v, c).cells = x /\ Put(f, v, c).frame = f.frame
            /\ Put(f, v, c).tramp = f.tramp /\ Put(f, v, c).tables = f.tables
        BY <4>2, Made
      <4>4. Put(Put(f, v, c), v, d) = Make(y, f.frame, f.tramp, f.tables)
        BY <4>3, Zenon DEF Put
      <4>5. Put(Put(f, v, c), v, d) = Put(f, v, d)
        BY <4>1, <4>2, <4>4, Zenon
      <4> QED BY <3>2, <4>5 DEF c, d, f
    <3> QED BY <1>2, <1>5, <2>7, <3>1, <3>2
  <2> QED BY <1>5, <2>1, <2>2, <2>4, <2>5, <2>6, <2>8
<1> QED BY <1>2, <1>3, <1>4, <1>5

(* loadseg() *)
Loaded(s, pages, val) ==
  Make([v \in UserVpn |-> IF v \in pages THEN Full(s.cells[v].perm, val) ELSE s.cells[v]],
       s.frame, s.tramp, s.tables)

LEMMA LoadsegIs ==
  ASSUME NEW n, NEW out, Sound(n, out), NEW k \in Table, NEW seg, seg.val \in Stored,
         seg.from \in Nat, Pages(seg.end) \in Nat, Pages(seg.end) <= TRAPFRAME,
         \A v \in UserVpn : v \in Span(seg.from, Pages(seg.end)) => Cell(n, k, v).perm \in {"r", "rw"}
  PROVE  LET r == Loadseg(n, k, seg) IN
         /\ Sound(r, out) /\ Others(r, n, k) /\ r.ok = n.ok /\ r.got = n.got
         /\ Space(r, k) = Loaded(Space(n, k), Span(seg.from, Pages(seg.end)), seg.val)
<1> DEFINE to == Span(seg.from, Pages(seg.end))
           loaded == {n.pte[k][v].page : v \in to}
           d == [g \in Page |-> IF g \in loaded THEN seg.val ELSE n.data[g]]
           r == [n EXCEPT !.data = d]
<1>1. \A v \in to : v \in UserVpn
  BY Sizes DEF UserVpn, Span
<1>2. \A v \in to : User(n, k, v) /\ n.pte[k][v] # NoPte
  BY <1>1, UserIs
<1>3. n \in Memory
  BY DEF Sound
<1>4. Loadseg(n, k, seg) = r
  BY <1>2 DEF Loadseg, Span
<1>5. \A l \in Table, v \in UserVpn : n.pte[l][v] # NoPte =>
         (n.pte[l][v].page \in loaded <=> l = k /\ v \in to)
  <2> SUFFICES ASSUME NEW l \in Table, NEW v \in UserVpn, n.pte[l][v] # NoPte
               PROVE  n.pte[l][v].page \in loaded <=> l = k /\ v \in to
    OBVIOUS
  <2>1. \A i \in Table, w \in UserVpn : n.pte[i][w].page = n.pte[l][v].page => i = l /\ w = v
    BY DEF Sound, MappedOnce
  <2> HIDE DEF to
  <2> QED BY <2>1, <1>1
<1>6. d \in [Page -> Stored \cup {Junk}]
  <2> HIDE DEF loaded
  <2> QED BY <1>3, Fields
<1>7. \A l \in Table, v \in UserVpn : n.pte[l][v] # NoPte =>
         d[n.pte[l][v].page] = IF l = k /\ v \in to THEN seg.val ELSE n.data[n.pte[l][v].page]
  <2> SUFFICES ASSUME NEW l \in Table, NEW v \in UserVpn, n.pte[l][v] # NoPte
               PROVE  d[n.pte[l][v].page] = IF l = k /\ v \in to THEN seg.val ELSE n.data[n.pte[l][v].page]
    OBVIOUS
  <2>1. n.pte[l][v].page \in Page
    BY DEF Sound, MappedOnce
  <2>2. d[n.pte[l][v].page] = IF n.pte[l][v].page \in loaded THEN seg.val ELSE n.data[n.pte[l][v].page]
    <3> HIDE DEF loaded
    <3> QED BY <2>1
  <2> HIDE DEF loaded, to
  <2> QED BY <2>2, <1>5
<1>8. \A v \in UserVpn : n.pte[k][v] # NoPte => d[n.pte[k][v].page] \in Stored
  <2>1. \A v \in UserVpn : n.pte[k][v] # NoPte => n.data[n.pte[k][v].page] \in Stored
    BY DEF Sound, MappedOnce
  <2> HIDE DEF d, to
  <2> QED BY <2>1, <1>7
<1>9. \A l \in Table, v \in UserVpn : l # k /\ n.pte[l][v] # NoPte => d[n.pte[l][v].page] = n.data[n.pte[l][v].page]
  <2> HIDE DEF d, to
  <2> QED BY <1>7
<1> HIDE DEF d
<1>10. /\ Sound(r, out) /\ Others(r, n, k) /\ r.tab = n.tab /\ r.pte = n.pte /\ r.ok = n.ok /\ r.got = n.got
       /\ r.data = d
  BY <1>6, <1>8, <1>9, DataIs
<1> HIDE DEF r
<1>11. \A v \in UserVpn : Cell(r, k, v) = IF v \in to THEN Full(Cell(n, k, v).perm, seg.val) ELSE Cell(n, k, v)
  <2> SUFFICES ASSUME NEW v \in UserVpn
               PROVE  Cell(r, k, v) = IF v \in to THEN Full(Cell(n, k, v).perm, seg.val) ELSE Cell(n, k, v)
    OBVIOUS
  <2>1. CASE n.pte[k][v] = NoPte
    <3>1. v \notin to
      BY <2>1, <1>2
    <3> QED BY <2>1, <3>1, <1>10 DEF Cell
  <2>2. CASE n.pte[k][v] # NoPte
    <3>1. d[n.pte[k][v].page] = IF v \in to THEN seg.val ELSE n.data[n.pte[k][v].page]
      BY <2>2, <1>7
    <3> HIDE DEF to
    <3> QED BY <2>2, <3>1, <1>10 DEF Cell, Full
  <2> QED BY <2>1, <2>2
<1> HIDE DEF to
<1> DEFINE f == [v \in UserVpn |-> IF v \in to THEN Full(Space(n, k).cells[v].perm, seg.val) ELSE Space(n, k).cells[v]]
<1>12. CellsOf(r, k) = f
  <2>1. \A v \in UserVpn : Space(n, k).cells[v] = Cell(n, k, v)
    BY Spaces
  <2>2. \A v \in UserVpn : f[v] = Cell(r, k, v)
    BY <2>1, <1>11
  <2>3. f = [v \in UserVpn |-> Cell(r, k, v)]
    BY <2>2
  <2> QED BY <2>3, Zenon DEF CellsOf
<1>13. Loaded(Space(n, k), to, seg.val) = Make(f, Space(n, k).frame, Space(n, k).tramp, Space(n, k).tables)
  BY Zenon DEF Loaded
<1>14. TablesOf(r, k) = TablesOf(n, k)
  BY <1>10 DEF TablesOf
<1> HIDE DEF f
<1>15. Space(r, k) = Loaded(Space(n, k), to, seg.val)
  BY <1>10, <1>12, <1>13, <1>14, Spaces DEF Space
<1> QED BY <1>4, <1>10, <1>15 DEF to

(* What exec() has copied of its arguments is freed. *)
LEMMA FreeArgvIs ==
  ASSUME NEW n, NEW out, Sound(n, out), NEW argv, argv \subseteq out
  PROVE  LET r == FreeArgv(n, argv) IN
         Sound(r, out \ argv) /\ Alike(r, n) /\ r.ok = n.ok
<1> DEFINE f == [g \in Page |-> n.free[g] + (IF g \in argv THEN 1 ELSE 0)]
           d == [g \in Page |-> IF g \in argv THEN Junk ELSE n.data[g]]
           r == [n EXCEPT !.free = f, !.data = d]
<1>1. n \in Memory /\ ~n.panic /\ out \subseteq Page
  BY DEF Sound
<1>2. FreeArgv(n, argv) = r
  BY Zenon DEF FreeArgv
<1>3. f \in [Page -> Nat] /\ d \in [Page -> Stored \cup {Junk}]
  BY <1>1, Fields
<1>4. /\ \A g \in Page : f[g] = n.free[g] + (IF g \in argv THEN 1 ELSE 0)
      /\ \A g \in Page : g \notin argv => d[g] = n.data[g]
  OBVIOUS
<1> HIDE DEF f, d
<1>5. /\ r \in Memory /\ r.free = f /\ r.data = d /\ r.tab = n.tab /\ r.pte = n.pte /\ r.ok = n.ok
      /\ r.panic = n.panic
  BY <1>1, <1>3 DEF Memory
<1> HIDE DEF r
<1>6. TablesOnce(r, out \ argv)
  BY <1>5 DEF Sound, TablesOnce
<1>7. \A k \in Table, v \in UserVpn : n.pte[k][v] # NoPte => r.data[n.pte[k][v].page] = n.data[n.pte[k][v].page]
  BY <1>4, <1>5 DEF Sound, MappedOnce
<1>8. MappedOnce(r, out \ argv)
  BY <1>5, <1>7 DEF Sound, MappedOnce
<1>9. Counted(r, out \ argv)
  <2> SUFFICES ASSUME NEW g \in Page
               PROVE  f[g] = IF g \in out \ argv \/ HasTable(r, g) \/ Mapped(r, g) THEN 0 ELSE 1
    BY <1>5 DEF Counted
  <2>1. n.free[g] = IF g \in out \/ HasTable(n, g) \/ Mapped(n, g) THEN 0 ELSE 1
    BY DEF Sound, Counted
  <2>2. (HasTable(r, g) <=> HasTable(n, g)) /\ (Mapped(r, g) <=> Mapped(n, g))
    BY <1>5 DEF HasTable, Mapped
  <2>3. g # NoPage
    BY Entry
  <2>4. ASSUME g \in argv PROVE ~HasTable(n, g) /\ ~Mapped(n, g)
    <3>1. ~HasTable(n, g)
      BY <2>3, <2>4 DEF Sound, TablesOnce, HasTable
    <3>2. ~Mapped(n, g)
      BY <2>3, <2>4, Entry DEF Sound, MappedOnce, Mapped
    <3> QED BY <3>1, <3>2
  <2>5. f[g] = n.free[g] + (IF g \in argv THEN 1 ELSE 0)
    BY <1>4
  <2> QED BY <2>1, <2>2, <2>4, <2>5
<1>10. Sound(r, out \ argv)
  BY <1>1, <1>5, <1>6, <1>8, <1>9 DEF Sound
<1>11. Alike(r, n)
  BY <1>5, <1>7, SpaceKept DEF Alike
<1> QED BY <1>2, <1>5, <1>10, <1>11

-----------------------------------------------------------------------------
(* The invariant. *)

(* The trapframe and the arguments that a process has ... *)
Has(g, e) == ({g} \ {NoPage}) \cup e.argv
Rest(p) == UNION {Has(tf[q], ex[q]) : q \in Proc \ {p}}
Out == UNION {Has(tf[q], ex[q]) : q \in Proc}
Apart ==
  /\ \A p \in Proc : tf[p] \notin ex[p].argv
  /\ \A p \in Proc, q \in Proc : p # q => Has(tf[p], ex[p]) \cap Has(tf[q], ex[q]) = {}

(* ... and its tables: that of its memory, and that which exec() builds.    *)
Held(s, g, size) ==
  /\ s.frame = Leaf(g, "kernel") /\ s.tramp = Leaf(Trampoline, "kernel") /\ s.tables = "some"
  /\ \A v \in UserVpn : v \notin Span(0, Pages(size)) => s.cells[v] = NoCell
Usable(s, size) == \A v \in UserVpn : v \in Span(0, Pages(size)) => s.cells[v].perm \in {"r", "rw"}
ProcInv(n, p, st, s, g, e) ==
  /\ st = "unused" => Space(n, Own(p)) = NoSpace /\ g = NoPage /\ s = 0
  /\ st # "unused" => g # NoPage /\ s <= TrapframeVa /\ Held(Space(n, Own(p)), g, s)
  /\ st = "exec" => /\ Pages(e.sz) + 2 <= TRAPFRAME /\ Held(Space(n, New(p)), g, e.sz)
                    /\ Usable(Space(n, New(p)), e.sz)
  /\ st # "exec" => Space(n, New(p)) = NoSpace /\ e = NoExec

States == {"unused", "user", "exec", "zombie"}
Exec == [segs : Seq(FitSegment), sz : Nat, argv : SUBSET Page]
TypeInv == /\ state \in [Proc -> States] /\ sz \in [Proc -> Nat]
           /\ tf \in [Proc -> 0..NPAGES] /\ ex \in [Proc -> Exec]
MemInv == /\ Sound(m, Out) /\ m.ok /\ TypeInv /\ Apart
          /\ \A p \in Proc : ProcInv(m, p, state[p], sz[p], tf[p], ex[p])

(* The registers are cleared. *)
Cleared(n) == [n EXCEPT !.ok = TRUE, !.got = NoPage]

LEMMA ClearedIs ==
  ASSUME NEW n, NEW out, Sound(n, out)
  PROVE  Sound(Cleared(n), out) /\ Alike(Cleared(n), n) /\ Cleared(n).ok
<1> DEFINE r == [n EXCEPT !.ok = TRUE, !.got = NoPage]
<1>1. n \in Memory /\ NoPage \in 0..NPAGES
  BY SizesAssumption DEF Sound, NoPage
<1>2. /\ r \in Memory /\ r.free = n.free /\ r.data = n.data /\ r.tab = n.tab /\ r.pte = n.pte
      /\ r.panic = n.panic /\ r.ok = TRUE
  BY <1>1 DEF Memory
<1> HIDE DEF r
<1>3. Sound(r, out) /\ Alike(r, n)
  BY <1>2, Registers
<1> QED BY <1>2, <1>3 DEF r, Cleared

LEMMA ProcKept ==
  ASSUME NEW n, NEW r, NEW p \in Proc, Space(r, Own(p)) = Space(n, Own(p)), Space(r, New(p)) = Space(n, New(p)),
         NEW st, NEW s, NEW g, NEW e, ProcInv(n, p, st, s, g, e)
  PROVE  ProcInv(r, p, st, s, g, e)
  BY DEF ProcInv

(* The memory of a process. *)
Seen(c) == IF c = NoCell THEN Full("rw", Zero) ELSE c
View(s, size) == [v \in 0..(Pages(size) - 1) |-> Seen(s.cells[v])]
Shown(n, k, v) ==
  LET e == n.pte[k][v] IN
  IF e = NoPte THEN [perm |-> "rw", val |-> Zero] ELSE [perm |-> e.perm, val |-> n.data[e.page]]

LEMMA SeenIs ==
  ASSUME NEW n, NEW out, Sound(n, out), NEW k \in Table, NEW v \in UserVpn
  PROVE  Seen(Space(n, k).cells[v]) = Shown(n, k, v)
<1>1. Space(n, k).cells[v] = Cell(n, k, v)
  BY Spaces
<1>2. CASE n.pte[k][v] = NoPte
  BY <1>1, <1>2 DEF Seen, Cell, Full, Shown
<1>3. CASE n.pte[k][v] # NoPte
  BY <1>1, <1>3, CellIs DEF Seen, Cell, Shown
<1> QED BY <1>2, <1>3

LEMMA Viewed ==
  ASSUME NEW n, NEW out, Sound(n, out), NEW k \in Table, NEW s \in Nat, s <= TrapframeVa
  PROVE  View(Space(n, k), s) = [v \in 0..(Pages(s) - 1) |-> Shown(n, k, v)]
<1>1. \A v \in 0..(Pages(s) - 1) : v \in UserVpn
  BY PagesFit, Sizes DEF UserVpn
<1>2. \A v \in 0..(Pages(s) - 1) : Seen(Space(n, k).cells[v]) = Shown(n, k, v)
  BY <1>1, SeenIs
<1> QED BY <1>2 DEF View

LEMMA Parts ==
  ASSUME NEW p \in Proc
  PROVE  Out = Rest(p) \cup Has(tf[p], ex[p])
  BY DEF Out, Rest

LEMMA Sized ==
  ASSUME MemInv, NEW p \in Proc
  PROVE  /\ sz[p] \in Nat /\ sz[p] <= TrapframeVa /\ Pages(sz[p]) \in Nat /\ Pages(sz[p]) <= TRAPFRAME
         /\ MemoryOf(p) = View(Space(m, Own(p)), sz[p])
<1>1. sz[p] \in Nat /\ sz[p] <= TrapframeVa
  <2>1. TrapframeVa \in Nat
    BY Sizes, SizesAssumption DEF TrapframeVa
  <2> QED BY <2>1 DEF MemInv, TypeInv, ProcInv
<1>2. Sound(m, Out) /\ Own(p) \in Table
  BY TablesAre DEF MemInv
<1>3. MemoryOf(p) = View(Space(m, Own(p)), sz[p])
  <2>1. View(Space(m, Own(p)), sz[p]) = [v \in 0..(Pages(sz[p]) - 1) |-> Shown(m, Own(p), v)]
    BY <1>1, <1>2, Viewed
  <2> QED BY <2>1, Zenon DEF MemoryOf, CellOf, Shown
<1> QED BY <1>1, <1>3, PagesFit

LEMMA SizedNext ==
  ASSUME MemInv', NEW p \in Proc
  PROVE  MemoryOf(p)' = View(Space(m', Own(p)), sz'[p])
<1>1. sz'[p] \in Nat /\ sz'[p] <= TrapframeVa
  <2>1. TrapframeVa \in Nat
    BY Sizes, SizesAssumption DEF TrapframeVa
  <2>2. ProcInv(m', p, state'[p], sz'[p], tf'[p], ex'[p]) /\ sz'[p] \in Nat
    BY DEF MemInv, TypeInv
  <2> QED BY <2>1, <2>2 DEF ProcInv
<1>2. Sound(m', Out') /\ Own(p) \in Table
  BY TablesAre DEF MemInv
<1>3. View(Space(m', Own(p)), sz'[p]) = [v \in 0..(Pages(sz'[p]) - 1) |-> Shown(m', Own(p), v)]
  BY <1>1, <1>2, Viewed
<1> QED BY <1>3, Zenon DEF MemoryOf, CellOf, Shown

(* One process changes, or one is made.                                     *)
Becomes(r) == m' = Cleared(r) \/ (m' = r /\ r.ok)

LEMMA OneStep ==
  ASSUME MemInv, NEW p \in Proc, NEW r,
         NEW st \in States, NEW s \in Nat, NEW g \in 0..NPAGES, NEW e \in Exec,
         state' = [state EXCEPT ![p] = st], sz' = [sz EXCEPT ![p] = s],
         tf' = [tf EXCEPT ![p] = g], ex' = [ex EXCEPT ![p] = e], Becomes(r),
         Sound(r, Rest(p) \cup Has(g, e)), g \notin e.argv, Has(g, e) \cap Rest(p) = {},
         \A q \in Proc \ {p} : Space(r, Own(q)) = Space(m, Own(q)) /\ Space(r, New(q)) = Space(m, New(q)),
         ProcInv(r, p, st, s, g, e)
  PROVE  /\ MemInv' /\ MemoryOf(p)' = View(Space(r, Own(p)), s)
         /\ \A q \in Proc \ {p} : MemoryOf(q)' = MemoryOf(q)
<1>1. /\ state \in [Proc -> States] /\ sz \in [Proc -> Nat]
      /\ tf \in [Proc -> 0..NPAGES] /\ ex \in [Proc -> Exec]
  BY DEF MemInv, TypeInv
<1>2. TypeInv'
  BY <1>1 DEF TypeInv
<1>3. /\ state'[p] = st /\ sz'[p] = s /\ tf'[p] = g /\ ex'[p] = e
      /\ \A q \in Proc : q # p => /\ state'[q] = state[q] /\ sz'[q] = sz[q]
                                  /\ tf'[q] = tf[q] /\ ex'[q] = ex[q]
  BY <1>1
<1>4. Out' = Rest(p) \cup Has(g, e)
  <2>1. Out' = UNION {Has(tf'[q], ex'[q]) : q \in Proc}
    BY DEF Out
  <2>2. UNION {Has(tf'[q], ex'[q]) : q \in Proc} = Rest(p) \cup Has(g, e)
    BY <1>3 DEF Rest
  <2> QED BY <2>1, <2>2
<1>5. Sound(m', Out') /\ Alike(m', r) /\ m'.ok
  <2>1. CASE m' = Cleared(r)
    BY <1>4, <2>1, ClearedIs
  <2>2. CASE m' = r /\ r.ok
    BY <1>4, <2>2 DEF Alike
  <2> QED BY <2>1, <2>2 DEF Becomes
<1>6. Apart'
  <2>1. \A q \in Proc : tf'[q] \notin ex'[q].argv
    BY <1>3 DEF MemInv, Apart
  <2>2. \A q \in Proc : q # p => Has(tf[q], ex[q]) \cap Has(g, e) = {}
    BY DEF Rest
  <2>3. \A q \in Proc, i \in Proc : q # i => Has(tf'[q], ex'[q]) \cap Has(tf'[i], ex'[i]) = {}
    <3> SUFFICES ASSUME NEW q \in Proc, NEW i \in Proc, q # i
                 PROVE  Has(tf'[q], ex'[q]) \cap Has(tf'[i], ex'[i]) = {}
      OBVIOUS
    <3>1. CASE q = p
      BY <3>1, <1>3, <2>2
    <3>2. CASE i = p
      BY <3>2, <1>3, <2>2
    <3>3. CASE q # p /\ i # p
      BY <3>3, <1>3 DEF MemInv, Apart
    <3> QED BY <3>1, <3>2, <3>3
  <2> QED BY <2>1, <2>3 DEF Apart
<1>7. \A q \in Proc : Space(m', Own(q)) = Space(r, Own(q)) /\ Space(m', New(q)) = Space(r, New(q))
  BY <1>5, TablesAre DEF Alike
<1>8. \A q \in Proc : ProcInv(m', q, state'[q], sz'[q], tf'[q], ex'[q])
  <2>1. ProcInv(m', p, st, s, g, e)
    BY <1>7, ProcKept
  <2>2. ASSUME NEW q \in Proc, q # p
        PROVE  ProcInv(m', q, state[q], sz[q], tf[q], ex[q])
    <3>1. ProcInv(m, q, state[q], sz[q], tf[q], ex[q])
      BY DEF MemInv
    <3>2. Space(m', Own(q)) = Space(m, Own(q)) /\ Space(m', New(q)) = Space(m, New(q))
      BY <1>7, <2>2
    <3> QED BY <3>1, <3>2, ProcKept
  <2> QED BY <2>1, <2>2, <1>3
<1>9. MemInv'
  BY <1>2, <1>5, <1>6, <1>8 DEF MemInv
<1>10. MemoryOf(p)' = View(Space(r, Own(p)), s)
  BY <1>3, <1>7, <1>9, SizedNext
<1>11. \A q \in Proc \ {p} : MemoryOf(q)' = MemoryOf(q)
  <2> SUFFICES ASSUME NEW q \in Proc \ {p} PROVE MemoryOf(q)' = MemoryOf(q)
    OBVIOUS
  <2>1. MemoryOf(q)' = View(Space(m', Own(q)), sz'[q])
    BY <1>9, SizedNext
  <2>2. MemoryOf(q) = View(Space(m, Own(q)), sz[q])
    BY Sized
  <2> QED BY <2>1, <2>2, <1>3, <1>7
<1> QED BY <1>9, <1>10, <1>11

(* The facts about one process that a step starts from. *)
LEMMA Start ==
  ASSUME MemInv, NEW p \in Proc
  PROVE  /\ Sound(m, Out) /\ Out = Rest(p) \cup Has(tf[p], ex[p])
         /\ Has(tf[p], ex[p]) \cap Rest(p) = {} /\ tf[p] \notin ex[p].argv
         /\ Own(p) \in Table /\ New(p) \in Table /\ Own(p) # New(p)
         /\ state[p] \in States /\ sz[p] \in Nat /\ tf[p] \in 0..NPAGES /\ ex[p] \in Exec
         /\ state = [state EXCEPT ![p] = state[p]] /\ sz = [sz EXCEPT ![p] = sz[p]]
         /\ tf = [tf EXCEPT ![p] = tf[p]] /\ ex = [ex EXCEPT ![p] = ex[p]]
         /\ ProcInv(m, p, state[p], sz[p], tf[p], ex[p])
<1>1. Has(tf[p], ex[p]) \cap Rest(p) = {}
  BY DEF MemInv, Apart, Rest
<1>2. Sound(m, Out) /\ tf[p] \notin ex[p].argv /\ ProcInv(m, p, state[p], sz[p], tf[p], ex[p])
  BY DEF MemInv, Apart
<1>3. /\ state[p] \in States /\ sz[p] \in Nat /\ tf[p] \in 0..NPAGES /\ ex[p] \in Exec
      /\ state = [state EXCEPT ![p] = state[p]] /\ sz = [sz EXCEPT ![p] = sz[p]]
      /\ tf = [tf EXCEPT ![p] = tf[p]] /\ ex = [ex EXCEPT ![p] = ex[p]]
  BY DEF MemInv, TypeInv
<1> QED BY <1>1, <1>2, <1>3, Parts, TablesAre

LEMMA Elsewhere ==
  ASSUME NEW n, NEW r, NEW p \in Proc, Others(r, n, Own(p)) \/ Others(r, n, New(p))
  PROVE  \A q \in Proc \ {p} : Space(r, Own(q)) = Space(n, Own(q)) /\ Space(r, New(q)) = Space(n, New(q))
<1> SUFFICES ASSUME NEW q \in Proc \ {p}
             PROVE  Space(r, Own(q)) = Space(n, Own(q)) /\ Space(r, New(q)) = Space(n, New(q))
  OBVIOUS
<1>1. /\ Own(q) \in Table \ {Own(p)} /\ New(q) \in Table \ {Own(p)}
      /\ Own(q) \in Table \ {New(p)} /\ New(q) \in Table \ {New(p)}
  BY TablesAre
<1> QED BY <1>1 DEF Others

-----------------------------------------------------------------------------
(* What a call shows of itself in PrivateMemory. *)

Same(p) == \A q \in Proc \ {p} : MemoryOf(q)' = MemoryOf(q)
Calls(p) == /\ state[p] # "unused" /\ state'[p] # "unused"
            /\ \A q \in Proc \ {p} : state'[q] = state[q]
            /\ \/ Promised!Resized(MemoryOf(p), MemoryOf(p)')
               \/ Promised!Written(MemoryOf(p), MemoryOf(p)')
               \/ Promised!Executed(MemoryOf(p)')
            /\ Same(p)

LEMMA ResizedIs ==
  ASSUME NEW s, NEW t, NEW a \in Nat, NEW b \in Nat, Pages(b) <= TRAPFRAME,
         \A v \in Span(0, Pages(b)) : Seen(t.cells[v]) =
            IF v \in Span(0, Pages(a)) THEN Seen(s.cells[v]) ELSE Full("rw", Zero)
  PROVE  Promised!Resized(View(s, a), View(t, b))
<1> DEFINE old == View(s, a)
           new == View(t, b)
<1>1. Pages(a) \in Nat /\ Pages(b) \in Nat
  BY PagesIs
<1>2. DOMAIN old = Span(0, Pages(a)) /\ DOMAIN new = Span(0, Pages(b))
  BY DEF View, Span
<1>3. DOMAIN new \in {0..(n - 1) : n \in 0..TRAPFRAME}
  BY <1>1, <1>2, Sizes DEF Span
<1>4. \A v \in DOMAIN new : new[v] = IF v \in DOMAIN old THEN old[v] ELSE [perm |-> "rw", val |-> 0]
  <2>1. \A v \in Span(0, Pages(a)) : old[v] = Seen(s.cells[v])
    BY DEF View, Span
  <2>2. \A v \in Span(0, Pages(b)) : new[v] = Seen(t.cells[v])
    BY DEF View, Span
  <2>3. Full("rw", Zero) = [perm |-> "rw", val |-> 0]
    BY DEF Full, Zero
  <2> QED BY <1>2, <2>1, <2>2, <2>3
<1> HIDE DEF old, new
<1>5. Promised!Resized(old, new)
  BY <1>3, <1>4 DEF Promised!Resized, Promised!NewCell
<1> QED BY <1>5 DEF old, new

LEMMA ResizedSame ==
  ASSUME NEW s, NEW a \in Nat, Pages(a) <= TRAPFRAME
  PROVE  Promised!Resized(View(s, a), View(s, a))
  BY ResizedIs

(* exit() *)
LEMMA ExitStep ==
  ASSUME MemInv, NEW p \in Proc, Exit(p)
  PROVE  MemInv' /\ Calls(p)
<1> DEFINE r == m
<1>1. /\ state[p] = "user" /\ state' = [state EXCEPT ![p] = "zombie"]
      /\ m' = m /\ sz' = sz /\ tf' = tf /\ ex' = ex
  BY DEF Exit
<1>2. TypeInv' /\ state'[p] = "zombie" /\ \A q \in Proc : q # p => state'[q] = state[q]
  BY <1>1 DEF MemInv, TypeInv, States
<1>3. Out' = Out /\ Apart'
  BY <1>1 DEF MemInv, Out, Apart
<1>4. \A q \in Proc : ProcInv(m', q, state'[q], sz'[q], tf'[q], ex'[q])
  <2>1. \A q \in Proc : ProcInv(m, q, state[q], sz[q], tf[q], ex[q])
    BY DEF MemInv
  <2>2. ProcInv(m, p, "zombie", sz[p], tf[p], ex[p])
    BY <1>1, <2>1 DEF ProcInv
  <2> QED BY <1>1, <1>2, <2>1, <2>2
<1>5. MemInv'
  BY <1>1, <1>2, <1>3, <1>4 DEF MemInv
<1>6. \A q \in Proc : MemoryOf(q)' = MemoryOf(q)
  BY <1>1 DEF MemoryOf, CellOf
<1>7. Promised!Resized(MemoryOf(p), MemoryOf(p)')
  BY <1>6, Sized, ResizedSame
<1> QED BY <1>1, <1>2, <1>5, <1>6, <1>7 DEF Calls, Same

(* A process, or its memory, changes but not what it has of pages.          *)
LEMMA OwnStep ==
  ASSUME MemInv, NEW p \in Proc, state[p] = "user", NEW r, NEW st \in {"user", "zombie"}, NEW s \in Nat,
         state' = [state EXCEPT ![p] = st], sz' = [sz EXCEPT ![p] = s], tf' = tf, ex' = ex, Becomes(r),
         Sound(r, Out), Others(r, m, Own(p)), s <= TrapframeVa, Held(Space(r, Own(p)), tf[p], s)
  PROVE  /\ MemInv' /\ MemoryOf(p)' = View(Space(r, Own(p)), s) /\ Same(p)
         /\ state'[p] # "unused" /\ \A q \in Proc \ {p} : state'[q] = state[q]
<1> DEFINE g == tf[p]
           e == ex[p]
<1>1. /\ Sound(m, Out) /\ Out = Rest(p) \cup Has(g, e)
      /\ Has(g, e) \cap Rest(p) = {} /\ g \notin e.argv
      /\ Own(p) \in Table /\ New(p) \in Table /\ Own(p) # New(p)
      /\ g \in 0..NPAGES /\ e \in Exec
      /\ tf = [tf EXCEPT ![p] = g] /\ ex = [ex EXCEPT ![p] = e]
      /\ ProcInv(m, p, "user", sz[p], g, e)
  BY Start
<1>2. Space(r, New(p)) = Space(m, New(p))
  BY <1>1 DEF Others
<1>3. ProcInv(r, p, st, s, g, e)
  BY <1>1, <1>2 DEF ProcInv
<1>4. \A q \in Proc \ {p} : Space(r, Own(q)) = Space(m, Own(q)) /\ Space(r, New(q)) = Space(m, New(q))
  BY Elsewhere
<1>5. st \in States /\ state \in [Proc -> States]
  BY DEF States, MemInv, TypeInv
<1> HIDE DEF g, e
<1>6. /\ tf' = [tf EXCEPT ![p] = g] /\ ex' = [ex EXCEPT ![p] = e] /\ Sound(r, Rest(p) \cup Has(g, e))
  BY <1>1
<1>7. /\ MemInv' /\ MemoryOf(p)' = View(Space(r, Own(p)), s)
      /\ \A q \in Proc \ {p} : MemoryOf(q)' = MemoryOf(q)
  BY <1>1, <1>3, <1>4, <1>5, <1>6, OneStep
<1> QED BY <1>5, <1>7 DEF Same

-----------------------------------------------------------------------------
(* sbrk() *)

LEMMA SpanGrows ==
  ASSUME NEW a \in Nat, NEW b \in Nat, a <= b
  PROVE  Span(0, Pages(a)) \subseteq Span(0, Pages(b)) /\ Span(Pages(b), Pages(a)) = {}
<1>1. Pages(a) \in Nat /\ Pages(b) \in Nat /\ Pages(a) <= Pages(b)
  BY PagesIs, PagesGrow
<1> QED BY <1>1 DEF Span

(* The size changes, and what is new holds zeros. *)
LEMMA ResizeStep ==
  ASSUME MemInv, NEW p \in Proc, state[p] = "user", NEW r, NEW s \in Nat, s <= TrapframeVa,
         state' = state, sz' = [sz EXCEPT ![p] = s], tf' = tf, ex' = ex, Becomes(r),
         Sound(r, Out), Others(r, m, Own(p)),
         Space(r, Own(p)).frame = Space(m, Own(p)).frame, Space(r, Own(p)).tramp = Space(m, Own(p)).tramp,
         Space(r, Own(p)).tables = Space(m, Own(p)).tables,
         \A v \in UserVpn : v \notin Span(0, Pages(s)) => Space(r, Own(p)).cells[v] = NoCell,
         \A v \in UserVpn : v \in Span(0, Pages(s)) =>
           Seen(Space(r, Own(p)).cells[v]) =
             IF v \in Span(0, Pages(sz[p])) THEN Seen(Space(m, Own(p)).cells[v]) ELSE Full("rw", Zero)
  PROVE  MemInv' /\ Calls(p)
<1>1. /\ ProcInv(m, p, "user", sz[p], tf[p], ex[p]) /\ sz[p] \in Nat
      /\ state = [state EXCEPT ![p] = "user"]
  BY Start
<1>2. Held(Space(r, Own(p)), tf[p], s)
  BY <1>1 DEF ProcInv, Held
<1>3. /\ MemInv' /\ MemoryOf(p)' = View(Space(r, Own(p)), s) /\ Same(p)
      /\ state'[p] # "unused" /\ \A q \in Proc \ {p} : state'[q] = state[q]
  <2>1. state' = [state EXCEPT ![p] = "user"]
    BY <1>1
  <2> QED BY <1>2, <2>1, OwnStep
<1>4. MemoryOf(p) = View(Space(m, Own(p)), sz[p])
  BY Sized
<1>5. Promised!Resized(View(Space(m, Own(p)), sz[p]), View(Space(r, Own(p)), s))
  <2>1. Pages(s) \in Nat /\ Pages(s) <= TRAPFRAME
    BY PagesFit
  <2>2. \A v \in Span(0, Pages(s)) : v \in UserVpn
    BY <2>1, Sizes DEF Span, UserVpn
  <2> QED BY <1>1, <2>1, <2>2, ResizedIs
<1> QED BY <1>3, <1>4, <1>5 DEF Calls

LEMMA SbrkStep ==
  ASSUME MemInv, NEW p \in Proc, Sbrk(p)
  PROVE  MemInv' /\ Calls(p)
<1> DEFINE k == Own(p)
           s == sz[p]
<1>1. PICK n \in Sbrks : Grow(p, n) \/ Shrink(p, n) \/ GrowLazily(p, n)
  BY DEF Sbrk
<1>2. n \in Int /\ TrapframeVa \in Nat /\ WORD \in Nat \ {0}
  BY AddressAssumption, SizesAssumption, Sizes DEF TrapframeVa
<1>3. /\ state[p] = "user" /\ state' = state /\ tf' = tf /\ ex' = ex
  BY DEF Sbrk
<1>4. /\ Sound(m, Out) /\ k \in Table /\ s \in Nat /\ s <= TrapframeVa
      /\ Held(Space(m, k), tf[p], s) /\ sz = [sz EXCEPT ![p] = s] /\ sz \in [Proc -> Nat]
  BY <1>3, Start DEF ProcInv, MemInv, TypeInv
<1>5. /\ \A v \in UserVpn : v \notin Span(0, Pages(s)) => Space(m, k).cells[v] = NoCell
      /\ \A v \in UserVpn : Cell(m, k, v) = Space(m, k).cells[v]
      /\ m.tab[k] # NoTable /\ m.ok
  BY <1>4, Spaces, Rooted DEF Held, MemInv
<1>6. Pages(s) \in Nat /\ Pages(s) <= TRAPFRAME
  BY <1>4, PagesFit
<1>7. Seen(NoCell) = Full("rw", Zero)
  BY DEF Seen
<1>8. Becomes(m) <=> m' = Cleared(m) \/ m' = m
  BY <1>5 DEF Becomes
<1>9. Others(m, m, k)
  BY DEF Others
<1> HIDE DEF k, s
(* Only the size changes. *)
<1>10. ASSUME NEW t \in Nat, s <= t, t <= TrapframeVa, m' = m, sz' = [sz EXCEPT ![p] = t]
       PROVE  MemInv' /\ Calls(p)
  <2>1. Span(0, Pages(s)) \subseteq Span(0, Pages(t))
    BY <1>4, <1>10, SpanGrows
  <2>2. \A v \in UserVpn : v \in Span(0, Pages(t)) =>
           Seen(Space(m, k).cells[v]) =
             IF v \in Span(0, Pages(s)) THEN Seen(Space(m, k).cells[v]) ELSE Full("rw", Zero)
    BY <1>5, <1>7
  <2> QED BY <1>3, <1>4, <1>5, <1>8, <1>9, <1>10, <2>1, <2>2, ResizeStep DEF k, s
<1>11. CASE Grow(p, n)
  <2> DEFINE a == Uvmalloc(m, k, s, s + n, "rw")
  <2>1. n > 0 /\ s + n \in Nat /\ s <= s + n
    BY <1>2, <1>4, <1>11 DEF Grow
  <2>2. CASE s + n > TrapframeVa
    BY <1>4, <1>10, <1>11, <2>2 DEF Grow, s
  <2>3. CASE ~(s + n > TrapframeVa)
    <3>1. s + n <= TrapframeVa
      BY <1>2, <2>1, <2>3
    <3>2. m' = Cleared(a) /\ sz' = [sz EXCEPT ![p] = IF a.ok THEN s + n ELSE s]
      BY <1>4, <1>11, <2>3 DEF Grow, Done, Cleared, k, s
    <3>3. Pages(s + n) \in Nat /\ Pages(s + n) <= TRAPFRAME /\ Pages(s) <= Pages(s + n)
      BY <2>1, <3>1, <1>4, PagesFit, PagesGrow
    <3>4. \A w \in UserVpn : w \in Span(Pages(s), Pages(s + n)) => Cell(m, k, w) = NoCell
      BY <1>5, <1>6, <3>3 DEF Span
    <3>5. Allocated(a, m, k, Out, Pages(s), Pages(s + n), "rw")
      BY <1>4, <1>5, <2>1, <3>3, <3>4, AllocIs DEF Perms
    <3> HIDE DEF a
    <3>6. Becomes(a) /\ Sound(a, Out) /\ Others(a, m, k)
      BY <3>2, <3>5 DEF Allocated, Becomes
    <3>7. CASE a.ok
      <4>1. Space(a, k) = Fill(Space(m, k), Span(Pages(s), Pages(s + n)), Full("rw", Zero))
        BY <3>5, <3>7 DEF Allocated
      <4>2. /\ Space(a, k).frame = Space(m, k).frame /\ Space(a, k).tramp = Space(m, k).tramp
            /\ Space(a, k).tables = Space(m, k).tables
            /\ \A v \in UserVpn : Space(a, k).cells[v] =
                 IF v \in Span(Pages(s), Pages(s + n)) THEN Full("rw", Zero) ELSE Space(m, k).cells[v]
        BY <4>1, Made DEF Fill
      <4>3. \A v \in UserVpn : v \notin Span(0, Pages(s + n)) => Space(a, k).cells[v] = NoCell
        BY <4>2, <1>5, <1>6, <3>3 DEF Span, UserVpn
      <4>4. Seen(Full("rw", Zero)) = Full("rw", Zero)
        BY DEF Seen
      <4>5. \A v \in UserVpn : v \in Span(0, Pages(s + n)) =>
               Seen(Space(a, k).cells[v]) =
                 IF v \in Span(0, Pages(s)) THEN Seen(Space(m, k).cells[v]) ELSE Full("rw", Zero)
        BY <4>2, <4>4, <1>6, <3>3 DEF Span, UserVpn
      <4>6. sz' = [sz EXCEPT ![p] = s + n]
        BY <3>2, <3>7
      <4> QED BY <1>3, <2>1, <3>1, <3>6, <4>2, <4>3, <4>5, <4>6, ResizeStep DEF k, s
    <3>8. CASE ~a.ok
      <4>1. Space(a, k) = Space(m, k)
        BY <3>5, <3>8 DEF Allocated
      <4>2. sz' = [sz EXCEPT ![p] = s]
        BY <3>2, <3>8
      <4> QED BY <1>3, <1>4, <1>5, <3>6, <4>1, <4>2, ResizeStep DEF k, s
    <3> QED BY <3>7, <3>8
  <2> QED BY <2>2, <2>3
<1>12. CASE Shrink(p, n)
  <2> DEFINE t == (s + n) % WORD
             a == Uvmdealloc(m, k, s, t)
             u == IF t >= s THEN s ELSE t
  <2>1. t \in Nat
    BY <1>2, <1>4
  <2>2. m' = Cleared(a) /\ sz' = [sz EXCEPT ![p] = u]
    BY <1>4, <1>12 DEF Shrink, Done, Cleared, k, s
  <2> HIDE DEF t
  <2>3. u \in Nat /\ u <= s /\ u <= TrapframeVa
    BY <1>2, <1>4, <2>1
  <2>4. /\ Sound(a, Out) /\ Others(a, m, k)
        /\ Space(a, k) = Wipe(Space(m, k), Span(Pages(t), Pages(s)))
    BY <1>4, <1>6, <2>1, DeallocIs
  <2>5. Span(Pages(t), Pages(s)) = Span(Pages(u), Pages(s))
    <3>1. CASE t >= s
      <4>1. Span(Pages(t), Pages(s)) = {} /\ Span(Pages(s), Pages(s)) = {}
        BY <1>4, <2>1, <3>1, SpanGrows
      <4> QED BY <3>1, <4>1
    <3> QED BY <3>1
  <2> HIDE DEF a, u
  <2>6. /\ Space(a, k).frame = Space(m, k).frame /\ Space(a, k).tramp = Space(m, k).tramp
        /\ Space(a, k).tables = Space(m, k).tables
        /\ \A v \in UserVpn : Space(a, k).cells[v] =
             IF v \in Span(Pages(u), Pages(s)) THEN NoCell ELSE Space(m, k).cells[v]
    <3>1. Space(a, k) = Wipe(Space(m, k), Span(Pages(u), Pages(s)))
      BY <2>4, <2>5
    <3> QED BY <3>1, Made DEF Wipe
  <2>7. Pages(u) \in Nat /\ Pages(u) <= Pages(s)
    BY <1>4, <2>3, PagesFit, PagesGrow
  <2>8. \A v \in UserVpn : v \notin Span(0, Pages(u)) => Space(a, k).cells[v] = NoCell
    BY <2>6, <2>7, <1>5, <1>6 DEF Span, UserVpn
  <2>9. \A v \in UserVpn : v \in Span(0, Pages(u)) =>
           Seen(Space(a, k).cells[v]) =
             IF v \in Span(0, Pages(s)) THEN Seen(Space(m, k).cells[v]) ELSE Full("rw", Zero)
    BY <2>6, <2>7, <1>6 DEF Span, UserVpn
  <2>10. Becomes(a)
    BY <2>2 DEF Becomes
  <2> QED BY <1>3, <2>2, <2>3, <2>4, <2>6, <2>8, <2>9, <2>10, ResizeStep DEF k, s
<1>13. CASE GrowLazily(p, n)
  <2>1. n > 0 /\ m' = m /\ sz' = [sz EXCEPT ![p] = IF s + n > TrapframeVa THEN s ELSE s + n]
    BY <1>4, <1>13 DEF GrowLazily, s
  <2>2. CASE s + n > TrapframeVa
    <3>1. sz' = [sz EXCEPT ![p] = s] /\ s <= s
      BY <1>4, <2>1, <2>2
    <3> QED BY <1>4, <1>10, <2>1, <3>1
  <2>3. CASE ~(s + n > TrapframeVa)
    <3>1. s + n \in Nat /\ s <= s + n /\ s + n <= TrapframeVa
      BY <1>2, <1>4, <2>1, <2>3
    <3> QED BY <1>10, <2>1, <2>3, <3>1
  <2> QED BY <2>2, <2>3
<1> QED BY <1>1, <1>11, <1>12, <1>13

-----------------------------------------------------------------------------
(* Loads, stores, and buffers of system calls. *)

Rim(t, s) == t.frame = s.frame /\ t.tramp = s.tramp /\ t.tables = s.tables
Trim(n, k, size) == \A v \in UserVpn : v \notin Span(0, Pages(size)) => Cell(n, k, v) = NoCell

LEMMA PutCells ==
  ASSUME NEW n, NEW r, NEW k, NEW v \in UserVpn, NEW c, Space(r, k) = Put(Space(n, k), v, c)
  PROVE  /\ Rim(Space(r, k), Space(n, k))
         /\ \A w \in UserVpn : Cell(r, k, w) = IF w = v THEN c ELSE Cell(n, k, w)
<1>1. Rim(Space(r, k), Space(n, k))
  BY Made DEF Rim, Put
<1>2. Space(r, k).cells = [Space(n, k).cells EXCEPT ![v] = c]
  BY Made DEF Put
<1>3. Space(n, k).cells = CellsOf(n, k) /\ Space(r, k).cells = CellsOf(r, k)
  BY Spaces
<1>4. CellsOf(r, k) = [CellsOf(n, k) EXCEPT ![v] = c]
  BY <1>2, <1>3
<1> QED BY <1>1, <1>4 DEF CellsOf

LEMMA SameCells ==
  ASSUME NEW n, NEW r, NEW k, Space(r, k) = Space(n, k)
  PROVE  Rim(Space(r, k), Space(n, k)) /\ \A w \in UserVpn : Cell(r, k, w) = Cell(n, k, w)
<1>1. \A w \in UserVpn : Cell(r, k, w) = Space(r, k).cells[w] /\ Cell(n, k, w) = Space(n, k).cells[w]
  BY Spaces
<1> QED BY <1>1 DEF Rim

LEMMA BackedCells ==
  ASSUME NEW n, NEW r, NEW k, NEW v, NEW s, Backed(Space(r, k), Space(n, k), v, Pages(s)), Trim(n, k, s)
  PROVE  /\ Rim(Space(r, k), Space(n, k)) /\ Trim(r, k, s)
         /\ \A w \in UserVpn : Seen(Cell(r, k, w)) = Seen(Cell(n, k, w))
<1>1. CASE Space(r, k) = Space(n, k)
  BY <1>1, SameCells DEF Trim
<1>2. CASE /\ v \in UserVpn /\ v \in Span(0, Pages(s)) /\ Space(n, k).cells[v] = NoCell
           /\ Space(r, k) = Put(Space(n, k), v, Full("rw", Zero))
  <2>1. /\ Rim(Space(r, k), Space(n, k)) /\ Cell(n, k, v) = NoCell
        /\ \A w \in UserVpn : Cell(r, k, w) = IF w = v THEN Full("rw", Zero) ELSE Cell(n, k, w)
    BY <1>2, PutCells, Spaces
  <2>2. Seen(NoCell) = Full("rw", Zero) /\ Seen(Full("rw", Zero)) = Full("rw", Zero)
    BY DEF Seen
  <2> QED BY <1>2, <2>1, <2>2 DEF Trim
<1> QED BY <1>1, <1>2 DEF Backed

LEMMA Writable ==
  ASSUME NEW n, NEW k, NEW v, Cell(n, k, v).perm = "rw" \/ Cell(n, k, v) = NoCell
  PROVE  Seen(Cell(n, k, v)) = Full("rw", Seen(Cell(n, k, v)).val)
  BY DEF Cell, Seen, Full, NoCell

LEMMA WrittenIs ==
  ASSUME NEW s, NEW t, NEW a \in Nat, NEW v \in Span(0, Pages(a)), NEW w \in Span(0, Pages(a)),
         w = v \/ w = v + 1, NEW val \in Stored, NEW x, NEW y,
         Seen(s.cells[v]) = Full("rw", x), Seen(s.cells[w]) = Full("rw", y),
         \A i \in Span(0, Pages(a)) : Seen(t.cells[i]) =
           IF i = v \/ i = w THEN Full("rw", val) ELSE Seen(s.cells[i])
  PROVE  Promised!Written(View(s, a), View(t, a))
<1> DEFINE D == Span(0, Pages(a))
           old == View(s, a)
           new == View(t, a)
<1>1. /\ old = [i \in D |-> Seen(s.cells[i])] /\ new = [i \in D |-> Seen(t.cells[i])]
  BY DEF View, Span
<1> HIDE DEF old, new, D
<1>2. /\ DOMAIN old = D /\ DOMAIN new = D /\ v \in D /\ w \in D
      /\ \A i \in D : old[i] = Seen(s.cells[i]) /\ new[i] = Seen(t.cells[i])
  BY <1>1 DEF D
<1>3. old[v] = [perm |-> "rw", val |-> x] /\ old[w] = [perm |-> "rw", val |-> y]
  BY <1>2 DEF Full
<1>4. [old[v] EXCEPT !.val = val] = Full("rw", val) /\ [old[w] EXCEPT !.val = val] = Full("rw", val)
      /\ [Full("rw", val) EXCEPT !.val = val] = Full("rw", val)
  BY <1>3 DEF Full
<1>5. new = [old EXCEPT ![v].val = val, ![w].val = val]
  <2> DEFINE one == [old EXCEPT ![v] = Full("rw", val)]
             two == [one EXCEPT ![w] = Full("rw", val)]
  <2>1. [old EXCEPT ![v].val = val] = one
    BY <1>4
  <2>2. one[w] = IF w = v THEN Full("rw", val) ELSE old[w]
    BY <1>2
  <2>3. [one[w] EXCEPT !.val = val] = Full("rw", val)
    BY <2>2, <1>4
  <2>4. [old EXCEPT ![v].val = val, ![w].val = val] = two
    <3>1. [old EXCEPT ![v].val = val, ![w].val = val] = [[old EXCEPT ![v].val = val] EXCEPT ![w].val = val]
      OBVIOUS
    <3>2. [one EXCEPT ![w].val = val] = two
      BY <2>3
    <3> QED BY <2>1, <3>1, <3>2
  <2>5. new = two
    <3>1. DOMAIN two = D /\ \A i \in D : two[i] = IF i = v \/ i = w THEN Full("rw", val) ELSE old[i]
      BY <1>1, <1>2
    <3>2. \A i \in D : new[i] = two[i]
      BY <3>1, <1>2 DEF D
    <3>3. two = [i \in D |-> two[i]] /\ new = [i \in D |-> new[i]]
      BY <3>1, <1>1
    <3> QED BY <3>2, <3>3
  <2> QED BY <2>4, <2>5
<1>6. Promised!Written(old, new)
  <2>1. v \in DOMAIN old /\ w \in DOMAIN old \cap {v, v + 1} /\ val \in Val \cup {Zero}
    BY <1>2 DEF Stored
  <2>2. old[v].perm = "rw" /\ old[w].perm = "rw"
    BY <1>3
  <2> QED BY <1>5, <2>1, <2>2 DEF Promised!Written
<1> QED BY <1>6 DEF old, new

(* A call that leaves the size alone and shows no change, or one write. *)
LEMMA QuietStep ==
  ASSUME MemInv, NEW p \in Proc, state[p] = "user", NEW r,
         state' = state, sz' = sz, tf' = tf, ex' = ex, Becomes(r),
         Sound(r, Out), Others(r, m, Own(p)), Rim(Space(r, Own(p)), Space(m, Own(p))),
         Trim(r, Own(p), sz[p]), \A v \in UserVpn : Seen(Cell(r, Own(p), v)) = Seen(Cell(m, Own(p), v))
  PROVE  MemInv' /\ Calls(p)
<1>1. /\ \A v \in UserVpn : Space(r, Own(p)).cells[v] = Cell(r, Own(p), v)
                            /\ Space(m, Own(p)).cells[v] = Cell(m, Own(p), v)
  BY Spaces
<1>2. sz = [sz EXCEPT ![p] = sz[p]] /\ sz[p] \in Nat /\ sz[p] <= TrapframeVa
  BY Start, Sized
<1>3. /\ \A v \in UserVpn : v \notin Span(0, Pages(sz[p])) => Space(r, Own(p)).cells[v] = NoCell
      /\ \A v \in UserVpn : v \in Span(0, Pages(sz[p])) =>
           Seen(Space(r, Own(p)).cells[v]) =
             IF v \in Span(0, Pages(sz[p])) THEN Seen(Space(m, Own(p)).cells[v]) ELSE Full("rw", Zero)
  BY <1>1 DEF Trim
<1>4. /\ Space(r, Own(p)).frame = Space(m, Own(p)).frame /\ Space(r, Own(p)).tramp = Space(m, Own(p)).tramp
      /\ Space(r, Own(p)).tables = Space(m, Own(p)).tables /\ sz' = [sz EXCEPT ![p] = sz[p]]
  BY <1>2 DEF Rim
<1> QED BY <1>2, <1>3, <1>4, ResizeStep

LEMMA WriteStep ==
  ASSUME MemInv, NEW p \in Proc, state[p] = "user", NEW r,
         state' = state, sz' = sz, tf' = tf, ex' = ex, Becomes(r),
         Sound(r, Out), Others(r, m, Own(p)), Rim(Space(r, Own(p)), Space(m, Own(p))),
         Trim(r, Own(p), sz[p]),
         NEW v \in UserVpn, v \in Span(0, Pages(sz[p])), NEW w \in UserVpn, w \in Span(0, Pages(sz[p])),
         w = v \/ w = v + 1, NEW val \in Stored,
         \A i \in {v, w} : Cell(m, Own(p), i).perm = "rw" \/ Cell(m, Own(p), i) = NoCell,
         \A i \in UserVpn : Seen(Cell(r, Own(p), i)) =
           IF i = v \/ i = w THEN Full("rw", val) ELSE Seen(Cell(m, Own(p), i))
  PROVE  MemInv' /\ Calls(p)
<1> DEFINE k == Own(p)
           s == sz[p]
<1>1. /\ \A i \in UserVpn : Space(r, k).cells[i] = Cell(r, k, i) /\ Space(m, k).cells[i] = Cell(m, k, i)
  BY Spaces
<1>2. /\ sz = [sz EXCEPT ![p] = s] /\ s \in Nat /\ s <= TrapframeVa /\ Held(Space(m, k), tf[p], s)
      /\ state = [state EXCEPT ![p] = "user"]
  BY Start, Sized DEF ProcInv
<1>3. Held(Space(r, k), tf[p], s)
  BY <1>1, <1>2 DEF Trim, Rim, Held
<1>4. /\ MemInv' /\ MemoryOf(p)' = View(Space(r, k), s) /\ Same(p)
      /\ state'[p] # "unused" /\ \A q \in Proc \ {p} : state'[q] = state[q]
  <2>1. sz' = [sz EXCEPT ![p] = s] /\ state' = [state EXCEPT ![p] = "user"]
    BY <1>2
  <2> QED BY <1>2, <1>3, <2>1, OwnStep
<1>5. MemoryOf(p) = View(Space(m, k), s)
  BY Sized
<1>6. Promised!Written(View(Space(m, k), s), View(Space(r, k), s))
  <2>1. Pages(s) \in Nat /\ Pages(s) <= TRAPFRAME
    BY <1>2, PagesFit
  <2>2. \A i \in Span(0, Pages(s)) : i \in UserVpn
    BY <2>1, Sizes DEF Span, UserVpn
  <2> DEFINE x == Seen(Cell(m, k, v)).val
             y == Seen(Cell(m, k, w)).val
  <2>3. Seen(Space(m, k).cells[v]) = Full("rw", x) /\ Seen(Space(m, k).cells[w]) = Full("rw", y)
    <3>1. Seen(Cell(m, k, v)) = Full("rw", x) /\ Seen(Cell(m, k, w)) = Full("rw", y)
      BY Writable
    <3> QED BY <1>1, <3>1
  <2> HIDE DEF x, y
  <2>4. \A i \in Span(0, Pages(s)) : Seen(Space(r, k).cells[i]) =
           IF i = v \/ i = w THEN Full("rw", val) ELSE Seen(Space(m, k).cells[i])
    BY <1>1, <2>2
  <2> HIDE DEF k, s
  <2> QED BY <1>2, <2>3, <2>4, WrittenIs DEF s
<1> QED BY <1>4, <1>5, <1>6 DEF Calls

(* The memory that a process starts from. *)
LEMMA UserStart ==
  ASSUME MemInv, NEW p \in Proc, state[p] = "user"
  PROVE  /\ Sound(m, Out) /\ Own(p) \in Table /\ sz[p] \in Nat /\ sz[p] <= TrapframeVa
         /\ m.tab[Own(p)] # NoTable /\ Trim(m, Own(p), sz[p]) /\ m.ok
         /\ Space(m, Own(p)).frame.perm = "kernel" /\ Others(m, m, Own(p))
<1>1. Held(Space(m, Own(p)), tf[p], sz[p]) /\ Sound(m, Out) /\ Own(p) \in Table
  BY Start DEF ProcInv
<1>2. \A v \in UserVpn : Space(m, Own(p)).cells[v] = Cell(m, Own(p), v)
  BY Spaces
<1>3. Space(m, Own(p)).frame.perm = "kernel"
  BY <1>1 DEF Held, Leaf
<1> QED BY <1>1, <1>2, <1>3, Sized, Rooted DEF Held, Trim, Others, MemInv

LEMMA OthersThrough ==
  ASSUME NEW a, NEW b, NEW c, NEW k, Others(b, a, k) \/ Alike(b, a), Others(c, b, k) \/ Alike(c, b)
  PROVE  Others(c, a, k)
  BY DEF Others, Alike

LEMMA TouchedPage ==
  ASSUME NEW va \in Touched
  PROVE  va \in Nat /\ va \div PGSIZE \in UserVpn
<1>1. TrapframeVa \in Nat /\ va \in 0..(TrapframeVa - 1)
  BY AddressAssumption, Sizes, SizesAssumption DEF TrapframeVa
<1>2. va \in Nat /\ va < TrapframeVa
  BY <1>1
<1> QED BY <1>1, <1>2, PageBelow

LEMMA AccessStep ==
  ASSUME MemInv, NEW p \in Proc, Access(p)
  PROVE  MemInv' /\ Calls(p)
<1> DEFINE k == Own(p)
           s == sz[p]
           F(v, va, write) == IF m.pte[k][v].perm \in (IF write THEN {"rw"} ELSE {"r", "rw"})
                              THEN Ok(m) ELSE Vmfault(m, k, s, va)
<1>1. PICK va \in Touched, val \in Val, write \in BOOLEAN :
        LET v == va \div PGSIZE
            f == F(v, va, write) IN
        IF f.ok THEN Done(IF write THEN Store(f, k, v, val) ELSE f) /\ UNCHANGED state
        ELSE p # 1 /\ Done(f) /\ state' = [state EXCEPT ![p] = "zombie"]
  BY DEF Access
<1> DEFINE v == va \div PGSIZE
           f == F(v, va, write)
           r == IF f.ok /\ write THEN Store(f, k, v, val) ELSE f
<1>2. state[p] = "user" /\ sz' = sz /\ tf' = tf /\ ex' = ex
  BY DEF Access
<1>3. /\ f.ok => m' = Cleared(r) /\ state' = state
      /\ ~f.ok => m' = Cleared(r) /\ state' = [state EXCEPT ![p] = "zombie"]
  BY <1>1 DEF Done, Cleared
<1>4. Becomes(r)
  BY <1>3 DEF Becomes
<1>5. /\ Sound(m, Out) /\ k \in Table /\ s \in Nat /\ s <= TrapframeVa /\ m.tab[k] # NoTable
      /\ Trim(m, k, s) /\ Others(m, m, k)
  BY <1>2, UserStart
<1>6. va \in Nat /\ v \in UserVpn
  BY TouchedPage
<1>7. val \in Stored /\ NoCell.perm = "none"
  BY DEF Stored, NoCell
(* What a fault has done; where an access is allowed there is a page.       *)
<1>8. /\ Sound(f, Out) /\ Others(f, m, k) /\ Backed(Space(f, k), Space(m, k), v, Pages(s))
      /\ ~f.ok => Space(f, k) = Space(m, k)
      /\ f.ok => /\ v \in Span(0, Pages(s)) /\ f.pte[k][v] # NoPte
                 /\ write => Cell(f, k, v).perm = "rw" /\ (Cell(m, k, v).perm = "rw" \/ Cell(m, k, v) = NoCell)
  <2>1. CASE m.pte[k][v].perm \in (IF write THEN {"rw"} ELSE {"r", "rw"})
    <3>1. f = Ok(m)
      BY <2>1
    <3> HIDE DEF f
    <3>2. Sound(f, Out) /\ Alike(f, m) /\ f.ok /\ f.pte = m.pte
      BY <1>5, <3>1, OkIs
    <3>3. Space(f, k) = Space(m, k) /\ Others(f, m, k)
      BY <1>5, <3>2 DEF Alike, Others
    <3>4. m.pte[k][v].perm \in {"r", "rw"} /\ (write => m.pte[k][v].perm = "rw")
      BY <2>1
    <3>5. User(m, k, v) /\ m.pte[k][v] # NoPte /\ Cell(m, k, v).perm \in {"r", "rw"}
          /\ (write => Cell(m, k, v).perm = "rw")
      BY <1>5, <1>6, <3>4, UserIs DEF User
    <3>6. Cell(m, k, v) # NoCell /\ Cell(f, k, v) = Cell(m, k, v)
      BY <1>6, <1>7, <3>3, <3>5, SameCells
    <3>7. v \in Span(0, Pages(s))
      BY <1>5, <1>6, <3>6 DEF Trim
    <3> QED BY <3>2, <3>3, <3>5, <3>6, <3>7 DEF Backed
  <2>2. CASE ~(m.pte[k][v].perm \in (IF write THEN {"rw"} ELSE {"r", "rw"}))
    <3>1. f = Vmfault(m, k, s, va)
      BY <2>2
    <3> HIDE DEF f
    <3>2. /\ Sound(f, Out) /\ Others(f, m, k) /\ f.ok \in BOOLEAN
          /\ ~f.ok => Space(f, k) = Space(m, k)
          /\ f.ok => /\ v \in UserVpn /\ v \in Span(0, Pages(s)) /\ Cell(m, k, v) = NoCell
                     /\ Space(f, k) = Put(Space(m, k), v, Full("rw", Zero))
      <4> HIDE DEF k, s
      <4> QED BY <1>5, <1>6, <3>1, VmfaultIs
    <3>3. CASE ~f.ok
      BY <3>2, <3>3 DEF Backed
    <3>4. CASE f.ok
      <4> HIDE DEF k, s, v
      <4>1. Cell(f, k, v) = Full("rw", Zero)
        <5> DEFINE c == Full("rw", Zero)
        <5>1. v \in UserVpn /\ Space(f, k) = Put(Space(m, k), v, c)
          BY <3>2, <3>4
        <5> HIDE DEF c
        <5>2. Space(f, k).cells = [Space(m, k).cells EXCEPT ![v] = c]
          BY <5>1, Made DEF Put
        <5>3. Space(m, k).cells = CellsOf(m, k) /\ Space(f, k).cells[v] = Cell(f, k, v)
          BY <5>1, Spaces
        <5>4. Cell(f, k, v) = c
          BY <5>1, <5>2, <5>3 DEF CellsOf
        <5> QED BY <5>4 DEF c
      <4>2. Cell(f, k, v).perm = "rw" /\ Cell(f, k, v) # NoCell
        BY <4>1, <1>7 DEF Full
      <4>3. f.pte[k][v] # NoPte
        BY <1>5, <1>6, <3>2, <4>2, CellIs
      <4>4. Space(m, k).cells[v] = NoCell
        BY <3>2, <3>4, Spaces
      <4> QED BY <3>2, <3>4, <4>2, <4>3, <4>4 DEF Backed
    <3> QED BY <3>3, <3>4
  <2> QED BY <2>1, <2>2
<1> HIDE DEF f, v, F
<1>9. /\ Rim(Space(f, k), Space(m, k)) /\ Trim(f, k, s)
      /\ \A w \in UserVpn : Seen(Cell(f, k, w)) = Seen(Cell(m, k, w))
  BY <1>5, <1>8, BackedCells
<1>10. CASE f.ok /\ write
  <2>1. r = Store(f, k, v, val) /\ state' = state
    BY <1>3, <1>10
  <2> HIDE DEF r
  <2>2. Sound(r, Out) /\ Others(r, f, k) /\ Space(r, k) = Put(Space(f, k), v, Full(f.pte[k][v].perm, val))
    BY <1>5, <1>6, <1>7, <1>8, <1>10, <2>1, StoreIs
  <2>3. f.pte[k][v].perm = "rw"
    BY <1>5, <1>6, <1>8, <1>10, UserIs
  <2>4. /\ Rim(Space(r, k), Space(f, k))
        /\ \A w \in UserVpn : Cell(r, k, w) = IF w = v THEN Full("rw", val) ELSE Cell(f, k, w)
    BY <1>6, <2>2, <2>3, PutCells
  <2>5. Seen(Full("rw", val)) = Full("rw", val)
    BY DEF Seen, Full, NoCell
  <2>6. Others(r, m, k)
    BY <1>8, <2>2, OthersThrough
  <2>7. Rim(Space(r, k), Space(m, k)) /\ Trim(r, k, s)
    BY <1>8, <1>9, <1>10, <2>4 DEF Rim, Trim
  <2>8. \A i \in UserVpn : Seen(Cell(r, k, i)) =
          IF i = v \/ i = v THEN Full("rw", val) ELSE Seen(Cell(m, k, i))
    BY <1>9, <2>4, <2>5
  <2>9. \A i \in {v, v} : Cell(m, k, i).perm = "rw" \/ Cell(m, k, i) = NoCell
    BY <1>8, <1>10
  <2> QED BY <1>2, <1>4, <1>6, <1>7, <1>8, <1>10, <2>1, <2>2, <2>6, <2>7, <2>8, <2>9, WriteStep
<1>11. CASE f.ok /\ ~write
  <2>1. r = f /\ state' = state
    BY <1>3, <1>11
  <2> HIDE DEF r
  <2> QED BY <1>2, <1>4, <1>8, <1>9, <2>1, QuietStep
<1>12. CASE ~f.ok
  <2>1. r = f /\ state' = [state EXCEPT ![p] = "zombie"] /\ Space(r, k) = Space(m, k)
    BY <1>3, <1>8, <1>12
  <2> HIDE DEF r
  <2>2. Held(Space(r, k), tf[p], s) /\ sz' = [sz EXCEPT ![p] = s]
    BY <1>2, <2>1, Start DEF ProcInv
  <2>3. /\ MemInv' /\ MemoryOf(p)' = View(Space(r, k), s) /\ Same(p)
        /\ state'[p] # "unused" /\ \A q \in Proc \ {p} : state'[q] = state[q]
    BY <1>2, <1>4, <1>5, <1>8, <2>1, <2>2, OwnStep
  <2>4. Promised!Resized(MemoryOf(p), MemoryOf(p)')
    BY <1>5, <2>1, <2>3, Sized, ResizedSame
  <2> QED BY <1>2, <2>3, <2>4 DEF Calls
<1> QED BY <1>10, <1>11, <1>12

LEMMA CopyoutStep ==
  ASSUME MemInv, NEW p \in Proc, Copyout(p)
  PROVE  MemInv' /\ Calls(p)
<1> DEFINE k == Own(p)
           s == sz[p]
           Round(n, w, val) == CopyoutPage(n, Own(p), sz[p], w, val)
<1>1. PICK va \in Touched, val \in Val :
        LET v == va \div PGSIZE IN Done(Round(Round(Ok(m), v, val), v + 1, val))
  BY DEF Copyout
<1> DEFINE v == va \div PGSIZE
           w == v + 1
           n == Ok(m)
           a == CopyoutPage(n, k, s, v, val)
           b == CopyoutPage(a, k, s, w, val)
<1>2. state[p] = "user" /\ state' = state /\ sz' = sz /\ tf' = tf /\ ex' = ex
  BY DEF Copyout
<1>3. Becomes(b)
  BY <1>1 DEF Done, Cleared, Becomes
<1>4. /\ Sound(m, Out) /\ k \in Table /\ s \in Nat /\ s <= TrapframeVa /\ m.tab[k] # NoTable
      /\ Trim(m, k, s) /\ Others(m, m, k) /\ Space(m, k).frame.perm = "kernel"
  BY <1>2, UserStart
<1>5. v \in UserVpn /\ val \in Stored
  BY TouchedPage DEF Stored
<1> HIDE DEF v
<1>6. v \in Nat /\ w \in Nat /\ (w \in UserVpn \/ w = TRAPFRAME) /\ w # v
  BY <1>5, Sizes DEF UserVpn
<1>7. NoCell.perm = "none" /\ Seen(Full("rw", val)) = Full("rw", val)
  BY DEF NoCell, Seen, Full
<1> HIDE DEF k, s, w, n, a, b, Round
<1>8. Sound(n, Out) /\ n.ok /\ n.tab = m.tab /\ Others(n, m, k) /\ Space(n, k) = Space(m, k)
  BY <1>4, OkIs DEF n, Alike, Others
<1>9. /\ n.tab[k] # NoTable /\ Trim(n, k, s) /\ Rim(Space(n, k), Space(m, k))
      /\ Space(n, k).frame.perm = "kernel" /\ Space(n, k).tables = "some"
      /\ \A i \in UserVpn : Cell(n, k, i) = Cell(m, k, i)
  BY <1>4, <1>8, SameCells, Rooted DEF Trim
<1>10. /\ Sound(a, Out) /\ Others(a, n, k) /\ a.ok \in BOOLEAN
       /\ ~a.ok => Backed(Space(a, k), Space(n, k), v, Pages(s))
       /\ a.ok => /\ Cell(n, k, v).perm = "rw" \/ (v \in Span(0, Pages(s)) /\ Cell(n, k, v) = NoCell)
                  /\ Space(a, k) = Put(Space(n, k), v, Full("rw", val))
  BY <1>4, <1>5, <1>6, <1>8, <1>9, CopyoutIs DEF a
<1>11. Others(a, m, k)
  BY <1>8, <1>10, OthersThrough
<1>12. CASE ~a.ok
  <2>1. b = a
    BY <1>12 DEF b, CopyoutPage, CopyinPage, Then
  <2>2. /\ Rim(Space(a, k), Space(n, k)) /\ Trim(a, k, s)
        /\ \A i \in UserVpn : Seen(Cell(a, k, i)) = Seen(Cell(n, k, i))
    BY <1>9, <1>10, <1>12, BackedCells
  <2>3. Rim(Space(b, k), Space(m, k)) /\ \A i \in UserVpn : Seen(Cell(b, k, i)) = Seen(Cell(m, k, i))
    BY <1>9, <2>1, <2>2 DEF Rim
  <2> QED BY <1>2, <1>3, <1>10, <1>11, <2>1, <2>2, <2>3, QuietStep DEF k, s
<1>13. CASE a.ok
  <2>1. /\ Rim(Space(a, k), Space(n, k))
        /\ \A i \in UserVpn : Cell(a, k, i) = IF i = v THEN Full("rw", val) ELSE Cell(n, k, i)
    BY <1>5, <1>10, <1>13, PutCells
  <2>2. v \in Span(0, Pages(s))
    <3>1. CASE Cell(n, k, v).perm = "rw"
      BY <1>5, <1>7, <1>9, <3>1 DEF Trim
    <3> QED BY <3>1, <1>10, <1>13
  <2>3. Rim(Space(a, k), Space(m, k)) /\ Trim(a, k, s)
    BY <1>9, <2>1, <2>2 DEF Rim, Trim
  <2>4. Cell(m, k, v).perm = "rw" \/ Cell(m, k, v) = NoCell
    BY <1>5, <1>9, <1>10, <1>13
  <2>5. a.tab[k] # NoTable /\ Space(a, k).frame.perm = "kernel"
    <3>1. Space(a, k).tables = "some" /\ Space(a, k).frame.perm = "kernel"
      BY <1>9, <2>1 DEF Rim
    <3> QED BY <3>1, Rooted
  <2>6. /\ Sound(b, Out) /\ Others(b, a, k) /\ b.ok \in BOOLEAN
        /\ ~b.ok => Backed(Space(b, k), Space(a, k), w, Pages(s))
        /\ b.ok => /\ w \in UserVpn
                   /\ Cell(a, k, w).perm = "rw" \/ (w \in Span(0, Pages(s)) /\ Cell(a, k, w) = NoCell)
                   /\ Space(b, k) = Put(Space(a, k), w, Full("rw", val))
    BY <1>4, <1>5, <1>6, <1>10, <2>5, CopyoutIs DEF b
  <2>7. Others(b, m, k)
    BY <1>11, <2>6, OthersThrough
  <2>8. CASE ~b.ok
    <3>1. /\ Rim(Space(b, k), Space(a, k)) /\ Trim(b, k, s)
          /\ \A i \in UserVpn : Seen(Cell(b, k, i)) = Seen(Cell(a, k, i))
      BY <2>3, <2>6, <2>8, BackedCells
    <3>2. \A i \in UserVpn : Seen(Cell(b, k, i)) =
            IF i = v \/ i = v THEN Full("rw", val) ELSE Seen(Cell(m, k, i))
      BY <1>7, <1>9, <2>1, <3>1
    <3>3. Rim(Space(b, k), Space(m, k)) /\ \A i \in {v, v} : Cell(m, k, i).perm = "rw" \/ Cell(m, k, i) = NoCell
      BY <2>3, <2>4, <3>1 DEF Rim
    <3> QED BY <1>2, <1>3, <1>5, <2>2, <2>6, <2>7, <3>1, <3>2, <3>3, WriteStep DEF k, s
  <2>9. CASE b.ok
    <3>1. /\ Rim(Space(b, k), Space(a, k)) /\ w \in UserVpn
          /\ \A i \in UserVpn : Cell(b, k, i) = IF i = w THEN Full("rw", val) ELSE Cell(a, k, i)
      BY <2>6, <2>9, PutCells
    <3>2. Cell(a, k, w) = Cell(m, k, w)
      BY <1>6, <1>9, <2>1, <3>1
    <3>3. Cell(m, k, w).perm = "rw" \/ (w \in Span(0, Pages(s)) /\ Cell(m, k, w) = NoCell)
      BY <2>6, <2>9, <3>2
    <3>4. w \in Span(0, Pages(s))
      <4>1. CASE Cell(m, k, w).perm = "rw"
        BY <1>4, <1>7, <3>1, <4>1 DEF Trim
      <4> QED BY <4>1, <3>3
    <3>5. Rim(Space(b, k), Space(m, k)) /\ Trim(b, k, s)
      BY <2>3, <3>1, <3>4 DEF Rim, Trim
    <3>6. \A i \in UserVpn : Seen(Cell(b, k, i)) =
            IF i = v \/ i = w THEN Full("rw", val) ELSE Seen(Cell(m, k, i))
      BY <1>7, <1>9, <2>1, <3>1
    <3>7. \A i \in {v, w} : Cell(m, k, i).perm = "rw" \/ Cell(m, k, i) = NoCell
      BY <2>4, <3>3
    <3>8. w = v \/ w = v + 1
      BY DEF w
    <3> QED BY <1>2, <1>3, <1>5, <2>2, <2>6, <2>7, <3>1, <3>4, <3>5, <3>6, <3>7, <3>8, WriteStep DEF k, s
  <2> QED BY <2>6, <2>8, <2>9
<1> QED BY <1>10, <1>12, <1>13

LEMMA CopyinStep ==
  ASSUME MemInv, NEW p \in Proc, Copyin(p)
  PROVE  MemInv' /\ Calls(p)
<1> DEFINE k == Own(p)
           s == sz[p]
           Round(n, w) == CopyinPage(n, Own(p), sz[p], w)
<1>1. PICK va \in Touched : LET v == va \div PGSIZE IN Done(Round(Round(Ok(m), v), v + 1))
  BY DEF Copyin
<1> DEFINE v == va \div PGSIZE
           w == v + 1
           n == Ok(m)
           a == CopyinPage(n, k, s, v)
           b == CopyinPage(a, k, s, w)
<1>2. state[p] = "user" /\ state' = state /\ sz' = sz /\ tf' = tf /\ ex' = ex
  BY DEF Copyin
<1>3. Becomes(b)
  BY <1>1 DEF Done, Cleared, Becomes
<1>4. /\ Sound(m, Out) /\ k \in Table /\ s \in Nat /\ s <= TrapframeVa /\ m.tab[k] # NoTable
      /\ Trim(m, k, s)
  BY <1>2, UserStart
<1>5. v \in UserVpn
  BY TouchedPage
<1> HIDE DEF v
<1>6. v \in Nat /\ w \in Nat
  BY <1>5, Sizes DEF UserVpn
<1> HIDE DEF k, s, w, n, a, b, Round
<1>7. Sound(n, Out) /\ n.tab = m.tab /\ Others(n, m, k) /\ Space(n, k) = Space(m, k)
  BY <1>4, OkIs DEF n, Alike, Others
<1>8. /\ n.tab[k] # NoTable /\ Trim(n, k, s) /\ Rim(Space(n, k), Space(m, k)) /\ Space(n, k).tables = "some"
      /\ \A i \in UserVpn : Cell(n, k, i) = Cell(m, k, i)
  BY <1>4, <1>7, SameCells, Rooted DEF Trim
<1>9. /\ Sound(a, Out) /\ Others(a, n, k) /\ Backed(Space(a, k), Space(n, k), v, Pages(s))
  BY <1>4, <1>6, <1>7, <1>8, CopyinIs DEF a
<1>10. /\ Rim(Space(a, k), Space(n, k)) /\ Trim(a, k, s)
       /\ \A i \in UserVpn : Seen(Cell(a, k, i)) = Seen(Cell(n, k, i))
  BY <1>8, <1>9, BackedCells
<1>11. a.tab[k] # NoTable
  <2>1. Space(a, k).tables = "some"
    BY <1>8, <1>10 DEF Rim
  <2> QED BY <2>1, Rooted
<1>12. Sound(b, Out) /\ Others(b, a, k) /\ Backed(Space(b, k), Space(a, k), w, Pages(s))
  BY <1>4, <1>6, <1>9, <1>11, CopyinIs DEF b
<1>13. /\ Rim(Space(b, k), Space(a, k)) /\ Trim(b, k, s)
       /\ \A i \in UserVpn : Seen(Cell(b, k, i)) = Seen(Cell(a, k, i))
  BY <1>10, <1>12, BackedCells
<1>14. Others(a, m, k)
  BY <1>7, <1>9, OthersThrough
<1>15. Others(b, m, k)
  BY <1>12, <1>14, OthersThrough
<1>16. Rim(Space(b, k), Space(m, k)) /\ \A i \in UserVpn : Seen(Cell(b, k, i)) = Seen(Cell(m, k, i))
  BY <1>8, <1>10, <1>13 DEF Rim
<1> QED BY <1>2, <1>3, <1>12, <1>13, <1>15, <1>16, QuietStep DEF k, s

-----------------------------------------------------------------------------
(* fork() and wait() *)

Forks(p) ==
  \E q \in Proc : /\ state[p] # "unused" /\ state[q] = "unused" /\ state'[q] # "unused"
                  /\ \A r \in Proc \ {q} : state'[r] = state[r]
                  /\ MemoryOf(q)' = MemoryOf(p) /\ Same(q)
Reaps(p) == /\ state[p] # "unused" /\ state'[p] = "unused"
            /\ \A q \in Proc \ {p} : state'[q] = state[q]
            /\ MemoryOf(p)' = Promised!NoCells /\ Same(p)

LEMMA NoExecIs ==
  /\ NoExec \in Exec /\ NoExec.argv = {} /\ NoPage \in 0..NPAGES
  /\ Has(NoPage, NoExec) = {} /\ \A g \in Page : Has(g, NoExec) = {g}
<1>1. NoExec \in Exec
  BY DEF NoExec, Exec
<1>2. NoExec.argv = {}
  BY DEF NoExec
<1>3. NoPage \in 0..NPAGES /\ \A g \in Page : g # NoPage
  BY SizesAssumption DEF NoPage, Page
<1> QED BY <1>1, <1>2, <1>3 DEF Has

(* A call that fails leaves everything as it was. *)
LEMMA NothingStep ==
  ASSUME MemInv, NEW p \in Proc, state[p] = "user", NEW r,
         state' = state, sz' = sz, tf' = tf, ex' = ex, Becomes(r), Sound(r, Out), Alike(r, m)
  PROVE  MemInv' /\ Calls(p)
<1>1. Space(r, Own(p)) = Space(m, Own(p)) /\ Others(r, m, Own(p)) /\ Trim(m, Own(p), sz[p])
  BY UserStart DEF Alike, Others
<1>2. /\ Rim(Space(r, Own(p)), Space(m, Own(p)))
      /\ \A w \in UserVpn : Cell(r, Own(p), w) = Cell(m, Own(p), w)
  BY <1>1, SameCells
<1>3. Trim(r, Own(p), sz[p])
  BY <1>1, <1>2 DEF Trim
<1> QED BY <1>1, <1>2, <1>3, QuietStep

LEMMA AlikeOthers ==
  ASSUME NEW n, NEW r, NEW k \in Table, Others(r, n, k), Space(r, k) = Space(n, k)
  PROVE  Alike(r, n)
  BY DEF Others, Alike

LEMMA FirstUnused ==
  ASSUME Unused # {}
  PROVE  LET q == CHOOSE q \in Unused : \A r \in Unused : q <= r IN q \in Proc /\ state[q] = "unused"
<1>1. Unused \subseteq Nat
  BY TableAssumption DEF Unused, Proc
<1>2. \E q \in Unused : \A r \in Unused : q <= r
  BY <1>1, Least
<1> QED BY <1>2 DEF Unused

LEMMA ForkStep ==
  ASSUME MemInv, NEW p \in Proc, Fork(p)
  PROVE  MemInv' /\ (Calls(p) \/ Forks(p))
<1>p. /\ state[p] = "user" /\ Unused # {}
  BY DEF Fork
<1>q. PICK q \in Proc : q = (CHOOSE i \in Unused : \A r \in Unused : i <= r) /\ state[q] = "unused"
  BY <1>p, FirstUnused
<1> DEFINE a == Allocproc(m, q)
           g == a.got
           s == sz[p]
           b == Uvmcopy(a, Own(p), Own(q), s)
           c == Freeproc(b, q, g, 0)
<1>1. /\ state[p] = "user" /\ Unused # {} /\ ex' = ex
      /\ ~a.ok => m' = Cleared(a) /\ state' = state /\ sz' = sz /\ tf' = tf
      /\ a.ok /\ ~b.ok => m' = Cleared(c) /\ state' = state /\ sz' = sz /\ tf' = tf
      /\ a.ok /\ b.ok => /\ m' = Cleared(b) /\ state' = [state EXCEPT ![q] = "user"]
                         /\ sz' = [sz EXCEPT ![q] = s] /\ tf' = [tf EXCEPT ![q] = g]
  BY <1>q DEF Fork, Done, Cleared
<1>2. q \in Proc /\ state[q] = "unused"
  BY <1>q
<1>3. /\ Sound(m, Out) /\ Own(p) \in Table /\ s \in Nat /\ s <= TrapframeVa
      /\ Trim(m, Own(p), s) /\ Pages(s) \in Nat /\ Pages(s) <= TRAPFRAME
  BY <1>1, UserStart, Sized
<1>4. /\ Space(m, Own(q)) = NoSpace /\ tf[q] = NoPage /\ ex[q] = NoExec /\ Space(m, New(q)) = NoSpace
      /\ Out = Rest(q) \cup Has(tf[q], ex[q]) /\ ex = [ex EXCEPT ![q] = ex[q]]
  BY <1>2, Start DEF ProcInv
<1>5. Out = Rest(q)
  BY <1>4, NoExecIs
<1>6. /\ p # q /\ Own(q) \in Table /\ New(q) \in Table /\ Own(p) # Own(q) /\ New(q) # Own(q)
  BY <1>1, <1>2, TablesAre
<1> HIDE DEF a, b, c, g, s
<1>7. /\ Others(a, m, Own(q)) /\ a.ok \in BOOLEAN
      /\ a.ok => g \in Page \ Out /\ Sound(a, Out \cup {g}) /\ Space(a, Own(q)) = NewSpace(g)
      /\ ~a.ok => Sound(a, Out) /\ Space(a, Own(q)) = NoSpace
  BY <1>2, <1>3, <1>4, AllocprocIs DEF a, g
<1>8. CASE ~a.ok
  <2>1. Alike(a, m)
    BY <1>4, <1>6, <1>7, <1>8, AlikeOthers
  <2>2. Becomes(a)
    BY <1>1, <1>8 DEF Becomes
  <2> QED BY <1>1, <1>7, <1>8, <2>1, <2>2, NothingStep
<1>9. CASE a.ok
  <2>1. /\ NewSpace(g).cells = NoCells /\ NewSpace(g).frame = Leaf(g, "kernel")
        /\ NewSpace(g).tramp = Leaf(Trampoline, "kernel") /\ NewSpace(g).tables = "some"
    BY Made DEF NewSpace
  <2>2. a.tab[Own(q)] # NoTable /\ \A w \in UserVpn : Cell(a, Own(q), w) = NoCell
    <3>1. Space(a, Own(q)) = NewSpace(g)
      BY <1>7, <1>9
    <3>2. Space(a, Own(q)).tables = "some" /\ Space(a, Own(q)).cells = NoCells
      BY <2>1, <3>1
    <3>3. \A w \in UserVpn : Space(a, Own(q)).cells[w] = Cell(a, Own(q), w)
      BY Spaces
    <3> QED BY <3>2, <3>3, Rooted, NoSpaceIs
  <2>3. Copied(b, a, Own(p), Own(q), Out \cup {g}, Pages(s))
    BY <1>3, <1>6, <1>7, <1>9, <2>2, CopyIs DEF b
  <2>4. /\ Sound(b, Out \cup {g}) /\ Others(b, a, Own(q)) /\ b.ok \in BOOLEAN
        /\ b.ok => Space(b, Own(q)) = Merge(Space(a, Own(q)), Space(a, Own(p)), Span(0, Pages(s)))
        /\ ~b.ok => Space(b, Own(q)) = Space(a, Own(q))
    BY <2>3 DEF Copied
  <2>5. Others(b, m, Own(q))
    BY <1>7, <2>4, OthersThrough
  <2>6. CASE ~b.ok
    <3>1. Space(b, Own(q)) = NewSpace(g)
      BY <1>7, <1>9, <2>4, <2>6
    <3>2. Space(b, Own(q)).tables = "some" /\ Within(b, Own(q), 0)
      <4>1. \A w \in UserVpn : Space(b, Own(q)).cells[w] = Cell(b, Own(q), w)
        BY Spaces
      <4>2. Space(b, Own(q)).tables = "some" /\ Space(b, Own(q)).cells = NoCells
        BY <2>1, <3>1
      <4> QED BY <4>1, <4>2, NoSpaceIs DEF Within
    <3>3. 0 \in Nat /\ Pages(0) <= TRAPFRAME
      BY PagesZero, Sizes
    <3>4. Sound(c, (Out \cup {g}) \ {g}) /\ Others(c, b, Own(q)) /\ Space(c, Own(q)) = NoSpace
      BY <1>2, <2>4, <3>2, <3>3, FreeprocIs DEF c
    <3>5. (Out \cup {g}) \ {g} = Out
      BY <1>7, <1>9
    <3>6. Others(c, m, Own(q))
      BY <2>5, <3>4, OthersThrough
    <3>7. Alike(c, m) /\ Sound(c, Out)
      BY <1>4, <1>6, <3>4, <3>5, <3>6, AlikeOthers
    <3>8. Becomes(c)
      BY <1>1, <1>9, <2>6 DEF Becomes
    <3> QED BY <1>1, <1>9, <2>6, <3>7, <3>8, NothingStep
  <2>7. CASE b.ok
    <3> DEFINE t == Space(b, Own(q))
    <3>1. Space(a, Own(p)) = Space(m, Own(p)) /\ Space(b, New(q)) = Space(m, New(q))
      BY <1>3, <1>6, <1>7, <2>5 DEF Others
    <3>2. /\ t.frame = Leaf(g, "kernel") /\ t.tramp = Leaf(Trampoline, "kernel") /\ t.tables = "some"
          /\ \A v \in UserVpn : t.cells[v] =
               IF v \in Span(0, Pages(s)) THEN Space(m, Own(p)).cells[v] ELSE NoCell
      <4>1. t = Merge(NewSpace(g), Space(m, Own(p)), Span(0, Pages(s)))
        BY <1>7, <1>9, <2>4, <2>7, <3>1
      <4> HIDE DEF t
      <4> QED BY <2>1, <4>1, Made, NoSpaceIs DEF Merge
    <3>3. ProcInv(b, q, "user", s, g, NoExec)
      <4>1. Held(t, g, s)
        BY <3>2 DEF Held
      <4>2. g # NoPage
        BY <1>7, <1>9 DEF Page, NoPage
      <4> QED BY <1>3, <1>4, <3>1, <4>1, <4>2 DEF ProcInv
    <3>4. \A i \in Proc \ {q} : Space(b, Own(i)) = Space(m, Own(i)) /\ Space(b, New(i)) = Space(m, New(i))
      BY <1>2, <2>5, Elsewhere
    <3>5. Sound(b, Rest(q) \cup Has(g, NoExec)) /\ Has(g, NoExec) \cap Rest(q) = {} /\ g \notin NoExec.argv
      BY <1>5, <1>7, <1>9, <2>4, NoExecIs
    <3>6. /\ state' = [state EXCEPT ![q] = "user"] /\ sz' = [sz EXCEPT ![q] = s]
          /\ tf' = [tf EXCEPT ![q] = g] /\ ex' = [ex EXCEPT ![q] = NoExec] /\ Becomes(b)
      BY <1>1, <1>4, <1>9, <2>7 DEF Becomes
    <3>7. "user" \in States /\ g \in 0..NPAGES /\ NoExec \in Exec /\ s \in Nat
      BY <1>3, <1>7, <1>9, NoExecIs DEF States, Page
    <3>8. /\ MemInv' /\ MemoryOf(q)' = View(Space(b, Own(q)), s)
          /\ \A i \in Proc \ {q} : MemoryOf(i)' = MemoryOf(i)
      BY <1>2, <3>3, <3>4, <3>5, <3>6, <3>7, OneStep
    <3>9. View(t, s) = View(Space(m, Own(p)), s)
      <4>1. \A v \in 0..(Pages(s) - 1) : v \in UserVpn /\ v \in Span(0, Pages(s))
        BY <1>3, Sizes DEF UserVpn, Span
      <4> QED BY <3>2, <4>1 DEF View
    <3>10. MemoryOf(p) = View(Space(m, Own(p)), s)
      BY Sized DEF s
    <3>11. state'[q] # "unused" /\ \A i \in Proc \ {q} : state'[i] = state[i]
      BY <1>2, <3>6 DEF MemInv, TypeInv
    <3>12. MemoryOf(q)' = MemoryOf(p) /\ Same(q)
      BY <3>8, <3>9, <3>10 DEF Same
    <3>13. state[p] # "unused"
      BY <1>1
    <3>14. Forks(p)
      BY <1>2, <3>11, <3>12, <3>13, Zenon DEF Forks
    <3> QED BY <3>8, <3>14
  <2> QED BY <2>4, <2>6, <2>7
<1> QED BY <1>7, <1>8, <1>9

LEMMA ReapStep ==
  ASSUME MemInv, NEW p \in Proc, Reap(p)
  PROVE  MemInv' /\ Reaps(p)
<1> DEFINE g == tf[p]
           r == Freeproc(m, p, g, sz[p])
<1>1. /\ state[p] = "zombie" /\ m' = Cleared(r) /\ ex' = ex
      /\ state' = [state EXCEPT ![p] = "unused"] /\ sz' = [sz EXCEPT ![p] = 0]
      /\ tf' = [tf EXCEPT ![p] = NoPage]
  BY DEF Reap, Done, Cleared
<1>2. /\ Sound(m, Out) /\ Out = Rest(p) \cup Has(g, ex[p]) /\ Has(g, ex[p]) \cap Rest(p) = {}
      /\ Own(p) \in Table /\ New(p) \in Table /\ New(p) # Own(p) /\ g \in 0..NPAGES
      /\ ex = [ex EXCEPT ![p] = ex[p]] /\ ProcInv(m, p, "zombie", sz[p], g, ex[p])
  BY <1>1, Start
<1>3. /\ g # NoPage /\ Held(Space(m, Own(p)), g, sz[p]) /\ ex[p] = NoExec /\ Space(m, New(p)) = NoSpace
  BY <1>2 DEF ProcInv
<1>4. g \in Page /\ Has(g, ex[p]) = {g}
  <2>1. g \in Page
    BY <1>2, <1>3, SizesAssumption DEF Page, NoPage
  <2> QED BY <2>1, <1>3, NoExecIs
<1>5. g \in Out /\ Out \ {g} = Rest(p)
  BY <1>2, <1>4
<1>6. sz[p] \in Nat /\ Pages(sz[p]) <= TRAPFRAME
  BY Sized
<1>7. Within(m, Own(p), sz[p]) /\ Space(m, Own(p)).tables = "some"
  <2>1. \A w \in UserVpn : Space(m, Own(p)).cells[w] = Cell(m, Own(p), w)
    BY Spaces
  <2> QED BY <1>3, <2>1 DEF Held, Within
<1> HIDE DEF g, r
<1>8. Sound(r, Rest(p)) /\ Others(r, m, Own(p)) /\ Space(r, Own(p)) = NoSpace
  <2>1. Sound(r, Out \ {g}) /\ Others(r, m, Own(p)) /\ Space(r, Own(p)) = NoSpace
    BY <1>2, <1>5, <1>6, <1>7, FreeprocIs DEF r
  <2> QED BY <2>1, <1>5
<1>9. ProcInv(r, p, "unused", 0, NoPage, NoExec)
  <2>1. Space(r, New(p)) = NoSpace
    BY <1>2, <1>3, <1>8 DEF Others
  <2> QED BY <2>1, <1>8 DEF ProcInv
<1>10. \A i \in Proc \ {p} : Space(r, Own(i)) = Space(m, Own(i)) /\ Space(r, New(i)) = Space(m, New(i))
  BY <1>8, Elsewhere
<1>11. /\ Sound(r, Rest(p) \cup Has(NoPage, NoExec)) /\ Has(NoPage, NoExec) \cap Rest(p) = {}
       /\ NoPage \notin NoExec.argv
  BY <1>8, NoExecIs
<1>12. ex' = [ex EXCEPT ![p] = NoExec] /\ Becomes(r) /\ "unused" \in States /\ 0 \in Nat
  BY <1>1, <1>2, <1>3 DEF Becomes, States
<1>13. /\ MemInv' /\ MemoryOf(p)' = View(Space(r, Own(p)), 0)
       /\ \A q \in Proc \ {p} : MemoryOf(q)' = MemoryOf(q)
  BY <1>1, <1>9, <1>10, <1>11, <1>12, NoExecIs, OneStep
<1>14. View(Space(r, Own(p)), 0) = Promised!NoCells
  <2>1. 0..(Pages(0) - 1) = {}
    BY PagesZero
  <2> QED BY <2>1 DEF View, Promised!NoCells
<1>15. state[p] # "unused" /\ state'[p] = "unused" /\ \A q \in Proc \ {p} : state'[q] = state[q]
  BY <1>1 DEF MemInv, TypeInv
<1> QED BY <1>13, <1>14, <1>15 DEF Reaps, Same

-----------------------------------------------------------------------------
(* exec() *)

LEMMA ExecStarts ==
  ASSUME MemInv, NEW p \in Proc, state[p] \in {"user", "exec"}
  PROVE  /\ Sound(m, Out) /\ Out = Rest(p) \cup Has(tf[p], ex[p]) /\ Has(tf[p], ex[p]) = {tf[p]} \cup ex[p].argv
         /\ Has(tf[p], ex[p]) \cap Rest(p) = {} /\ tf[p] \notin ex[p].argv /\ tf[p] \in Page /\ tf[p] # NoPage
         /\ Own(p) \in Table /\ New(p) \in Table /\ Own(p) # New(p) /\ ex[p] \in Exec
         /\ sz[p] \in Nat /\ sz[p] <= TrapframeVa /\ Pages(sz[p]) \in Nat /\ Pages(sz[p]) <= TRAPFRAME
         /\ Held(Space(m, Own(p)), tf[p], sz[p]) /\ ProcInv(m, p, state[p], sz[p], tf[p], ex[p])
<1>1. /\ Sound(m, Out) /\ Out = Rest(p) \cup Has(tf[p], ex[p])
      /\ Has(tf[p], ex[p]) \cap Rest(p) = {} /\ tf[p] \notin ex[p].argv
      /\ Own(p) \in Table /\ New(p) \in Table /\ Own(p) # New(p) /\ ex[p] \in Exec /\ tf[p] \in 0..NPAGES
      /\ ProcInv(m, p, state[p], sz[p], tf[p], ex[p])
  BY Start
<1>2. Held(Space(m, Own(p)), tf[p], sz[p]) /\ tf[p] # NoPage
  BY <1>1 DEF ProcInv
<1>3. tf[p] \in Page /\ Has(tf[p], ex[p]) = {tf[p]} \cup ex[p].argv
  BY <1>1, <1>2, SizesAssumption DEF Page, NoPage, Has
<1> QED BY <1>1, <1>2, <1>3, Sized

(* The new table changes, and what exec() has; the memory does not. *)
LEMMA AsideStep ==
  ASSUME MemInv, NEW p \in Proc, state[p] \in {"user", "exec"}, NEW r, NEW st \in {"user", "exec"}, NEW e \in Exec,
         state' = [state EXCEPT ![p] = st], sz' = sz, tf' = tf, ex' = [ex EXCEPT ![p] = e], Becomes(r),
         Sound(r, Rest(p) \cup Has(tf[p], e)), tf[p] \notin e.argv, Has(tf[p], e) \cap Rest(p) = {},
         Others(r, m, New(p)), st = "user" => Space(r, New(p)) = NoSpace /\ e = NoExec,
         st = "exec" => /\ Pages(e.sz) + 2 <= TRAPFRAME /\ Held(Space(r, New(p)), tf[p], e.sz)
                        /\ Usable(Space(r, New(p)), e.sz)
  PROVE  MemInv' /\ Calls(p)
<1> DEFINE s == sz[p]
           g == tf[p]
<1>1. /\ sz' = [sz EXCEPT ![p] = s] /\ tf' = [tf EXCEPT ![p] = g] /\ g \in 0..NPAGES /\ s \in Nat
      /\ st \in States
  BY Start DEF States
<1>2. /\ Own(p) \in Table /\ New(p) \in Table /\ Own(p) # New(p) /\ g # NoPage /\ s <= TrapframeVa
      /\ Held(Space(m, Own(p)), g, s) /\ Pages(s) <= TRAPFRAME
  BY ExecStarts
<1>3. Space(r, Own(p)) = Space(m, Own(p))
  BY <1>2 DEF Others
<1>4. ProcInv(r, p, st, s, g, e)
  BY <1>2, <1>3 DEF ProcInv
<1>5. \A i \in Proc \ {p} : Space(r, Own(i)) = Space(m, Own(i)) /\ Space(r, New(i)) = Space(m, New(i))
  BY Elsewhere
<1> HIDE DEF s, g
<1>6. Sound(r, Rest(p) \cup Has(g, e)) /\ g \notin e.argv /\ Has(g, e) \cap Rest(p) = {}
  BY DEF g
<1>7. /\ MemInv' /\ MemoryOf(p)' = View(Space(r, Own(p)), s)
      /\ \A q \in Proc \ {p} : MemoryOf(q)' = MemoryOf(q)
  BY <1>1, <1>4, <1>5, <1>6, OneStep
<1>8. Promised!Resized(MemoryOf(p), MemoryOf(p)')
  <2>1. MemoryOf(p) = View(Space(m, Own(p)), s)
    BY Sized DEF s
  <2> QED BY <1>1, <1>2, <1>3, <1>7, <2>1, ResizedSame
<1>9. state[p] # "unused" /\ state'[p] # "unused" /\ \A q \in Proc \ {p} : state'[q] = state[q]
  BY DEF MemInv, TypeInv
<1> QED BY <1>7, <1>8, <1>9 DEF Calls, Same

(* What fails frees the new table and the arguments. *)
LEMMA ExecBadStep ==
  ASSUME MemInv, NEW p \in Proc, state[p] = "exec", NEW n, Sound(n, Out), Others(n, m, New(p)),
         NEW s \in Nat, Pages(s) <= TRAPFRAME, Within(n, New(p), s), ExecBad(p, n, s)
  PROVE  MemInv' /\ Calls(p)
<1> DEFINE argv == ex[p].argv
           c == ProcFreepagetable(n, New(p), s)
           d == FreeArgv(c, argv)
<1>1. /\ m' = Cleared(d) /\ state' = [state EXCEPT ![p] = "user"]
      /\ ex' = [ex EXCEPT ![p] = NoExec] /\ sz' = sz /\ tf' = tf
  BY DEF ExecBad, Done, Cleared
<1>2. /\ Out = Rest(p) \cup Has(tf[p], ex[p]) /\ Has(tf[p], ex[p]) = {tf[p]} \cup argv
      /\ Has(tf[p], ex[p]) \cap Rest(p) = {} /\ tf[p] \notin argv /\ tf[p] \in Page
      /\ New(p) \in Table
  BY ExecStarts
<1> HIDE DEF argv, c, d
<1>3. Sound(c, Out) /\ Others(c, n, New(p)) /\ Space(c, New(p)) = NoSpace
  BY <1>2, FreepagetableIs DEF c
<1>4. argv \subseteq Out
  BY <1>2
<1>5. Sound(d, Out \ argv) /\ Alike(d, c)
  BY <1>3, <1>4, FreeArgvIs DEF d
<1>6. Out \ argv = Rest(p) \cup Has(tf[p], NoExec) /\ Has(tf[p], NoExec) \cap Rest(p) = {} /\ tf[p] \notin NoExec.argv
  BY <1>2, NoExecIs
<1>7. Sound(d, Rest(p) \cup Has(tf[p], NoExec))
  BY <1>5, <1>6
<1>8. Others(c, m, New(p))
  BY <1>3, OthersThrough
<1>9. Others(d, m, New(p)) /\ Space(d, New(p)) = NoSpace
  BY <1>2, <1>3, <1>5, <1>8, OthersThrough DEF Alike
<1>10. Becomes(d)
  BY <1>1 DEF Becomes
<1> QED BY <1>1, <1>6, <1>7, <1>9, <1>10, NoExecIs, AsideStep

LEMMA NewSpaceHeld ==
  ASSUME NEW g
  PROVE  Held(NewSpace(g), g, 0) /\ Usable(NewSpace(g), 0) /\ Pages(0) + 2 <= TRAPFRAME
<1>1. /\ NewSpace(g).cells = NoCells /\ NewSpace(g).frame = Leaf(g, "kernel")
      /\ NewSpace(g).tramp = Leaf(Trampoline, "kernel") /\ NewSpace(g).tables = "some"
  BY Made DEF NewSpace
<1>2. Span(0, Pages(0)) = {}
  BY PagesZero DEF Span
<1> QED BY <1>1, <1>2, NoSpaceIs, PagesZero, Sizes DEF Held, Usable

LEMMA ExecStartStep ==
  ASSUME MemInv, NEW p \in Proc, ExecStart(p)
  PROVE  MemInv' /\ Calls(p)
<1> DEFINE a == Kalloc(m)
           g == a.got
           b == ProcPagetable(a, New(p), tf[p])
           c == FreeArgv(b, {g})
<1>1. /\ state[p] = "user" /\ sz' = sz /\ tf' = tf
      /\ ~a.ok => m' = Cleared(a) /\ state' = state /\ ex' = ex
      /\ a.ok /\ ~b.ok => m' = Cleared(c) /\ state' = state /\ ex' = ex
      /\ a.ok /\ b.ok => \E prog \in Programs :
           /\ m' = Cleared(b) /\ state' = [state EXCEPT ![p] = "exec"]
           /\ ex' = [ex EXCEPT ![p] = [segs |-> prog, sz |-> 0, argv |-> {g}]]
  BY DEF ExecStart, Done, Cleared
<1>2. /\ Sound(m, Out) /\ Out = Rest(p) \cup Has(tf[p], ex[p]) /\ Has(tf[p], ex[p]) = {tf[p]} \cup ex[p].argv
      /\ Has(tf[p], ex[p]) \cap Rest(p) = {} /\ tf[p] \in Page /\ tf[p] # NoPage
      /\ New(p) \in Table
      /\ ProcInv(m, p, "user", sz[p], tf[p], ex[p])
  BY <1>1, ExecStarts
<1>3. ex[p] = NoExec /\ Space(m, New(p)) = NoSpace
  BY <1>2 DEF ProcInv
<1>4. Has(tf[p], ex[p]) = {tf[p]} /\ tf[p] \in Out
  BY <1>2, <1>3, NoExecIs
<1> HIDE DEF a, b, c, g
<1>5. /\ Alike(a, m) /\ a.ok \in BOOLEAN
      /\ a.ok => g \in Page \ Out /\ Sound(a, Out \cup {g})
      /\ ~a.ok => Sound(a, Out)
  BY <1>2, KallocIs DEF a, g
<1>6. CASE ~a.ok
  <2>1. Becomes(a)
    BY <1>1, <1>6 DEF Becomes
  <2> QED BY <1>1, <1>5, <1>6, <2>1, NothingStep
<1>7. CASE a.ok
  <2>1. Space(a, New(p)) = NoSpace /\ tf[p] \in Out \cup {g}
    BY <1>2, <1>3, <1>4, <1>5 DEF Alike
  <2>2. /\ Sound(b, Out \cup {g}) /\ Others(b, a, New(p)) /\ b.ok \in BOOLEAN
        /\ b.ok => Space(b, New(p)) = NewSpace(tf[p])
        /\ ~b.ok => Space(b, New(p)) = NoSpace
    BY <1>2, <1>5, <1>7, <2>1, PagetableIs DEF b
  <2>3. Others(b, m, New(p))
    BY <1>5, <2>2, OthersThrough
  <2>4. CASE ~b.ok
    <3>1. Sound(c, (Out \cup {g}) \ {g}) /\ Alike(c, b)
      <4>1. {g} \subseteq Out \cup {g}
        OBVIOUS
      <4> QED BY <2>2, <4>1, FreeArgvIs DEF c
    <3>2. (Out \cup {g}) \ {g} = Out
      BY <1>5, <1>7
    <3>3. Alike(b, m)
      BY <1>2, <1>3, <2>2, <2>3, <2>4, AlikeOthers
    <3>4. Sound(c, Out) /\ Alike(c, m)
      BY <3>1, <3>2, <3>3 DEF Alike
    <3>5. Becomes(c)
      BY <1>1, <1>7, <2>4 DEF Becomes
    <3> QED BY <1>1, <1>7, <2>4, <3>4, <3>5, NothingStep
  <2>5. CASE b.ok
    <3>1. PICK prog \in Programs :
            /\ m' = Cleared(b) /\ state' = [state EXCEPT ![p] = "exec"]
            /\ ex' = [ex EXCEPT ![p] = [segs |-> prog, sz |-> 0, argv |-> {g}]]
      BY <1>1, <1>7, <2>5
    <3> DEFINE e == [segs |-> prog, sz |-> 0, argv |-> {g}]
    <3>2. e \in Exec /\ e.argv = {g} /\ e.sz = 0
      BY <1>5, <1>7, ProgramAssumption DEF Exec
    <3>3. ex' = [ex EXCEPT ![p] = e]
      BY <3>1
    <3> HIDE DEF e
    <3>4. /\ Has(tf[p], e) = {tf[p]} \cup {g} /\ tf[p] \notin e.argv /\ Has(tf[p], e) \cap Rest(p) = {}
          /\ Out \cup {g} = Rest(p) \cup Has(tf[p], e)
      BY <1>2, <1>4, <1>5, <1>7, <3>2 DEF Has
    <3>5. Sound(b, Rest(p) \cup Has(tf[p], e))
      BY <2>2, <3>4
    <3>6. Pages(e.sz) + 2 <= TRAPFRAME /\ Held(Space(b, New(p)), tf[p], e.sz) /\ Usable(Space(b, New(p)), e.sz)
      BY <2>2, <2>5, <3>2, NewSpaceHeld
    <3>7. Becomes(b)
      BY <3>1 DEF Becomes
    <3> QED BY <1>1, <2>3, <3>1, <3>2, <3>3, <3>4, <3>5, <3>6, <3>7, AsideStep
  <2> QED BY <2>2, <2>4, <2>5
<1> QED BY <1>5, <1>6, <1>7

LEMMA SegmentIs ==
  ASSUME NEW segs \in Seq(FitSegment), segs # <<>>
  PROVE  /\ Tail(segs) \in Seq(FitSegment)
         /\ LET seg == Head(segs) IN
            /\ seg.from \in Nat /\ seg.end \in Nat /\ seg.perm \in {"r", "rw"} /\ seg.val \in Stored
            /\ Pages(seg.end) + 2 <= TRAPFRAME
<1>1. Head(segs) \in FitSegment /\ Tail(segs) \in Seq(FitSegment)
  OBVIOUS
<1> QED BY <1>1 DEF FitSegment, Segment, Stored

(* The pages of a segment are added to the new table. *)
Larger(a, b) == IF b < a THEN a ELSE b

LEMMA SegmentAlloc ==
  ASSUME NEW n, NEW out, Sound(n, out), NEW k \in Table, n.tab[k] # NoTable,
         NEW a \in Nat, NEW b \in Nat, Pages(Larger(a, b)) <= TRAPFRAME,
         NEW perm \in Perms, Trim(n, k, a)
  PROVE  LET r == Uvmalloc(n, k, a, b, perm) IN
         /\ Sound(r, out) /\ Others(r, n, k) /\ r.ok \in BOOLEAN
         /\ ~r.ok => Space(r, k) = Space(n, k)
         /\ r.ok => /\ Rim(Space(r, k), Space(n, k))
                    /\ \A v \in UserVpn : Cell(r, k, v) =
                         IF v \in Span(Pages(a), Pages(Larger(a, b))) THEN Full(perm, Zero) ELSE Cell(n, k, v)
<1> DEFINE r == Uvmalloc(n, k, a, b, perm)
           s == Larger(a, b)
<1>0. s = (IF b < a THEN a ELSE b) /\ s \in Nat /\ Pages(s) <= TRAPFRAME
  BY DEF Larger
<1> HIDE DEF s
<1>1. CASE b < a
  <2>1. r = Ok(n) /\ s = a
    BY <1>0, <1>1 DEF Uvmalloc
  <2> HIDE DEF r
  <2>2. Sound(r, out) /\ Alike(r, n) /\ r.ok
    BY <2>1, OkIs
  <2>3. Space(r, k) = Space(n, k) /\ Others(r, n, k)
    BY <2>2 DEF Alike, Others
  <2>4. Span(Pages(a), Pages(s)) = {}
    BY <1>0, <2>1, SpanGrows
  <2>5. Rim(Space(r, k), Space(n, k)) /\ \A v \in UserVpn : Cell(r, k, v) = Cell(n, k, v)
    BY <2>3, SameCells
  <2> QED BY <2>2, <2>3, <2>4, <2>5 DEF r, s
<1>2. CASE ~(b < a)
  <2>1. s = b /\ a <= s /\ Pages(a) \in Nat /\ Pages(s) \in Nat /\ Pages(a) <= Pages(s)
    BY <1>0, <1>2, PagesIs, PagesGrow
  <2>2. \A w \in UserVpn : w \in Span(Pages(a), Pages(s)) => Cell(n, k, w) = NoCell
    BY <2>1 DEF Span, Trim, UserVpn
  <2>3. Allocated(r, n, k, out, Pages(a), Pages(s), perm)
    BY <1>0, <2>1, <2>2, AllocIs
  <2> HIDE DEF r
  <2>4. /\ Sound(r, out) /\ Others(r, n, k) /\ r.ok \in BOOLEAN
        /\ r.ok => Space(r, k) = Fill(Space(n, k), Span(Pages(a), Pages(s)), Full(perm, Zero))
        /\ ~r.ok => Space(r, k) = Space(n, k)
    BY <2>3 DEF Allocated
  <2>5. ASSUME r.ok
        PROVE  /\ Rim(Space(r, k), Space(n, k))
               /\ \A v \in UserVpn : Cell(r, k, v) =
                    IF v \in Span(Pages(a), Pages(s)) THEN Full(perm, Zero) ELSE Cell(n, k, v)
    <3>1. Space(r, k) = Fill(Space(n, k), Span(Pages(a), Pages(s)), Full(perm, Zero))
      BY <2>4, <2>5
    <3>2. /\ Space(r, k).frame = Space(n, k).frame /\ Space(r, k).tramp = Space(n, k).tramp
          /\ Space(r, k).tables = Space(n, k).tables
          /\ \A v \in UserVpn : Space(r, k).cells[v] =
               IF v \in Span(Pages(a), Pages(s)) THEN Full(perm, Zero) ELSE Space(n, k).cells[v]
      BY <3>1, Made DEF Fill
    <3>3. \A v \in UserVpn : Space(r, k).cells[v] = Cell(r, k, v) /\ Space(n, k).cells[v] = Cell(n, k, v)
      BY Spaces
    <3> QED BY <3>2, <3>3 DEF Rim
  <2> QED BY <2>4, <2>5 DEF r, s
<1> QED BY <1>1, <1>2

(* A table in terms of cells. *)
LEMMA HeldIs ==
  ASSUME NEW n, NEW k, NEW g, NEW s
  PROVE  /\ Held(Space(n, k), g, s) <=>
              /\ Space(n, k).frame = Leaf(g, "kernel") /\ Space(n, k).tramp = Leaf(Trampoline, "kernel")
              /\ Space(n, k).tables = "some" /\ Trim(n, k, s)
         /\ Usable(Space(n, k), s) <=>
              \A v \in UserVpn : v \in Span(0, Pages(s)) => Cell(n, k, v).perm \in {"r", "rw"}
<1>1. \A v \in UserVpn : Space(n, k).cells[v] = Cell(n, k, v)
  BY Spaces
<1> QED BY <1>1 DEF Held, Usable, Trim

LEMMA ExecSegmentStep ==
  ASSUME MemInv, NEW p \in Proc, ExecSegment(p)
  PROVE  MemInv' /\ Calls(p)
<1> DEFINE k == New(p)
           e == ex[p]
           seg == Head(e.segs)
           end == seg.end
           a == Uvmalloc(m, k, e.sz, end, seg.perm)
           s == IF end < e.sz THEN e.sz ELSE end
           r == Loadseg(a, k, seg)
           f == [segs |-> Tail(e.segs), sz |-> s, argv |-> e.argv]
<1>1. state[p] = "exec" /\ e.segs # <<>>
  BY DEF ExecSegment
<1>2. /\ Sound(m, Out) /\ Out = Rest(p) \cup Has(tf[p], e) /\ Has(tf[p], e) \cap Rest(p) = {}
      /\ tf[p] \notin e.argv /\ k \in Table /\ e \in Exec
      /\ ProcInv(m, p, "exec", sz[p], tf[p], e)
  BY <1>1, ExecStarts
<1>3. /\ Pages(e.sz) + 2 <= TRAPFRAME /\ Held(Space(m, k), tf[p], e.sz) /\ Usable(Space(m, k), e.sz)
  BY <1>2 DEF ProcInv
<1>4. e.sz \in Nat /\ e.segs \in Seq(FitSegment)
  BY <1>2 DEF Exec
<1>5. /\ Tail(e.segs) \in Seq(FitSegment) /\ seg.from \in Nat /\ end \in Nat /\ seg.perm \in {"r", "rw"}
      /\ seg.val \in Stored /\ Pages(end) + 2 <= TRAPFRAME
  BY <1>1, <1>4, SegmentIs
<1>6. \/ ~a.ok \/ s = 0
      \/ /\ ~(~a.ok \/ s = 0)
         /\ \/ /\ m' = Cleared(r) /\ ex' = [ex EXCEPT ![p] = f] /\ UNCHANGED <<state, sz, tf>>
            \/ ExecBad(p, r, s)
  BY Zenon DEF ExecSegment, Done, Cleared
<1>7. ~a.ok \/ s = 0 => ExecBad(p, a, e.sz)
  BY DEF ExecSegment
<1>8. /\ s \in Nat /\ Pages(s) + 2 <= TRAPFRAME /\ Pages(e.sz) \in Nat /\ Pages(end) \in Nat
      /\ Pages(e.sz) <= Pages(s) /\ Pages(end) <= Pages(s) /\ Pages(s) \in Nat
  <2>1. s \in Nat /\ e.sz <= s /\ end <= s /\ (s = e.sz \/ s = end)
    BY <1>4, <1>5
  <2> HIDE DEF s, end, e
  <2> QED BY <1>3, <1>4, <1>5, <2>1, PagesIs, PagesGrow
<1>9. /\ m.tab[k] # NoTable /\ Trim(m, k, e.sz)
      /\ \A v \in UserVpn : v \in Span(0, Pages(e.sz)) => Cell(m, k, v).perm \in {"r", "rw"}
  BY <1>3, HeldIs, Rooted
<1>10. /\ Sound(a, Out) /\ Others(a, m, k) /\ a.ok \in BOOLEAN
       /\ ~a.ok => Space(a, k) = Space(m, k)
       /\ a.ok => /\ Rim(Space(a, k), Space(m, k))
                  /\ \A v \in UserVpn : Cell(a, k, v) =
                       IF v \in Span(Pages(e.sz), Pages(s)) THEN Full(seg.perm, Zero) ELSE Cell(m, k, v)
  <2>1. seg.perm \in Perms /\ Pages(s) <= TRAPFRAME
    BY <1>5, <1>8, Sizes, SMTT(20) DEF Perms
  <2> DEFINE x == e.sz
             perm == seg.perm
  <2>2. s = Larger(x, end) /\ x \in Nat /\ end \in Nat /\ Trim(m, k, x) /\ perm \in Perms
    BY <1>4, <1>5, <1>9, <2>1 DEF Larger
  <2> HIDE DEF s, end, e, seg, k, x, perm
  <2>3. LET r0 == Uvmalloc(m, k, x, end, perm) IN
        /\ Sound(r0, Out) /\ Others(r0, m, k) /\ r0.ok \in BOOLEAN
        /\ ~r0.ok => Space(r0, k) = Space(m, k)
        /\ r0.ok => /\ Rim(Space(r0, k), Space(m, k))
                    /\ \A v \in UserVpn : Cell(r0, k, v) =
                         IF v \in Span(Pages(x), Pages(s)) THEN Full(perm, Zero) ELSE Cell(m, k, v)
    BY <1>2, <1>9, <2>1, <2>2, SegmentAlloc
  <2> QED BY <2>3 DEF x, perm
<1> HIDE DEF a, r, s, end, seg, k
<1>11. CASE ~a.ok \/ s = 0
  <2>1. Within(a, k, e.sz)
    <3>1. CASE ~a.ok
      BY <1>9, <1>10, <3>1, SameCells DEF Trim, Within
    <3>2. CASE a.ok /\ s = 0
      <4>1. e.sz = s
        BY <1>4, <1>5, <3>2 DEF s
      <4>2. Span(Pages(e.sz), Pages(s)) = {}
        BY <1>8, <4>1 DEF Span
      <4> QED BY <1>9, <1>10, <3>2, <4>2 DEF Trim, Within
    <3> QED BY <1>11, <3>1, <3>2
  <2>2. Pages(e.sz) <= TRAPFRAME
    BY <1>3, <1>8, Sizes
  <2> QED BY <1>1, <1>4, <1>7, <1>10, <1>11, <2>1, <2>2, ExecBadStep DEF k
<1>12. CASE ~(~a.ok \/ s = 0)
  <2>1. /\ \A v \in UserVpn : v \in Span(0, Pages(s)) => Cell(a, k, v).perm \in {"r", "rw"}
        /\ Trim(a, k, s)
    <3>1. Full(seg.perm, Zero).perm \in {"r", "rw"}
      BY <1>5 DEF Full
    <3>2. /\ \A v \in UserVpn : Cell(a, k, v) =
               IF v \in Span(Pages(e.sz), Pages(s)) THEN Full(seg.perm, Zero) ELSE Cell(m, k, v)
      BY <1>10, <1>12
    <3>3. \A v \in UserVpn : v \in Span(0, Pages(s)) =>
             v \in Span(0, Pages(e.sz)) \/ v \in Span(Pages(e.sz), Pages(s))
      BY <1>8 DEF Span, UserVpn
    <3>4. \A v \in UserVpn : v \notin Span(0, Pages(s)) =>
             v \notin Span(0, Pages(e.sz)) /\ v \notin Span(Pages(e.sz), Pages(s))
      BY <1>8 DEF Span, UserVpn
    <3>5. \A v \in UserVpn : v \in Span(0, Pages(s)) => Cell(a, k, v).perm \in {"r", "rw"}
      BY <1>9, <3>1, <3>2, <3>3
    <3> QED BY <1>9, <3>2, <3>4, <3>5 DEF Trim
  <2>2. \A v \in UserVpn : v \in Span(seg.from, Pages(seg.end)) => v \in Span(0, Pages(s))
    BY <1>5, <1>8 DEF Span, UserVpn, end
  <2>3. /\ Sound(r, Out) /\ Others(r, a, k)
        /\ Space(r, k) = Loaded(Space(a, k), Span(seg.from, Pages(seg.end)), seg.val)
    <3>1. Pages(seg.end) \in Nat /\ Pages(seg.end) <= TRAPFRAME
      BY <1>5, <1>8, Sizes DEF end
    <3>2. \A v \in UserVpn : v \in Span(seg.from, Pages(seg.end)) => Cell(a, k, v).perm \in {"r", "rw"}
      BY <2>1, <2>2
    <3> QED BY <1>2, <1>5, <1>10, <3>1, <3>2, LoadsegIs DEF r
  <2>4. /\ Rim(Space(r, k), Space(a, k))
        /\ \A v \in UserVpn : Cell(r, k, v) =
             IF v \in Span(seg.from, Pages(seg.end)) THEN Full(Cell(a, k, v).perm, seg.val) ELSE Cell(a, k, v)
    <3>1. /\ Space(r, k).frame = Space(a, k).frame /\ Space(r, k).tramp = Space(a, k).tramp
          /\ Space(r, k).tables = Space(a, k).tables
          /\ \A v \in UserVpn : Space(r, k).cells[v] =
               IF v \in Span(seg.from, Pages(seg.end)) THEN Full(Space(a, k).cells[v].perm, seg.val)
               ELSE Space(a, k).cells[v]
      BY <2>3, Made DEF Loaded
    <3>2. \A v \in UserVpn : Space(r, k).cells[v] = Cell(r, k, v) /\ Space(a, k).cells[v] = Cell(a, k, v)
      BY Spaces
    <3> QED BY <3>1, <3>2 DEF Rim
  <2>5. /\ Trim(r, k, s)
        /\ \A v \in UserVpn : v \in Span(0, Pages(s)) => Cell(r, k, v).perm \in {"r", "rw"}
    <3>1. \A c : Full(c, seg.val).perm = c
      BY DEF Full
    <3>2. Trim(r, k, s)
      BY <2>1, <2>2, <2>4 DEF Trim
    <3>3. \A v \in UserVpn : Cell(r, k, v).perm = Cell(a, k, v).perm
      BY <2>4, <3>1
    <3> QED BY <2>1, <3>2, <3>3
  <2>6. Others(r, m, k)
    BY <1>10, <2>3, OthersThrough
  <2>7. CASE /\ m' = Cleared(r) /\ ex' = [ex EXCEPT ![p] = f] /\ UNCHANGED <<state, sz, tf>>
    <3>1. /\ f \in Exec /\ f.argv = e.argv /\ f.sz = s
      BY <1>2, <1>5, <1>8 DEF Exec
    <3> HIDE DEF f
    <3>2. Has(tf[p], f) = Has(tf[p], e)
      BY <3>1 DEF Has
    <3>3. Held(Space(r, k), tf[p], s) /\ Usable(Space(r, k), s)
      <4>1. /\ Space(m, k).frame = Leaf(tf[p], "kernel") /\ Space(m, k).tramp = Leaf(Trampoline, "kernel")
            /\ Space(m, k).tables = "some"
        BY <1>3 DEF Held
      <4>2. /\ Space(r, k).frame = Leaf(tf[p], "kernel") /\ Space(r, k).tramp = Leaf(Trampoline, "kernel")
            /\ Space(r, k).tables = "some"
        BY <1>10, <1>12, <2>4, <4>1 DEF Rim
      <4> QED BY <2>5, <4>2, HeldIs
    <3>4. Becomes(r) /\ state' = [state EXCEPT ![p] = "exec"] /\ sz' = sz /\ tf' = tf
      BY <1>1, <2>7 DEF Becomes, MemInv, TypeInv
    <3>5. Sound(r, Rest(p) \cup Has(tf[p], f)) /\ tf[p] \notin f.argv /\ Has(tf[p], f) \cap Rest(p) = {}
      BY <1>2, <2>3, <3>1, <3>2
    <3>6. Pages(f.sz) + 2 <= TRAPFRAME /\ Held(Space(r, New(p)), tf[p], f.sz) /\ Usable(Space(r, New(p)), f.sz)
      BY <1>8, <3>1, <3>3 DEF k
    <3>7. Others(r, m, New(p)) /\ ex' = [ex EXCEPT ![p] = f]
      BY <2>6, <2>7 DEF k
    <3> QED BY <1>1, <3>1, <3>4, <3>5, <3>6, <3>7, AsideStep
  <2>8. CASE ExecBad(p, r, s)
    <3>1. Within(r, k, s) /\ Pages(s) <= TRAPFRAME
      BY <2>5, <1>8, Sizes DEF Trim, Within
    <3> QED BY <1>1, <1>8, <2>3, <2>6, <2>8, <3>1, ExecBadStep DEF k
  <2> QED BY <1>6, <1>12, <2>7, <2>8
<1> QED BY <1>11, <1>12

(* The new table takes the place of the old one. *)
Swap(n, k, o) == [n EXCEPT !.tab[k] = n.tab[o], !.tab[o] = n.tab[k],
                           !.pte[k] = n.pte[o], !.pte[o] = n.pte[k]]
Twin(k, o, l) == IF l = k THEN o ELSE IF l = o THEN k ELSE l

LEMMA TwinIs ==
  ASSUME NEW k \in Table, NEW o \in Table
  PROVE  \A l \in Table : Twin(k, o, l) \in Table /\ Twin(k, o, Twin(k, o, l)) = l
  BY DEF Twin

LEMMA SwapFields ==
  ASSUME NEW n, n \in Memory, NEW k \in Table, NEW o \in Table, k # o
  PROVE  LET r == Swap(n, k, o) IN
         /\ r \in Memory /\ r.free = n.free /\ r.data = n.data /\ r.panic = n.panic /\ r.ok = n.ok
         /\ \A l \in Table : r.tab[l] = n.tab[Twin(k, o, l)] /\ r.pte[l] = n.pte[Twin(k, o, l)]
<1> DEFINE tab == [n.tab EXCEPT ![k] = n.tab[o], ![o] = n.tab[k]]
           pte == [n.pte EXCEPT ![k] = n.pte[o], ![o] = n.pte[k]]
           r == Swap(n, k, o)
<1>1. /\ n.free \in [Page -> Nat] /\ n.data \in [Page -> Stored \cup {Junk}]
      /\ n.tab \in [Table -> [Node -> 0..NPAGES]] /\ n.pte \in [Table -> [Vpn -> Pte]]
      /\ n.ok \in BOOLEAN /\ n.got \in 0..NPAGES /\ n.panic \in BOOLEAN
  BY Fields
<1>2. tab \in [Table -> [Node -> 0..NPAGES]] /\ pte \in [Table -> [Vpn -> Pte]]
  BY <1>1
<1>3. \A l \in Table : tab[l] = n.tab[Twin(k, o, l)] /\ pte[l] = n.pte[Twin(k, o, l)]
  BY <1>1 DEF Twin
<1>4. r = [n EXCEPT !.tab = tab, !.pte = pte]
  BY Fields DEF Swap, Memory
<1> HIDE DEF tab, pte, r
<1>5. /\ r.tab = tab /\ r.pte = pte /\ r.free = n.free /\ r.data = n.data /\ r.panic = n.panic /\ r.ok = n.ok
      /\ r \in Memory
  BY <1>2, <1>4 DEF Memory
<1> QED BY <1>3, <1>5 DEF r

LEMMA SwapIs ==
  ASSUME NEW n, NEW out, Sound(n, out), NEW k \in Table, NEW o \in Table, k # o
  PROVE  LET r == Swap(n, k, o) IN
         /\ Sound(r, out) /\ r.ok = n.ok /\ Space(r, k) = Space(n, o) /\ Space(r, o) = Space(n, k)
         /\ \A l \in Table \ {k, o} : Space(r, l) = Space(n, l)
<1> DEFINE r == Swap(n, k, o)
           G(l) == Twin(k, o, l)
<1>1. /\ r \in Memory /\ r.free = n.free /\ r.data = n.data /\ r.panic = n.panic /\ r.ok = n.ok
      /\ \A l \in Table : r.tab[l] = n.tab[G(l)] /\ r.pte[l] = n.pte[G(l)]
  BY SwapFields DEF Sound
<1>2. \A l \in Table : G(l) \in Table /\ G(G(l)) = l
  BY TwinIs
<1>3. G(k) = o /\ G(o) = k /\ \A l \in Table \ {k, o} : G(l) = l
  BY DEF Twin
<1> HIDE DEF r, G
<1>4. TablesOnce(r, out)
  <2> SUFFICES ASSUME NEW l \in Table, NEW x \in Node, r.tab[l][x] # NoPage
               PROVE  /\ r.tab[l][x] \notin out
                      /\ \A j \in Table, y \in Node : r.tab[j][y] = r.tab[l][x] => j = l /\ y = x
                      /\ \A j \in Table, v \in UserVpn : r.pte[j][v].page # r.tab[l][x]
    BY DEF TablesOnce
  <2>1. r.tab[l][x] = n.tab[G(l)][x] /\ G(l) \in Table
    BY <1>1, <1>2
  <2>2. /\ n.tab[G(l)][x] \notin out
        /\ \A j \in Table, y \in Node : n.tab[j][y] = n.tab[G(l)][x] => j = G(l) /\ y = x
        /\ \A j \in Table, v \in UserVpn : n.pte[j][v].page # n.tab[G(l)][x]
    BY <2>1 DEF Sound, TablesOnce
  <2>3. ASSUME NEW j \in Table, NEW y \in Node, r.tab[j][y] = r.tab[l][x] PROVE j = l /\ y = x
    <3>1. n.tab[G(j)][y] = n.tab[G(l)][x] /\ G(j) \in Table
      BY <1>1, <1>2, <2>1, <2>3
    <3>2. G(j) = G(l) /\ y = x
      BY <2>2, <3>1
    <3> QED BY <1>2, <3>2
  <2>4. ASSUME NEW j \in Table, NEW v \in UserVpn PROVE r.pte[j][v].page # r.tab[l][x]
    BY <1>1, <1>2, <2>1, <2>2
  <2> QED BY <2>1, <2>2, <2>3, <2>4
<1>5. MappedOnce(r, out)
  <2> SUFFICES ASSUME NEW l \in Table, NEW v \in UserVpn, r.pte[l][v] # NoPte
               PROVE  /\ r.pte[l][v].page \in Page \ out
                      /\ r.pte[l][v].perm \in Perms
                      /\ r.data[r.pte[l][v].page] \in Stored
                      /\ \A j \in Table, w \in UserVpn : r.pte[j][w].page = r.pte[l][v].page => j = l /\ w = v
    BY DEF MappedOnce
  <2>1. r.pte[l][v] = n.pte[G(l)][v] /\ G(l) \in Table
    BY <1>1, <1>2
  <2>2. /\ n.pte[G(l)][v].page \in Page \ out
        /\ n.pte[G(l)][v].perm \in Perms
        /\ n.data[n.pte[G(l)][v].page] \in Stored
        /\ \A j \in Table, w \in UserVpn : n.pte[j][w].page = n.pte[G(l)][v].page => j = G(l) /\ w = v
    BY <2>1 DEF Sound, MappedOnce
  <2>3. ASSUME NEW j \in Table, NEW w \in UserVpn, r.pte[j][w].page = r.pte[l][v].page PROVE j = l /\ w = v
    <3>1. n.pte[G(j)][w].page = n.pte[G(l)][v].page /\ G(j) \in Table
      BY <1>1, <1>2, <2>1, <2>3
    <3>2. G(j) = G(l) /\ w = v
      BY <2>2, <3>1
    <3> QED BY <1>2, <3>2
  <2> QED BY <1>1, <2>1, <2>2, <2>3
<1>6. Counted(r, out)
  <2>1. \A g : HasTable(r, g) <=> HasTable(n, g)
    <3> SUFFICES ASSUME NEW g PROVE HasTable(r, g) <=> HasTable(n, g)
      OBVIOUS
    <3>1. ASSUME NEW l \in Table, NEW x \in Node, r.tab[l][x] = g PROVE HasTable(n, g)
      BY <1>1, <1>2, <3>1 DEF HasTable
    <3>2. ASSUME NEW l \in Table, NEW x \in Node, n.tab[l][x] = g PROVE HasTable(r, g)
      <4>1. G(l) \in Table /\ r.tab[G(l)][x] = g
        BY <1>1, <1>2, <3>2
      <4> QED BY <4>1 DEF HasTable
    <3> QED BY <3>1, <3>2 DEF HasTable
  <2>2. \A g : Mapped(r, g) <=> Mapped(n, g)
    <3> SUFFICES ASSUME NEW g PROVE Mapped(r, g) <=> Mapped(n, g)
      OBVIOUS
    <3>1. ASSUME NEW l \in Table, NEW x \in UserVpn, r.pte[l][x].page = g PROVE Mapped(n, g)
      BY <1>1, <1>2, <3>1 DEF Mapped
    <3>2. ASSUME NEW l \in Table, NEW x \in UserVpn, n.pte[l][x].page = g PROVE Mapped(r, g)
      <4>1. G(l) \in Table /\ r.pte[G(l)][x].page = g
        BY <1>1, <1>2, <3>2
      <4> QED BY <4>1 DEF Mapped
    <3> QED BY <3>1, <3>2 DEF Mapped
  <2>3. Counted(n, out) /\ r.free = n.free
    BY <1>1 DEF Sound
  <2> QED BY <2>1, <2>2, <2>3 DEF Counted
<1>7. Sound(r, out)
  BY <1>1, <1>4, <1>5, <1>6 DEF Sound
<1>8. \A l \in Table : Space(r, l) = Space(n, G(l))
  <2> SUFFICES ASSUME NEW l \in Table PROVE Space(r, l) = Space(n, G(l))
    OBVIOUS
  <2>1. r.pte[l] = n.pte[G(l)] /\ r.tab[l] = n.tab[G(l)] /\ r.data = n.data
    BY <1>1
  <2>2. \A v \in UserVpn : Cell(r, l, v) = Cell(n, G(l), v)
    BY <2>1 DEF Cell
  <2>3. CellsOf(r, l) = CellsOf(n, G(l))
    BY <2>2 DEF CellsOf
  <2>4. TablesOf(r, l) = TablesOf(n, G(l))
    BY <2>1 DEF TablesOf
  <2> QED BY <2>1, <2>3, <2>4 DEF Space
<1> QED BY <1>1, <1>3, <1>7, <1>8 DEF r

(* What the new program starts with. *)
LEMMA ExecutedIs ==
  ASSUME NEW n, NEW out, Sound(n, out), NEW k \in Table, NEW q \in Nat, q + 2 <= TRAPFRAME,
         NEW size, Pages(size) = q + 2, NEW val,
         \A v \in UserVpn : v \in Span(0, q) => Cell(n, k, v).perm \in {"r", "rw"},
         Cell(n, k, q) = Full("guard", Zero), Cell(n, k, q + 1) = Full("rw", val)
  PROVE  Promised!Executed(View(Space(n, k), size))
<1> DEFINE new == View(Space(n, k), size)
           i == q + 2
<1>1. /\ \A v \in 0..(i - 1) : v \in UserVpn /\ (v \in Span(0, q) \/ v = q \/ v = q + 1)
      /\ i \in 2..TRAPFRAME /\ i - 2 = q /\ i - 1 = q + 1 /\ q \in 0..(i - 1) /\ q + 1 \in 0..(i - 1)
  BY Sizes DEF UserVpn, Span
<1>2. new = [v \in 0..(i - 1) |-> Seen(Space(n, k).cells[v])]
  BY DEF View
<1>3. \A v \in UserVpn : Space(n, k).cells[v] = Cell(n, k, v)
  BY Spaces
<1>4. NoCell.perm = "none" /\ \A a, b : Full(a, b).perm = a
  BY DEF NoCell, Full
<1>5. ASSUME NEW v \in 0..(i - 1)
      PROVE  Seen(Cell(n, k, v)) = Cell(n, k, v) /\ Cell(n, k, v) \in [perm : {"r", "rw", "guard"}, val : Stored]
  <2>1. Cell(n, k, v).perm \in {"r", "rw", "guard"} /\ v \in UserVpn
    BY <1>1, <1>4
  <2>2. Cell(n, k, v) # NoCell
    BY <1>4, <2>1
  <2>3. Seen(Cell(n, k, v)) = Cell(n, k, v)
    BY <2>2 DEF Seen
  <2>4. n.pte[k][v] # NoPte
    BY <2>1, <2>2, CellIs
  <2>5. Cell(n, k, v).val \in Stored
    BY <2>1, <2>4, CellIs
  <2>6. Cell(n, k, v) = [perm |-> Cell(n, k, v).perm, val |-> Cell(n, k, v).val]
    BY <2>4 DEF Cell
  <2> QED BY <2>1, <2>3, <2>5, <2>6
<1>6. \A v \in 0..(i - 1) : Seen(Space(n, k).cells[v]) = Cell(n, k, v)
  BY <1>1, <1>3, <1>5
<1> HIDE DEF new, i
<1>7. \A v \in 0..(i - 1) : new[v] = Cell(n, k, v)
  BY <1>2, <1>6
<1>8. new \in [0..(i - 1) -> Promised!Cell]
  BY <1>2, <1>5, <1>6 DEF Promised!Cell, Stored
<1>9. new[i - 2] = Promised!GuardCell /\ new[i - 1].perm = "rw"
  BY <1>1, <1>4, <1>7 DEF Promised!GuardCell, Full, Zero
<1>10. Promised!Executed(new)
  BY <1>1, <1>8, <1>9 DEF Promised!Executed
<1> QED BY <1>10 DEF new

LEMMA StackSizes ==
  ASSUME NEW q \in Nat, q + 2 <= TRAPFRAME
  PROVE  LET s == q * PGSIZE IN
         /\ s \in Nat /\ s + 2 * PGSIZE \in Nat /\ s <= s + 2 * PGSIZE /\ s + 2 * PGSIZE <= TrapframeVa
         /\ Pages(s) = q /\ Pages(s + 2 * PGSIZE) = q + 2
<1>1. PGSIZE \in Nat /\ PGSIZE > 0 /\ TRAPFRAME \in Nat
  BY SizesAssumption, Sizes
<1>2. q * PGSIZE \in Nat /\ (q + 2) * PGSIZE = q * PGSIZE + 2 * PGSIZE /\ 2 * PGSIZE \in Nat
  BY <1>1
<1>3. (q + 2) * PGSIZE <= TRAPFRAME * PGSIZE
  BY <1>1
<1>4. Pages(q * PGSIZE) = q /\ Pages((q + 2) * PGSIZE) = q + 2
  BY PagesWhole
<1>5. TRAPFRAME * PGSIZE = TrapframeVa
  BY DEF TrapframeVa
<1> DEFINE s == q * PGSIZE
           t == 2 * PGSIZE
<1>6. (q + 2) * PGSIZE = s + t /\ s \in Nat /\ t \in Nat /\ Pages(s) = q /\ Pages(s + t) = q + 2
  BY <1>2, <1>4
<1>7. s + t <= TrapframeVa
  BY <1>3, <1>5, <1>6
<1> HIDE DEF s, t
<1>8. s + t \in Nat /\ s <= s + t
  BY <1>6
<1> QED BY <1>6, <1>7, <1>8 DEF s, t

LEMMA ExecCommitStep ==
  ASSUME MemInv, NEW p \in Proc, ExecCommit(p)
  PROVE  MemInv' /\ Calls(p)
<1> DEFINE k == New(p)
           o == Own(p)
           e == ex[p]
           q == Pages(e.sz)
           s == q * PGSIZE
           t == s + 2 * PGSIZE
           a == Uvmalloc(m, k, s, t, "rw")
           b == Uvmclear(a, k, Pages(s))
           C(val) == CopyoutPage(b, k, sz[p], Pages(s) + 1, val)
           D(val) == ProcFreepagetable(Swap(C(val), k, o), k, sz[p])
           F(val) == FreeArgv(D(val), e.argv)
<1>1. PICK val \in Val :
        \/ ~a.ok /\ ExecBad(p, a, s)
        \/ a.ok /\ ExecBad(p, b, t)
        \/ /\ a.ok /\ C(val).ok
           /\ m' = Cleared(F(val))
           /\ state' = [state EXCEPT ![p] = "user"] /\ sz' = [sz EXCEPT ![p] = t]
           /\ ex' = [ex EXCEPT ![p] = NoExec] /\ tf' = tf
  BY Zenon DEF ExecCommit, Done, Cleared, Swap
<1> DEFINE c == C(val)
           w == Swap(c, k, o)
           d == D(val)
           f == F(val)
<1>2. state[p] = "exec"
  BY DEF ExecCommit
<1>3. /\ Sound(m, Out) /\ Out = Rest(p) \cup Has(tf[p], e) /\ Has(tf[p], e) = {tf[p]} \cup e.argv
      /\ Has(tf[p], e) \cap Rest(p) = {} /\ tf[p] \notin e.argv /\ tf[p] \in Page /\ tf[p] # NoPage
      /\ o \in Table /\ k \in Table /\ o # k /\ e \in Exec
      /\ sz[p] \in Nat /\ sz[p] <= TrapframeVa /\ Pages(sz[p]) \in Nat /\ Pages(sz[p]) <= TRAPFRAME
      /\ Held(Space(m, o), tf[p], sz[p]) /\ ProcInv(m, p, "exec", sz[p], tf[p], e)
  BY <1>2, ExecStarts
<1>4. /\ q + 2 <= TRAPFRAME /\ Held(Space(m, k), tf[p], e.sz) /\ Usable(Space(m, k), e.sz) /\ q \in Nat
  <2>1. e.sz \in Nat
    BY <1>3 DEF Exec
  <2> QED BY <1>3, <2>1, PagesIs DEF ProcInv
<1>5. s \in Nat /\ t \in Nat /\ s <= t /\ t <= TrapframeVa /\ Pages(s) = q /\ Pages(t) = q + 2
  BY <1>4, StackSizes
<1>6. q \in UserVpn /\ q + 1 \in UserVpn
  BY <1>4, Sizes DEF UserVpn
<1>7. /\ m.tab[k] # NoTable /\ Trim(m, k, e.sz)
      /\ \A v \in UserVpn : v \in Span(0, q) => Cell(m, k, v).perm \in {"r", "rw"}
      /\ Space(m, k).frame = Leaf(tf[p], "kernel") /\ Space(m, k).tramp = Leaf(Trampoline, "kernel")
      /\ Space(m, k).tables = "some"
  BY <1>4, HeldIs, Rooted
<1>8. \A v \in UserVpn : v \notin Span(0, q) => Cell(m, k, v) = NoCell
  BY <1>7 DEF Trim
<1> HIDE DEF t, s, q
<1>9. /\ Sound(a, Out) /\ Others(a, m, k) /\ a.ok \in BOOLEAN
      /\ ~a.ok => Space(a, k) = Space(m, k)
      /\ a.ok => Space(a, k) = Fill(Space(m, k), Span(q, q + 2), Full("rw", Zero))
  <2>1. \A v \in UserVpn : v \in Span(Pages(s), Pages(t)) => Cell(m, k, v) = NoCell
    <3>1. \A v \in UserVpn : v \in Span(q, q + 2) => v \notin Span(0, q)
      BY <1>4 DEF Span, UserVpn
    <3> QED BY <1>5, <1>8, <3>1
  <2>2. Pages(t) <= TRAPFRAME /\ "rw" \in Perms
    BY <1>4, <1>5 DEF Perms
  <2>3. Allocated(a, m, k, Out, Pages(s), Pages(t), "rw")
    BY <1>3, <1>5, <1>7, <2>1, <2>2, AllocIs
  <2> HIDE DEF a
  <2> QED BY <1>5, <2>3 DEF Allocated
<1> HIDE DEF a
<1>10. CASE ~a.ok /\ ExecBad(p, a, s)
  <2>1. Within(a, k, s)
    BY <1>5, <1>8, <1>9, <1>10, SameCells DEF Within
  <2>2. Pages(s) <= TRAPFRAME
    BY <1>4, <1>5, Sizes
  <2> QED BY <1>2, <1>5, <1>9, <1>10, <2>1, <2>2, ExecBadStep
<1>11. ASSUME a.ok
       PROVE  /\ Sound(b, Out) /\ Others(b, m, k) /\ Rim(Space(b, k), Space(m, k))
              /\ \A v \in UserVpn : Cell(b, k, v) =
                   IF v = q THEN Full("guard", Zero)
                   ELSE IF v = q + 1 THEN Full("rw", Zero) ELSE Cell(m, k, v)
  <2>1. /\ Rim(Space(a, k), Space(m, k))
        /\ \A v \in UserVpn : Cell(a, k, v) = IF v \in Span(q, q + 2) THEN Full("rw", Zero) ELSE Cell(m, k, v)
    <3>1. /\ Space(a, k).frame = Space(m, k).frame /\ Space(a, k).tramp = Space(m, k).tramp
          /\ Space(a, k).tables = Space(m, k).tables
          /\ \A v \in UserVpn : Space(a, k).cells[v] =
               IF v \in Span(q, q + 2) THEN Full("rw", Zero) ELSE Space(m, k).cells[v]
      BY <1>9, <1>11, Made DEF Fill
    <3>2. \A v \in UserVpn : Space(a, k).cells[v] = Cell(a, k, v) /\ Space(m, k).cells[v] = Cell(m, k, v)
      BY Spaces
    <3> QED BY <3>1, <3>2 DEF Rim
  <2>2. \A v \in UserVpn : v \in Span(q, q + 2) <=> v = q \/ v = q + 1
    BY <1>4 DEF Span, UserVpn
  <2>3. Cell(a, k, q) = Full("rw", Zero)
    BY <1>6, <2>1, <2>2
  <2>4. a.pte[k][q] # NoPte /\ Full("rw", Zero).val = Zero
    <3>1. Full("rw", Zero) # NoCell /\ Full("rw", Zero).val = Zero
      BY DEF Full, NoCell
    <3> QED BY <1>3, <1>6, <1>9, <2>3, <3>1, CellIs
  <2>5. b = Uvmclear(a, k, q)
    BY <1>5
  <2> HIDE DEF b
  <2>6. Sound(b, Out) /\ Others(b, a, k) /\ Space(b, k) = Put(Space(a, k), q, Full("guard", Cell(a, k, q).val))
    BY <1>3, <1>6, <1>9, <2>4, <2>5, ClearIs
  <2>7. Space(b, k) = Put(Space(a, k), q, Full("guard", Zero))
    BY <2>3, <2>4, <2>6
  <2>8. /\ Rim(Space(b, k), Space(a, k))
        /\ \A v \in UserVpn : Cell(b, k, v) = IF v = q THEN Full("guard", Zero) ELSE Cell(a, k, v)
    BY <1>6, <2>7, PutCells
  <2>9. Others(b, m, k)
    BY <1>9, <2>6, OthersThrough
  <2> QED BY <2>1, <2>2, <2>6, <2>8, <2>9 DEF Rim
<1> HIDE DEF b
<1>12. CASE a.ok /\ ExecBad(p, b, t)
  <2>1. Within(b, k, t)
    <3>1. \A v \in UserVpn : v \notin Span(0, q + 2) => v # q /\ v # q + 1 /\ v \notin Span(0, q)
      BY <1>4 DEF Span, UserVpn
    <3> QED BY <1>5, <1>8, <1>11, <1>12, <3>1 DEF Within
  <2>2. Pages(t) <= TRAPFRAME
    BY <1>4, <1>5
  <2> QED BY <1>2, <1>5, <1>11, <1>12, <2>1, <2>2, ExecBadStep
<1>13. CASE /\ a.ok /\ c.ok
            /\ m' = Cleared(f)
            /\ state' = [state EXCEPT ![p] = "user"] /\ sz' = [sz EXCEPT ![p] = t]
            /\ ex' = [ex EXCEPT ![p] = NoExec] /\ tf' = tf
  <2>1. /\ Sound(b, Out) /\ Others(b, m, k) /\ Rim(Space(b, k), Space(m, k))
        /\ \A v \in UserVpn : Cell(b, k, v) =
             IF v = q THEN Full("guard", Zero)
             ELSE IF v = q + 1 THEN Full("rw", Zero) ELSE Cell(m, k, v)
    BY <1>11, <1>13
  <2>2. c = CopyoutPage(b, k, sz[p], q + 1, val) /\ val \in Stored /\ b.tab[k] # NoTable
    <3>1. Space(b, k).tables = "some"
      BY <1>7, <2>1 DEF Rim
    <3> QED BY <1>5, <3>1, Rooted DEF Stored
  <2>3. w = Swap(c, k, o) /\ d = ProcFreepagetable(w, k, sz[p]) /\ f = FreeArgv(d, e.argv)
    OBVIOUS
  <2> HIDE DEF k, o, e, c, w, d, f, C, D, F
  <2>4. /\ Sound(c, Out) /\ Others(c, b, k) /\ c.ok \in BOOLEAN
        /\ c.ok => Space(c, k) = Put(Space(b, k), q + 1, Full("rw", val))
    <3>1. q + 1 \in Nat
      BY <1>4
    <3> QED BY <1>3, <1>6, <2>1, <2>2, <3>1, CopyoutIs
  <2>5. /\ Rim(Space(c, k), Space(b, k))
        /\ \A v \in UserVpn : Cell(c, k, v) = IF v = q + 1 THEN Full("rw", val) ELSE Cell(b, k, v)
    BY <1>6, <1>13, <2>4, PutCells
  <2>6. Others(c, m, k) /\ Space(c, o) = Space(m, o)
    <3>1. Others(c, m, k)
      BY <2>1, <2>4, OthersThrough
    <3> QED BY <1>3, <3>1 DEF Others
  <2>7. /\ Sound(w, Out) /\ Space(w, k) = Space(m, o) /\ Space(w, o) = Space(c, k)
        /\ \A l \in Table \ {k, o} : Space(w, l) = Space(m, l)
    <3>1. /\ Sound(w, Out) /\ Space(w, k) = Space(c, o) /\ Space(w, o) = Space(c, k)
          /\ \A l \in Table \ {k, o} : Space(w, l) = Space(c, l)
      BY <1>3, <2>3, <2>4, SwapIs
    <3> QED BY <2>6, <3>1 DEF Others
  <2>8. Within(w, k, sz[p])
    <3>1. Trim(m, o, sz[p])
      BY <1>3, HeldIs
    <3>2. \A v \in UserVpn : Space(w, k).cells[v] = Cell(w, k, v) /\ Space(m, o).cells[v] = Cell(m, o, v)
      BY Spaces
    <3> QED BY <2>7, <3>1, <3>2 DEF Trim, Within
  <2>9. Sound(d, Out) /\ Others(d, w, k) /\ Space(d, k) = NoSpace
    BY <1>3, <2>3, <2>7, <2>8, FreepagetableIs
  <2>10. Sound(f, Out \ e.argv) /\ Alike(f, d)
    <3>1. e.argv \subseteq Out
      BY <1>3
    <3> QED BY <2>3, <2>9, <3>1, FreeArgvIs
  <2>11. /\ Space(f, k) = NoSpace /\ Space(f, o) = Space(c, k)
         /\ \A l \in Table \ {k, o} : Space(f, l) = Space(m, l)
    BY <1>3, <2>7, <2>9, <2>10 DEF Alike, Others
  <2>12. /\ Out \ e.argv = Rest(p) \cup Has(tf[p], NoExec) /\ Has(tf[p], NoExec) \cap Rest(p) = {}
         /\ tf[p] \notin NoExec.argv
    BY <1>3, NoExecIs
  <2>13. Held(Space(f, o), tf[p], t)
    <3>1. \A v \in UserVpn : v \notin Span(0, q + 2) => v # q /\ v # q + 1 /\ v \notin Span(0, q)
      BY <1>4 DEF Span, UserVpn
    <3>2. Trim(c, k, t)
      BY <1>5, <1>8, <2>1, <2>5, <3>1 DEF Trim
    <3>3. Held(Space(c, k), tf[p], t)
      BY <1>7, <2>1, <2>5, <3>2, HeldIs DEF Rim, k
    <3> QED BY <2>11, <3>3
  <2>14. ProcInv(f, p, "user", t, tf[p], NoExec)
    BY <1>3, <1>5, <2>11, <2>13 DEF ProcInv, k, o
  <2>15. \A i \in Proc \ {p} : Space(f, Own(i)) = Space(m, Own(i)) /\ Space(f, New(i)) = Space(m, New(i))
    <3> SUFFICES ASSUME NEW i \in Proc \ {p}
                 PROVE  Space(f, Own(i)) = Space(m, Own(i)) /\ Space(f, New(i)) = Space(m, New(i))
      OBVIOUS
    <3>1. Own(i) \in Table \ {k, o} /\ New(i) \in Table \ {k, o}
      BY TablesAre DEF k, o
    <3> QED BY <2>11, <3>1
  <2>16. /\ state' = [state EXCEPT ![p] = "user"] /\ sz' = [sz EXCEPT ![p] = t]
         /\ tf' = [tf EXCEPT ![p] = tf[p]] /\ ex' = [ex EXCEPT ![p] = NoExec] /\ Becomes(f)
    BY <1>13, Start DEF Becomes
  <2>17. "user" \in States /\ tf[p] \in 0..NPAGES /\ NoExec \in Exec /\ Sound(f, Rest(p) \cup Has(tf[p], NoExec))
    BY <1>3, <2>10, <2>12, NoExecIs, Start DEF States
  <2>18. /\ MemInv' /\ MemoryOf(p)' = View(Space(f, Own(p)), t)
         /\ \A i \in Proc \ {p} : MemoryOf(i)' = MemoryOf(i)
    BY <1>5, <2>12, <2>14, <2>15, <2>16, <2>17, OneStep
  <2>19. Promised!Executed(View(Space(f, o), t))
    <3>1. \A v \in UserVpn : v \in Span(0, q) => v # q /\ v # q + 1
      BY <1>4 DEF Span, UserVpn
    <3>2. \A v \in UserVpn : v \in Span(0, q) => Cell(c, k, v).perm \in {"r", "rw"}
      BY <1>7, <2>1, <2>5, <3>1 DEF k
    <3>3. q # q + 1
      BY <1>4
    <3>4. Cell(c, k, q) = Full("guard", Zero) /\ Cell(c, k, q + 1) = Full("rw", val)
      BY <1>6, <2>1, <2>5, <3>3
    <3>5. Promised!Executed(View(Space(c, k), t))
      BY <1>3, <1>4, <1>5, <2>4, <3>2, <3>4, ExecutedIs
    <3> QED BY <2>11, <3>5
  <2>20. state[p] # "unused" /\ state'[p] # "unused" /\ \A i \in Proc \ {p} : state'[i] = state[i]
    BY <1>2, <2>16 DEF MemInv, TypeInv
  <2>21. Promised!Executed(MemoryOf(p)') /\ Same(p)
    BY <2>18, <2>19 DEF Same, o
  <2> QED BY <2>18, <2>20, <2>21 DEF Calls
<1> QED BY <1>1, <1>10, <1>12, <1>13

-----------------------------------------------------------------------------
(* The first process, and the invariant. *)

LEMMA AllFreeIs ==
  /\ Sound(AllFree, {}) /\ \A k \in Table : Space(AllFree, k) = NoSpace
<1> DEFINE r == AllFree
<1>1. /\ r.free = [g \in Page |-> 1] /\ r.data = [g \in Page |-> Junk]
      /\ r.tab = [k \in Table |-> NoTable] /\ r.pte = [k \in Table |-> NoPtes]
      /\ r.ok = TRUE /\ r.got = NoPage /\ r.panic = FALSE
  BY DEF AllFree
<1>2. NoPage \in 0..NPAGES /\ \A g \in Page : g # NoPage
  BY SizesAssumption DEF NoPage, Page
<1>3. r \in Memory
  <2>1. r.tab \in [Table -> [Node -> 0..NPAGES]] /\ r.pte \in [Table -> [Vpn -> Pte]]
    BY <1>1, <1>2, Entry DEF NoTable, NoPtes
  <2>2. r.free \in [Page -> Nat] /\ r.data \in [Page -> Stored \cup {Junk}]
    BY <1>1
  <2>3. r = [free |-> r.free, data |-> r.data, tab |-> r.tab, pte |-> r.pte,
             ok |-> r.ok, got |-> r.got, panic |-> r.panic]
    BY DEF AllFree
  <2> HIDE DEF r
  <2> QED BY <1>1, <1>2, <2>1, <2>2, <2>3 DEF Memory
<1> HIDE DEF r
<1>4. /\ \A k \in Table, x \in Node : r.tab[k][x] = NoPage
      /\ \A k \in Table, v \in Vpn : r.pte[k][v] = NoPte
      /\ \A k \in Table : r.tab[k] = NoTable
  BY <1>1 DEF NoTable, NoPtes
<1>5. \A k \in Table, v \in UserVpn : r.pte[k][v] = NoPte /\ r.pte[k][v].page = NoPage
  BY <1>4, Vpns, Entry
<1>6. Counted(r, {})
  <2>1. \A g \in Page : ~HasTable(r, g)
    BY <1>2, <1>4 DEF HasTable
  <2>2. \A g \in Page : ~Mapped(r, g)
    BY <1>2, <1>5 DEF Mapped
  <2> QED BY <1>1, <2>1, <2>2 DEF Counted
<1>7. Sound(r, {})
  BY <1>1, <1>3, <1>4, <1>5, <1>6 DEF Sound, TablesOnce, MappedOnce
<1>8. ASSUME NEW k \in Table PROVE Space(r, k) = NoSpace
  <2>1. r.pte[k][TRAPFRAME] = NoPte /\ r.pte[k][TRAMPOLINE] = NoPte /\ TablesOf(r, k) = "none"
    BY <1>4, Vpns DEF TablesOf
  <2>2. \A v \in UserVpn : Cell(r, k, v) = NoCell
    BY <1>5 DEF Cell
  <2>3. CellsOf(r, k) = NoCells
    BY <2>2 DEF CellsOf, NoCells
  <2> QED BY <2>1, <2>3, Spaces, Bare
<1> QED BY <1>7, <1>8 DEF r

LEMMA MemStarts ==
  ASSUME Init
  PROVE  MemInv /\ \A p \in Proc : MemoryOf(p) = Promised!NoCells
<1> DEFINE a == Allocproc(AllFree, 1)
           g == a.got
<1>1. /\ a.ok /\ m = Cleared(a)
      /\ state = [p \in Proc |-> IF p = 1 THEN "user" ELSE "unused"] /\ sz = [p \in Proc |-> 0]
      /\ tf = [p \in Proc |-> IF p = 1 THEN g ELSE NoPage] /\ ex = [p \in Proc |-> NoExec]
  BY DEF Init, Cleared
<1>2. 1 \in Proc /\ Own(1) \in Table /\ New(1) \in Table
  <2>1. 1 \in Proc
    BY TableAssumption DEF Proc
  <2> QED BY <2>1, TablesAre
<1> HIDE DEF a, g
<1>3. /\ Others(a, AllFree, Own(1)) /\ g \in Page /\ Sound(a, {g}) /\ Space(a, Own(1)) = NewSpace(g)
  <2>1. Space(AllFree, Own(1)) = NoSpace
    BY <1>2, AllFreeIs
  <2>2. /\ Others(a, AllFree, Own(1)) /\ g \in Page \ {} /\ Sound(a, {} \cup {g})
        /\ Space(a, Own(1)) = NewSpace(g)
    BY <1>1, <1>2, <2>1, AllFreeIs, AllocprocIs DEF a, g
  <2> QED BY <2>2
<1>4. Out = {g}
  <2>1. Has(g, NoExec) = {g} /\ Has(NoPage, NoExec) = {}
    BY <1>3, NoExecIs
  <2>2. \A p \in Proc : Has(tf[p], ex[p]) = IF p = 1 THEN {g} ELSE {}
    BY <1>1, <2>1
  <2> QED BY <1>2, <2>2 DEF Out
<1>5. Sound(m, Out) /\ Alike(m, a) /\ m.ok
  BY <1>1, <1>3, <1>4, ClearedIs
<1>6. g \in 0..NPAGES /\ g # NoPage /\ 0 \in Nat /\ TrapframeVa \in Nat
  BY <1>3, Sizes, SizesAssumption DEF Page, NoPage, TrapframeVa
<1>7. TypeInv
  BY <1>1, <1>6, NoExecIs DEF TypeInv, States
<1>8. Apart
  <2>1. \A p \in Proc : tf[p] \notin ex[p].argv /\ (p # 1 => Has(tf[p], ex[p]) = {})
    BY <1>1, NoExecIs
  <2> QED BY <2>1 DEF Apart
<1>9. ASSUME NEW p \in Proc PROVE ProcInv(m, p, state[p], sz[p], tf[p], ex[p])
  <2>1. Own(p) \in Table /\ New(p) \in Table \ {Own(1)} /\ (p # 1 => Own(p) # Own(1))
    BY <1>2, TablesAre
  <2>2. Space(m, New(p)) = NoSpace
    BY <1>3, <1>5, <2>1, AllFreeIs DEF Alike, Others
  <2>3. CASE p = 1
    <3>1. Held(Space(m, Own(p)), g, 0)
      BY <1>3, <1>5, <2>1, <2>3, NewSpaceHeld DEF Alike
    <3>2. ProcInv(m, p, "user", 0, g, NoExec)
      BY <1>6, <2>2, <3>1 DEF ProcInv
    <3> QED BY <1>1, <2>3, <3>2
  <2>4. CASE p # 1
    <3>1. Space(m, Own(p)) = NoSpace
      BY <1>3, <1>5, <2>1, <2>4, AllFreeIs DEF Alike, Others
    <3>2. ProcInv(m, p, "unused", 0, NoPage, NoExec)
      BY <2>2, <3>1 DEF ProcInv
    <3> QED BY <1>1, <2>4, <3>2
  <2> QED BY <2>3, <2>4
<1>10. MemInv
  BY <1>5, <1>7, <1>8, <1>9 DEF MemInv
<1>11. ASSUME NEW p \in Proc PROVE MemoryOf(p) = Promised!NoCells
  <2>1. MemoryOf(p) = View(Space(m, Own(p)), 0)
    BY <1>1, <1>10, Sized
  <2>2. 0..(Pages(0) - 1) = {}
    BY PagesZero
  <2> QED BY <2>1, <2>2 DEF View, Promised!NoCells
<1> QED BY <1>10, <1>11

Steps(p) == Calls(p) \/ Forks(p) \/ Reaps(p)

LEMMA MemNext ==
  ASSUME MemInv, Next
  PROVE  MemInv' /\ \E p \in Proc : Steps(p)
<1>1. PICK p \in Proc : \/ Fork(p) \/ Exit(p) \/ Reap(p)
                        \/ Sbrk(p) \/ Access(p) \/ Copyout(p) \/ Copyin(p)
                        \/ ExecStart(p) \/ ExecSegment(p) \/ ExecCommit(p)
  BY DEF Next
<1>2. CASE Fork(p)
  BY <1>2, ForkStep DEF Steps
<1>3. CASE Exit(p)
  BY <1>3, ExitStep DEF Steps
<1>4. CASE Reap(p)
  BY <1>4, ReapStep DEF Steps
<1>5. CASE Sbrk(p)
  BY <1>5, SbrkStep DEF Steps
<1>6. CASE Access(p)
  BY <1>6, AccessStep DEF Steps
<1>7. CASE Copyout(p)
  BY <1>7, CopyoutStep DEF Steps
<1>8. CASE Copyin(p)
  BY <1>8, CopyinStep DEF Steps
<1>9. CASE ExecStart(p)
  BY <1>9, ExecStartStep DEF Steps
<1>10. CASE ExecSegment(p)
  BY <1>10, ExecSegmentStep DEF Steps
<1>11. CASE ExecCommit(p)
  BY <1>11, ExecCommitStep DEF Steps
<1> QED BY <1>1, <1>2, <1>3, <1>4, <1>5, <1>6, <1>7, <1>8, <1>9, <1>10, <1>11

LEMMA MemUnchanged ==
  ASSUME MemInv, UNCHANGED vars
  PROVE  MemInv'
<1>1. m' = m /\ state' = state /\ sz' = sz /\ tf' = tf /\ ex' = ex
  BY DEF vars
<1>2. Out' = Out /\ (TypeInv <=> TypeInv') /\ (Apart <=> Apart')
  BY <1>1 DEF Out, TypeInv, Apart
<1> QED BY <1>1, <1>2 DEF MemInv

-----------------------------------------------------------------------------
(* The theorems. *)

(* In every state the memory is in order, whichever call failed where:      *)
(* pages of page tables, of the user's memory, trapframes, arguments and    *)
(* free ones are apart (Sound), every process has the tables that its state *)
(* says, and between calls no table of exec() is left.                      *)
THEOREM MemInvariant == Spec => []MemInv
<1>1. Init => MemInv
  BY MemStarts
<1>2. MemInv /\ [Next]_vars => MemInv'
  BY MemNext, MemUnchanged
<1> QED BY <1>1, <1>2, PTL DEF Spec

(* The kernel does not panic, where memory runs out either: kfree() gets    *)
(* pages only, mappages() no entry that is there, freewalk() no leaf, and   *)
(* loadseg() finds its pages.                                               *)
THEOREM MemNoPanic == Spec => []NoPanic
<1>1. MemInv => NoPanic
  BY DEF MemInv, Sound, NoPanic
<1> QED BY <1>1, MemInvariant, PTL

LEMMA Counting ==
  ASSUME NEW S, NEW T, IsFiniteSet(T), NEW f \in [S -> T],
         \A x \in S, y \in S : f[x] = f[y] => x = y,
         \A t \in T : \E x \in S : f[x] = t
  PROVE  Cardinality(S) = Cardinality(T)
<1>1. f \in Injection(S, T) /\ f \in Surjection(S, T)
  BY DEF Injection, IsInjective, Surjection
<1> QED BY <1>1, FS_Injection

LEMMA FourParts ==
  ASSUME NEW A, NEW B, NEW C, NEW D, NEW S, IsFiniteSet(S), A \subseteq S, B \subseteq S, C \subseteq S, D \subseteq S,
         A \cap B = {}, (A \cup B) \cap C = {}, (A \cup B \cup C) \cap D = {}
  PROVE  Cardinality(A \cup B \cup C \cup D) = Cardinality(A) + Cardinality(B) + Cardinality(C) + Cardinality(D)
<1>1. IsFiniteSet(A) /\ IsFiniteSet(B) /\ IsFiniteSet(C) /\ IsFiniteSet(D)
  BY FS_Subset
<1>2. /\ Cardinality(A) \in Nat /\ Cardinality(B) \in Nat /\ Cardinality(C) \in Nat /\ Cardinality(D) \in Nat
      /\ Cardinality({}) = 0
  BY <1>1, FS_CardinalityType, FS_EmptySet
<1>3. IsFiniteSet(A \cup B) /\ Cardinality(A \cup B) = Cardinality(A) + Cardinality(B)
  <2>1. IsFiniteSet(A \cup B) /\ Cardinality(A \cup B) = Cardinality(A) + Cardinality(B) - Cardinality(A \cap B)
    BY <1>1, FS_Union
  <2>2. Cardinality(A \cap B) = 0
    BY <1>2, Zenon
  <2> QED BY <1>2, <2>1, <2>2
<1>4. /\ IsFiniteSet(A \cup B \cup C)
      /\ Cardinality(A \cup B \cup C) = Cardinality(A) + Cardinality(B) + Cardinality(C)
  <2>1. /\ IsFiniteSet((A \cup B) \cup C)
        /\ Cardinality((A \cup B) \cup C) = Cardinality(A \cup B) + Cardinality(C) - Cardinality((A \cup B) \cap C)
    BY <1>1, <1>3, FS_Union
  <2>2. Cardinality((A \cup B) \cap C) = 0
    BY <1>2, Zenon
  <2> QED BY <1>2, <1>3, <2>1, <2>2
<1>5. Cardinality((A \cup B \cup C) \cup D) =
        Cardinality(A \cup B \cup C) + Cardinality(D) - Cardinality((A \cup B \cup C) \cap D)
  BY <1>1, <1>4, FS_Union
<1>6. Cardinality((A \cup B \cup C) \cap D) = 0
  BY <1>2, Zenon
<1> QED BY <1>2, <1>4, <1>5, <1>6

LEMMA OnceOwned ==
  ASSUME MemInv
  PROVE  PagesOwnedOnce
<1> DEFINE A == {m.tab[x[1]][x[2]] : x \in TabSlots}
           B == {m.pte[x[1]][x[2]].page : x \in PteSlots}
           C == {tf[p] : p \in TfSlots}
<1>1. Sound(m, Out) /\ TypeInv /\ Apart /\ m \in Memory
  BY DEF MemInv, Sound
<1>2. /\ \A k \in Table, x \in Node : m.tab[k][x] \in 0..NPAGES
      /\ \A g \in 0..NPAGES : g # NoPage => g \in Page
      /\ \A g \in Page : g # NoPage
  BY <1>1, SizesAssumption DEF Memory, Page, NoPage
<1>3. UserVpn = 0..(TRAPFRAME - 1)
  BY DEF UserVpn
<1>4. /\ \A x \in TabSlots : /\ x = <<x[1], x[2]>> /\ x[1] \in Table /\ x[2] \in Node
                             /\ m.tab[x[1]][x[2]] # NoPage
      /\ \A k \in Table, y \in Node : m.tab[k][y] # NoPage => <<k, y>> \in TabSlots
  BY DEF TabSlots
<1>5. /\ \A x \in PteSlots : /\ x = <<x[1], x[2]>> /\ x[1] \in Table /\ x[2] \in UserVpn
                             /\ m.pte[x[1]][x[2]] # NoPte
      /\ \A k \in Table, v \in UserVpn : m.pte[k][v] # NoPte => <<k, v>> \in PteSlots
  BY <1>3 DEF PteSlots
<1>6. \A g : g \in A <=> g \in Page /\ HasTable(m, g)
  <2>1. ASSUME NEW g \in A PROVE g \in Page /\ HasTable(m, g)
    <3>1. PICK x \in TabSlots : g = m.tab[x[1]][x[2]]
      OBVIOUS
    <3> QED BY <3>1, <1>2, <1>4 DEF HasTable
  <2>2. ASSUME NEW g \in Page, HasTable(m, g) PROVE g \in A
    <3>1. PICK k \in Table, y \in Node : m.tab[k][y] = g
      BY <2>2 DEF HasTable
    <3>2. <<k, y>> \in TabSlots
      BY <3>1, <1>2, <1>4
    <3>3. \E x \in TabSlots : g = m.tab[x[1]][x[2]]
      <4>1. g = m.tab[<<k, y>>[1]][<<k, y>>[2]]
        BY <3>1
      <4> QED BY <3>2, <4>1
    <3> QED BY <3>3
  <2> HIDE DEF A
  <2> QED BY <2>1, <2>2
<1>7. \A g : g \in B <=> g \in Page /\ Mapped(m, g)
  <2>1. ASSUME NEW g \in B PROVE g \in Page /\ Mapped(m, g)
    <3>1. PICK x \in PteSlots : g = m.pte[x[1]][x[2]].page
      OBVIOUS
    <3> QED BY <3>1, <1>1, <1>5 DEF Mapped, Sound, MappedOnce
  <2>2. ASSUME NEW g \in Page, Mapped(m, g) PROVE g \in B
    <3>1. PICK k \in Table, v \in UserVpn : m.pte[k][v].page = g
      BY <2>2 DEF Mapped
    <3>2. <<k, v>> \in PteSlots
      BY <3>1, <1>2, <1>5, Entry
    <3>3. \E x \in PteSlots : g = m.pte[x[1]][x[2]].page
      <4>1. g = m.pte[<<k, v>>[1]][<<k, v>>[2]].page
        BY <3>1
      <4> QED BY <3>2, <4>1
    <3> QED BY <3>3
  <2> HIDE DEF B
  <2> QED BY <2>1, <2>2
<1>8. \A g : g \in C \cup Argv <=> g \in Out
  <2>1. \A g : g \in Out <=> \E p \in Proc : g \in Has(tf[p], ex[p])
    BY DEF Out
  <2>2. \A g : g \in C <=> \E p \in Proc : tf[p] # NoPage /\ g = tf[p]
    BY DEF TfSlots
  <2>3. \A g : g \in Argv <=> \E p \in Proc : g \in ex[p].argv
    BY DEF Argv
  <2> QED BY <2>1, <2>2, <2>3 DEF Has
<1>9. Out \subseteq Page
  BY <1>1 DEF Sound
<1>10. (A \cup B) \cap Out = {} /\ A \cap B = {}
  <2>1. ASSUME NEW g, g \in Page, HasTable(m, g) PROVE g \notin Out /\ ~Mapped(m, g)
    BY <1>1, <1>2, <2>1 DEF HasTable, Mapped, Sound, TablesOnce
  <2>2. ASSUME NEW g, g \in Page, Mapped(m, g) PROVE g \notin Out
    BY <1>1, <1>2, <2>2, Entry DEF Mapped, Sound, MappedOnce
  <2> HIDE DEF A, B
  <2> QED BY <1>6, <1>7, <2>1, <2>2
<1>11. C \cap Argv = {}
  <2>1. ASSUME NEW g \in C, g \in Argv PROVE FALSE
    <3>1. PICK p \in Proc : tf[p] # NoPage /\ g = tf[p]
      BY DEF TfSlots
    <3>2. PICK q \in Proc : g \in ex[q].argv
      BY <2>1 DEF Argv
    <3>3. p # q
      BY <1>1, <3>1, <3>2 DEF Apart
    <3>4. g \in Has(tf[p], ex[p]) /\ g \in Has(tf[q], ex[q])
      BY <3>1, <3>2 DEF Has
    <3> QED BY <1>1, <3>3, <3>4 DEF Apart
  <2> QED BY <2>1
<1>12. IsFiniteSet(Page)
  BY SizesAssumption, FS_Interval DEF Page
<1>13. A \subseteq Page /\ B \subseteq Page /\ C \subseteq Page /\ Argv \subseteq Page
  <2> HIDE DEF A, B, C
  <2> QED BY <1>6, <1>7, <1>8, <1>9
<1>14. IsFiniteSet(A) /\ IsFiniteSet(B) /\ IsFiniteSet(C)
  BY <1>12, <1>13, FS_Subset
<1>15. Cardinality(TabSlots) = Cardinality(A)
  <2> DEFINE f == [x \in TabSlots |-> m.tab[x[1]][x[2]]]
  <2>1. f \in [TabSlots -> A]
    OBVIOUS
  <2>2. ASSUME NEW x \in TabSlots, NEW y \in TabSlots, f[x] = f[y] PROVE x = y
    <3>1. m.tab[x[1]][x[2]] = m.tab[y[1]][y[2]]
      BY <2>2
    <3>2. x[1] = y[1] /\ x[2] = y[2]
      BY <1>1, <1>4, <3>1 DEF Sound, TablesOnce
    <3> QED BY <1>4, <3>2
  <2>3. \A g \in A : \E x \in TabSlots : f[x] = g
    OBVIOUS
  <2> HIDE DEF f, A
  <2> QED BY <1>14, <2>1, <2>2, <2>3, Counting
<1>16. Cardinality(PteSlots) = Cardinality(B)
  <2> DEFINE f == [x \in PteSlots |-> m.pte[x[1]][x[2]].page]
  <2>1. f \in [PteSlots -> B]
    OBVIOUS
  <2>2. ASSUME NEW x \in PteSlots, NEW y \in PteSlots, f[x] = f[y] PROVE x = y
    <3>1. m.pte[x[1]][x[2]].page = m.pte[y[1]][y[2]].page
      BY <2>2
    <3>2. x[1] = y[1] /\ x[2] = y[2]
      BY <1>1, <1>5, <3>1 DEF Sound, MappedOnce
    <3> QED BY <1>5, <3>2
  <2>3. \A g \in B : \E x \in PteSlots : f[x] = g
    OBVIOUS
  <2> HIDE DEF f, B
  <2> QED BY <1>14, <2>1, <2>2, <2>3, Counting
<1>17. Cardinality(TfSlots) = Cardinality(C)
  <2> DEFINE f == [p \in TfSlots |-> tf[p]]
  <2>1. f \in [TfSlots -> C]
    OBVIOUS
  <2>2. ASSUME NEW p \in TfSlots, NEW q \in TfSlots, f[p] = f[q] PROVE p = q
    <3>1. tf[p] = tf[q] /\ tf[p] # NoPage /\ p \in Proc /\ q \in Proc
      BY <2>2 DEF TfSlots
    <3>2. tf[p] \in Has(tf[p], ex[p]) /\ tf[p] \in Has(tf[q], ex[q])
      BY <3>1 DEF Has
    <3> QED BY <1>1, <3>1, <3>2 DEF Apart
  <2>3. \A g \in C : \E p \in TfSlots : f[p] = g
    OBVIOUS
  <2> HIDE DEF f, C
  <2> QED BY <1>14, <2>1, <2>2, <2>3, Counting
<1>18. Owned = A \cup B \cup C \cup Argv
  BY DEF Owned
<1> HIDE DEF A, B, C
<1>19. \A g \in Page : g \in Owned <=> g \in Out \/ HasTable(m, g) \/ Mapped(m, g)
  BY <1>6, <1>7, <1>8, <1>18
<1>20. \A g \in Page : m.free[g] = IF g \in Owned THEN 0 ELSE 1
  BY <1>1, <1>19 DEF Sound, Counted
<1>21. Owned \subseteq Page
  BY <1>13, <1>18
<1>22. Owned = Page \ FreeList(m) /\ \A g \in FreeList(m) : m.free[g] = 1
  BY <1>20, <1>21 DEF FreeList
<1>23. Cardinality(Owned) = Cardinality(A) + Cardinality(B) + Cardinality(C) + Cardinality(Argv)
  <2>1. (A \cup B) \cap C = {} /\ (A \cup B \cup C) \cap Argv = {}
    BY <1>8, <1>10, <1>11
  <2> QED BY <1>10, <1>12, <1>13, <1>18, <2>1, FourParts
<1> QED BY <1>15, <1>16, <1>17, <1>22, <1>23 DEF PagesOwnedOnce

(* No page is lost, shared or freed twice: each is free, or is exactly once *)
(* in a page table, mapped, a trapframe or an argument of exec(), after     *)
(* every call and after every one that runs out of memory half way.         *)
THEOREM MemPagesOwnedOnce == Spec => []PagesOwnedOnce
BY MemInvariant, OnceOwned, PTL

(* What one step shows in PrivateMemory. *)
LEMMA PromisedStep ==
  ASSUME NEW p \in Proc, Steps(p)
  PROVE  Promised!Next
<1> DEFINE Alive == {q \in Proc : state[q] # "unused"}
           Mem == [q \in Proc |-> MemoryOf(q)]
<1>1. CASE Calls(p)
  <2>1. /\ p \in Alive /\ Alive' = Alive
    BY <1>1 DEF Calls
  <2>2. \A q \in Proc \ {p} : Mem'[q] = Mem[q]
    BY <1>1 DEF Calls, Same
  <2>3. Mem[p] = MemoryOf(p) /\ Mem'[p] = MemoryOf(p)'
    OBVIOUS
  <2>4. Promised!Resized(Mem[p], Mem'[p]) \/ Promised!Written(Mem[p], Mem'[p]) \/ Promised!Executed(Mem'[p])
    BY <1>1, <2>3 DEF Calls
  <2>5. Promised!Call(p)
    BY <2>1, <2>2, <2>4 DEF Promised!Call, Promised!OnlyOf
  <2> QED BY <2>1, <2>5 DEF Promised!Next
<1>2. CASE Forks(p)
  <2>1. PICK q \in Proc : /\ state[p] # "unused" /\ state[q] = "unused" /\ state'[q] # "unused"
                          /\ \A r \in Proc \ {q} : state'[r] = state[r]
                          /\ MemoryOf(q)' = MemoryOf(p) /\ Same(q)
    BY <1>2 DEF Forks
  <2>2. p \in Alive /\ q \in Proc \ Alive /\ Alive' = Alive \cup {q}
    BY <2>1
  <2>3. Mem'[q] = Mem[p] /\ \A r \in Proc \ {q} : Mem'[r] = Mem[r]
    BY <2>1 DEF Same
  <2>4. Promised!Fork(p)
    BY <2>2, <2>3 DEF Promised!Fork, Promised!OnlyOf
  <2> QED BY <2>2, <2>4 DEF Promised!Next
<1>3. CASE Reaps(p)
  <2>1. p \in Alive /\ Alive' = Alive \ {p}
    BY <1>3 DEF Reaps
  <2>2. Mem'[p] = Promised!NoCells /\ \A r \in Proc \ {p} : Mem'[r] = Mem[r]
    BY <1>3 DEF Reaps, Same
  <2>3. Promised!Free(p)
    BY <2>1, <2>2 DEF Promised!Free, Promised!OnlyOf
  <2> QED BY <2>1, <2>3 DEF Promised!Next
<1> QED BY <1>1, <1>2, <1>3 DEF Steps

(* Page tables, copies, faults and failures implement the private memories  *)
(* of PrivateMemory: a call changes the memory of its own process only; it  *)
(* resizes it (new memory reads as zeros, whether it is there or only       *)
(* promised), writes it, or replaces it as a whole; fork() makes a copy of  *)
(* all; and what fails on the way shows nothing of it.                      *)
THEOREM MemImplements == Spec => MemorySpec
<1>1. Init => Promised!Init
  <2> SUFFICES ASSUME Init PROVE Promised!Init
    OBVIOUS
  <2>1. \A p \in Proc : MemoryOf(p) = Promised!NoCells
    BY MemStarts
  <2>2. 1 \in Proc /\ {p \in Proc : state[p] # "unused"} = {1}
    BY TableAssumption DEF Init, Proc
  <2> QED BY <2>1, <2>2 DEF Promised!Init
<1>2. MemInv /\ [Next]_vars => [Promised!Next]_(Promised!vars)
  <2> SUFFICES ASSUME MemInv, [Next]_vars PROVE [Promised!Next]_(Promised!vars)
    OBVIOUS
  <2>1. CASE Next
    BY <2>1, MemNext, PromisedStep
  <2>2. CASE UNCHANGED vars
    <3>1. m' = m /\ state' = state /\ sz' = sz
      BY <2>2 DEF vars
    <3>2. /\ {p \in Proc : state'[p] # "unused"} = {p \in Proc : state[p] # "unused"}
          /\ \A p \in Proc : MemoryOf(p)' = MemoryOf(p)
      BY <3>1 DEF MemoryOf, CellOf
    <3> QED BY <3>2 DEF Promised!vars
  <2> QED BY <2>1, <2>2
<1> QED BY <1>1, <1>2, MemInvariant, PTL DEF Spec, MemorySpec, Promised!Spec
=============================================================================
