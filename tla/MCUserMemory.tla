---------------------------- MODULE MCUserMemory ----------------------------
(* Two processes; a program of one page, and one with a segment of two pages *)
(* beyond a gap, which fills the address space.  The numbers of pages do not *)
(* matter while each has one owner: the view leaves them out.                *)
EXTENDS UserMemory
MCTable == Tables
Text == [from |-> 0, end |-> 1, perm |-> "r", val |-> 1]
Data == [from |-> 2, end |-> 7, perm |-> "rw", val |-> 1]
MCSbrks == {-3, 6}
MCPrograms == {<<Text>>, <<Text, Data>>}

Contents(k) == {<<v, m.pte[k][v].perm, m.data[m.pte[k][v].page]>> :
                  v \in {w \in 0..(TRAPFRAME - 1) : m.pte[k][w] # NoPte}}
Shape(k) == {n \in Node : m.tab[k][n] # NoPage}
(* The comparison is TRUE; it makes TLC evaluate the functions of a state.   *)
View == <<[k \in Table |-> <<Contents(k), Shape(k)>>], state, sz,
          [p \in Proc |-> <<ex[p].segs, ex[p].sz>>], PagesOwnedOnce, m.panic,
          <<m, tf, ex>> = <<m, tf, ex>> >>
=============================================================================
