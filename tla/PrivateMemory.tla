--------------------------- MODULE PrivateMemory ---------------------------
(***************************************************************************)
(* What the kernel promises of memory: every process has its own pages,    *)
(* new ones hold zeros, fork copies them all, and what fails changes       *)
(* nothing.  Nothing is said of physical pages, nor of when they are taken.*)
(***************************************************************************)
EXTENDS Integers

CONSTANTS Process, Val, MaxPages

VARIABLES alive,  \* the processes there are
          mem     \* their pages

vars == <<alive, mem>>

Cell == [perm : {"r", "rw", "guard"}, val : Val]
NewCell == [perm |-> "rw", val |-> 0]
NoCells == [v \in {} |-> NewCell]
GuardCell == [perm |-> "guard", val |-> 0]

Init == (\E p \in Process : alive = {p}) /\ mem = [p \in Process |-> NoCells]

(* One page, or two of a write that goes over a page boundary. *)
Written(old, new) ==
  \E v \in DOMAIN old, val \in Val :
    \E w \in DOMAIN old \cap {v, v + 1} :
      /\ old[v].perm = "rw" /\ old[w].perm = "rw"
      /\ new = [old EXCEPT ![v].val = val, ![w].val = val]

Resized(old, new) ==
  /\ DOMAIN new \in {0..(n - 1) : n \in 0..MaxPages}
  /\ \A v \in DOMAIN new : new[v] = IF v \in DOMAIN old THEN old[v] ELSE NewCell

(* A program, a page that cannot be used, and a stack. *)
Executed(new) ==
  \E n \in 2..MaxPages :
    new \in [0..(n - 1) -> Cell] /\ new[n - 2] = GuardCell /\ new[n - 1].perm = "rw"

(* The processes share nothing: one changes, the others keep what they have.*)
OnlyOf(p) == \A q \in Process \ {p} : mem'[q] = mem[q]

Call(p) ==
  LET old == mem[p]
      new == mem'[p] IN
  /\ Resized(old, new) \/ Written(old, new) \/ Executed(new)
  /\ OnlyOf(p) /\ UNCHANGED alive

Fork(p) ==
  \E q \in Process \ alive : alive' = alive \cup {q} /\ mem'[q] = mem[p] /\ OnlyOf(q)

Free(p) == alive' = alive \ {p} /\ mem'[p] = NoCells /\ OnlyOf(p)

Next == \E p \in alive : Fork(p) \/ Free(p) \/ Call(p)
Spec == Init /\ [][Next]_vars
=============================================================================
