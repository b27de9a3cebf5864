----------------------------- MODULE OpenFiles -----------------------------
(***************************************************************************)
(* What the file system promises of the content of files: each is a        *)
(* sequence of bytes, an open file has an offset into its own, and a crash *)
(* takes all files back to one earlier moment.                             *)
(***************************************************************************)
EXTENDS Integers, Sequences

CONSTANTS File, Desc, InodeOf, Byte, MaxChunk
VARIABLES content, off, stable

vars == <<content, off, stable>>

Init == /\ content = [f \in File |-> <<>>]
        /\ off = [d \in Desc |-> 0]
        /\ stable = content

Overwrite(s, at, k, v) ==
  [i \in 1..(IF at + k > Len(s) THEN at + k ELSE Len(s)) |->
     IF i > at /\ i <= at + k THEN v ELSE s[i]]

MayCommit == stable' = stable \/ stable' = content'

(* A chunk of a write(), or less of it, goes to where the offset was.       *)
Write(d) ==
  LET f == InodeOf[d] IN
  /\ off[d] <= Len(content[f])
  /\ \E k \in 1..MaxChunk, v \in Byte :
       /\ content' = [content EXCEPT ![f] = Overwrite(@, off[d], k, v)]
       /\ off' = [off EXCEPT ![d] = @ + k]
  /\ MayCommit

Read(d) ==
  /\ off'[d] \in (off[d] + 1)..Len(content[InodeOf[d]])
  /\ off' = [off EXCEPT ![d] = off'[d]]
  /\ UNCHANGED <<content, stable>>

(* Opening a file anew, which may empty it. *)
Rewind(d) == off' = [off EXCEPT ![d] = 0] /\ UNCHANGED <<content, stable>>
Empty(f) ==
  /\ content' = [content EXCEPT ![f] = <<>>]
  /\ MayCommit
  /\ UNCHANGED off

Commit == stable' = content /\ UNCHANGED <<content, off>>

Crash ==
  /\ content' = stable
  /\ off' = [d \in Desc |-> 0]
  /\ UNCHANGED stable

Next == \/ \E d \in Desc : Write(d) \/ Read(d) \/ Rewind(d)
        \/ \E f \in File : Empty(f)
        \/ Commit \/ Crash

Spec == Init /\ [][Next]_vars
=============================================================================
