----------------------------- MODULE MCBufCache -----------------------------
(* Three processes over three buffers and four blocks; seven descriptors make *)
(* two chains and leave one over.                                            *)
EXTENDS BufCache, TLC
Symmetry == Permutations(Process) \cup Permutations(Buf) \cup Permutations(Written) \cup Permutations(Block \ Written)
=============================================================================
