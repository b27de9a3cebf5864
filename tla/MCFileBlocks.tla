---------------------------- MODULE MCFileBlocks ----------------------------
(* d1 is shared by both processes, d2 is the same file opened once more.    *)
EXTENDS FileBlocks, TLC
CONSTANTS f1, f2, d1, d2, d3
MCInodeOf == d1 :> f1 @@ d2 :> f1 @@ d3 :> f2
Symmetry == Permutations(Process) \cup Permutations(Byte)
=============================================================================
