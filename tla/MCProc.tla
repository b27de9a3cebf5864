------------------------------- MODULE MCProc -------------------------------
EXTENDS Proc, TLC

Symmetry == Permutations(CPU)
MCChan == 1..NPROC
=============================================================================
