------------------------------- MODULE MCPipe -------------------------------
EXTENDS Pipe, TLC

Symmetry == Permutations(Reader) \cup Permutations(Writer)
=============================================================================
