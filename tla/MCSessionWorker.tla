--------------------------- MODULE MCSessionWorker ---------------------------
EXTENDS SessionWorker, TLC
CONSTANTS k1, c1, c2

\* Every invocation asks about the same magnet: keys do not interact.
OneKey == [c \in Callers |-> k1]
Symmetry == Permutations(Callers)
=============================================================================
