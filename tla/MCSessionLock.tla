--------------------------- MODULE MCSessionLock ---------------------------
\* SessionLock on two connectors and two locker clients.
EXTENDS SessionLock, TLC

Symmetry == Permutations(Clients)
OutputSymmetry == Permutations(Outputs)
AllSymmetry == Symmetry \cup OutputSymmetry
=============================================================================
