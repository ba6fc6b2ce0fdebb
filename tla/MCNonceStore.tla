---------------------------- MODULE MCNonceStore ----------------------------
\* NonceStore on a small instance: interchangeable threads and nonces.
EXTENDS NonceStore, TLC

Symmetry == Permutations(Callers) \cup Permutations(Nonces)
=============================================================================
