--------------------------- MODULE MCReplayThreads ---------------------------
\* Stores are interchangeable.
EXTENDS ReplayThreads, TLC
StoreSymmetry == Permutations(Store)
=============================================================================
