---------------------------- MODULE MCStateIngest ----------------------------
\* Request threads and frame ids are interchangeable.
EXTENDS StateIngest, TLC
IngestSymmetry == Permutations(Handler) \cup Permutations(Frame)
=============================================================================
