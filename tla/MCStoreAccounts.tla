--------------------------- MODULE MCStoreAccounts ---------------------------
\* Requests, addresses and names are interchangeable.
EXTENDS StoreAccounts, TLC
AccountSymmetry == Permutations(Request) \cup Permutations(Email) \cup Permutations(Name)
=============================================================================
