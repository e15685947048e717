----------------------------- MODULE MCSharedList -----------------------------
EXTENDS SharedListTraversal

Symmetry == Permutations(Handles) \cup Permutations(Nodes)
=============================================================================
