------------------------------ MODULE MCRcuList ------------------------------
EXTENDS RcuListInv, RcuListRefinement, TLC

Symmetry == Permutations(Handles) \cup Permutations(Nodes) \cup Permutations(Zombies)
=============================================================================
