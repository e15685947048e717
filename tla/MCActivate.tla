------------------------------ MODULE MCActivate ------------------------------
EXTENDS ActivateInv, ActivateDelivery

Symmetry == Permutations(Threads) \cup Permutations(Senders) \cup Permutations(Receivers)
              \cup Permutations(Signals) \cup Permutations(Conns)
=============================================================================
