----------------------------- MODULE MCConnections -----------------------------
EXTENDS ConnectionsTable, TLC

Symmetry == Permutations(Threads) \cup Permutations(Senders) \cup Permutations(Receivers)
              \cup Permutations(Signals) \cup Permutations(Conns)
=============================================================================
