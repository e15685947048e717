---------------------------- MODULE ConnectionsTable ----------------------------
(***************************************************************************)
(* Connections implements ConnectionTable: the m_connectLists of the       *)
(* senders are the table, and m_possibleSenders only a means to keep it.   *)
(***************************************************************************)
EXTENDS ConnectionsInv

Table == INSTANCE ConnectionTable

\* Two lists, two mutexes and loops without a lock look like one table to a
\* user: a connection is there or not, it takes no second step to establish or
\* to drop it, and the end of either destructor leaves none of the object's.
ImplementsTable == Table!Spec

=============================================================================
