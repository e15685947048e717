--------------------------- MODULE RcuListRefinement ---------------------------
(***************************************************************************)
(* RcuList implements SharedList: the handles, the elements and their      *)
(* order are those of the nodes linked from m_head, and an element is kept *)
(* for the handles whose record lies below that of the element.            *)
(***************************************************************************)
EXTENDS RcuList, Sequences

\* Memory is finite.
ASSUME NodesAssumption == IsFiniteSet(Nodes)

\* The k-th node from m_head, NULL past the end.
NodeAt[k \in 1 .. Cardinality(Nodes)] ==
  IF k = 1
  THEN m_head
  ELSE IF NodeAt[k - 1] = NULL THEN NULL ELSE next[NodeAt[k - 1]]

Elements ==
  [k \in 1 .. Cardinality({i \in DOMAIN NodeAt : NodeAt[i] # NULL}) |-> NodeAt[k]]

Exists == dtor = "none"

OpenHandles == {h \in Handles : pc[h] \in {"wait", "open", "retire"}}

\* The handles that the record of node n waits for.
KeptFor(n) == {h \in OpenHandles : \E z \in Stack : zombie_node[z] = n /\ m_zombie[h] \in below[z]}

Retiring == IF m_write_mutex # NULL /\ pc[m_write_mutex] = "retire"
            THEN cursor[m_write_mutex]
            ELSE NULL

Shared == INSTANCE SharedList WITH
  alive    <- Exists,
  list     <- IF Exists THEN Elements ELSE <<>>,
  erased   <- IF Exists THEN deleted ELSE {},
  trail    <- [n \in Nodes |-> IF Exists /\ n \in deleted THEN next[n] ELSE NULL],
  watchers <- [n \in Nodes |-> IF Exists THEN KeptFor(n) ELSE {}],
  retiring <- IF Exists THEN Retiring ELSE NULL,
  open     <- IF Exists THEN OpenHandles ELSE {},
  writer   <- IF Exists THEN m_write_mutex ELSE NULL,
  cursor   <- [h \in Handles |-> IF Exists THEN cursor[h] ELSE NULL]

\* The promises of rcu_list are kept by what its functions do to nodes, links,
\* records and owners.
ImplementsSharedList == Shared!Spec

=============================================================================
