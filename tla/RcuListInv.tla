----------------------------- MODULE RcuListInv -----------------------------
(***************************************************************************)
(* The inductive invariant of RcuList, in named parts.  Every part is      *)
(* local: it speaks of a node and its neighbours, a record and what lies   *)
(* below it.  Reachability along next never has to be mentioned, because   *)
(* the history variable below carries it for the records and ListShape     *)
(* does without it for the nodes.                                          *)
(***************************************************************************)
EXTENDS RcuList

\* Records that are allocated and not on the stack yet.
UnderConstruction ==
  {m_zombie[h] : h \in {k \in Handles : pc[k] = "enlist"}}
    \cup {fresh[h] : h \in {k \in Handles : pc[k] = "retire"}}

Pushed == zombieHeap \ UnderConstruction

\* The record of handle h is on the stack and its owner field is set.
Entered(h) == pc[h] \notin {"idle", "enlist"}

-----------------------------------------------------------------------------

\* A handle in use owns exactly one record, and the record says so.
GuardInv ==
  /\ \A h \in Handles :
       IF pc[h] = "idle"
       THEN m_zombie[h] = NULL
       ELSE /\ m_zombie[h] \in zombieHeap
            /\ owner[m_zombie[h]] = h
            /\ zombie_node[m_zombie[h]] = NULL
  /\ \A z \in zombieHeap :
       owner[z] # NULL => pc[owner[z]] # "idle" /\ m_zombie[owner[z]] = z

\* The mutex is held by the one write handle that is open, and erase() runs
\* under it with a record of its own.
WriterInv ==
  /\ \A h \in Handles : pc[h] = "wait" => h \in writer
  /\ \A h \in Handles :
       h \in writer /\ pc[h] \in {"open", "retire"} <=> m_write_mutex = h
  /\ \A h \in Handles :
       IF pc[h] = "retire"
       THEN /\ h \in writer
            /\ fresh[h] \in zombieHeap
            /\ owner[fresh[h]] = NULL
            /\ cursor[h] # NULL
            /\ zombie_node[fresh[h]] = cursor[h]
       ELSE fresh[h] = NULL

\* below is a strict total order on the pushed records.
OrderInv ==
  /\ \A z \in Pushed : below[z] \subseteq Pushed
  /\ \A z \in Pushed : z \notin below[z]
  /\ \A z \in Pushed : \A y \in below[z] : below[y] \subseteq below[z]
  /\ \A y, z \in Pushed : y = z \/ y \in below[z] \/ z \in below[y]

\* z is the newest pushed record, NULL if there is none.
Top(z) == IF z = NULL
          THEN Pushed = {}
          ELSE z \in Pushed /\ \A y \in Pushed : y = z \/ y \in below[z]

\* next of record z leads to the record right below it.
Adjacent(z) == IF znext[z] = NULL
               THEN below[z] = {}
               ELSE /\ znext[z] \in below[z]
                    /\ \A y \in below[z] : y = znext[z] \/ y \in below[znext[z]]

Reapers == {h \in Handles : pc[h] = "reap"}

\* m_zombie_head is the top, and the records are linked in their order, but for
\* the record of a handle that is freeing what lies below it.
LinkInv ==
  /\ dtor = "none" => Top(m_zombie_head)
  /\ \A z \in Pushed : (\A h \in Reapers : m_zombie[h] # z) => Adjacent(z)

\* What unlock() has passed has no owner, and what it frees has none either.
WalkOf(h) ==
  LET under == below[m_zombie[h]] IN
  /\ pc[h] \notin {"walk", "reap"} => scan[h] = NULL
  /\ pc[h] \in {"walk", "reap"} /\ scan[h] # NULL => scan[h] \in under
  /\ pc[h] = "walk" =>
       \A y \in under :
         scan[h] = NULL \/ (y # scan[h] /\ y \notin below[scan[h]]) => owner[y] = NULL
  /\ pc[h] = "reap" =>
       \A y \in under :
         owner[y] = NULL /\ scan[h] # NULL /\ (y = scan[h] \/ y \in below[scan[h]])

WalkInv == \A h \in Handles : WalkOf(h)

\* ~rcu_list runs alone, from the top of the stack down.
DtorInv ==
  /\ dtor # "none" => \A h \in Handles : pc[h] \notin {"enlist", "wait", "retire"}
  /\ dtor \in {"nodes", "zombies"} => \A h \in Handles : pc[h] \in {"idle", "open"}
  /\ dtor = "nodes" => Top(m_zombie_head)
  /\ dtor = "zombies" => Top(dzombie)

-----------------------------------------------------------------------------

\* Every erased node is carried by exactly one record until it is freed.
RetiredOnce ==
  /\ deleted \subseteq nodeHeap
  /\ \A n \in deleted : \E z \in zombieHeap : zombie_node[z] = n
  /\ \A z \in zombieHeap : zombie_node[z] # NULL => zombie_node[z] \in deleted
  /\ \A y, z \in zombieHeap :
       zombie_node[y] # NULL /\ zombie_node[y] = zombie_node[z] => y = z

\* The linked nodes form a list that reads the same in both directions, and
\* ~rcu_list frees them from the front.
ListShape ==
  /\ dtor = "none" =>
       /\ m_head # NULL => m_head \in Linked /\ back[m_head] = NULL
       /\ m_tail # NULL => m_tail \in Linked /\ next[m_tail] = NULL
       /\ m_head = NULL <=> m_tail = NULL
       /\ \A n \in Linked :
            /\ IF next[n] = NULL THEN n = m_tail ELSE next[n] \in Linked /\ back[next[n]] = n
            /\ IF back[n] = NULL THEN n = m_head ELSE back[n] \in Linked /\ next[back[n]] = n
  /\ dtor = "nodes" =>
       /\ dnode # NULL => dnode \in Linked /\ back[dnode] \notin Linked
       /\ \A n \in Linked :
            next[n] # NULL => next[n] \in Linked /\ back[next[n]] = n

\* A handle on an erased node is older than the record of that node.
CursorInv ==
  dtor = "none" =>
    \A h \in Handles : cursor[h] # NULL =>
      /\ pc[h] \in {"open", "retire"}
      /\ cursor[h] \in nodeHeap
      /\ \A z \in Pushed : zombie_node[z] = cursor[h] => m_zombie[h] \in below[z]

\* A record is guarded while a handle older than it is open.
Guarded(z) == \E r \in below[z] : owner[r] # NULL

\* An erased node that a handle may still stand on leads to a linked node or
\* to one that was erased no earlier.  (To itself only if the list had a loop:
\* the argument does not need that it has none.)
SuccessorInv ==
  dtor = "none" =>
    /\ \A h \in Handles :
         LET c == cursor[h] IN
         pc[h] = "retire" /\ next[c] # NULL => next[c] \in Linked \cup {c}
    /\ \A z \in Pushed :
         LET n == zombie_node[z] IN
         n # NULL /\ Guarded(z) /\ next[n] # NULL =>
           /\ next[n] \in nodeHeap
           /\ \A y \in Pushed : zombie_node[y] = next[n] => y = z \/ z \in below[y]

IInv ==
  /\ TypeOK
  /\ GuardInv
  /\ WriterInv
  /\ OrderInv
  /\ LinkInv
  /\ WalkInv
  /\ DtorInv
  /\ RetiredOnce
  /\ ListShape
  /\ CursorInv
  /\ SuccessorInv

-----------------------------------------------------------------------------
(* What ~rcu_list leaves to the handles that outlive the list *)

\* unlock() of handle h is still to free record z.
Frees(h, z) == pc[h] \in {"open", "walk", "reap"} /\ z \in below[m_zombie[h]]

\* Record z belongs to an erased node and no handle's record lies below it.
Bare(z) == zombie_node[z] # NULL /\ \A r \in below[z] : zombie_node[r] # NULL

\* A handle frees record z, and it is older than any handle that gives z up.
Covered(z) ==
  /\ \E h \in Handles : Frees(h, z)
  /\ \A g \in Handles : pc[g] = "leave" /\ z \in below[m_zombie[g]] =>
       \E h \in Handles : Frees(h, z) /\ m_zombie[h] \in below[m_zombie[g]]

\* No linked node is left, the newest record is that of a handle, and no bare
\* record is forgotten.
LeakInv ==
  /\ dtor \in {"zombies", "done"} => Linked = {}
  /\ dtor = "done" =>
       /\ Top(dzombie)
       /\ dzombie # NULL => zombie_node[dzombie] = NULL
       /\ \A z \in Pushed : Bare(z) => Covered(z)

=============================================================================
