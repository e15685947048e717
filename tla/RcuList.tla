------------------------------- MODULE RcuList -------------------------------
(***************************************************************************)
(* libguarded::rcu_list (cs_rcu_list.h) reached through the read and write *)
(* handles of libguarded::rcu_guarded (cs_rcu_guarded.h).                  *)
(*                                                                         *)
(* The processes are handles, not threads: a thread that nests two handles *)
(* (a signal activated from inside a slot, a destructor run by a slot) is  *)
(* one of the interleavings of two handles.  Memory is explicit: an        *)
(* address is free or allocated and a freed address is handed out again.   *)
(*                                                                         *)
(* A step of the model is one access that another thread can observe: a    *)
(* load or store of m_head or of some next, an operation on m_zombie_head, *)
(* on an owner field or on the mutex.  What only the holder of             *)
(* m_write_mutex touches (back, m_tail, deleted) is updated together with  *)
(* the observable store of the same function.                              *)
(***************************************************************************)
EXTENDS Naturals, FiniteSets

CONSTANTS
  Handles,   \* read_handle / write_handle objects
  Nodes,     \* addresses of rcu_list::node
  Zombies,   \* addresses of rcu_list::zombie_list_node
  NULL       \* nullptr

ASSUME NullAssumption == NULL \notin Handles \cup Nodes \cup Zombies

VARIABLES
  m_head, m_tail,      \* first and last node of the list
  next, back,          \* node links
  deleted,             \* the nodes whose deleted flag is set
  nodeHeap,            \* allocated nodes
  m_zombie_head,       \* top of the zombie list
  znext,               \* zombie_list_node::next
  owner,               \* zombie_list_node::owner
  zombie_node,         \* zombie_list_node::zombie_node
  zombieHeap,          \* allocated zombie_list_nodes
  m_write_mutex,       \* the handle that holds the mutex, or NULL
  pc,                  \* where each handle is in its current function
  writer,              \* the handles obtained from lock_write()
  m_zombie,            \* rcu_guard::m_zombie, the record of the handle
  cursor,              \* the m_current of the iterator the handle works with
  fresh,               \* erase(): the record under construction
  scan,                \* unlock(): the local n
  dtor,                \* progress of ~rcu_list
  dnode, dzombie,      \* ~rcu_list: the locals n and zn
  below                \* history: the records under each record of the stack

listVars   == <<m_head, m_tail, next, back, deleted>>
recordVars == <<znext, owner, zombie_node>>
localVars  == <<writer, m_zombie, cursor, fresh, scan>>
dtorVars   == <<dtor, dnode, dzombie>>

vars == <<m_head, m_tail, next, back, deleted, nodeHeap, m_zombie_head, znext,
          owner, zombie_node, zombieHeap, m_write_mutex, pc, writer, m_zombie,
          cursor, fresh, scan, dtor, dnode, dzombie, below>>

(***************************************************************************)
(* idle    no handle object, or one that was never dereferenced            *)
(* enlist  rcu_read_lock: before the compare-exchange on m_zombie_head     *)
(* wait    rcu_write_lock: before m_write_mutex.lock()                     *)
(* open    between two calls on the list                                   *)
(* retire  erase: before the compare-exchange on m_zombie_head             *)
(* walk    unlock: looking for a live owner further down                   *)
(* reap    unlock: freeing what lies further down                          *)
(* leave   unlock: before m_zombie->owner.store(nullptr)                   *)
(***************************************************************************)
Control == {"idle", "enlist", "wait", "open", "retire", "walk", "reap", "leave"}

Linked == nodeHeap \ deleted

\* The records that have been pushed and not been freed.
Stack == IF m_zombie_head = NULL
         THEN {}
         ELSE {m_zombie_head} \cup below[m_zombie_head]

TypeOK ==
  /\ m_head \in Nodes \cup {NULL}
  /\ m_tail \in Nodes \cup {NULL}
  /\ next \in [Nodes -> Nodes \cup {NULL}]
  /\ back \in [Nodes -> Nodes \cup {NULL}]
  /\ deleted \subseteq Nodes
  /\ nodeHeap \subseteq Nodes
  /\ m_zombie_head \in Zombies \cup {NULL}
  /\ znext \in [Zombies -> Zombies \cup {NULL}]
  /\ owner \in [Zombies -> Handles \cup {NULL}]
  /\ zombie_node \in [Zombies -> Nodes \cup {NULL}]
  /\ zombieHeap \subseteq Zombies
  /\ m_write_mutex \in Handles \cup {NULL}
  /\ pc \in [Handles -> Control]
  /\ writer \subseteq Handles
  /\ m_zombie \in [Handles -> Zombies \cup {NULL}]
  /\ cursor \in [Handles -> Nodes \cup {NULL}]
  /\ fresh \in [Handles -> Zombies \cup {NULL}]
  /\ scan \in [Handles -> Zombies \cup {NULL}]
  /\ dtor \in {"none", "nodes", "zombies", "done"}
  /\ dnode \in Nodes \cup {NULL}
  /\ dzombie \in Zombies \cup {NULL}
  /\ below \in [Zombies -> SUBSET Zombies]

\* rcu_list(): an empty list.
Init ==
  /\ m_head = NULL
  /\ m_tail = NULL
  /\ next = [n \in Nodes |-> NULL]
  /\ back = [n \in Nodes |-> NULL]
  /\ deleted = {}
  /\ nodeHeap = {}
  /\ m_zombie_head = NULL
  /\ znext = [z \in Zombies |-> NULL]
  /\ owner = [z \in Zombies |-> NULL]
  /\ zombie_node = [z \in Zombies |-> NULL]
  /\ zombieHeap = {}
  /\ m_write_mutex = NULL
  /\ pc = [h \in Handles |-> "idle"]
  /\ writer = {}
  /\ m_zombie = [h \in Handles |-> NULL]
  /\ cursor = [h \in Handles |-> NULL]
  /\ fresh = [h \in Handles |-> NULL]
  /\ scan = [h \in Handles |-> NULL]
  /\ dtor = "none"
  /\ dnode = NULL
  /\ dzombie = NULL
  /\ below = [z \in Zombies |-> {}]

-----------------------------------------------------------------------------
(* The zombie stack *)

\* Mutant: owner has no initialiser, so the record of an erased node starts with
\* whatever bits the memory held before, no address of a handle.
NewRecordUnset(z, h, n) ==
  /\ zombieHeap' = zombieHeap \cup {z}
  /\ znext' = [znext EXCEPT ![z] = m_zombie_head]
  /\ owner' = [owner EXCEPT ![z] = IF h = NULL THEN "indeterminate" ELSE h]
  /\ zombie_node' = [zombie_node EXCEPT ![z] = n]

\* Allocates and constructs record z, and loads m_zombie_head into its next
\* field, which is where both compare-exchange loops keep the expected value.
NewRecord(z, h, n) ==
  /\ zombieHeap' = zombieHeap \cup {z}
  /\ znext' = [znext EXCEPT ![z] = m_zombie_head]
  /\ owner' = [owner EXCEPT ![z] = h]
  /\ zombie_node' = [zombie_node EXCEPT ![z] = n]

\* Mutant: a plain store in place of the compare-exchange.
PushRecordBlindly(z) ==
  /\ m_zombie_head' = z
  /\ below' = [below EXCEPT ![z] = Stack]
  /\ UNCHANGED recordVars

\* compare_exchange_weak succeeds: z becomes the top of the stack.
PushRecord(z) ==
  /\ m_zombie_head = znext[z]
  /\ m_zombie_head' = z
  /\ below' = [below EXCEPT ![z] = Stack]
  /\ UNCHANGED recordVars

\* It fails and the loop stores the value it found for the next attempt.
ReloadHead(z) ==
  /\ m_zombie_head # znext[z]
  /\ znext' = [znext EXCEPT ![z] = m_zombie_head]
  /\ UNCHANGED <<m_zombie_head, owner, zombie_node, below>>

\* destroy + deallocate of node n, which may be NULL.  Freed memory has no
\* contents.
FreeNode(n) ==
  /\ nodeHeap' = nodeHeap \ {n}
  /\ deleted' = deleted \ {n}
  /\ next' = [m \in Nodes |-> IF m = n THEN NULL ELSE next[m]]
  /\ back' = [m \in Nodes |-> IF m = n THEN NULL ELSE back[m]]

\* Mutant: the node is not freed with its record.
FreeRecordOnly(z) ==
  /\ zombieHeap' = zombieHeap \ {z}
  /\ znext' = [znext EXCEPT ![z] = NULL]
  /\ zombie_node' = [zombie_node EXCEPT ![z] = NULL]
  /\ below' = [y \in Zombies |-> IF y = z THEN {} ELSE below[y] \ {z}]
  /\ UNCHANGED <<m_head, m_tail, m_zombie_head, owner, next, back, deleted, nodeHeap>>

\* The same for record z and the node it carries, if any.
FreeRecord(z) ==
  /\ FreeNode(zombie_node[z])
  /\ zombieHeap' = zombieHeap \ {z}
  /\ znext' = [znext EXCEPT ![z] = NULL]
  /\ zombie_node' = [zombie_node EXCEPT ![z] = NULL]
  /\ below' = [y \in Zombies |-> IF y = z THEN {} ELSE below[y] \ {z}]
  /\ UNCHANGED <<m_head, m_tail, m_zombie_head, owner>>

-----------------------------------------------------------------------------
(* Taking a handle: access(), rcu_read_lock, rcu_write_lock *)

Access(h, write) ==
  /\ pc[h] = "idle"
  /\ dtor = "none"
  /\ \E z \in Zombies \ zombieHeap :
       /\ NewRecord(z, h, NULL)
       /\ m_zombie' = [m_zombie EXCEPT ![h] = z]
  /\ writer' = IF write THEN writer \cup {h} ELSE writer \ {h}
  /\ pc' = [pc EXCEPT ![h] = "enlist"]
  /\ UNCHANGED <<listVars, nodeHeap, m_zombie_head, m_write_mutex, cursor,
                 fresh, scan, dtorVars, below>>

Enlist(h) ==
  /\ pc[h] = "enlist"
  /\ PushRecord(m_zombie[h])
  /\ pc' = [pc EXCEPT ![h] = IF h \in writer THEN "wait" ELSE "open"]
  /\ UNCHANGED <<listVars, nodeHeap, zombieHeap, m_write_mutex, localVars, dtorVars>>

EnlistRetry(h) ==
  /\ pc[h] = "enlist"
  /\ ReloadHead(m_zombie[h])
  /\ UNCHANGED <<listVars, nodeHeap, zombieHeap, m_write_mutex, pc, localVars, dtorVars>>

LockMutex(h) ==
  /\ pc[h] = "wait"
  /\ m_write_mutex = NULL
  /\ m_write_mutex' = h
  /\ pc' = [pc EXCEPT ![h] = "open"]
  /\ UNCHANGED <<listVars, nodeHeap, m_zombie_head, recordVars, zombieHeap,
                 localVars, dtorVars, below>>

-----------------------------------------------------------------------------
(* Reading: begin() and operator++ *)

Reading(h) == pc[h] = "open" /\ dtor = "none"

Begin(h) ==
  /\ Reading(h)
  /\ cursor' = [cursor EXCEPT ![h] = m_head]
  /\ UNCHANGED <<listVars, nodeHeap, m_zombie_head, recordVars, zombieHeap,
                 m_write_mutex, pc, writer, m_zombie, fresh, scan, dtorVars, below>>

Advance(h) ==
  /\ Reading(h)
  /\ cursor[h] # NULL
  /\ cursor' = [cursor EXCEPT ![h] = next[cursor[h]]]
  /\ UNCHANGED <<listVars, nodeHeap, m_zombie_head, recordVars, zombieHeap,
                 m_write_mutex, pc, writer, m_zombie, fresh, scan, dtorVars, below>>

-----------------------------------------------------------------------------
(* Writing: push_front, push_back, emplace, erase *)

Writing(h) == Reading(h) /\ h \in writer

Allocate(n) ==
  /\ nodeHeap' = nodeHeap \cup {n}
  /\ deleted' = deleted \ {n}

\* Mutant: the back link of the successor is not stored.
SpliceForward(n, p, s) ==
  /\ next' = [m \in Nodes |-> IF m = n THEN s ELSE IF m = p THEN n ELSE next[m]]
  /\ back' = [m \in Nodes |-> IF m = n THEN p ELSE back[m]]

\* Links the new node n between p and s, either of which may be NULL.
Splice(n, p, s) ==
  /\ next' = [m \in Nodes |-> IF m = n THEN s ELSE IF m = p THEN n ELSE next[m]]
  /\ back' = [m \in Nodes |-> IF m = n THEN p ELSE IF m = s THEN n ELSE back[m]]

AtFront(n) ==
  /\ Splice(n, NULL, m_head)
  /\ m_head' = n
  /\ m_tail' = IF m_head = NULL THEN n ELSE m_tail

AtBack(n) ==
  /\ Splice(n, m_tail, NULL)
  /\ m_tail' = n
  /\ m_head' = IF m_tail = NULL THEN n ELSE m_head

\* emplace(iter): in front of the node of the iterator, except that an
\* iterator to the last of several nodes inserts behind it.
AtIterator(n, c) ==
  \/ m_head \in {NULL, c} /\ AtFront(n)
  \/ m_head \notin {NULL, c} /\ m_tail = c /\ AtBack(n)
  \/ /\ m_head \notin {NULL, c}
     /\ m_tail # c
     /\ Splice(n, back[c], c)
     /\ UNCHANGED <<m_head, m_tail>>

\* What push_front, push_back and emplace leave alone.
UnchangedByInsert == UNCHANGED <<m_zombie_head, recordVars, zombieHeap,
                                 m_write_mutex, pc, localVars, dtorVars, below>>

PushFront(h) ==
  /\ Writing(h)
  /\ \E n \in Nodes \ nodeHeap : Allocate(n) /\ AtFront(n)
  /\ UnchangedByInsert

PushBack(h) ==
  /\ Writing(h)
  /\ \E n \in Nodes \ nodeHeap : Allocate(n) /\ AtBack(n)
  /\ UnchangedByInsert

\* emplace with whatever iterator the handle holds; outside an empty list an
\* iterator that points nowhere would be dereferenced.
EmplaceAnywhere(h) ==
  /\ Writing(h)
  /\ m_head = NULL \/ cursor[h] # NULL
  /\ \E n \in Nodes \ nodeHeap : Allocate(n) /\ AtIterator(n, cursor[h])
  /\ UnchangedByInsert

\* emplace with an iterator to an element that is still in the list.
Emplace(h) == cursor[h] \notin deleted /\ EmplaceAnywhere(h)

\* erase: takes the node of the iterator out of the list ...
TakeOut(h) ==
  /\ Writing(h)
  /\ cursor[h] # NULL
  /\ LET c == cursor[h]
         oldNext == next[c]
         oldPrev == back[c]
     IN /\ deleted' = deleted \cup {c}
        /\ next' = [m \in Nodes |-> IF m = oldPrev THEN oldNext ELSE next[m]]
        /\ back' = [m \in Nodes |-> IF m = oldNext THEN oldPrev ELSE back[m]]
        /\ m_head' = IF oldPrev = NULL THEN oldNext ELSE m_head
        /\ m_tail' = IF oldNext = NULL THEN oldPrev ELSE m_tail
        /\ \E z \in Zombies \ zombieHeap :
             NewRecord(z, NULL, c) /\ fresh' = [fresh EXCEPT ![h] = z]
  /\ pc' = [pc EXCEPT ![h] = "retire"]
  /\ UNCHANGED <<nodeHeap, m_zombie_head, m_write_mutex, writer, m_zombie,
                 cursor, scan, dtorVars, below>>

\* Mutant: erase does not ask whether the node is marked.
UnlinkTwice(h) == TakeOut(h)

\* ... unless it is marked already, ...
Unlink(h) == cursor[h] \notin deleted /\ TakeOut(h)

\* ... and pushes a record for it.  The caller goes on with the iterator that
\* erase returns or with the one it passed.
Retire(h) ==
  /\ pc[h] = "retire"
  /\ PushRecord(fresh[h])
  /\ pc' = [pc EXCEPT ![h] = "open"]
  /\ fresh' = [fresh EXCEPT ![h] = NULL]
  /\ \E c \in {cursor[h], next[cursor[h]]} : cursor' = [cursor EXCEPT ![h] = c]
  /\ UNCHANGED <<listVars, nodeHeap, zombieHeap, m_write_mutex, writer,
                 m_zombie, scan, dtorVars>>

RetireRetry(h) ==
  /\ pc[h] = "retire"
  /\ ReloadHead(fresh[h])
  /\ UNCHANGED <<listVars, nodeHeap, zombieHeap, m_write_mutex, pc, localVars, dtorVars>>

\* erase of a node that is marked already only returns the successor.
EraseAgain(h) == Writing(h) /\ cursor[h] \in deleted /\ Advance(h)

-----------------------------------------------------------------------------
(* Giving a handle back: rcu_read_unlock, rcu_write_unlock *)

\* A handle that outlives the list may still be given back: SignalBase is
\* destroyed by a slot while activate() holds a handle.
Unlock(h) ==
  /\ pc[h] = "open"
  /\ dtor \in {"none", "done"}
  /\ m_write_mutex' = IF h \in writer THEN NULL ELSE m_write_mutex
  /\ scan' = [scan EXCEPT ![h] = znext[m_zombie[h]]]
  /\ cursor' = [cursor EXCEPT ![h] = NULL]
  /\ pc' = [pc EXCEPT ![h] = "walk"]
  /\ UNCHANGED <<listVars, nodeHeap, m_zombie_head, recordVars, zombieHeap,
                 writer, m_zombie, fresh, dtorVars, below>>

\* What the steps of unlock() that free nothing leave alone.
UnchangedByWalk == UNCHANGED <<listVars, nodeHeap, m_zombie_head, owner, zombie_node,
                               zombieHeap, m_write_mutex, writer, m_zombie, cursor,
                               fresh, dtorVars, below>>

\* Mutant: owners further down do not stop the walk.
WalkOnIgnoringOwners(h) ==
  /\ pc[h] = "walk"
  /\ scan[h] # NULL
  /\ scan' = [scan EXCEPT ![h] = znext[scan[h]]]
  /\ UnchangedByWalk
  /\ UNCHANGED <<znext, pc>>

\* Mutant: the walk does not advance.
WalkOnTheSpot(h) ==
  /\ pc[h] = "walk"
  /\ scan[h] # NULL
  /\ owner[scan[h]] = NULL
  /\ scan' = [scan EXCEPT ![h] = scan[h]]
  /\ UnchangedByWalk
  /\ UNCHANGED <<znext, pc>>

WalkOn(h) ==
  /\ pc[h] = "walk"
  /\ scan[h] # NULL
  /\ owner[scan[h]] = NULL
  /\ scan' = [scan EXCEPT ![h] = znext[scan[h]]]
  /\ UnchangedByWalk
  /\ UNCHANGED <<znext, pc>>

\* An older handle is open: last = false.
WalkBlocked(h) ==
  /\ pc[h] = "walk"
  /\ scan[h] # NULL
  /\ owner[scan[h]] # NULL
  /\ pc' = [pc EXCEPT ![h] = "leave"]
  /\ scan' = [scan EXCEPT ![h] = NULL]
  /\ UnchangedByWalk
  /\ UNCHANGED znext

\* No older handle is open: n = cached_next.
WalkLast(h) ==
  /\ pc[h] = "walk"
  /\ scan[h] = NULL
  /\ scan' = [scan EXCEPT ![h] = znext[m_zombie[h]]]
  /\ pc' = [pc EXCEPT ![h] = "reap"]
  /\ UnchangedByWalk
  /\ UNCHANGED znext

Reap(h) ==
  /\ pc[h] = "reap"
  /\ scan[h] # NULL
  /\ FreeRecord(scan[h])
  /\ scan' = [scan EXCEPT ![h] = znext[scan[h]]]
  /\ UNCHANGED <<m_write_mutex, pc, writer, m_zombie, cursor, fresh, dtorVars>>

\* Mutant: m_zombie->next keeps pointing to the records that were freed.
ReapEndDangling(h) ==
  /\ pc[h] = "reap"
  /\ scan[h] = NULL
  /\ pc' = [pc EXCEPT ![h] = "leave"]
  /\ UnchangedByWalk
  /\ UNCHANGED <<scan, znext>>

ReapEnd(h) ==
  /\ pc[h] = "reap"
  /\ scan[h] = NULL
  /\ znext' = [znext EXCEPT ![m_zombie[h]] = NULL]
  /\ pc' = [pc EXCEPT ![h] = "leave"]
  /\ UnchangedByWalk
  /\ UNCHANGED scan

Leave(h) ==
  /\ pc[h] = "leave"
  /\ owner' = [owner EXCEPT ![m_zombie[h]] = NULL]
  /\ m_zombie' = [m_zombie EXCEPT ![h] = NULL]
  /\ pc' = [pc EXCEPT ![h] = "idle"]
  /\ UNCHANGED <<listVars, nodeHeap, m_zombie_head, znext, zombie_node, zombieHeap,
                 m_write_mutex, writer, cursor, fresh, scan, dtorVars, below>>

-----------------------------------------------------------------------------
(* ~rcu_list *)

\* No call on the list is in progress.  Handles may be open: those of the
\* thread that runs the destructor, further up its call stack.
Destroy ==
  /\ dtor = "none"
  /\ \A h \in Handles : pc[h] \in {"idle", "open"}
  /\ m_write_mutex = NULL
  /\ dtor' = "nodes"
  /\ dnode' = m_head
  /\ UNCHANGED <<listVars, nodeHeap, m_zombie_head, recordVars, zombieHeap,
                 m_write_mutex, pc, localVars, dzombie, below>>

DestroyNode ==
  /\ dtor = "nodes"
  /\ dnode # NULL
  /\ FreeNode(dnode)
  /\ dnode' = next[dnode]
  /\ UNCHANGED <<m_head, m_tail, m_zombie_head, recordVars, zombieHeap,
                 m_write_mutex, pc, localVars, dtor, dzombie, below>>

DestroyNodesEnd ==
  /\ dtor = "nodes"
  /\ dnode = NULL
  /\ dtor' = "zombies"
  /\ dzombie' = m_zombie_head
  /\ UNCHANGED <<listVars, nodeHeap, m_zombie_head, recordVars, zombieHeap,
                 m_write_mutex, pc, localVars, dnode, below>>

DestroyZombie ==
  /\ dtor = "zombies"
  /\ dzombie # NULL
  /\ owner[dzombie] = NULL
  /\ FreeRecord(dzombie)
  /\ dzombie' = znext[dzombie]
  /\ UNCHANGED <<m_write_mutex, pc, localVars, dtor, dnode>>

\* Mutant: waits for the open handles in place of leaving them their records.
DestroyEndWaiting ==
  /\ dtor = "zombies"
  /\ dzombie = NULL
  /\ dtor' = "done"
  /\ UNCHANGED <<listVars, nodeHeap, m_zombie_head, recordVars, zombieHeap,
                 m_write_mutex, pc, localVars, dnode, dzombie, below>>

\* Stops at the bottom, or at the record of an open handle.
DestroyEnd ==
  /\ dtor = "zombies"
  /\ dzombie # NULL => owner[dzombie] # NULL
  /\ dtor' = "done"
  /\ UNCHANGED <<listVars, nodeHeap, m_zombie_head, recordVars, zombieHeap,
                 m_write_mutex, pc, localVars, dnode, dzombie, below>>

-----------------------------------------------------------------------------

Lock(h) == (\E write \in BOOLEAN : Access(h, write)) \/ Enlist(h)
             \/ EnlistRetry(h) \/ LockMutex(h)

Read(h) == Begin(h) \/ Advance(h)

Write(h) == PushFront(h) \/ PushBack(h) \/ Emplace(h) \/ Unlink(h)
              \/ Retire(h) \/ RetireRetry(h) \/ EraseAgain(h)

\* The steps of unlock() after the first: no lock is needed and nothing waits.
Unlocking(h) == WalkOn(h) \/ WalkBlocked(h) \/ WalkLast(h) \/ Reap(h)
                  \/ ReapEnd(h) \/ Leave(h)

Destructor == Destroy \/ DestroyNode \/ DestroyNodesEnd \/ DestroyZombie \/ DestroyEnd

Next == \/ \E h \in Handles : Lock(h) \/ Read(h) \/ Write(h) \/ Unlock(h) \/ Unlocking(h)
        \/ Destructor

Spec == Init /\ [][Next]_vars

\* A thread that runs unlock() or the destructor goes on running.  Nothing is
\* assumed of threads that could open, read, write or wait.
FairSpec == Spec /\ (\A h \in Handles : WF_vars(Unlocking(h))) /\ WF_vars(Destructor /\ dtor # "none")

\* The same list when emplace() is also given iterators whose element has been
\* erased in the meantime.
StaleSpec == Init /\ [][Next \/ \E h \in Handles : EmplaceAnywhere(h)]_vars

-----------------------------------------------------------------------------
(* Properties *)

\* "Iterators are never invalidated by any list operation": while the list
\* exists the node under every iterator is allocated (operator*, operator++
\* and erase dereference it).
IteratorsValid ==
  dtor = "none" => \A h \in Handles : cursor[h] # NULL => cursor[h] \in nodeHeap

\* unlock() never follows a link into a record another handle has freed,
\* although every handle may free records that are not its own.
WalkersValid == \A h \in Handles : scan[h] # NULL => scan[h] \in zombieHeap

\* What remains allocated when the list is destroyed and the last handle that
\* outlived it has been given back: no element of the list, and an erased one
\* only if it was erased between the opening of two handles that were both
\* open at the destruction (~rcu_list stops at the record of the newer, unlock
\* of the newer stops at that of the older).
OnlyNestedGuardsLeak ==
  LET guards == {z \in zombieHeap : zombie_node[z] = NULL} IN
  dtor = "done" /\ (\A h \in Handles : pc[h] = "idle") =>
    /\ nodeHeap = {zombie_node[z] : z \in zombieHeap \ guards}
    /\ \A z \in zombieHeap \ guards :
         \E older, newer \in guards : older \in below[z] /\ z \in below[newer]

\* The loops of unlock() end, whatever other handles push or free meanwhile.
UnlockTerminates == \A h \in Handles : pc[h] = "walk" ~> pc[h] = "idle"

\* The loops of ~rcu_list end: neither the elements nor the records form a cycle.
DestructorTerminates == dtor = "nodes" ~> dtor = "done"

=============================================================================
