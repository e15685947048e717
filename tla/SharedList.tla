------------------------------ MODULE SharedList ------------------------------
(***************************************************************************)
(* What libguarded::rcu_list promises the code that uses it, without its   *)
(* memory management: a list that one handle at a time changes, iterators  *)
(* that other handles move through it meanwhile, and the grace period: an  *)
(* erased element keeps leading where it led when it was erased, and is    *)
(* given up only when no handle is open that was open when it was retired. *)
(***************************************************************************)
EXTENDS Naturals, SequencesExt

CONSTANTS Handles, Nodes, NULL

ASSUME NullAssumption == NULL \notin Handles \cup Nodes

VARIABLES
  alive,      \* the list exists
  list,       \* the elements, in order
  erased,     \* the elements taken out and not given up yet
  trail,      \* where an erased element leads
  watchers,   \* the handles for which an erased element is kept
  retiring,   \* the element that a call of erase() has taken out so far
  open,       \* the handles in use
  writer,     \* the handle that may change the list, or NULL
  cursor      \* the iterator of each handle

vars == <<alive, list, erased, trail, watchers, retiring, open, writer, cursor>>

TypeOK ==
  /\ alive \in BOOLEAN
  /\ list \in Seq(Nodes)
  /\ erased \subseteq Nodes
  /\ trail \in [Nodes -> Nodes \cup {NULL}]
  /\ watchers \in [Nodes -> SUBSET Handles]
  /\ retiring \in Nodes \cup {NULL}
  /\ open \subseteq Handles
  /\ writer \in open \cup {NULL}
  /\ cursor \in [Handles -> Nodes \cup {NULL}]

Init ==
  /\ alive = TRUE
  /\ list = <<>>
  /\ erased = {}
  /\ trail = [n \in Nodes |-> NULL]
  /\ watchers = [n \in Nodes |-> {}]
  /\ retiring = NULL
  /\ open = {}
  /\ writer = NULL
  /\ cursor = [h \in Handles |-> NULL]

Linked == Range(list)

First(s) == IF s = <<>> THEN NULL ELSE s[1]

Index(n) == CHOOSE k \in DOMAIN list : list[k] = n

\* The element next to n, or NULL.
After(n) == IF Index(n) = Len(list) THEN NULL ELSE list[Index(n) + 1]

\* Mutant: an erased element leads back to the beginning.
FollowOver(n) == IF n \in erased THEN First(list) ELSE After(n)

\* Where operator++ leads from n.
Follow(n) == IF n \in erased THEN trail[n] ELSE After(n)

-----------------------------------------------------------------------------

\* A handle that is not in the middle of erase().
Ready(h) == h \in open /\ (writer = h => retiring = NULL)

\* The first dereference of a handle.
Open(h) ==
  /\ alive /\ h \notin open
  /\ open' = open \cup {h}
  /\ UNCHANGED <<alive, list, erased, trail, watchers, retiring, writer, cursor>>

LockWrite(h) ==
  /\ h \in open /\ writer = NULL
  /\ writer' = h
  /\ UNCHANGED <<alive, list, erased, trail, watchers, retiring, open, cursor>>

\* Mutant: an iterator that is there already is used.
BeginWhereLeft(h) ==
  /\ Ready(h)
  /\ cursor' = [cursor EXCEPT ![h] = IF @ = NULL THEN First(list) ELSE @]
  /\ UNCHANGED <<alive, list, erased, trail, watchers, retiring, open, writer>>

Begin(h) ==
  /\ Ready(h)
  /\ cursor' = [cursor EXCEPT ![h] = First(list)]
  /\ UNCHANGED <<alive, list, erased, trail, watchers, retiring, open, writer>>

Advance(h) ==
  /\ Ready(h) /\ cursor[h] # NULL
  /\ cursor' = [cursor EXCEPT ![h] = Follow(cursor[h])]
  /\ UNCHANGED <<alive, list, erased, trail, watchers, retiring, open, writer>>

Insert(h) ==
  /\ Ready(h) /\ writer = h
  /\ \E n \in Nodes \ (Linked \cup erased), k \in 1 .. Len(list) + 1 :
       list' = InsertAt(list, k, n)
  /\ UNCHANGED <<alive, erased, trail, watchers, retiring, open, writer, cursor>>

\* Mutant: the next field of the erased element is cleared.
EraseCut(h) ==
  /\ Ready(h) /\ writer = h
  /\ cursor[h] \in Linked
  /\ list' = RemoveAt(list, Index(cursor[h]))
  /\ erased' = erased \cup {cursor[h]}
  /\ trail' = [trail EXCEPT ![cursor[h]] = NULL]
  /\ retiring' = cursor[h]
  /\ UNCHANGED <<alive, watchers, open, writer, cursor>>

Erase(h) ==
  /\ Ready(h) /\ writer = h
  /\ cursor[h] \in Linked
  /\ LET c == cursor[h] IN
       /\ list' = RemoveAt(list, Index(c))
       /\ erased' = erased \cup {c}
       /\ trail' = [trail EXCEPT ![c] = Follow(c)]
       /\ retiring' = c
  /\ UNCHANGED <<alive, watchers, open, writer, cursor>>

\* The end of erase(), which may hand its caller the successor.
Retire(h) ==
  /\ writer = h /\ retiring # NULL
  /\ watchers' = [watchers EXCEPT ![retiring] = open]
  /\ retiring' = NULL
  /\ \E c \in {cursor[h], Follow(cursor[h])} : cursor' = [cursor EXCEPT ![h] = c]
  /\ UNCHANGED <<alive, list, erased, trail, open, writer>>

\* Mutant: the write handle keeps the mutex.
CloseLocked(h) ==
  /\ Ready(h)
  /\ open' = open \ {h}
  /\ watchers' = [n \in Nodes |-> watchers[n] \ {h}]
  /\ cursor' = [cursor EXCEPT ![h] = NULL]
  /\ UNCHANGED <<alive, list, erased, trail, retiring, writer>>

Close(h) ==
  /\ Ready(h)
  /\ open' = open \ {h}
  /\ writer' = IF writer = h THEN NULL ELSE writer
  /\ watchers' = [n \in Nodes |-> watchers[n] \ {h}]
  /\ cursor' = [cursor EXCEPT ![h] = NULL]
  /\ UNCHANGED <<alive, list, erased, trail, retiring>>

\* Mutant: no grace period.
ReclaimAtOnce(n) ==
  /\ n \in erased \ {retiring}
  /\ erased' = erased \ {n}
  /\ trail' = [trail EXCEPT ![n] = NULL]
  /\ UNCHANGED <<alive, list, watchers, retiring, open, writer, cursor>>

\* The grace period of n is over.
Reclaim(n) ==
  /\ n \in erased \ {retiring}
  /\ watchers[n] = {}
  /\ erased' = erased \ {n}
  /\ trail' = [trail EXCEPT ![n] = NULL]
  /\ UNCHANGED <<alive, list, watchers, retiring, open, writer, cursor>>

Destroy ==
  /\ alive /\ writer = NULL
  /\ alive' = FALSE
  /\ list' = <<>>
  /\ erased' = {}
  /\ trail' = [n \in Nodes |-> NULL]
  /\ watchers' = [n \in Nodes |-> {}]
  /\ open' = {}
  /\ cursor' = [h \in Handles |-> NULL]
  /\ UNCHANGED <<retiring, writer>>

Next == \/ \E h \in Handles : Open(h) \/ LockWrite(h) \/ Begin(h) \/ Advance(h) \/ Insert(h)
                                \/ Erase(h) \/ Retire(h) \/ Close(h)
        \/ \E n \in Nodes : Reclaim(n)
        \/ Destroy

Spec == Init /\ [][Next]_vars

=============================================================================
