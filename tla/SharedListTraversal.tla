-------------------------- MODULE SharedListTraversal --------------------------
(***************************************************************************)
(* Loops over a SharedList, as in internal_cntConnections() and            *)
(* internal_receiverList(), and what they come to while other handles      *)
(* change the list.  That these functions leave out what does not match    *)
(* makes no difference to that.                                            *)
(***************************************************************************)
EXTENDS SharedList

VARIABLES
  retval,   \* internal_cntConnections(): how often a handle has come to an element
  passed,   \* history: the elements each handle has come to since begin()
  kept,     \* history: the elements linked at its begin() and ever since
  ever      \* history: those linked at its begin() or since

tvars == <<vars, retval, passed, kept, ever>>

TInit ==
  /\ Init
  /\ retval = [h \in Handles |-> 0]
  /\ passed = [h \in Handles |-> {}]
  /\ kept = [h \in Handles |-> {}]
  /\ ever = [h \in Handles |-> {}]

\* The loop of h comes to c, NULL at the end.
ComeTo(h, c) ==
  /\ retval' = [retval EXCEPT ![h] = @ + (IF c = NULL THEN 0 ELSE 1)]
  /\ passed' = [passed EXCEPT ![h] = @ \cup {c}]

Start(h) ==
  /\ Begin(h)
  /\ retval' = [retval EXCEPT ![h] = IF cursor'[h] = NULL THEN 0 ELSE 1]
  /\ passed' = [passed EXCEPT ![h] = {cursor'[h]}]
  /\ kept' = [kept EXCEPT ![h] = Linked]
  /\ ever' = [ever EXCEPT ![h] = Linked]

Pass(h) ==
  /\ Advance(h)
  /\ ComeTo(h, cursor'[h])
  /\ UNCHANGED <<kept, ever>>

\* The handles that go through the list.
Looping == {h \in Handles : passed[h] # {}}

Put(h) ==
  /\ Insert(h)
  /\ ever' = [g \in Handles |-> IF g \in Looping THEN ever[g] \cup Range(list') ELSE ever[g]]
  /\ UNCHANGED <<retval, passed, kept>>

TakeOut(h) ==
  /\ Erase(h)
  /\ kept' = [g \in Handles |-> kept[g] \ {cursor[h]}]
  /\ UNCHANGED <<retval, passed, ever>>

\* erase() may hand its result to a loop that goes on with it.
GoOn(h) ==
  /\ Retire(h)
  /\ IF cursor'[h] = cursor[h] THEN UNCHANGED <<retval, passed>> ELSE ComeTo(h, cursor'[h])
  /\ UNCHANGED <<kept, ever>>

Stop(h) ==
  /\ Close(h)
  /\ retval' = [retval EXCEPT ![h] = 0]
  /\ passed' = [passed EXCEPT ![h] = {}]
  /\ kept' = [kept EXCEPT ![h] = {}]
  /\ ever' = [ever EXCEPT ![h] = {}]

Other ==
  /\ (\E h \in Handles : Open(h) \/ LockWrite(h)) \/ (\E n \in Nodes : Reclaim(n))
  /\ UNCHANGED <<retval, passed, kept, ever>>

End ==
  /\ Destroy
  /\ retval' = [h \in Handles |-> 0]
  /\ passed' = [h \in Handles |-> {}]
  /\ kept' = [h \in Handles |-> {}]
  /\ ever' = [h \in Handles |-> {}]

TNext == \/ \E h \in Handles : Start(h) \/ Pass(h) \/ Put(h) \/ TakeOut(h) \/ GoOn(h) \/ Stop(h)
         \/ Other \/ End

TSpec == TInit /\ [][TNext]_tvars

-----------------------------------------------------------------------------

\* operator++ and operator* of an iterator find an element that has not been
\* given up, however long the trail of erased elements it has followed.
CursorsKnown == \A h \in Handles : cursor[h] # NULL => cursor[h] \in Linked \cup erased

\* internal_receiverList(): what a loop has found.
Found(h) == passed[h] \ {NULL}

\* A loop that has come to the end has come to every element that was in the
\* list all the time, whatever was erased or inserted around it: activate()
\* does not miss a connection, and internal_receiverList() no receiver.
NothingMissed == \A h \in Handles : NULL \in passed[h] => kept[h] \subseteq Found(h)

\* A loop comes to no element that was erased before it began, not even by way
\* of elements erased later.
NothingStale == \A h \in Handles : Found(h) \subseteq ever[h]

\* No loop comes to the same element twice: activate() does not call a slot
\* twice for one connection, internal_cntConnections() counts it once, and the
\* loops of the destructors end.
NothingTwice == \A h \in Handles : retval[h] = Cardinality(Found(h))

=============================================================================
