------------------------------ MODULE ActivateInv ------------------------------
(***************************************************************************)
(* The inductive invariant of Activate.                                    *)
(***************************************************************************)
EXTENDS Activate

\* Only the newest activation of a thread is not in a slot.
Nested == \A t \in Threads : \A i \in 1 .. Depth(t) - 1 : stack[t][i].at = "slot"

\* The activations of a sender are in one thread.
OneThread ==
  \A t, u \in Threads : \A i \in 1 .. Depth(t), j \in 1 .. Depth(u) :
    stack[t][i].snd = stack[u][j].snd => t = u

\* A sender that exists is the one that its activations began with.
SameObject ==
  \A t \in Threads : \A i \in 1 .. Depth(t) :
    stack[t][i].snd \in alive => gen[stack[t][i].snd] = stack[t][i].gen

HandlerLocks == \A t \in Threads : At(t, "handler") => mutex = t

\* old_activateBusy is 0 in the outermost activation of a sender.
OldShape ==
  \A t \in Threads : \A i \in 1 .. Depth(t) :
    stack[t][i].at \notin {"loop", "storing"} =>
      (stack[t][i].old = 0 <=> \A j \in 1 .. i - 1 : stack[t][j].snd # stack[t][i].snd)

\* What has been read of m_activateBusy is still there when it is written.
Counted ==
  \A t \in Threads : \A i \in 1 .. Depth(t) :
    stack[t][i].snd \in alive /\ stack[t][i].at \in {"store", "storing"} =>
      stack[t][i].old = busy[stack[t][i].snd]

\* The activations of a destroyed sender find it in beingDestroyed.
Marked ==
  \A t \in Threads : \A i \in 1 .. Depth(t) :
    stack[t][i].snd \notin alive =>
      stack[t][i].snd \in beingDestroyed /\ stack[t][i].at \in {"slot", "check", "catch"}

\* The outermost of them is there to take it out.
Drained ==
  \A s \in beingDestroyed :
    /\ s \notin alive
    /\ \E t \in Threads : \E i \in 1 .. Depth(t) : stack[t][i].snd = s /\ stack[t][i].old = 0

\* What is put back when an activation ends.
PriorShape ==
  \A t \in Threads : \A i \in 1 .. Depth(t) :
    /\ stack[t][i].priorSender = IF i = 1 THEN NULL ELSE stack[t][i - 1].snd
    /\ stack[t][i].priorSignal < i

IInv == /\ TypeOK
        /\ Nested
        /\ OneThread
        /\ SameObject
        /\ HandlerLocks
        /\ OldShape
        /\ Counted
        /\ BusyCount
        /\ Marked
        /\ Drained
        /\ PriorShape
        /\ CurrentRestored

-----------------------------------------------------------------------------
(* Where an activation stands in the list, and what lies ahead of it *)

\* a comes before b in a list.
Precedes(seq, a, b) ==
  \E i, j \in 1 .. Len(seq) : i < j /\ seq[i] = a /\ seq[j] = b

\* A connection of a sender is linked in its list, once, or erased; an erased one
\* is kept for an activation of its sender, and leads to another one or to the
\* end.
ListShape ==
  /\ \A s \in Senders :
       /\ \A c \in Conns : ~Precedes(list[s], c, c)
       /\ \A c \in Linked(s) : conn[c].snd = s /\ c \notin erased /\ conn[c].rcv \in alive
  /\ \A c \in Conns : conn[c] # Blank =>
       conn[c].snd \in alive /\ (c \in erased \/ c \in Linked(conn[c].snd))
  /\ \A c \in erased :
       /\ conn[c] # Blank
       /\ \E f \in Activations : f.snd = conn[c].snd
       /\ trail[c] # NULL => conn[trail[c]] # Blank /\ conn[trail[c]].snd = conn[c].snd

\* B holds of two connections if repeated operator++ leads from the one to the
\* other: along the list, and along what has been erased.  No way leads back.
Reaches(B) ==
  /\ \A c, d \in Conns : <<c, d>> \in B =>
       conn[c] # Blank /\ conn[d] # Blank /\ conn[c].snd = conn[d].snd
  /\ \A s \in Senders : \A c \in Linked(s), d \in Conns :
       <<c, d>> \in B <=> Precedes(list[s], c, d)
  /\ \A c \in erased, d \in Conns :
       <<c, d>> \in B <=> trail[c] # NULL /\ (d = trail[c] \/ <<trail[c], d>> \in B)
  /\ \A c \in Conns : <<c, c>> \notin B

\* What an activation comes to: beyond where it stands, and there, before the
\* connection has been called.
Coming(f, B) == {d \in Conns : \/ f.at = "loop" /\ d = f.cur
                               \/ f.cur # NULL /\ <<f.cur, d>> \in B}

\* An activation stands on a connection of its sender, linked or erased.
Stands(f) ==
  \/ f.at = "loop" /\ f.cur = NULL
  \/ f.cur \in Conns /\ conn[f.cur] # Blank /\ conn[f.cur].snd = f.snd

\* It comes to no slot of a receiver that is destroyed ...
Safe(f, B) == \A c \in Coming(f, B) : conn[c].sig = f.sig => conn[c].rcv \in alive

\* ... but to what it owes, and to nothing that it may not call.
Owes(f, B) ==
  /\ f.due \subseteq Coming(f, B) \cap Linked(f.snd)
  /\ \A c \in f.due \cup f.may : conn[c].snd = f.snd /\ conn[c].sig = f.sig
  /\ \A c \in Coming(f, B) : conn[c].sig = f.sig => c \in f.may

Walk(B) == \A f \in Activations : f.snd \in alive => Stands(f) /\ Safe(f, B) /\ Owes(f, B)

Way == \E B \in SUBSET (Conns \X Conns) : Reaches(B) /\ Walk(B)

\* With IInv, it is inductive.
WInv == IInv /\ ListShape /\ Way

=============================================================================
