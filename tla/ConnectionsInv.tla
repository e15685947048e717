----------------------------- MODULE ConnectionsInv -----------------------------
(***************************************************************************)
(* The inductive invariant of Connections.                                 *)
(***************************************************************************)
EXTENDS Connections

\* Where a thread holds the mutex of call[t].snd, and where that of other[t].
HoldsSender == {"add", "addLock", "addSender", "scan", "found", "eraseSender", "eraseConn"}
HoldsOther  == {"addSender", "eraseSender", "eraseConn", "sweep", "purge"}

\* The arguments that a function has.
CallShape ==
  \A t \in Threads :
    /\ pc[t] \in Connecting => /\ call[t].snd \in Senders /\ call[t].rcv \in Receivers
                               /\ call[t].sig \in Signals /\ call[t].slot \in Slots
    /\ pc[t] \in Disconnecting => call[t].snd \in Senders
    /\ pc[t] \in Leaving => call[t].snd \in Senders
    /\ pc[t] \in Closing => call[t].rcv \in Receivers

\* The object at the other side.
OtherShape ==
  \A t \in Threads :
    /\ pc[t] \in {"addLock", "addSender"} => other[t] = call[t].rcv
    /\ pc[t] \in {"found", "eraseSender", "eraseConn", "leaveLock", "sweep"} => other[t] \in Receivers
    /\ pc[t] \in {"closeLock", "purge"} => other[t] \in Senders

\* A mutex is held for a reason.
LocksNeeded ==
  \A t \in Threads, o \in Objects : mutex[o] = t =>
    \/ pc[t] \in HoldsSender /\ o = call[t].snd
    \/ pc[t] \in HoldsOther /\ o = other[t]

OrderInv == TypeOK /\ CallShape /\ OtherShape /\ LocksNeeded

LocksHeld ==
  \A t \in Threads :
    /\ pc[t] \in HoldsSender => mutex[call[t].snd] = t
    /\ pc[t] \in HoldsOther => mutex[other[t]] = t

\* internal_disconnect() holds on to a connection that is still there.
IterShape ==
  \A t \in Threads : pc[t] \in {"found", "eraseSender", "eraseConn"} =>
    /\ iter[t] \in Matches(call[t].snd, call[t])
    /\ other[t] = conn[iter[t]].rcv

\* A call uses objects that exist and that no other thread destroys.
UsedExist == \A t \in Threads : Used(pc[t], call[t]) \subseteq alive

NotDisturbed ==
  \A t, u \in Threads : t # u /\ Dying(t) # NULL => Dying(t) \notin Used(pc[u], call[u])

\* Only a destructor counts what it has passed.
VisitsShape ==
  \A t \in Threads : pc[t] \notin Leaving \cup Closing => visits[t] = [o \in Objects |-> 0]

\* The thread has written one half of the connection only, or erased one.
HalfDone(t, s, r) ==
  pc[t] \in {"addLock", "addSender", "eraseConn"} /\ call[t].snd = s /\ other[t] = r

\* The destructor has been to the other object.
Swept(t, s, r)  == pc[t] \in Leaving /\ call[t].snd = s /\ visits[t][r] > 0
Purged(t, s, r) == pc[t] \in Closing /\ call[t].rcv = r /\ visits[t][s] > 0

HalvesOf(s, r) ==
  /\ \A t \in Threads :
       /\ Swept(t, s, r) => senders[r][s] = 0
       /\ Purged(t, s, r) => Between(s, r) = {}
       /\ HalfDone(t, s, r) => Cardinality(Between(s, r)) = senders[r][s] + 1
  /\ (\A t \in Threads : ~Swept(t, s, r) /\ ~Purged(t, s, r) /\ ~HalfDone(t, s, r)) =>
       Cardinality(Between(s, r)) = senders[r][s]

Halves == \A s \in Senders, r \in Receivers : HalvesOf(s, r)

NothingLeft ==
  /\ \A c \in Conns : conn[c] # Blank => {conn[c].snd, conn[c].rcv} \subseteq alive
  /\ \A r \in Receivers, s \in Senders : senders[r][s] > 0 => {r, s} \subseteq alive

\* What connect() has looked for is still not there when it pushes.
UniqueInv ==
  /\ \A t \in Threads : ~call[t].bento
  /\ NotAddedTwice

IInv == /\ OrderInv
        /\ LocksHeld
        /\ IterShape
        /\ UsedExist
        /\ NotDisturbed
        /\ VisitsShape
        /\ Halves
        /\ NothingLeft
        /\ UniqueInv

=============================================================================
