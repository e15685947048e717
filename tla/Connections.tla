------------------------------ MODULE Connections ------------------------------
(***************************************************************************)
(* connect(), disconnect() and the destructors of SignalBase and SlotBase  *)
(* (cs_signal.h, cs_signal.cpp, cs_slot.cpp).  A connection is kept twice, *)
(* in the m_connectList of the sender and as an entry in the               *)
(* m_possibleSenders of the receiver, and each list has a mutex of its     *)
(* own.  A step is what a thread does between two changes of the mutexes,  *)
(* or less where a reader could see the difference.  The order of the two  *)
(* lists does not matter here: what a loop comes to next is any element    *)
(* that it has not come to.                                                *)
(***************************************************************************)
EXTENDS Naturals, FiniteSets

CONSTANTS
  Threads, Senders, Receivers, Signals,
  Slots,       \* methods, functions and lambdas
  Methods,     \* the methods that are not const, which have an overload of connect()
  Lambdas,     \* the lambdas, which cannot be compared
  Conns,       \* addresses of the nodes of all m_connectLists
  Uniq,        \* the values given for uniqueConnection
  NULL

Objects == Senders \cup Receivers

ASSUME ObjectAssumption ==
  /\ Senders \cap Receivers = {}
  /\ NULL \notin Threads \cup Objects \cup Signals \cup Slots \cup Conns
  /\ Methods \subseteq Slots /\ Lambdas \subseteq Slots \ Methods
  /\ Uniq \subseteq BOOLEAN
  /\ IsFiniteSet(Conns)

VARIABLES
  alive,     \* the objects that exist
  conn,      \* SignalBase::m_connectList of all senders: a node that is not
             \* Blank is in the list of its snd
  senders,   \* SlotBase::m_possibleSenders: how often each sender is in it
  mutex,     \* m_write_mutex of m_connectList or m_possibleSenders: its holder
  pc,        \* where each thread is in its current function
  call,      \* the arguments of that function
  iter,      \* internal_disconnect: the connection that iter points to
  other,     \* the object at the other side, whose list is locked next or is locked
  visits     \* destructors: how many elements leading to each object are behind

vars == <<alive, conn, senders, mutex, pc, call, iter, other, visits>>

(***************************************************************************)
(* connect      before the lock of the sender's mutex                      *)
(* add          holds it: before push_back                                 *)
(* addLock      addConnection: before the lock of the receiver's mutex     *)
(* addSender    holds both: before push_back                               *)
(* disconnect   before the lock of the sender's mutex                      *)
(* scan         holds it: at the head of the loop                          *)
(* found        a match: before the lock of the receiver's mutex           *)
(* eraseSender  holds both: before erase in m_possibleSenders              *)
(* eraseConn    holds both: before erase in m_connectList                  *)
(* leave        ~SignalBase: at the head of the loop                       *)
(* leaveLock    ~SignalBase: before the lock of the receiver's mutex       *)
(* sweep        ~SignalBase: holds it                                      *)
(* close        ~SlotBase: at the head of the loop                         *)
(* closeLock    ~SlotBase: before the lock of the sender's mutex           *)
(* purge        ~SlotBase: holds it                                        *)
(***************************************************************************)
Connecting    == {"connect", "add", "addLock", "addSender"}
Disconnecting == {"disconnect", "scan", "found", "eraseSender", "eraseConn"}
Leaving       == {"leave", "leaveLock", "sweep"}
Closing       == {"close", "closeLock", "purge"}

Connection == [snd : Senders, sig : Signals, slot : Slots, rcv : Receivers]

Blank == [snd |-> NULL, sig |-> NULL, slot |-> NULL, rcv |-> NULL]

Call == [snd : Senders \cup {NULL}, sig : Signals \cup {NULL}, rcv : Receivers \cup {NULL},
         slot : Slots \cup {NULL}, uniq : BOOLEAN, bento : BOOLEAN]

NoCall == [snd |-> NULL, sig |-> NULL, rcv |-> NULL, slot |-> NULL, uniq |-> FALSE, bento |-> FALSE]

TypeOK ==
  /\ alive \subseteq Objects
  /\ conn \in [Conns -> Connection \cup {Blank}]
  /\ senders \in [Receivers -> [Senders -> Nat]]
  /\ mutex \in [Objects -> Threads \cup {NULL}]
  /\ pc \in [Threads -> {"idle"} \cup Connecting \cup Disconnecting \cup Leaving \cup Closing]
  /\ call \in [Threads -> Call]
  /\ iter \in [Threads -> Conns \cup {NULL}]
  /\ other \in [Threads -> Objects \cup {NULL}]
  /\ visits \in [Threads -> [Objects -> Nat]]

Init ==
  /\ alive = Objects
  /\ conn = [c \in Conns |-> Blank]
  /\ senders = [r \in Receivers |-> [s \in Senders |-> 0]]
  /\ mutex = [o \in Objects |-> NULL]
  /\ pc = [t \in Threads |-> "idle"]
  /\ call = [t \in Threads |-> NoCall]
  /\ iter = [t \in Threads |-> NULL]
  /\ other = [t \in Threads |-> NULL]
  /\ visits = [t \in Threads |-> [o \in Objects |-> 0]]

\* The connections in the m_connectList of s, and those of them with r.
List(s) == {c \in Conns : conn[c].snd = s}

Between(s, r) == {c \in List(s) : conn[c].rcv = r}

Goto(t, p) == pc' = [pc EXCEPT ![t] = p]

\* The function goes to p with a mutex locked.
Lock(t, o, p) ==
  /\ mutex[o] = NULL
  /\ mutex' = [mutex EXCEPT ![o] = t]
  /\ Goto(t, p)

Unlock(O) == mutex' = [o \in Objects |-> IF o \in O THEN NULL ELSE mutex[o]]

Return(t) ==
  /\ Goto(t, "idle")
  /\ call' = [call EXCEPT ![t] = NoCall]
  /\ iter' = [iter EXCEPT ![t] = NULL]
  /\ other' = [other EXCEPT ![t] = NULL]
  /\ visits' = [visits EXCEPT ![t] = [o \in Objects |-> 0]]

Begin(t, p, a) ==
  /\ pc[t] = "idle"
  /\ Goto(t, p)
  /\ call' = [call EXCEPT ![t] = a]
  /\ UNCHANGED <<alive, conn, senders, mutex, iter, other, visits>>

-----------------------------------------------------------------------------
(* connect() *)

\* operator== of two slots: a lambda differs from everything.
SameBento(left, right) == left = right /\ right \notin Lambdas

\* The connection c stands in the way of the one that `a` asks for.  The
\* overload for lambdas, which functions and const methods are given to as well,
\* does not look at the slot.
SameConnection(c, a) ==
  /\ c.rcv = a.rcv
  /\ c.sig = a.sig
  /\ a.slot \in Methods \/ a.bento => SameBento(c.slot, a.slot)

AlreadyThere(a) == a.uniq /\ \E c \in List(a.snd) : SameConnection(conn[c], a)

\* Mutant: the list is searched with a read handle, and nothing locked.
ConnectReading(t) ==
  /\ pc[t] = "connect"
  /\ ~AlreadyThere(call[t])
  /\ Goto(t, "add")
  /\ UNCHANGED <<alive, conn, senders, mutex, call, iter, other, visits>>

Connect(t) ==
  /\ pc[t] = "connect"
  /\ ~AlreadyThere(call[t])
  /\ Lock(t, call[t].snd, "add")
  /\ UNCHANGED <<alive, conn, senders, call, iter, other, visits>>

\* Returns false.
ConnectNot(t) ==
  /\ pc[t] = "connect"
  /\ mutex[call[t].snd] = NULL
  /\ AlreadyThere(call[t])
  /\ Return(t)
  /\ UNCHANGED <<alive, conn, senders, mutex>>

\* Mutant: stored after the slot has been moved away.
AddMoved(t) ==
  /\ pc[t] = "add"
  /\ \E c \in Conns :
       /\ conn[c] = Blank
       /\ conn' = [conn EXCEPT ![c] = [snd |-> call[t].snd, sig |-> call[t].sig,
                                       slot |-> NULL, rcv |-> call[t].rcv]]
  /\ other' = [other EXCEPT ![t] = call[t].rcv]
  /\ Goto(t, "addLock")
  /\ UNCHANGED <<alive, senders, mutex, call, iter, visits>>

Add(t) ==
  /\ pc[t] = "add"
  /\ \E c \in Conns :
       /\ conn[c] = Blank
       /\ conn' = [conn EXCEPT ![c] = [snd |-> call[t].snd, sig |-> call[t].sig,
                                       slot |-> call[t].slot, rcv |-> call[t].rcv]]
  /\ other' = [other EXCEPT ![t] = call[t].rcv]
  /\ Goto(t, "addLock")
  /\ UNCHANGED <<alive, senders, mutex, call, iter, visits>>

\* Mutant: the sender's mutex is released first.
AddUnlocked(t) ==
  /\ pc[t] = "addLock"
  /\ mutex[other[t]] = NULL
  /\ mutex' = [mutex EXCEPT ![other[t]] = t, ![call[t].snd] = NULL]
  /\ Goto(t, "addSender")
  /\ UNCHANGED <<alive, conn, senders, call, iter, other, visits>>

AddLock(t) ==
  /\ pc[t] = "addLock"
  /\ Lock(t, other[t], "addSender")
  /\ UNCHANGED <<alive, conn, senders, call, iter, other, visits>>

\* Mutant: one entry for all connections of the sender.
AddSenderOnce(t) ==
  /\ pc[t] = "addSender"
  /\ senders' = [senders EXCEPT ![other[t]][call[t].snd] = 1]
  /\ Unlock({call[t].snd, other[t]})
  /\ Return(t)
  /\ UNCHANGED <<alive, conn>>

AddSender(t) ==
  /\ pc[t] = "addSender"
  /\ senders' = [senders EXCEPT ![other[t]][call[t].snd] = @ + 1]
  /\ Unlock({call[t].snd, other[t]})
  /\ Return(t)
  /\ UNCHANGED <<alive, conn>>

\* The allocation of the node, or of the handle's record, throws std::bad_alloc.
AddSenderFails(t) ==
  /\ pc[t] = "addSender"
  /\ Unlock({call[t].snd, other[t]})
  /\ Return(t)
  /\ UNCHANGED <<alive, conn, senders>>

-----------------------------------------------------------------------------
(* disconnect(): internal_disconnect() *)

\* NULL stands for an argument that is nullptr.
IsMatch(c, a) ==
  /\ a.rcv \in {NULL, c.rcv}
  /\ a.sig \in {NULL, c.sig}
  /\ a.rcv # NULL /\ a.slot # NULL => SameBento(c.slot, a.slot)

Matches(s, a) == {c \in List(s) : IsMatch(conn[c], a)}

Disconnect(t) ==
  /\ pc[t] = "disconnect"
  /\ Lock(t, call[t].snd, "scan")
  /\ UNCHANGED <<alive, conn, senders, call, iter, other, visits>>

ScanFinds(t) ==
  /\ pc[t] = "scan"
  /\ \E c \in Matches(call[t].snd, call[t]) :
       /\ iter' = [iter EXCEPT ![t] = c]
       /\ other' = [other EXCEPT ![t] = conn[c].rcv]
  /\ Goto(t, "found")
  /\ UNCHANGED <<alive, conn, senders, mutex, call, visits>>

ScanEnds(t) ==
  /\ pc[t] = "scan"
  /\ Matches(call[t].snd, call[t]) = {}
  /\ Unlock({call[t].snd})
  /\ Return(t)
  /\ UNCHANGED <<alive, conn, senders>>

LockFound(t) ==
  /\ pc[t] = "found"
  /\ Lock(t, other[t], "eraseSender")
  /\ UNCHANGED <<alive, conn, senders, call, iter, other, visits>>

\* Mutant: erases all entries of the sender.
EraseSenders(t) ==
  /\ pc[t] = "eraseSender"
  /\ senders' = [senders EXCEPT ![other[t]][call[t].snd] = 0]
  /\ Goto(t, "eraseConn")
  /\ UNCHANGED <<alive, conn, mutex, call, iter, other, visits>>

\* Erases the entry that find() returns.
EraseSender(t) ==
  /\ pc[t] = "eraseSender"
  /\ senders[other[t]][call[t].snd] > 0
  /\ senders' = [senders EXCEPT ![other[t]][call[t].snd] = @ - 1]
  /\ Goto(t, "eraseConn")
  /\ UNCHANGED <<alive, conn, mutex, call, iter, other, visits>>

\* Mutant: the receiver's handle lives until the end of the loop.
EraseConnLocked(t) ==
  /\ pc[t] = "eraseConn"
  /\ conn' = [conn EXCEPT ![iter[t]] = Blank]
  /\ Goto(t, "scan")
  /\ UNCHANGED <<alive, senders, mutex, call, iter, other, visits>>

EraseConn(t) ==
  /\ pc[t] = "eraseConn"
  /\ conn' = [conn EXCEPT ![iter[t]] = Blank]
  /\ Unlock({other[t]})
  /\ iter' = [iter EXCEPT ![t] = NULL]
  /\ other' = [other EXCEPT ![t] = NULL]
  /\ Goto(t, "scan")
  /\ UNCHANGED <<alive, senders, call, visits>>

-----------------------------------------------------------------------------
(* ~SignalBase *)

LeaveNext(t) ==
  /\ pc[t] = "leave"
  /\ \E r \in Receivers :
       /\ visits[t][r] < Cardinality(Between(call[t].snd, r))
       /\ other' = [other EXCEPT ![t] = r]
  /\ Goto(t, "leaveLock")
  /\ UNCHANGED <<alive, conn, senders, mutex, call, iter, visits>>

LeaveLock(t) ==
  /\ pc[t] = "leaveLock"
  /\ Lock(t, other[t], "sweep")
  /\ UNCHANGED <<alive, conn, senders, call, iter, other, visits>>

\* Erases all entries of the sender.
Sweep(t) ==
  /\ pc[t] = "sweep"
  /\ senders' = [senders EXCEPT ![other[t]][call[t].snd] = 0]
  /\ Unlock({other[t]})
  /\ visits' = [visits EXCEPT ![t][other[t]] = @ + 1]
  /\ other' = [other EXCEPT ![t] = NULL]
  /\ Goto(t, "leave")
  /\ UNCHANGED <<alive, conn, call, iter>>

\* The loop ends, and m_connectList is destroyed.
LeaveEnd(t) ==
  /\ pc[t] = "leave"
  /\ \A r \in Receivers : visits[t][r] >= Cardinality(Between(call[t].snd, r))
  /\ alive' = alive \ {call[t].snd}
  /\ conn' = [c \in Conns |-> IF c \in List(call[t].snd) THEN Blank ELSE conn[c]]
  /\ Return(t)
  /\ UNCHANGED <<senders, mutex>>

-----------------------------------------------------------------------------
(* ~SlotBase *)

CloseNext(t) ==
  /\ pc[t] = "close"
  /\ \E s \in Senders :
       /\ visits[t][s] < senders[call[t].rcv][s]
       /\ other' = [other EXCEPT ![t] = s]
  /\ Goto(t, "closeLock")
  /\ UNCHANGED <<alive, conn, senders, mutex, call, iter, visits>>

CloseLock(t) ==
  /\ pc[t] = "closeLock"
  /\ Lock(t, other[t], "purge")
  /\ UNCHANGED <<alive, conn, senders, call, iter, other, visits>>

\* Erases all connections with the receiver.
Purge(t) ==
  /\ pc[t] = "purge"
  /\ conn' = [c \in Conns |-> IF c \in Between(other[t], call[t].rcv) THEN Blank ELSE conn[c]]
  /\ Unlock({other[t]})
  /\ visits' = [visits EXCEPT ![t][other[t]] = @ + 1]
  /\ other' = [other EXCEPT ![t] = NULL]
  /\ Goto(t, "close")
  /\ UNCHANGED <<alive, senders, call, iter>>

\* The loop ends, and m_possibleSenders is destroyed.
CloseEnd(t) ==
  /\ pc[t] = "close"
  /\ \A s \in Senders : visits[t][s] >= senders[call[t].rcv][s]
  /\ alive' = alive \ {call[t].rcv}
  /\ senders' = [senders EXCEPT ![call[t].rcv] = [s \in Senders |-> 0]]
  /\ Return(t)
  /\ UNCHANGED <<conn, mutex>>

-----------------------------------------------------------------------------
(* What callers respect *)

\* The object that the thread is destroying.
Dying(t) == IF pc[t] \in Leaving THEN call[t].snd
            ELSE IF pc[t] \in Closing THEN call[t].rcv ELSE NULL

ReceiversOf(C) == {conn[c].rcv : c \in C}

\* The objects that a call uses.
Used(p, a) ==
  CASE p \in Connecting    -> {a.snd, a.rcv}
    [] p \in Disconnecting -> {a.snd} \cup ReceiversOf(Matches(a.snd, a))
    [] p \in Leaving       -> {a.snd} \cup ReceiversOf(List(a.snd))
    [] p \in Closing       -> {a.rcv} \cup {s \in Senders : senders[a.rcv][s] > 0}
    [] OTHER               -> {}

\* An object is destroyed once: neither during a call of another thread that
\* uses it, nor does such a call begin meanwhile.
Permitted(t, p, a) ==
  \A u \in Threads \ {t} :
    /\ Dying(u) \notin Used(p, a)
    /\ p = "leave" => a.snd \notin Used(pc[u], call[u])
    /\ p = "close" => a.rcv \notin Used(pc[u], call[u])

Start(t, p, a) == Permitted(t, p, a) /\ Begin(t, p, a)

StartConnect(t, bento) ==
  \E s \in Senders \cap alive, r \in Receivers \cap alive, sig \in Signals,
     slot \in Slots, uniq \in Uniq :
    /\ bento => slot \in Lambdas
    /\ Start(t, "connect", [snd |-> s, sig |-> sig, rcv |-> r, slot |-> slot,
                            uniq |-> uniq, bento |-> bento])

StartDisconnect(t) ==
  \E s \in Senders \cap alive, r \in (Receivers \cap alive) \cup {NULL},
     sig \in Signals \cup {NULL}, slot \in (Slots \ Lambdas) \cup {NULL} :
    /\ r = NULL => slot = NULL
    /\ Start(t, "disconnect", [snd |-> s, sig |-> sig, rcv |-> r, slot |-> slot,
                               uniq |-> FALSE, bento |-> FALSE])

StartDestroy(t) ==
  \/ \E s \in Senders \cap alive : Start(t, "leave", [NoCall EXCEPT !.snd = s])
  \/ \E r \in Receivers \cap alive : Start(t, "close", [NoCall EXCEPT !.rcv = r])

\* A new object, possibly where one was destroyed.
Construct(o) ==
  /\ o \notin alive
  /\ alive' = alive \cup {o}
  /\ UNCHANGED <<conn, senders, mutex, pc, call, iter, other, visits>>

Step(t) == \/ Connect(t) \/ ConnectNot(t) \/ Add(t) \/ AddLock(t) \/ AddSender(t)
           \/ Disconnect(t) \/ ScanFinds(t) \/ ScanEnds(t) \/ LockFound(t)
           \/ EraseSender(t) \/ EraseConn(t)
           \/ LeaveNext(t) \/ LeaveLock(t) \/ Sweep(t) \/ LeaveEnd(t)
           \/ CloseNext(t) \/ CloseLock(t) \/ Purge(t) \/ CloseEnd(t)

Next == \/ \E t \in Threads : StartConnect(t, FALSE) \/ StartDisconnect(t) \/ StartDestroy(t) \/ Step(t)
        \/ \E o \in Objects : Construct(o)

Spec == Init /\ [][Next]_vars

\* Lambdas are also passed to the overload of connect() that takes Bentos.
BentoSpec == Init /\ [][Next \/ \E t \in Threads : StartConnect(t, TRUE)]_vars

\* Memory is short.
ShortSpec == Init /\ [][Next \/ \E t \in Threads : AddSenderFails(t)]_vars

-----------------------------------------------------------------------------
(* Properties *)

\* m_possibleSenders has as many entries of a sender as this has connections
\* to the receiver, whenever the mutex of the sender is free: the two halves
\* are written under two mutexes, which several threads take for other pairs.
HalvesAgree ==
  \A s \in Senders \cap alive, r \in Receivers \cap alive :
    mutex[s] = NULL /\ (\A t \in Threads : Dying(t) \notin {s, r}) =>
      senders[r][s] = Cardinality(Between(s, r))

\* find() in internal_disconnect() finds an entry: its result is erased untested.
FindSucceeds ==
  \A t \in Threads : pc[t] = "eraseSender" => senders[other[t]][call[t].snd] > 0

\* No connection and no entry leads to an object that is gone: neither
\* activate() nor a destructor reaches one, whichever side was destroyed.
NoDangling ==
  /\ \A c \in Conns : conn[c] # Blank => {conn[c].snd, conn[c].rcv} \subseteq alive
  /\ \A r \in Receivers \cap alive, s \in Senders : senders[r][s] > 0 => s \in alive

\* "ensure the connection is not added twice": nothing equal to a connection
\* with uniqueConnection is in the list when it is pushed, whatever other
\* threads connect and disconnect after the test.
NotAddedTwice ==
  \A t \in Threads : pc[t] = "add" /\ call[t].uniq =>
    \A c \in List(call[t].snd) :
      \/ conn[c].sig # call[t].sig \/ conn[c].rcv # call[t].rcv
      \/ conn[c].slot # call[t].slot

\* The object whose mutex the thread has to lock next, or NULL.
Wanted(t) ==
  CASE pc[t] \in {"connect", "disconnect"} -> call[t].snd
    [] pc[t] \in {"addLock", "found", "leaveLock", "closeLock"} -> other[t]
    [] OTHER -> NULL

\* No set of threads waits for mutexes that only its own members hold, though
\* connect() and disconnect() take a second mutex while they hold one.
NoWaitCycle ==
  \A S \in (SUBSET Threads) \ {{}} :
    \E t \in S : Wanted(t) = NULL \/ mutex[Wanted(t)] \notin S

=============================================================================
