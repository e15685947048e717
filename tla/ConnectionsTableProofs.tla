------------------------- MODULE ConnectionsTableProofs -------------------------
(***************************************************************************)
(* Connections implements ConnectionTable, for any number of threads,      *)
(* objects and connections: every step is one of the table, or none.       *)
(***************************************************************************)
EXTENDS ConnectionsTable, ConnectionsProofs

\* A node that is in a list leads from a sender to a receiver.
LEMMA NodeTyped ==
  ASSUME TypeOK, NEW c \in Conns, conn[c] # Blank
  PROVE  conn[c] \in Connection /\ conn[c].snd \in Senders /\ conn[c].rcv \in Receivers
BY DEF TypeOK, Connection

\* A Blank node is in the list of no sender.
LEMMA Listed ==
  ASSUME TypeOK, NEW s \in Senders, NEW c \in List(s)
  PROVE  c \in Conns /\ conn[c] # Blank /\ conn[c].snd = s
BY ObjectAssumption DEF List, Blank, Objects

\* push_back of connect() establishes the connection: both objects exist.
LEMMA AddEstablishes ==
  ASSUME IInv, NEW t \in Threads, Add(t)
  PROVE  \E c \in Conns, l \in Connection : Table!Establish(c, l)
<1> DEFINE l == [snd |-> call[t].snd, sig |-> call[t].sig, slot |-> call[t].slot, rcv |-> call[t].rcv]
<1>1. pc[t] \in Points /\ pc[t] \in Connecting
  BY DEF Add, Points, Connecting
<1>2. l \in Connection
  BY <1>1 DEF IInv, OrderInv, CallShape, Connection
<1>3. {l.snd, l.rcv} \subseteq alive
  BY <1>1, UsedIn DEF IInv, UsedExist
<1>4. PICK c \in Conns : conn[c] = Blank /\ conn' = [conn EXCEPT ![c] = l]
  BY DEF Add
<1>5. UNCHANGED alive
  BY DEF Add
<1>6. Table!Establish(c, l)
  BY <1>3, <1>4, <1>5 DEF Table!Establish
<1> QED BY <1>2, <1>6

\* erase() of disconnect() drops one connection.
LEMMA EraseDrops ==
  ASSUME IInv, NEW t \in Threads, EraseConn(t)
  PROVE  \E C \in SUBSET Conns : Table!Drop(C)
<1>a. TypeOK /\ call[t].snd \in Senders
  BY DEF IInv, OrderInv, CallShape, EraseConn, Disconnecting
<1>1. iter[t] \in List(call[t].snd)
  BY DEF IInv, IterShape, EraseConn, Matches
<1>2. iter[t] \in Conns /\ conn[iter[t]] # Blank
  BY <1>a, <1>1, Listed
<1>3. conn' = Table!Without({iter[t]})
  BY <1>a DEF EraseConn, TypeOK, Table!Without
<1>4. UNCHANGED alive
  BY DEF EraseConn
<1>5. Table!Drop({iter[t]})
  BY <1>2, <1>3, <1>4 DEF Table!Drop
<1> QED BY <1>2, <1>5

\* ~SlotBase drops what one sender has with the receiver, if anything.
LEMMA PurgeDrops ==
  ASSUME IInv, NEW t \in Threads, Purge(t)
  PROVE  (\E C \in SUBSET Conns : Table!Drop(C)) \/ UNCHANGED Table!tableVars
<1> DEFINE C == Between(other[t], call[t].rcv)
<1>a. TypeOK /\ other[t] \in Senders
  BY DEF IInv, OrderInv, OtherShape, Purge
<1>1. C \subseteq List(other[t])
  BY DEF Between
<1>2. \A c \in C : c \in Conns /\ conn[c] # Blank /\ conn[c].snd = other[t]
  BY <1>a, <1>1, Listed
<1>3. conn' = [c \in Conns |-> IF c \in C THEN Blank ELSE conn[c]] /\ UNCHANGED alive
  BY DEF Purge
<1> HIDE DEF C
<1>4. CASE C = {}
  <2>1. conn' = conn
    BY <1>a, <1>3, <1>4 DEF TypeOK
  <2> QED BY <1>3, <2>1 DEF Table!tableVars
<1>5. CASE C # {}
  <2>1. Table!Drop(C)
    BY <1>2, <1>3, <1>5 DEF Table!Drop, Table!Without
  <2> QED BY <1>2, <2>1
<1> QED BY <1>4, <1>5

\* The end of ~SignalBase takes its connections with it.
LEMMA LeaveVanishes ==
  ASSUME IInv, NEW t \in Threads, LeaveEnd(t)
  PROVE  Table!Vanish(call[t].snd) /\ call[t].snd \in Objects
<1>a. TypeOK /\ call[t].snd \in Senders
  BY DEF IInv, OrderInv, CallShape, LeaveEnd, Leaving
<1>1. pc[t] \in Points /\ pc[t] \in Leaving
  BY DEF LeaveEnd, Points, Leaving
<1>2. call[t].snd \in alive
  BY <1>1, UsedIn DEF IInv, UsedExist
<1>3. Table!With(call[t].snd) = List(call[t].snd)
  <2>1. ASSUME NEW c \in Conns, conn[c] # Blank PROVE conn[c].rcv # call[t].snd
    BY <1>a, <2>1, NodeTyped, ObjectAssumption
  <2>2. \A c \in List(call[t].snd) : c \in Conns /\ conn[c] # Blank /\ conn[c].snd = call[t].snd
    BY <1>a, Listed
  <2> QED BY <2>1, <2>2 DEF Table!With, List
<1>4. /\ alive' = alive \ {call[t].snd}
      /\ conn' = Table!Without(Table!With(call[t].snd))
  BY <1>3 DEF LeaveEnd, Table!Without
<1> QED BY <1>a, <1>2, <1>4 DEF Table!Vanish, Objects

\* When ~SlotBase ends, there is none left to take.
LEMMA CloseVanishes ==
  ASSUME IInv, NEW t \in Threads, CloseEnd(t)
  PROVE  Table!Vanish(call[t].rcv) /\ call[t].rcv \in Objects
<1>a. TypeOK /\ call[t].rcv \in Receivers
  BY DEF IInv, OrderInv, CallShape, CloseEnd, Closing
<1>1. pc[t] \in Points /\ pc[t] \in Closing
  BY DEF CloseEnd, Points, Closing
<1>2. call[t].rcv \in alive
  BY <1>1, UsedIn DEF IInv, UsedExist
<1>3. Table!With(call[t].rcv) = {}
  <2>1. ASSUME NEW c \in Conns, conn[c] # Blank PROVE call[t].rcv \notin {conn[c].snd, conn[c].rcv}
    <3>1. conn[c].snd \in Senders /\ c \in List(conn[c].snd)
      BY <1>a, <2>1, NodeTyped DEF List
    <3>2. c \notin Between(conn[c].snd, call[t].rcv)
      BY <3>1, PurgeComplete
    <3> QED BY <1>a, <3>1, <3>2, ObjectAssumption DEF Between
  <2> QED BY <2>1 DEF Table!With
<1>4. alive' = alive \ {call[t].rcv} /\ conn' = Table!Without({})
  BY <1>a DEF CloseEnd, TypeOK, Table!Without
<1> QED BY <1>a, <1>2, <1>3, <1>4 DEF Table!Vanish, Objects

\* Every step of a function is one of the table, or none.
LEMMA StepMaps ==
  ASSUME IInv, NEW t \in Threads, Step(t)
  PROVE  [Table!Next]_(Table!tableVars)
<1>1. CASE Add(t)
  BY <1>1, AddEstablishes DEF Table!Next
<1>2. CASE EraseConn(t)
  BY <1>2, EraseDrops DEF Table!Next
<1>3. CASE Purge(t)
  BY <1>3, PurgeDrops DEF Table!Next
<1>4. CASE LeaveEnd(t)
  BY <1>4, LeaveVanishes DEF Table!Next, Objects
<1>5. CASE CloseEnd(t)
  BY <1>5, CloseVanishes DEF Table!Next, Objects
<1>6. CASE UNCHANGED <<alive, conn>>
  BY <1>6 DEF Table!tableVars
<1> QED BY <1>1, <1>2, <1>3, <1>4, <1>5, <1>6 DEF Step, Connect, ConnectNot, AddLock, AddSender, Disconnect,
        ScanFinds, ScanEnds, LockFound, EraseSender, LeaveNext, LeaveLock, Sweep, CloseNext, CloseLock, Lock

\* Every step of the system is one of the table, or none.
LEMMA NextMaps == IInv /\ [Next]_vars => [Table!Next]_(Table!tableVars)
<1> SUFFICES ASSUME IInv, [Next]_vars PROVE [Table!Next]_(Table!tableVars)
  OBVIOUS
<1>1. ASSUME NEW t \in Threads, Step(t) PROVE [Table!Next]_(Table!tableVars)
  BY <1>1, StepMaps
<1>2. ASSUME NEW t \in Threads, StartConnect(t, FALSE) \/ StartDisconnect(t) \/ StartDestroy(t)
      PROVE  [Table!Next]_(Table!tableVars)
  <2>1. \E p \in {"connect", "disconnect", "leave", "close"}, a \in Call : Begin(t, p, a)
    BY <1>2, StartTyped DEF Start, IInv, OrderInv
  <2> QED BY <2>1 DEF Begin, Table!tableVars
<1>3. CASE \E o \in Objects : Construct(o)
  BY <1>3 DEF Construct, Table!Next, Table!Appear, Objects
<1>4. CASE UNCHANGED vars
  BY <1>4 DEF vars, Table!tableVars
<1> QED BY <1>1, <1>2, <1>3, <1>4 DEF Next

\* For any number of threads, objects and connections, connect(), disconnect()
\* and the destructors are single steps on one table of connections.
THEOREM TableImplemented == Spec => ImplementsTable
<1>1. Init => Table!Init
  BY DEF Init, Table!Init, Objects
<1> QED BY <1>1, NextMaps, Inductive, PTL DEF Spec, ImplementsTable, Table!Spec

=============================================================================
