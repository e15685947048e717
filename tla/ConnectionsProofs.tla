--------------------------- MODULE ConnectionsProofs ---------------------------
(***************************************************************************)
(* IInv is an inductive invariant of Connections, for any number of        *)
(* threads, objects and connections, and the safety properties follow.     *)
(***************************************************************************)
EXTENDS ConnectionsInv, FiniteSetTheorems, TLAPS

\* The control points, for the cases of the proofs.
Points == {"idle"} \cup Connecting \cup Disconnecting \cup Leaving \cup Closing

\* The initial state satisfies the part of the invariant that orders the locks.
LEMMA InitOrder == Init => OrderInv
BY ObjectAssumption DEF Init, OrderInv, TypeOK, CallShape, OtherShape, LocksNeeded, Connecting,
   Disconnecting, Leaving, Closing, Call, NoCall

-----------------------------------------------------------------------------
(* The order of the locks *)

\* The calls that users start respect the types of their arguments.
LEMMA StartTyped ==
  ASSUME TypeOK, NEW t \in Threads, NEW b \in BOOLEAN,
         StartConnect(t, b) \/ StartDisconnect(t) \/ StartDestroy(t)
  PROVE  \E p \in {"connect", "disconnect", "leave", "close"}, a \in Call :
           /\ Start(t, p, a)
           /\ p = "connect" => /\ a.snd \in Senders /\ a.rcv \in Receivers
                               /\ a.sig \in Signals /\ a.slot \in Slots
           /\ p = "disconnect" => a.snd \in Senders
           /\ p = "leave" => a.snd \in Senders
           /\ p = "close" => a.rcv \in Receivers
           /\ {a.snd, a.rcv} \subseteq alive \cup {NULL}
           /\ ~b => ~a.bento
<1> USE ObjectAssumption DEF Call, NoCall
<1>1. CASE StartConnect(t, b)
  BY <1>1 DEF StartConnect
<1>2. CASE StartDisconnect(t)
  <2>1. PICK s \in Senders \cap alive, r \in (Receivers \cap alive) \cup {NULL},
             sig \in Signals \cup {NULL}, slot \in (Slots \ Lambdas) \cup {NULL} :
          Start(t, "disconnect", [snd |-> s, sig |-> sig, rcv |-> r, slot |-> slot,
                                  uniq |-> FALSE, bento |-> FALSE])
    BY <1>2 DEF StartDisconnect
  <2> DEFINE args == [snd |-> s, sig |-> sig, rcv |-> r, slot |-> slot, uniq |-> FALSE, bento |-> FALSE]
  <2>2. args \in Call /\ args.snd \in Senders /\ {args.snd, args.rcv} \subseteq alive \cup {NULL} /\ ~args.bento
    OBVIOUS
  <2>3. Start(t, "disconnect", args)
    BY <2>1
  <2> HIDE DEF args, Call
  <2> QED BY <2>2, <2>3
<1>3. CASE StartDestroy(t)
  <2>1. CASE \E s \in Senders \cap alive : Start(t, "leave", [NoCall EXCEPT !.snd = s])
    <3>1. PICK s \in Senders \cap alive : Start(t, "leave", [NoCall EXCEPT !.snd = s])
      BY <2>1
    <3> DEFINE args == [NoCall EXCEPT !.snd = s]
    <3>2. args \in Call /\ args.snd \in Senders /\ {args.snd, args.rcv} \subseteq alive \cup {NULL} /\ ~args.bento
      OBVIOUS
    <3>3. Start(t, "leave", args)
      BY <3>1
    <3> HIDE DEF args, Call
    <3> QED BY <3>2, <3>3
  <2>2. CASE \E r \in Receivers \cap alive : Start(t, "close", [NoCall EXCEPT !.rcv = r])
    <3>1. PICK r \in Receivers \cap alive : Start(t, "close", [NoCall EXCEPT !.rcv = r])
      BY <2>2
    <3> DEFINE args == [NoCall EXCEPT !.rcv = r]
    <3>2. args \in Call /\ args.rcv \in Receivers /\ {args.snd, args.rcv} \subseteq alive \cup {NULL} /\ ~args.bento
      OBVIOUS
    <3>3. Start(t, "close", args)
      BY <3>1
    <3> HIDE DEF args, Call
    <3> QED BY <3>2, <3>3
  <2> QED BY <1>3, <2>1, <2>2 DEF StartDestroy
<1> QED BY <1>1, <1>2, <1>3

\* TypeOK in groups: the threads, the mutexes, the objects and their lists.
ThreadsTyped ==
  /\ pc \in [Threads -> Points]
  /\ call \in [Threads -> Call]
  /\ iter \in [Threads -> Conns \cup {NULL}]
  /\ other \in [Threads -> Objects \cup {NULL}]
  /\ visits \in [Threads -> [Objects -> Nat]]

MutexTyped == mutex \in [Objects -> Threads \cup {NULL}]

ListsTyped ==
  /\ alive \subseteq Objects
  /\ conn \in [Conns -> Connection \cup {Blank}]
  /\ senders \in [Receivers -> [Senders -> Nat]]

\* Together they are TypeOK.
LEMMA TypeGroups == TypeOK <=> ThreadsTyped /\ MutexTyped /\ ListsTyped
BY DEF TypeOK, ThreadsTyped, MutexTyped, ListsTyped, Points

\* A function that returns leaves its thread idle.
LEMMA ReturnTyped ==
  ASSUME ThreadsTyped, NEW t \in Threads, Return(t)
  PROVE  ThreadsTyped'
<1>1. NoCall \in Call
  BY DEF NoCall, Call
<1>2. [o \in Objects |-> 0] \in [Objects -> Nat]
  OBVIOUS
<1>3. "idle" \in Points
  BY DEF Points
<1> QED BY <1>1, <1>2, <1>3 DEF ThreadsTyped, Return, Goto

\* lock() and unlock() leave a holder or none.
LEMMA MutexKept ==
  ASSUME MutexTyped, NEW t \in Threads,
         (\E o, p : Lock(t, o, p)) \/ (\E O : Unlock(O)) \/ UNCHANGED mutex
  PROVE  MutexTyped'
BY DEF MutexTyped, Lock, Unlock

\* The loops of the destructors count in Nat.
LEMMA VisitTyped ==
  ASSUME visits \in [Threads -> [Objects -> Nat]], NEW t \in Threads, NEW o \in Objects
  PROVE  [visits EXCEPT ![t][o] = @ + 1] \in [Threads -> [Objects -> Nat]]
<1>1. [visits[t] EXCEPT ![o] = visits[t][o] + 1] \in [Objects -> Nat]
  OBVIOUS
<1> QED BY <1>1

\* Every step keeps every variable in its domain.
LEMMA TypeStep == OrderInv /\ [Next]_vars => TypeOK'
<1> SUFFICES ASSUME OrderInv, [Next]_vars PROVE TypeOK'
  OBVIOUS
<1> USE ObjectAssumption
<1>a. ThreadsTyped /\ MutexTyped /\ ListsTyped
  BY TypeGroups DEF OrderInv
<1>b. SUFFICES ThreadsTyped' /\ MutexTyped' /\ ListsTyped'
  BY DEF TypeOK, ThreadsTyped, MutexTyped, ListsTyped, Points
<1>1. ASSUME NEW t \in Threads, StartConnect(t, FALSE) \/ StartDisconnect(t) \/ StartDestroy(t)
      PROVE  ThreadsTyped' /\ MutexTyped' /\ ListsTyped'
  <2>1. PICK p \in Points, a \in Call : Begin(t, p, a)
    BY <1>1, StartTyped DEF Start, Points, OrderInv, Connecting, Disconnecting, Leaving, Closing
  <2> QED BY <1>a, <2>1 DEF Begin, Goto, ThreadsTyped, MutexTyped, ListsTyped
<1>2. ASSUME NEW t \in Threads, Step(t) PROVE ThreadsTyped' /\ MutexTyped' /\ ListsTyped'
  <2>1. MutexTyped'
    BY <1>a, <1>2, MutexKept DEF Step, Connect, ConnectNot, Add, AddLock, AddSender, Disconnect,
         ScanFinds, ScanEnds, LockFound, EraseSender, EraseConn, LeaveNext, LeaveLock, Sweep,
         LeaveEnd, CloseNext, CloseLock, Purge, CloseEnd
  <2>2. CASE ConnectNot(t) \/ ScanEnds(t)
    BY <1>a, <2>1, <2>2, ReturnTyped DEF ConnectNot, ScanEnds, ListsTyped
  <2>3. CASE Connect(t) \/ AddLock(t) \/ Disconnect(t) \/ LockFound(t) \/ LeaveLock(t) \/ CloseLock(t)
    BY <1>a, <2>1, <2>3 DEF Connect, AddLock, Disconnect, LockFound, LeaveLock, CloseLock, Lock, Goto,
       ThreadsTyped, ListsTyped, Points, Connecting, Disconnecting, Leaving, Closing
  <2>4. CASE Add(t)
    <3>1. ThreadsTyped'
      BY <1>a, <2>4 DEF Add, Goto, ThreadsTyped, Points, Connecting, OrderInv, CallShape, Objects
    <3>2. ListsTyped'
      BY <1>a, <2>4 DEF Add, ListsTyped, OrderInv, CallShape, Connecting, Connection
    <3> QED BY <2>1, <3>1, <3>2
  <2>5. CASE AddSender(t)
    <3>1. ListsTyped'
      BY <1>a, <2>5 DEF AddSender, ListsTyped, OrderInv, CallShape, OtherShape, Connecting
    <3> QED BY <1>a, <2>1, <2>5, <3>1, ReturnTyped DEF AddSender
  <2>6. CASE ScanFinds(t)
    <3>1. \A c \in Matches(call[t].snd, call[t]) : c \in Conns /\ conn[c].rcv \in Receivers
      BY <1>a, <2>6 DEF ScanFinds, ListsTyped, OrderInv, CallShape, Disconnecting, Matches, List,
         Connection, Blank, Objects
    <3> QED BY <1>a, <2>1, <2>6, <3>1 DEF ScanFinds, Goto, ThreadsTyped, ListsTyped, Points,
            Disconnecting, Objects
  <2>7. CASE EraseSender(t)
    <3>1. call[t].snd \in Senders /\ other[t] \in Receivers
      BY <2>7 DEF EraseSender, OrderInv, CallShape, OtherShape, Disconnecting
    <3> QED BY <1>a, <2>1, <2>7, <3>1 DEF EraseSender, Goto, ThreadsTyped, ListsTyped, Points, Disconnecting
  <2>8. CASE EraseConn(t)
    BY <1>a, <2>1, <2>8 DEF EraseConn, Goto, ThreadsTyped, ListsTyped, Points, Disconnecting
  <2>9. CASE LeaveNext(t) \/ CloseNext(t)
    <3>1. PICK o \in Objects, p \in Points : other' = [other EXCEPT ![t] = o] /\ Goto(t, p)
      BY <2>9 DEF LeaveNext, CloseNext, Points, Leaving, Closing, Objects
    <3> QED BY <1>a, <2>1, <2>9, <3>1 DEF LeaveNext, CloseNext, Goto, ThreadsTyped, ListsTyped
  <2>10. CASE Sweep(t)
    <3>1. call[t].snd \in Senders /\ other[t] \in Receivers
      BY <2>10 DEF Sweep, OrderInv, CallShape, OtherShape, Leaving
    <3>2. ThreadsTyped'
      <4>1. visits' \in [Threads -> [Objects -> Nat]]
        BY <1>a, <2>10, <3>1, VisitTyped DEF Sweep, ThreadsTyped, Objects
      <4> QED BY <1>a, <2>10, <4>1 DEF Sweep, Goto, ThreadsTyped, Points, Leaving
    <3>3. ListsTyped'
      BY <1>a, <2>10, <3>1 DEF Sweep, ListsTyped
    <3> QED BY <2>1, <3>2, <3>3
  <2>11. CASE Purge(t)
    <3>1. other[t] \in Senders
      BY <2>11 DEF Purge, OrderInv, OtherShape
    <3>2. ThreadsTyped'
      <4>1. visits' \in [Threads -> [Objects -> Nat]]
        BY <1>a, <2>11, <3>1, VisitTyped DEF Purge, ThreadsTyped, Objects
      <4> QED BY <1>a, <2>11, <4>1 DEF Purge, Goto, ThreadsTyped, Points, Closing
    <3>3. ListsTyped'
      BY <1>a, <2>11 DEF Purge, ListsTyped
    <3> QED BY <2>1, <3>2, <3>3
  <2>12. CASE LeaveEnd(t)
    BY <1>a, <2>1, <2>12, ReturnTyped DEF LeaveEnd, ListsTyped
  <2>13. CASE CloseEnd(t)
    <3>1. [s \in Senders |-> 0] \in [Senders -> Nat]
      OBVIOUS
    <3> QED BY <1>a, <2>1, <2>13, <3>1, ReturnTyped DEF CloseEnd, ListsTyped
  <2> QED BY <1>2, <2>2, <2>3, <2>4, <2>5, <2>6, <2>7, <2>8, <2>9, <2>10, <2>11, <2>12, <2>13 DEF Step
<1>3. ASSUME NEW o \in Objects, Construct(o) PROVE ThreadsTyped' /\ MutexTyped' /\ ListsTyped'
  BY <1>3, <1>a DEF Construct, ThreadsTyped, MutexTyped, ListsTyped
<1>4. CASE UNCHANGED vars
  BY <1>4, <1>a DEF vars, ThreadsTyped, MutexTyped, ListsTyped
<1> QED BY <1>1, <1>2, <1>3, <1>4 DEF Next

\* Every step gives a function the arguments and the object it goes on with.
LEMMA ShapeStep == OrderInv /\ [Next]_vars => CallShape' /\ OtherShape'
<1> SUFFICES ASSUME OrderInv, [Next]_vars PROVE CallShape' /\ OtherShape'
  OBVIOUS
<1> USE ObjectAssumption DEF OrderInv, CallShape, OtherShape, Connecting, Disconnecting, Leaving, Closing
<1>a. ThreadsTyped /\ ListsTyped
  BY TypeGroups
<1>1. ASSUME NEW t \in Threads, StartConnect(t, FALSE) \/ StartDisconnect(t) \/ StartDestroy(t)
      PROVE  CallShape' /\ OtherShape'
  <2>1. PICK p \in {"connect", "disconnect", "leave", "close"}, a \in Call :
           /\ Begin(t, p, a)
           /\ p = "connect" => /\ a.snd \in Senders /\ a.rcv \in Receivers
                               /\ a.sig \in Signals /\ a.slot \in Slots
           /\ p = "disconnect" => a.snd \in Senders
           /\ p = "leave" => a.snd \in Senders
           /\ p = "close" => a.rcv \in Receivers
    BY <1>1, StartTyped DEF Start
  <2> QED BY <1>a, <2>1 DEF Begin, Goto, ThreadsTyped
<1>2. ASSUME NEW t \in Threads, Step(t) PROVE CallShape' /\ OtherShape'
  <2>1. CASE ConnectNot(t) \/ AddSender(t) \/ ScanEnds(t) \/ LeaveEnd(t) \/ CloseEnd(t)
    <3>1. Return(t)
      BY <2>1 DEF ConnectNot, AddSender, ScanEnds, LeaveEnd, CloseEnd
    <3> QED BY <1>a, <3>1 DEF Return, Goto, ThreadsTyped
  <2>2. CASE Connect(t) \/ AddLock(t) \/ Disconnect(t) \/ LockFound(t)
    BY <1>a, <2>2 DEF Connect, AddLock, Disconnect, LockFound, Lock, Goto, ThreadsTyped
  <2>3. CASE LeaveLock(t) \/ CloseLock(t) \/ EraseSender(t)
    BY <1>a, <2>3 DEF LeaveLock, CloseLock, EraseSender, Lock, Goto, ThreadsTyped
  <2>4. CASE Add(t)
    BY <1>a, <2>4 DEF Add, Goto, ThreadsTyped
  <2>5. CASE ScanFinds(t)
    <3>1. \A c \in Matches(call[t].snd, call[t]) : conn[c].rcv \in Receivers
      BY <1>a, <2>5 DEF ScanFinds, ListsTyped, Matches, List, Connection, Blank, Objects
    <3>2. PICK r \in Receivers : other' = [other EXCEPT ![t] = r]
      BY <2>5, <3>1 DEF ScanFinds
    <3> QED BY <1>a, <2>5, <3>2 DEF ScanFinds, Goto, ThreadsTyped
  <2>6. CASE EraseConn(t) \/ Sweep(t) \/ Purge(t)
    <3>1. call' = call /\ other' = [other EXCEPT ![t] = NULL]
      BY <2>6 DEF EraseConn, Sweep, Purge
    <3>2. \/ pc[t] = "eraseConn" /\ pc' = [pc EXCEPT ![t] = "scan"]
          \/ pc[t] = "sweep" /\ pc' = [pc EXCEPT ![t] = "leave"]
          \/ pc[t] = "purge" /\ pc' = [pc EXCEPT ![t] = "close"]
      BY <2>6 DEF EraseConn, Sweep, Purge, Goto
    <3> QED BY <1>a, <3>1, <3>2 DEF ThreadsTyped
  <2>7. CASE LeaveNext(t)
    <3>1. PICK r \in Receivers : other' = [other EXCEPT ![t] = r]
      BY <2>7 DEF LeaveNext
    <3>2. call' = call /\ pc[t] = "leave" /\ pc' = [pc EXCEPT ![t] = "leaveLock"]
      BY <2>7 DEF LeaveNext, Goto
    <3> QED BY <1>a, <3>1, <3>2 DEF ThreadsTyped
  <2>8. CASE CloseNext(t)
    <3>1. PICK s \in Senders : other' = [other EXCEPT ![t] = s]
      BY <2>8 DEF CloseNext
    <3>2. call' = call /\ pc[t] = "close" /\ pc' = [pc EXCEPT ![t] = "closeLock"]
      BY <2>8 DEF CloseNext, Goto
    <3> QED BY <1>a, <3>1, <3>2 DEF ThreadsTyped
  <2> QED BY <1>2, <2>1, <2>2, <2>3, <2>4, <2>5, <2>6, <2>7, <2>8 DEF Step
<1>3. ASSUME NEW o \in Objects, Construct(o) PROVE CallShape' /\ OtherShape'
  BY <1>3 DEF Construct
<1>4. CASE UNCHANGED vars
  BY <1>4 DEF vars
<1> QED BY <1>1, <1>2, <1>3, <1>4 DEF Next

\* Every step takes and releases mutexes as its place in the function says.
LEMMA LocksStep == OrderInv /\ [Next]_vars => LocksNeeded'
<1> SUFFICES ASSUME OrderInv, [Next]_vars PROVE LocksNeeded'
  OBVIOUS
<1> USE ObjectAssumption DEF OrderInv, LocksNeeded, HoldsSender, HoldsOther
<1>a. ThreadsTyped /\ MutexTyped
  BY TypeGroups
<1>1. ASSUME NEW t \in Threads, StartConnect(t, FALSE) \/ StartDisconnect(t) \/ StartDestroy(t)
      PROVE  LocksNeeded'
  <2>1. PICK p \in {"connect", "disconnect", "leave", "close"}, a \in Call : Begin(t, p, a)
    BY <1>1, StartTyped DEF Start
  <2> QED BY <1>a, <2>1 DEF Begin, Goto, ThreadsTyped
<1>2. ASSUME NEW t \in Threads, Step(t) PROVE LocksNeeded'
  <2>1. CASE ConnectNot(t) \/ LeaveEnd(t) \/ CloseEnd(t) \/ AddSender(t) \/ ScanEnds(t)
    <3>1. \A o \in Objects : mutex'[o] # t
      BY <1>a, <2>1 DEF ConnectNot, LeaveEnd, CloseEnd, AddSender, ScanEnds, Unlock, MutexTyped
    <3>2. \A o \in Objects : mutex'[o] \in {mutex[o], NULL}
      BY <1>a, <2>1 DEF ConnectNot, LeaveEnd, CloseEnd, AddSender, ScanEnds, Unlock, MutexTyped
    <3>3. Return(t)
      BY <2>1 DEF ConnectNot, LeaveEnd, CloseEnd, AddSender, ScanEnds
    <3> QED BY <1>a, <3>1, <3>2, <3>3 DEF Return, Goto, ThreadsTyped
  <2>2. CASE Connect(t) \/ AddLock(t) \/ Disconnect(t) \/ LockFound(t)
    BY <1>a, <2>2 DEF Connect, AddLock, Disconnect, LockFound, Lock, Goto, ThreadsTyped, MutexTyped
  <2>3. CASE LeaveLock(t) \/ CloseLock(t) \/ EraseSender(t)
    BY <1>a, <2>3 DEF LeaveLock, CloseLock, EraseSender, Lock, Goto, ThreadsTyped, MutexTyped
  <2>4. CASE Add(t) \/ ScanFinds(t) \/ LeaveNext(t) \/ CloseNext(t)
    BY <1>a, <2>4 DEF Add, ScanFinds, LeaveNext, CloseNext, Goto, ThreadsTyped
  <2>5. CASE EraseConn(t) \/ Sweep(t) \/ Purge(t)
    BY <1>a, <2>5 DEF EraseConn, Sweep, Purge, Unlock, Goto, ThreadsTyped, MutexTyped
  <2> QED BY <1>2, <2>1, <2>2, <2>3, <2>4, <2>5 DEF Step
<1>3. ASSUME NEW o \in Objects, Construct(o) PROVE LocksNeeded'
  BY <1>3 DEF Construct
<1>4. CASE UNCHANGED vars
  BY <1>4 DEF vars
<1> QED BY <1>1, <1>2, <1>3, <1>4 DEF Next

\* Every step keeps the order of the locks.
LEMMA OrderStep == OrderInv /\ [Next]_vars => OrderInv'
BY TypeStep, ShapeStep, LocksStep DEF OrderInv

\* A thread that waits holds nothing but the mutex of a sender, and then it
\* waits for that of a receiver: a circle would have to lead back.
LEMMA OrderImpliesNoWaitCycle == OrderInv => NoWaitCycle
<1> SUFFICES ASSUME OrderInv, NEW S \in (SUBSET Threads) \ {{}},
                    \A t \in S : Wanted(t) # NULL /\ mutex[Wanted(t)] \in S
             PROVE  FALSE
  BY DEF NoWaitCycle
<1> USE ObjectAssumption
<1>1. \A t \in S : Wanted(t) \in Objects
  BY DEF OrderInv, CallShape, OtherShape, Wanted, Objects, Connecting, Disconnecting
<1>2. \A t \in S, o \in Objects : mutex[o] = t => o \in Senders /\ Wanted(t) \in Receivers
  BY DEF OrderInv, CallShape, OtherShape, LocksNeeded, HoldsSender, HoldsOther, Wanted, Objects,
     Connecting, Disconnecting
<1>3. PICK t \in S : TRUE
  OBVIOUS
<1>4. mutex[Wanted(t)] \in S /\ Wanted(t) \in Objects
  BY <1>1
<1>5. PICK u \in S : mutex[Wanted(t)] = u /\ Wanted(u) \in Receivers
  BY <1>2, <1>4
<1>6. mutex[Wanted(u)] \in S /\ Wanted(u) \in Objects
  BY <1>1
<1>7. Wanted(u) \in Senders
  BY <1>2, <1>6
<1> QED BY <1>5, <1>7

-----------------------------------------------------------------------------
(* What a step leaves alone *)

\* A step of a function leaves the other threads where they are.
LEMMA OthersKept ==
  ASSUME OrderInv, NEW t \in Threads, Step(t), NEW u \in Threads \ {t}
  PROVE  /\ pc'[u] = pc[u] /\ call'[u] = call[u] /\ iter'[u] = iter[u]
         /\ other'[u] = other[u] /\ visits'[u] = visits[u]
<1>a. ThreadsTyped
  BY TypeGroups DEF OrderInv
<1>1. CASE ConnectNot(t) \/ AddSender(t) \/ ScanEnds(t) \/ LeaveEnd(t) \/ CloseEnd(t)
  <2>1. Return(t)
    BY <1>1 DEF ConnectNot, AddSender, ScanEnds, LeaveEnd, CloseEnd
  <2> QED BY <1>a, <2>1 DEF Return, Goto, ThreadsTyped
<1>2. CASE Connect(t) \/ Add(t) \/ AddLock(t) \/ Disconnect(t) \/ LockFound(t)
  BY <1>a, <1>2 DEF Connect, Add, AddLock, Disconnect, LockFound, Lock, Goto, ThreadsTyped
<1>3. CASE ScanFinds(t) \/ EraseSender(t) \/ EraseConn(t)
  BY <1>a, <1>3 DEF ScanFinds, EraseSender, EraseConn, Goto, ThreadsTyped
<1>4. CASE LeaveNext(t) \/ LeaveLock(t) \/ Sweep(t)
  BY <1>a, <1>4 DEF LeaveNext, LeaveLock, Sweep, Lock, Goto, ThreadsTyped
<1>5. CASE CloseNext(t) \/ CloseLock(t) \/ Purge(t)
  BY <1>a, <1>5 DEF CloseNext, CloseLock, Purge, Lock, Goto, ThreadsTyped
<1> QED BY <1>1, <1>2, <1>3, <1>4, <1>5 DEF Step

\* A function releases the mutexes that it holds, and no others.
LEMMA HoldersKept ==
  ASSUME OrderInv, LocksHeld, NEW t \in Threads, Step(t),
         NEW o \in Objects, mutex[o] \in Threads \ {t}
  PROVE  mutex'[o] = mutex[o]
<1> USE ObjectAssumption
<1>a. MutexTyped
  BY TypeGroups DEF OrderInv
<1>1. CASE AddSender(t)
  <2>1. mutex[call[t].snd] = t /\ mutex[other[t]] = t
    BY <1>1 DEF AddSender, LocksHeld, HoldsSender, HoldsOther
  <2> QED BY <1>1, <2>1 DEF AddSender, Unlock
<1>2. CASE ScanEnds(t)
  <2>1. mutex[call[t].snd] = t
    BY <1>2 DEF ScanEnds, LocksHeld, HoldsSender
  <2> QED BY <1>2, <2>1 DEF ScanEnds, Unlock
<1>3. CASE EraseConn(t) \/ Sweep(t) \/ Purge(t)
  <2>1. mutex[other[t]] = t
    BY <1>3 DEF EraseConn, Sweep, Purge, LocksHeld, HoldsOther
  <2> QED BY <1>3, <2>1 DEF EraseConn, Sweep, Purge, Unlock
<1>4. CASE Connect(t) \/ AddLock(t) \/ Disconnect(t) \/ LockFound(t) \/ LeaveLock(t) \/ CloseLock(t)
  BY <1>a, <1>4 DEF Connect, AddLock, Disconnect, LockFound, LeaveLock, CloseLock, Lock, MutexTyped
<1>5. CASE UNCHANGED mutex
  BY <1>5
<1> QED BY <1>1, <1>2, <1>3, <1>4, <1>5 DEF Step, ConnectNot, Add, ScanFinds, EraseSender, LeaveNext,
        LeaveEnd, CloseNext, CloseEnd

\* A function holds the mutexes that its place in the code says.
LEMMA LocksHeldStep == OrderInv /\ LocksHeld /\ [Next]_vars => LocksHeld'
<1> SUFFICES ASSUME OrderInv, LocksHeld, [Next]_vars PROVE LocksHeld'
  OBVIOUS
<1> USE ObjectAssumption
<1>a. ThreadsTyped /\ MutexTyped
  BY TypeGroups DEF OrderInv
<1>1. ASSUME NEW t \in Threads, StartConnect(t, FALSE) \/ StartDisconnect(t) \/ StartDestroy(t)
      PROVE  LocksHeld'
  <2>1. PICK p \in {"connect", "disconnect", "leave", "close"}, a \in Call : Begin(t, p, a)
    BY <1>1, StartTyped DEF Start, OrderInv
  <2> QED BY <1>a, <2>1 DEF Begin, Goto, ThreadsTyped, LocksHeld, HoldsSender, HoldsOther
<1>2. ASSUME NEW t \in Threads, Step(t) PROVE LocksHeld'
  <2> DEFINE Held(u) == /\ pc[u] \in HoldsSender => mutex[call[u].snd] = u
                        /\ pc[u] \in HoldsOther => mutex[other[u]] = u
  <2>1. ASSUME NEW u \in Threads \ {t} PROVE Held(u)'
    <3>1. /\ pc[u] \in HoldsSender => call[u].snd \in Objects /\ mutex[call[u].snd] = u
          /\ pc[u] \in HoldsOther => other[u] \in Objects /\ mutex[other[u]] = u
      BY DEF LocksHeld, OrderInv, CallShape, OtherShape, HoldsSender, HoldsOther, Objects,
         Connecting, Disconnecting, Leaving, Closing
    <3> QED BY <1>2, <3>1, OthersKept, HoldersKept
  <2>2. Held(t)'
    <3> USE DEF HoldsSender, HoldsOther
    <3>1. CASE ConnectNot(t) \/ AddSender(t) \/ ScanEnds(t) \/ LeaveEnd(t) \/ CloseEnd(t)
      <4>1. Return(t)
        BY <3>1 DEF ConnectNot, AddSender, ScanEnds, LeaveEnd, CloseEnd
      <4> QED BY <1>a, <4>1 DEF Return, Goto, ThreadsTyped
    <3>2. CASE Connect(t) \/ Disconnect(t)
      BY <1>a, <3>2 DEF Connect, Disconnect, Lock, Goto, ThreadsTyped, MutexTyped, OrderInv, CallShape,
         Connecting, Disconnecting, Objects
    <3>3. CASE AddLock(t) \/ LockFound(t) \/ LeaveLock(t) \/ CloseLock(t)
      <4>1. other[t] \in Objects /\ (pc[t] \in HoldsSender => call[t].snd \in Objects)
        BY <3>3 DEF AddLock, LockFound, LeaveLock, CloseLock, OrderInv, CallShape, OtherShape, Objects,
           Connecting, Disconnecting, Leaving, Closing
      <4> QED BY <1>a, <3>3, <4>1 DEF AddLock, LockFound, LeaveLock, CloseLock, Lock, Goto, ThreadsTyped,
              MutexTyped, LocksHeld
    <3>4. CASE Add(t) \/ ScanFinds(t) \/ EraseSender(t) \/ LeaveNext(t) \/ CloseNext(t)
      BY <1>a, <3>4 DEF Add, ScanFinds, EraseSender, LeaveNext, CloseNext, Goto, ThreadsTyped, LocksHeld
    <3>5. CASE EraseConn(t)
      <4>1. call[t].snd \in Senders /\ other[t] \in Receivers /\ mutex[call[t].snd] = t
        BY <3>5 DEF EraseConn, OrderInv, CallShape, OtherShape, Disconnecting, LocksHeld
      <4> QED BY <1>a, <3>5, <4>1 DEF EraseConn, Unlock, Goto, ThreadsTyped, MutexTyped, Objects
    <3>6. CASE Sweep(t) \/ Purge(t)
      BY <1>a, <3>6 DEF Sweep, Purge, Goto, ThreadsTyped
    <3> QED BY <1>2, <3>1, <3>2, <3>3, <3>4, <3>5, <3>6 DEF Step
  <2> QED BY <2>1, <2>2 DEF LocksHeld
<1>3. ASSUME NEW o \in Objects, Construct(o) PROVE LocksHeld'
  BY <1>3 DEF Construct, LocksHeld
<1>4. CASE UNCHANGED vars
  BY <1>4 DEF vars, LocksHeld
<1> QED BY <1>1, <1>2, <1>3, <1>4 DEF Next

-----------------------------------------------------------------------------
(* No connection is added twice *)

\* Only connect() writes into a node; the others make it Blank.
LEMMA ConnsErased ==
  ASSUME TypeOK, NEW t \in Threads, Step(t), ~Add(t), NEW c \in Conns
  PROVE  conn'[c] \in {conn[c], Blank}
<1>1. CASE EraseConn(t)
  BY <1>1 DEF EraseConn, TypeOK
<1>2. CASE LeaveEnd(t) \/ Purge(t)
  BY <1>2 DEF LeaveEnd, Purge
<1>3. CASE UNCHANGED conn
  BY <1>3
<1> QED BY <1>1, <1>2, <1>3 DEF Step, Connect, ConnectNot, AddLock, AddSender, Disconnect, ScanFinds,
        ScanEnds, LockFound, EraseSender, LeaveNext, LeaveLock, Sweep, CloseNext, CloseLock, CloseEnd, Lock

\* The mutex of the sender keeps what connect() has found out true.
LEMMA UniqueStep == OrderInv /\ LocksHeld /\ UniqueInv /\ [Next]_vars => UniqueInv'
<1> SUFFICES ASSUME OrderInv, LocksHeld, UniqueInv, [Next]_vars PROVE UniqueInv'
  OBVIOUS
<1> USE ObjectAssumption
<1>a. ThreadsTyped /\ ListsTyped /\ TypeOK
  BY TypeGroups DEF OrderInv
<1>1. ASSUME NEW t \in Threads, StartConnect(t, FALSE) \/ StartDisconnect(t) \/ StartDestroy(t)
      PROVE  UniqueInv'
  <2>1. PICK p \in {"connect", "disconnect", "leave", "close"}, a \in Call : Begin(t, p, a) /\ ~a.bento
    BY <1>1, <1>a, StartTyped DEF Start
  <2> QED BY <1>a, <2>1 DEF Begin, Goto, ThreadsTyped, UniqueInv, NotAddedTwice, List
<1>2. ASSUME NEW t \in Threads, Step(t) PROVE UniqueInv'
  <2> DEFINE None(u) == pc[u] = "add" /\ call[u].uniq =>
                          \A c \in List(call[u].snd) :
                            \/ conn[c].sig # call[u].sig \/ conn[c].rcv # call[u].rcv
                            \/ conn[c].slot # call[u].slot
  <2>1. ASSUME NEW u \in Threads, u # t, pc[u] = "add" PROVE None(u)'
    <3>1. pc'[u] = pc[u] /\ call'[u] = call[u] /\ call[u].snd \in Senders /\ None(u)
      BY <1>2, <2>1, OthersKept DEF OrderInv, CallShape, Connecting, UniqueInv, NotAddedTwice
    <3>2. CASE Add(t)
      <4>1. call[u].snd # call[t].snd
        BY <2>1, <3>2 DEF Add, LocksHeld, HoldsSender
      <4>2. \A c \in Conns : conn'[c] = conn[c] \/ conn'[c].snd = call[t].snd
        BY <1>a, <3>2 DEF Add, ListsTyped
      <4> QED BY <3>1, <4>1, <4>2 DEF List
    <3>3. CASE ~Add(t)
      <4>1. \A c \in Conns : conn'[c] = conn[c] \/ conn'[c].snd = NULL
        BY <1>2, <1>a, <3>3, ConnsErased DEF Blank
      <4> QED BY <3>1, <4>1 DEF List, Objects
    <3> QED BY <3>2, <3>3
  <2>2. None(t)'
    <3>1. CASE Connect(t)
      <4>1. pc'[t] = "add" /\ call' = call /\ conn' = conn /\ ~AlreadyThere(call[t]) /\ ~call[t].bento
        BY <1>a, <3>1 DEF Connect, Lock, Goto, ThreadsTyped, UniqueInv
      <4> QED BY <4>1 DEF AlreadyThere, SameConnection, SameBento, List
    <3>2. CASE ~Connect(t)
      <4>1. pc'[t] # "add"
        BY <1>2, <1>a, <3>2 DEF Step, ConnectNot, Add, AddLock, AddSender, Disconnect, ScanFinds, ScanEnds,
           LockFound, EraseSender, EraseConn, LeaveNext, LeaveLock, Sweep, LeaveEnd, CloseNext, CloseLock,
           Purge, CloseEnd, Lock, Goto, Return, ThreadsTyped
      <4> QED BY <4>1
    <3> QED BY <3>1, <3>2
  <2>3. NotAddedTwice'
    <3>1. \A u \in Threads : u # t => pc'[u] = pc[u]
      BY <1>2, OthersKept
    <3> QED BY <2>1, <2>2, <3>1 DEF NotAddedTwice
  <2>4. \A u \in Threads : ~call'[u].bento
    <3>1. call' = call \/ Return(t)
      BY <1>2 DEF Step, Connect, ConnectNot, Add, AddLock, AddSender, Disconnect, ScanFinds, ScanEnds,
         LockFound, EraseSender, EraseConn, LeaveNext, LeaveLock, Sweep, LeaveEnd, CloseNext, CloseLock,
         Purge, CloseEnd
    <3> QED BY <1>a, <3>1 DEF Return, NoCall, UniqueInv, ThreadsTyped
  <2> QED BY <2>3, <2>4 DEF UniqueInv
<1>3. ASSUME NEW o \in Objects, Construct(o) PROVE UniqueInv'
  BY <1>3 DEF Construct, UniqueInv, NotAddedTwice, List
<1>4. CASE UNCHANGED vars
  BY <1>4 DEF vars, UniqueInv, NotAddedTwice, List
<1> QED BY <1>1, <1>2, <1>3, <1>4 DEF Next

-----------------------------------------------------------------------------
(* What the threads use *)

\* The objects that the four kinds of function use.
LEMMA UsedIn ==
  ASSUME NEW p \in Points, NEW a, NEW o
  PROVE  o \in Used(p, a) <=>
           \/ p \in Connecting /\ o \in {a.snd, a.rcv}
           \/ p \in Disconnecting /\ (o = a.snd \/ \E c \in Matches(a.snd, a) : o = conn[c].rcv)
           \/ p \in Leaving /\ (o = a.snd \/ \E c \in List(a.snd) : o = conn[c].rcv)
           \/ p \in Closing /\ (o = a.rcv \/ (o \in Senders /\ senders[a.rcv][o] > 0))
BY DEF Used, ReceiversOf, Points, Connecting, Disconnecting, Leaving, Closing

\* What a destructor destroys.
LEMMA DyingIs ==
  ASSUME OrderInv, NEW t \in Threads
  PROVE  /\ pc[t] \in Leaving => Dying(t) = call[t].snd /\ Dying(t) \in Senders
         /\ pc[t] \in Closing => Dying(t) = call[t].rcv /\ Dying(t) \in Receivers
         /\ pc[t] \notin Leaving \cup Closing => Dying(t) = NULL
BY DEF Dying, OrderInv, CallShape, Leaving, Closing

\* A thread goes on in the same function, with the same arguments, or returns.
LEMMA GoesOn ==
  ASSUME OrderInv, NEW t \in Threads, Step(t)
  PROVE  \/ pc'[t] = "idle"
         \/ /\ call'[t] = call[t]
            /\ \E F \in {Connecting, Disconnecting, Leaving, Closing} : pc[t] \in F /\ pc'[t] \in F
<1>a. ThreadsTyped
  BY TypeGroups DEF OrderInv
<1> USE DEF Connecting, Disconnecting, Leaving, Closing
<1>1. CASE ConnectNot(t) \/ AddSender(t) \/ ScanEnds(t) \/ LeaveEnd(t) \/ CloseEnd(t)
  BY <1>a, <1>1 DEF ConnectNot, AddSender, ScanEnds, LeaveEnd, CloseEnd, Return, Goto, ThreadsTyped
<1>2. CASE Connect(t) \/ Add(t) \/ AddLock(t)
  BY <1>a, <1>2 DEF Connect, Add, AddLock, Lock, Goto, ThreadsTyped
<1>3. CASE Disconnect(t) \/ ScanFinds(t) \/ LockFound(t) \/ EraseSender(t) \/ EraseConn(t)
  BY <1>a, <1>3 DEF Disconnect, ScanFinds, LockFound, EraseSender, EraseConn, Lock, Goto, ThreadsTyped
<1>4. CASE LeaveNext(t) \/ LeaveLock(t) \/ Sweep(t)
  BY <1>a, <1>4 DEF LeaveNext, LeaveLock, Sweep, Lock, Goto, ThreadsTyped
<1>5. CASE CloseNext(t) \/ CloseLock(t) \/ Purge(t)
  BY <1>a, <1>5 DEF CloseNext, CloseLock, Purge, Lock, Goto, ThreadsTyped
<1> QED BY <1>1, <1>2, <1>3, <1>4, <1>5 DEF Step

\* Every thread stays in its function or returns: it destroys nothing new.
LEMMA DyingKept ==
  ASSUME OrderInv, OrderInv', NEW t \in Threads, Step(t), NEW u \in Threads
  PROVE  Dying(u)' \in {Dying(u), NULL}
<1>1. CASE u # t
  BY <1>1, OthersKept DEF Dying
<1>2. CASE u = t
  BY <1>2, GoesOn DEF Dying, Connecting, Disconnecting, Leaving, Closing
<1> QED BY <1>1, <1>2

\* The entries of a receiver grow only when connect() adds one.
LEMMA SendersErased ==
  ASSUME OrderInv, NEW t \in Threads, Step(t), ~AddSender(t), NEW r \in Receivers, NEW s \in Senders
  PROVE  senders'[r][s] <= senders[r][s] /\ senders'[r][s] \in Nat
<1>a. ListsTyped
  BY TypeGroups DEF OrderInv
<1>1. CASE EraseSender(t) \/ Sweep(t)
  <2>1. other[t] \in Receivers /\ call[t].snd \in Senders
    BY <1>1 DEF EraseSender, Sweep, OrderInv, CallShape, OtherShape, Disconnecting, Leaving
  <2>2. CASE r = other[t] /\ s = call[t].snd
    BY <1>a, <1>1, <2>1, <2>2 DEF EraseSender, Sweep, ListsTyped
  <2>3. CASE ~(r = other[t] /\ s = call[t].snd)
    <3>1. senders'[r][s] = senders[r][s]
      BY <1>a, <1>1, <2>1, <2>3 DEF EraseSender, Sweep, ListsTyped
    <3> QED BY <1>a, <3>1 DEF ListsTyped
  <2> QED BY <2>2, <2>3
<1>2. CASE CloseEnd(t)
  BY <1>a, <1>2 DEF CloseEnd, ListsTyped
<1>3. CASE UNCHANGED senders
  BY <1>a, <1>3 DEF ListsTyped
<1> QED BY <1>1, <1>2, <1>3 DEF Step, Connect, ConnectNot, Add, AddLock, Disconnect, ScanFinds,
        ScanEnds, LockFound, EraseConn, LeaveNext, LeaveLock, LeaveEnd, CloseNext, CloseLock, Purge, Lock

\* A call uses more objects only when connect() gives it another receiver.
LEMMA UsedGrows ==
  ASSUME OrderInv, OrderInv', NotDisturbed, NEW t \in Threads, Step(t), NEW u \in Threads,
         NEW o \in Used(pc[u], call[u])'
  PROVE  o \in Used(pc[u], call[u]) \/ (pc[t] = "add" /\ o = call[t].rcv)
<1> USE ObjectAssumption
<1>a. ThreadsTyped /\ ListsTyped /\ TypeOK /\ pc'[u] \in Points /\ call[u] \in Call
  BY TypeGroups DEF OrderInv, TypeOK, Points
<1>1. \/ pc'[u] \in Connecting /\ o \in {call'[u].snd, call'[u].rcv}
      \/ pc'[u] \in Disconnecting /\ (o = call'[u].snd \/ \E c \in Matches(call[u].snd, call[u])' : o = conn'[c].rcv)
      \/ pc'[u] \in Leaving /\ (o = call'[u].snd \/ \E c \in List(call[u].snd)' : o = conn'[c].rcv)
      \/ pc'[u] \in Closing /\ (o = call'[u].rcv \/ (o \in Senders /\ senders'[call'[u].rcv][o] > 0))
  BY <1>a DEF Used, ReceiversOf, Points, Connecting, Disconnecting, Leaving, Closing
<1>2. /\ call'[u] = call[u]
      /\ \E F \in {Connecting, Disconnecting, Leaving, Closing} : pc[u] \in F /\ pc'[u] \in F
  <2>1. pc'[u] # "idle"
    BY <1>1 DEF Connecting, Disconnecting, Leaving, Closing
  <2>2. CASE u = t
    BY <2>1, <2>2, GoesOn
  <2>3. CASE u # t
    BY <2>3, <1>1, OthersKept
  <2> QED BY <2>2, <2>3
<1>3. /\ pc[u] \in Connecting <=> pc'[u] \in Connecting
      /\ pc[u] \in Disconnecting <=> pc'[u] \in Disconnecting
      /\ pc[u] \in Leaving <=> pc'[u] \in Leaving
      /\ pc[u] \in Closing <=> pc'[u] \in Closing
  BY <1>2 DEF Connecting, Disconnecting, Leaving, Closing
<1>4. \A c \in Conns : \/ conn'[c] = conn[c] \/ conn'[c].snd = NULL
                       \/ pc[t] = "add" /\ conn'[c].rcv = call[t].rcv
  <2>1. CASE Add(t)
    BY <1>a, <2>1 DEF Add, ListsTyped
  <2>2. CASE ~Add(t)
    BY <1>a, <2>2, ConnsErased DEF Blank
  <2> QED BY <2>1, <2>2
<1>5. pc[u] \in Points
  BY <1>a DEF ThreadsTyped
<1>6. CASE pc[u] \in Connecting
  BY <1>1, <1>2, <1>3, <1>5, <1>6, UsedIn DEF Connecting, Disconnecting, Leaving, Closing
<1>7. CASE pc[u] \in Disconnecting \cup Leaving
  <2>1. call[u].snd \in Senders /\ call[u].snd # NULL
    BY <1>7 DEF OrderInv, CallShape, Objects
  <2>2. ASSUME NEW c \in List(call[u].snd)', o = conn'[c].rcv, ~(pc[t] = "add" /\ o = call[t].rcv)
        PROVE  c \in Conns /\ conn'[c] = conn[c] /\ c \in List(call[u].snd)
    BY <1>2, <1>4, <2>1, <2>2 DEF List
  <2>3. CASE pc[u] \in Disconnecting
    <3>1. o = call[u].snd \/ \E c \in Matches(call[u].snd, call[u])' : o = conn'[c].rcv
      BY <1>1, <1>2, <1>3, <2>3 DEF Connecting, Disconnecting, Leaving, Closing
    <3>2. ASSUME NEW c \in Matches(call[u].snd, call[u])', o = conn'[c].rcv, ~(pc[t] = "add" /\ o = call[t].rcv)
          PROVE  c \in Matches(call[u].snd, call[u]) /\ o = conn[c].rcv
      <4>1. c \in List(call[u].snd)' /\ IsMatch(conn[c], call[u])'
        BY <3>2 DEF Matches
      <4> QED BY <1>2, <2>2, <3>2, <4>1 DEF Matches, IsMatch, SameBento
    <3> QED BY <1>5, <2>3, <3>1, <3>2, UsedIn
  <2>4. CASE pc[u] \in Leaving
    <3>1. o = call[u].snd \/ \E c \in List(call[u].snd)' : o = conn'[c].rcv
      BY <1>1, <1>2, <1>3, <2>4 DEF Connecting, Disconnecting, Leaving, Closing
    <3> QED BY <1>5, <2>2, <2>4, <3>1, UsedIn
  <2> QED BY <1>7, <2>3, <2>4
<1>8. CASE pc[u] \in Closing
  <2>1. o = call[u].rcv \/ (o \in Senders /\ senders'[call[u].rcv][o] > 0)
    BY <1>1, <1>2, <1>3, <1>8 DEF Connecting, Disconnecting, Leaving, Closing
  <2>2. call[u].rcv \in Receivers /\ Dying(u) = call[u].rcv /\ Dying(u) # NULL
    BY <1>8, DyingIs DEF Objects
  <2>3. ASSUME o \in Senders, senders'[call[u].rcv][o] > 0 PROVE senders[call[u].rcv][o] > 0
    <3>1. CASE AddSender(t)
      <4>1. u # t /\ other[t] = call[t].rcv /\ pc[t] \in Connecting
        BY <1>8, <3>1 DEF AddSender, OrderInv, OtherShape, Connecting, Closing
      <4>2. other[t] \in Used(pc[t], call[t])
        BY <1>a, <4>1, UsedIn DEF ThreadsTyped
      <4>3. other[t] # call[u].rcv
        BY <2>2, <4>1, <4>2 DEF NotDisturbed
      <4>4. senders'[call[u].rcv] = senders[call[u].rcv]
        BY <1>a, <2>2, <3>1, <4>3 DEF AddSender, ListsTyped
      <4> QED BY <2>3, <4>4
    <3>2. CASE ~AddSender(t)
      <4>1. senders'[call[u].rcv][o] <= senders[call[u].rcv][o] /\ senders'[call[u].rcv][o] \in Nat
        BY <2>2, <2>3, <3>2, SendersErased
      <4>2. senders[call[u].rcv][o] \in Nat
        BY <1>a, <2>2, <2>3 DEF ListsTyped
      <4> QED BY <2>3, <4>1, <4>2
    <3> QED BY <3>1, <3>2
  <2> QED BY <1>5, <1>8, <2>1, <2>3, UsedIn
<1> QED BY <1>2, <1>6, <1>7, <1>8

\* No thread begins to destroy what another call uses, nor to use what another
\* thread destroys.
LEMMA DisturbStep == OrderInv /\ UsedExist /\ NotDisturbed /\ [Next]_vars => NotDisturbed'
<1> SUFFICES ASSUME OrderInv, UsedExist, NotDisturbed, [Next]_vars PROVE NotDisturbed'
  OBVIOUS
<1> USE ObjectAssumption
<1>a. ThreadsTyped /\ OrderInv'
  BY TypeGroups, OrderStep DEF OrderInv
<1>1. ASSUME NEW t \in Threads, StartConnect(t, FALSE) \/ StartDisconnect(t) \/ StartDestroy(t)
      PROVE  NotDisturbed'
  <2>1. PICK p \in {"connect", "disconnect", "leave", "close"}, a \in Call :
          Permitted(t, p, a) /\ Begin(t, p, a)
    BY <1>1, StartTyped DEF Start, OrderInv
  <2>2. \A u \in Threads \ {t} : Dying(u)' = Dying(u) /\ Used(pc[u], call[u])' = Used(pc[u], call[u])
    BY <1>a, <2>1 DEF Begin, Goto, ThreadsTyped, Dying, Used, ReceiversOf, Matches, List, IsMatch, SameBento
  <2>3. /\ Dying(t)' = IF p = "leave" THEN a.snd ELSE IF p = "close" THEN a.rcv ELSE NULL
        /\ Used(pc[t], call[t])' = Used(p, a)
    BY <1>a, <2>1 DEF Begin, Goto, ThreadsTyped, Dying, Used, ReceiversOf, Matches, List, IsMatch, SameBento, Leaving, Closing
  <2> QED BY <2>1, <2>2, <2>3 DEF Permitted, NotDisturbed
<1>2. ASSUME NEW t \in Threads, Step(t) PROVE NotDisturbed'
  <2> SUFFICES ASSUME NEW v \in Threads, NEW u \in Threads, v # u, Dying(v)' # NULL,
                      Dying(v)' \in Used(pc[u], call[u])'
               PROVE  FALSE
    BY DEF NotDisturbed
  <2>1. Dying(v)' = Dying(v) /\ Dying(v) # NULL
    BY <1>2, <1>a, DyingKept
  <2>2. Dying(v) \notin Used(pc[u], call[u])
    BY <2>1 DEF NotDisturbed
  <2>3. pc[t] = "add" /\ Dying(v) = call[t].rcv
    BY <1>2, <1>a, <2>1, <2>2, UsedGrows
  <2>4. v # t /\ Dying(v) \in Used(pc[t], call[t])
    BY <1>a, <2>1, <2>3, DyingIs, UsedIn DEF ThreadsTyped, Connecting, Leaving, Closing
  <2> QED BY <2>1, <2>4 DEF NotDisturbed
<1>3. CASE (\E o \in Objects : Construct(o)) \/ UNCHANGED vars
  <2>1. \A u \in Threads : Dying(u)' = Dying(u) /\ Used(pc[u], call[u])' = Used(pc[u], call[u])
    BY <1>3 DEF Construct, vars, Dying, Used, ReceiversOf, Matches, List, IsMatch, SameBento
  <2> QED BY <2>1 DEF NotDisturbed
<1> QED BY <1>1, <1>2, <1>3 DEF Next

\* A call begins with objects that exist, and goes on to such objects only.
LEMMA ExistStep ==
  OrderInv /\ UsedExist /\ NotDisturbed /\ NothingLeft /\ [Next]_vars => UsedExist'
<1> SUFFICES ASSUME OrderInv, UsedExist, NotDisturbed, NothingLeft, [Next]_vars PROVE UsedExist'
  OBVIOUS
<1> USE ObjectAssumption
<1>a. ThreadsTyped /\ ListsTyped /\ OrderInv'
  BY TypeGroups, OrderStep DEF OrderInv
<1>1. ASSUME NEW t \in Threads, StartConnect(t, FALSE) \/ StartDisconnect(t) \/ StartDestroy(t)
      PROVE  UsedExist'
  <2>1. PICK p \in {"connect", "disconnect", "leave", "close"}, a \in Call :
           /\ Begin(t, p, a)
           /\ p = "connect" => a.snd \in Senders /\ a.rcv \in Receivers
           /\ p = "disconnect" => a.snd \in Senders
           /\ p = "leave" => a.snd \in Senders
           /\ p = "close" => a.rcv \in Receivers
           /\ {a.snd, a.rcv} \subseteq alive \cup {NULL}
    BY <1>1, StartTyped DEF Start, OrderInv
  <2>2. \A u \in Threads \ {t} : Used(pc[u], call[u])' = Used(pc[u], call[u])
    BY <1>a, <2>1 DEF Begin, Goto, ThreadsTyped, Used, ReceiversOf, Matches, List, IsMatch, SameBento
  <2>3. Used(pc[t], call[t])' = Used(p, a) /\ alive' = alive
    BY <1>a, <2>1 DEF Begin, Goto, ThreadsTyped, Used, ReceiversOf, Matches, List, IsMatch, SameBento
  <2>4. \A c \in List(a.snd) : p \in {"disconnect", "leave"} => conn[c].rcv \in alive
    BY <2>1 DEF List, NothingLeft, Blank, Objects
  <2>5. p = "close" => \A s \in Senders : senders[a.rcv][s] > 0 => s \in alive
    BY <2>1 DEF NothingLeft
  <2>6. p \in Points /\ (p \in {"connect", "disconnect", "leave"} => a.snd \in alive)
        /\ (p \in {"connect", "close"} => a.rcv \in alive)
    BY <2>1 DEF Points, Connecting, Disconnecting, Leaving, Closing, Objects
  <2>7. ASSUME NEW o \in Used(p, a) PROVE o \in alive
    <3>1. \/ p = "connect" /\ o \in {a.snd, a.rcv}
          \/ p = "disconnect" /\ (o = a.snd \/ \E c \in Matches(a.snd, a) : o = conn[c].rcv)
          \/ p = "leave" /\ (o = a.snd \/ \E c \in List(a.snd) : o = conn[c].rcv)
          \/ p = "close" /\ (o = a.rcv \/ (o \in Senders /\ senders[a.rcv][o] > 0))
      BY <2>1, <2>6, <2>7, UsedIn DEF Connecting, Disconnecting, Leaving, Closing
    <3> QED BY <2>4, <2>5, <2>6, <3>1 DEF Matches
  <2> QED BY <2>2, <2>3, <2>7 DEF UsedExist
<1>2. ASSUME NEW t \in Threads, Step(t) PROVE UsedExist'
  <2> SUFFICES ASSUME NEW u \in Threads, NEW o \in Used(pc[u], call[u])' PROVE o \in alive'
    BY DEF UsedExist
  <2>1. o \in Used(pc[u], call[u]) \/ (pc[t] = "add" /\ o = call[t].rcv)
    BY <1>2, <1>a, UsedGrows
  <2>2. o \in alive
    BY <1>a, <2>1, UsedIn DEF UsedExist, ThreadsTyped, Connecting
  <2>3. CASE alive' = alive
    BY <2>2, <2>3
  <2>4. CASE LeaveEnd(t) \/ CloseEnd(t)
    <3>1. alive' = alive \ {Dying(t)} /\ Dying(t) # NULL /\ pc[t] # "add"
      BY <2>4, DyingIs DEF LeaveEnd, CloseEnd, Leaving, Closing, Objects
    <3>2. pc'[t] = "idle"
      BY <1>a, <2>4 DEF LeaveEnd, CloseEnd, Return, Goto, ThreadsTyped
    <3>3. u # t
      BY <3>2 DEF Used, Connecting, Disconnecting, Leaving, Closing
    <3> QED BY <2>1, <2>2, <3>1, <3>3 DEF NotDisturbed
  <2> QED BY <1>2, <2>3, <2>4 DEF Step, Connect, ConnectNot, Add, AddLock, AddSender, Disconnect, ScanFinds,
          ScanEnds, LockFound, EraseSender, EraseConn, LeaveNext, LeaveLock, Sweep, CloseNext, CloseLock, Purge
<1>3. CASE (\E o \in Objects : Construct(o)) \/ UNCHANGED vars
  <2>1. alive \subseteq alive'
    BY <1>3 DEF Construct, vars
  <2>2. \A u \in Threads : Used(pc[u], call[u])' = Used(pc[u], call[u])
    BY <1>3 DEF Construct, vars, Used, ReceiversOf, Matches, List, IsMatch, SameBento
  <2> QED BY <2>1, <2>2 DEF UsedExist
<1> QED BY <1>1, <1>2, <1>3 DEF Next

\* internal_disconnect() works on a connection that nobody else can erase.
LEMMA IterStep ==
  OrderInv /\ LocksHeld /\ IterShape /\ NotDisturbed /\ [Next]_vars => IterShape'
<1> SUFFICES ASSUME OrderInv, LocksHeld, IterShape, NotDisturbed, [Next]_vars PROVE IterShape'
  OBVIOUS
<1> USE ObjectAssumption
<1> DEFINE Holding == {"found", "eraseSender", "eraseConn"}
<1>a. ThreadsTyped /\ ListsTyped
  BY TypeGroups DEF OrderInv
<1>1. ASSUME NEW t \in Threads, StartConnect(t, FALSE) \/ StartDisconnect(t) \/ StartDestroy(t)
      PROVE  IterShape'
  <2>1. PICK p \in {"connect", "disconnect", "leave", "close"}, a \in Call : Begin(t, p, a)
    BY <1>1, StartTyped DEF Start, OrderInv
  <2> QED BY <1>a, <2>1 DEF Begin, Goto, ThreadsTyped, IterShape, Matches, List, IsMatch, SameBento
<1>2. ASSUME NEW t \in Threads, Step(t) PROVE IterShape'
  <2> DEFINE Good(u) == iter[u] \in Matches(call[u].snd, call[u]) /\ other[u] = conn[iter[u]].rcv
  <2>1. ASSUME NEW u \in Threads, u # t, pc[u] \in Holding PROVE Good(u)'
    <3>1. /\ pc'[u] = pc[u] /\ call'[u] = call[u] /\ iter'[u] = iter[u] /\ other'[u] = other[u]
          /\ call[u].snd \in Senders /\ mutex[call[u].snd] = u /\ Good(u)
          /\ iter[u] \in Conns /\ conn[iter[u]].snd = call[u].snd
      BY <1>2, <2>1, OthersKept DEF OrderInv, CallShape, Disconnecting, LocksHeld, HoldsSender, IterShape,
         Matches, List
    <3>2. conn'[iter[u]] = conn[iter[u]]
      <4>1. CASE Add(t)
        <5>1. conn[iter[u]] # Blank
          BY <3>1 DEF Blank, Objects
        <5> QED BY <1>a, <3>1, <4>1, <5>1 DEF Add, ListsTyped
      <4>2. CASE EraseConn(t)
        <5>1. mutex[call[t].snd] = t /\ conn[iter[t]].snd = call[t].snd
          BY <4>2 DEF EraseConn, LocksHeld, HoldsSender, IterShape, Matches, List
        <5>2. iter[t] # iter[u]
          BY <2>1, <3>1, <5>1
        <5> QED BY <1>a, <3>1, <4>2, <5>2 DEF EraseConn, ListsTyped
      <4>3. CASE LeaveEnd(t)
        <5>1. Dying(t) = call[t].snd /\ Dying(t) # NULL
          BY <4>3, DyingIs DEF LeaveEnd, Leaving, Objects
        <5>2. call[u].snd \in Used(pc[u], call[u])
          BY <2>1, <1>a, UsedIn DEF Disconnecting, ThreadsTyped
        <5>3. call[t].snd # call[u].snd
          BY <2>1, <5>1, <5>2 DEF NotDisturbed
        <5> QED BY <3>1, <4>3, <5>3 DEF LeaveEnd, List
      <4>4. CASE Purge(t)
        <5>1. mutex[other[t]] = t
          BY <4>4 DEF Purge, LocksHeld, HoldsOther
        <5> QED BY <2>1, <3>1, <4>4, <5>1 DEF Purge, Between, List
      <4> QED BY <1>2, <4>1, <4>2, <4>3, <4>4 DEF Step, Connect, ConnectNot, AddLock, AddSender, Disconnect,
              ScanFinds, ScanEnds, LockFound, EraseSender, LeaveNext, LeaveLock, Sweep, CloseNext,
              CloseLock, CloseEnd
    <3> QED BY <3>1, <3>2 DEF Matches, List, IsMatch, SameBento
  <2>2. pc'[t] \in Holding => Good(t)'
    <3>1. CASE ScanFinds(t)
      <4>1. PICK c \in Matches(call[t].snd, call[t]) :
              iter' = [iter EXCEPT ![t] = c] /\ other' = [other EXCEPT ![t] = conn[c].rcv]
        BY <3>1 DEF ScanFinds
      <4>2. iter'[t] = c /\ other'[t] = conn[c].rcv /\ conn' = conn /\ call' = call
        BY <1>a, <3>1, <4>1 DEF ScanFinds, ThreadsTyped
      <4> QED BY <4>2 DEF Matches, List, IsMatch, SameBento
    <3>2. CASE LockFound(t) \/ EraseSender(t)
      <4>1. Good(t) /\ conn' = conn /\ call' = call /\ iter' = iter /\ other' = other
        BY <3>2 DEF LockFound, EraseSender, IterShape
      <4> QED BY <4>1 DEF Matches, List, IsMatch, SameBento
    <3>3. CASE ~ScanFinds(t) /\ ~LockFound(t) /\ ~EraseSender(t)
      <4>1. pc'[t] \notin Holding
        BY <1>2, <1>a, <3>3 DEF Step, Connect, ConnectNot, Add, AddLock, AddSender, Disconnect, ScanEnds,
           EraseConn, LeaveNext, LeaveLock, Sweep, LeaveEnd, CloseNext, CloseLock, Purge, CloseEnd, Lock,
           Goto, Return, ThreadsTyped
      <4> QED BY <4>1
    <3> QED BY <3>1, <3>2, <3>3
  <2>3. \A u \in Threads : u # t => pc'[u] = pc[u]
    BY <1>2, OthersKept
  <2> QED BY <2>1, <2>2, <2>3 DEF IterShape
<1>3. CASE (\E o \in Objects : Construct(o)) \/ UNCHANGED vars
  BY <1>3 DEF Construct, vars, IterShape, Matches, List, IsMatch, SameBento
<1> QED BY <1>1, <1>2, <1>3 DEF Next

\* The counts of a destructor begin at zero.
LEMMA VisitsStep == OrderInv /\ VisitsShape /\ [Next]_vars => VisitsShape'
<1> SUFFICES ASSUME OrderInv, VisitsShape, [Next]_vars PROVE VisitsShape'
  OBVIOUS
<1> USE ObjectAssumption
<1>a. ThreadsTyped
  BY TypeGroups DEF OrderInv
<1>1. ASSUME NEW t \in Threads, StartConnect(t, FALSE) \/ StartDisconnect(t) \/ StartDestroy(t)
      PROVE  VisitsShape'
  <2>1. PICK p \in {"connect", "disconnect", "leave", "close"}, a \in Call : Begin(t, p, a)
    BY <1>1, StartTyped DEF Start, OrderInv
  <2> QED BY <1>a, <2>1 DEF Begin, Goto, ThreadsTyped, VisitsShape, Leaving, Closing
<1>2. ASSUME NEW t \in Threads, Step(t) PROVE VisitsShape'
  <2>1. \A u \in Threads \ {t} : pc'[u] = pc[u] /\ visits'[u] = visits[u]
    BY <1>2, OthersKept
  <2>2. CASE ConnectNot(t) \/ AddSender(t) \/ ScanEnds(t) \/ LeaveEnd(t) \/ CloseEnd(t)
    <3>1. visits'[t] = [o \in Objects |-> 0]
      BY <1>a, <2>2 DEF ConnectNot, AddSender, ScanEnds, LeaveEnd, CloseEnd, Return, ThreadsTyped
    <3> QED BY <2>1, <3>1 DEF VisitsShape
  <2>3. CASE Connect(t) \/ Add(t) \/ AddLock(t) \/ Disconnect(t) \/ ScanFinds(t) \/ LockFound(t)
             \/ EraseSender(t) \/ EraseConn(t)
    <3>1. visits'[t] = visits[t] /\ pc[t] \notin Leaving \cup Closing
      BY <2>3 DEF Connect, Add, AddLock, Disconnect, ScanFinds, LockFound, EraseSender, EraseConn,
         Leaving, Closing
    <3> QED BY <2>1, <3>1 DEF VisitsShape
  <2>4. CASE LeaveNext(t) \/ LeaveLock(t) \/ Sweep(t) \/ CloseNext(t) \/ CloseLock(t) \/ Purge(t)
    <3>1. pc'[t] \in Leaving \cup Closing
      BY <1>a, <2>4 DEF LeaveNext, LeaveLock, Sweep, CloseNext, CloseLock, Purge, Lock, Goto, ThreadsTyped,
         Leaving, Closing
    <3> QED BY <2>1, <3>1 DEF VisitsShape
  <2> QED BY <1>2, <2>2, <2>3, <2>4 DEF Step
<1>3. CASE (\E o \in Objects : Construct(o)) \/ UNCHANGED vars
  BY <1>3 DEF Construct, vars, VisitsShape
<1> QED BY <1>1, <1>2, <1>3 DEF Next

-----------------------------------------------------------------------------
(* The two halves of the connections *)

\* The list of a sender is finite.
LEMMA BetweenFinite ==
  ASSUME NEW s, NEW r
  PROVE  IsFiniteSet(Between(s, r)) /\ Cardinality(Between(s, r)) \in Nat
<1>1. Between(s, r) \subseteq Conns
  BY DEF Between, List
<1> QED BY <1>1, ObjectAssumption, FS_Subset, FS_CardinalityType

\* Who has written one half holds the mutex of the sender and uses both objects.
LEMMA HalfDoneHolds ==
  ASSUME OrderInv, LocksHeld, IterShape, NEW t \in Threads, NEW s, NEW r, HalfDone(t, s, r)
  PROVE  /\ mutex[s] = t /\ Dying(t) = NULL
         /\ s \in Used(pc[t], call[t]) /\ r \in Used(pc[t], call[t])
<1>a. pc[t] \in Points
  BY TypeGroups DEF OrderInv, ThreadsTyped
<1>1. mutex[s] = t /\ Dying(t) = NULL
  BY DEF HalfDone, LocksHeld, HoldsSender, Dying, Leaving, Closing
<1>2. CASE pc[t] \in {"addLock", "addSender"}
  <2>1. other[t] = call[t].rcv
    BY <1>2 DEF OrderInv, OtherShape
  <2> QED BY <1>a, <1>1, <1>2, <2>1, UsedIn DEF HalfDone, Connecting
<1>3. CASE pc[t] = "eraseConn"
  <2>1. iter[t] \in Matches(call[t].snd, call[t]) /\ other[t] = conn[iter[t]].rcv
    BY <1>3 DEF IterShape
  <2> QED BY <1>a, <1>1, <1>3, <2>1, UsedIn DEF HalfDone, Disconnecting
<1> QED BY <1>2, <1>3 DEF HalfDone

\* A destructor that has been at the other object still destroys its own.
LEMMA VisitorDies ==
  ASSUME OrderInv, NEW t \in Threads, NEW s, NEW r
  PROVE  /\ Swept(t, s, r) => Dying(t) = s /\ s # NULL
         /\ Purged(t, s, r) => Dying(t) = r /\ r # NULL
BY DyingIs, ObjectAssumption DEF Swept, Purged, Objects

\* Nobody else is at work on a pair that a thread uses with the sender locked.
LEMMA PairOwned ==
  ASSUME OrderInv, LocksHeld, IterShape, NotDisturbed, NEW t \in Threads, NEW s, NEW r,
         mutex[s] = t, Dying(t) = NULL,
         s \in Used(pc[t], call[t]), r \in Used(pc[t], call[t]), NEW u \in Threads
  PROVE  ~Swept(u, s, r) /\ ~Purged(u, s, r) /\ (HalfDone(u, s, r) => u = t)
<1>1. ~Swept(u, s, r) /\ ~Purged(u, s, r)
  BY VisitorDies DEF NotDisturbed
<1>2. HalfDone(u, s, r) => u = t
  BY HalfDoneHolds
<1> QED BY <1>1, <1>2

\* ~SignalBase ends when no receiver has an entry of the sender left.
LEMMA SweepComplete ==
  ASSUME IInv, NEW t \in Threads, LeaveEnd(t), NEW r \in Receivers
  PROVE  senders[r][call[t].snd] = 0
<1> DEFINE s == call[t].snd
<1> USE ObjectAssumption
<1>a. TypeOK /\ s \in Senders /\ Dying(t) = s /\ s # NULL /\ pc[t] \in Leaving
  BY DyingIs DEF LeaveEnd, Leaving, Closing, IInv, OrderInv, Objects
<1>b. senders[r][s] \in Nat /\ visits[t][r] \in Nat /\ HalvesOf(s, r)
  BY <1>a DEF TypeOK, Objects, IInv, Halves
<1>1. CASE visits[t][r] > 0
  <2>1. Swept(t, s, r)
    BY <1>a, <1>1 DEF Swept
  <2> QED BY <1>b, <2>1 DEF HalvesOf
<1>2. CASE visits[t][r] = 0
  <2>1. Cardinality(Between(s, r)) = 0
    <3>1. visits[t][r] >= Cardinality(Between(s, r))
      BY DEF LeaveEnd
    <3> QED BY <1>2, <3>1, BetweenFinite
  <2>2. SUFFICES ASSUME senders[r][s] > 0 PROVE FALSE
    BY <1>b
  <2>3. \A u \in Threads : ~HalfDone(u, s, r)
    <3>1. \A u \in Threads : HalfDone(u, s, r) => u # t /\ s \in Used(pc[u], call[u])
      BY <1>a, HalfDoneHolds DEF IInv
    <3> QED BY <1>a, <3>1 DEF IInv, NotDisturbed
  <2>4. \A u \in Threads : ~Purged(u, s, r)
    <3>1. ASSUME NEW u \in Threads, Purged(u, s, r) PROVE u # t /\ s \in Used(pc[u], call[u])
      BY <1>a, <2>2, <3>1, UsedIn DEF Purged, TypeOK, Points, Leaving, Closing
    <3> QED BY <1>a, <3>1 DEF IInv, NotDisturbed
  <2>5. \A u \in Threads : ~Swept(u, s, r)
    <3>1. ~Swept(t, s, r)
      BY <1>2 DEF Swept
    <3>2. ASSUME NEW u \in Threads, Swept(u, s, r) PROVE s \in Used(pc[u], call[u])
      BY <3>2, <1>a, UsedIn DEF Swept, TypeOK, Points
    <3> QED BY <1>a, <3>1, <3>2 DEF IInv, NotDisturbed
  <2> QED BY <1>b, <2>1, <2>2, <2>3, <2>4, <2>5 DEF HalvesOf
<1> QED BY <1>b, <1>1, <1>2

\* ~SlotBase ends when no sender has a connection with the receiver left.
LEMMA PurgeComplete ==
  ASSUME IInv, NEW t \in Threads, CloseEnd(t), NEW s \in Senders
  PROVE  Between(s, call[t].rcv) = {}
<1> DEFINE r == call[t].rcv
<1> USE ObjectAssumption
<1>a. TypeOK /\ r \in Receivers /\ Dying(t) = r /\ r # NULL /\ pc[t] \in Closing
  BY DyingIs DEF CloseEnd, Leaving, Closing, IInv, OrderInv, Objects
<1>b. senders[r][s] \in Nat /\ visits[t][s] \in Nat /\ HalvesOf(s, r)
  BY <1>a DEF TypeOK, Objects, IInv, Halves
<1>1. CASE visits[t][s] > 0
  <2>1. Purged(t, s, r)
    BY <1>a, <1>1 DEF Purged
  <2> QED BY <1>b, <2>1 DEF HalvesOf
<1>2. CASE visits[t][s] = 0
  <2>1. senders[r][s] = 0
    <3>1. visits[t][s] >= senders[r][s]
      BY DEF CloseEnd
    <3> QED BY <1>b, <1>2, <3>1
  <2>2. SUFFICES ASSUME Between(s, r) # {} PROVE FALSE
    OBVIOUS
  <2>3. \A u \in Threads : ~HalfDone(u, s, r)
    <3>1. \A u \in Threads : HalfDone(u, s, r) => u # t /\ r \in Used(pc[u], call[u])
      BY <1>a, HalfDoneHolds DEF IInv
    <3> QED BY <1>a, <3>1 DEF IInv, NotDisturbed
  <2>4. \A u \in Threads : ~Purged(u, s, r)
    <3>1. ~Purged(t, s, r)
      BY <1>2 DEF Purged
    <3>2. ASSUME NEW u \in Threads, Purged(u, s, r) PROVE r \in Used(pc[u], call[u])
      BY <3>2, <1>a, UsedIn DEF Purged, TypeOK, Points
    <3> QED BY <1>a, <3>1, <3>2 DEF IInv, NotDisturbed
  <2>5. \A u \in Threads : ~Swept(u, s, r)
    <3>1. ASSUME NEW u \in Threads, Swept(u, s, r) PROVE u # t /\ r \in Used(pc[u], call[u])
      BY <3>1, <1>a, <2>2, UsedIn DEF Swept, Between, TypeOK, Points, Leaving, Closing
    <3> QED BY <1>a, <3>1 DEF IInv, NotDisturbed
  <2>6. Cardinality(Between(s, r)) = 0
    BY <2>1, <2>3, <2>4, <2>5, <1>b DEF HalvesOf
  <2> QED BY <2>2, <2>6, BetweenFinite, FS_EmptySet
<1> QED BY <1>b, <1>1, <1>2

\* What the threads have done to the pair is as before.
SameMarks(u, s, r) == /\ Swept(u, s, r)' <=> Swept(u, s, r)
                      /\ Purged(u, s, r)' <=> Purged(u, s, r)
                      /\ HalfDone(u, s, r)' <=> HalfDone(u, s, r)

\* A pair that a step does not touch stays as it was.
LEMMA PairKept ==
  ASSUME NEW s, NEW r, HalvesOf(s, r), Between(s, r)' = Between(s, r), senders'[r][s] = senders[r][s],
         \A u \in Threads : SameMarks(u, s, r)
  PROVE  HalvesOf(s, r)'
BY DEF HalvesOf, SameMarks

\* connect() writes the first half.
LEMMA HalvesAdd ==
  ASSUME IInv, NEW t \in Threads, Add(t), NEW s \in Senders, NEW r \in Receivers
  PROVE  HalvesOf(s, r)'
<1> USE ObjectAssumption
<1>a. TypeOK /\ HalvesOf(s, r) /\ ThreadsTyped /\ ListsTyped
  BY TypeGroups DEF IInv, OrderInv, Halves
<1>b. \A u \in Threads \ {t} : SameMarks(u, s, r)
  BY OthersKept DEF Step, IInv, SameMarks, Swept, Purged, HalfDone
<1>c. /\ pc[t] = "add" /\ pc'[t] = "addLock" /\ call' = call /\ other'[t] = call[t].rcv
      /\ senders' = senders /\ Dying(t) = NULL /\ mutex[call[t].snd] = t
  BY <1>a DEF Add, Goto, ThreadsTyped, Dying, Leaving, Closing, IInv, LocksHeld, HoldsSender
<1>d. PICK c \in Conns :
        /\ conn[c] = Blank
        /\ conn' = [conn EXCEPT ![c] = [snd |-> call[t].snd, sig |-> call[t].sig,
                                        slot |-> call[t].slot, rcv |-> call[t].rcv]]
  BY DEF Add
<1>e. /\ conn'[c].snd = call[t].snd /\ conn'[c].rcv = call[t].rcv /\ c \notin Between(s, r)
      /\ \A d \in Conns \ {c} : conn'[d] = conn[d]
  BY <1>a, <1>d DEF ListsTyped, Between, List, Blank, Objects
<1>1. CASE s = call[t].snd /\ r = call[t].rcv
  <2>1. s \in Used(pc[t], call[t]) /\ r \in Used(pc[t], call[t])
    BY <1>1, <1>c, UsedIn DEF Points, Connecting
  <2>2. \A u \in Threads : ~Swept(u, s, r) /\ ~Purged(u, s, r) /\ ~HalfDone(u, s, r)
    <3>1. ~HalfDone(t, s, r)
      BY <1>c DEF HalfDone
    <3> QED BY <1>1, <1>c, <2>1, <3>1, PairOwned DEF IInv
  <2>3. Cardinality(Between(s, r)) = senders[r][s]
    BY <1>a, <2>2 DEF HalvesOf
  <2>4. Between(s, r)' = Between(s, r) \cup {c}
    BY <1>1, <1>e DEF Between, List
  <2>5. Cardinality(Between(s, r)') = senders'[r][s] + 1
    BY <1>c, <1>e, <2>3, <2>4, BetweenFinite, FS_AddElement
  <2>6. HalfDone(t, s, r)' /\ ~Swept(t, s, r)' /\ ~Purged(t, s, r)'
    BY <1>1, <1>c DEF HalfDone, Swept, Purged, Leaving, Closing
  <2>7. \A u \in Threads : ~Swept(u, s, r)' /\ ~Purged(u, s, r)'
    BY <1>b, <2>2, <2>6 DEF SameMarks
  <2> QED BY <2>5, <2>6, <2>7 DEF HalvesOf
<1>2. CASE ~(s = call[t].snd /\ r = call[t].rcv)
  <2>1. Between(s, r)' = Between(s, r)
    BY <1>2, <1>e DEF Between, List
  <2>2. SameMarks(t, s, r)
    BY <1>2, <1>c DEF SameMarks, HalfDone, Swept, Purged, Leaving, Closing
  <2> QED BY <1>a, <1>b, <1>c, <2>1, <2>2, PairKept
<1> QED BY <1>1, <1>2

\* connect() writes the second half.
LEMMA HalvesAddSender ==
  ASSUME IInv, NEW t \in Threads, AddSender(t), NEW s \in Senders, NEW r \in Receivers
  PROVE  HalvesOf(s, r)'
<1> USE ObjectAssumption
<1>a. HalvesOf(s, r) /\ ThreadsTyped /\ ListsTyped
  BY TypeGroups DEF IInv, OrderInv, Halves
<1>b. \A u \in Threads \ {t} : SameMarks(u, s, r)
  BY OthersKept DEF Step, IInv, SameMarks, Swept, Purged, HalfDone
<1>c. /\ pc[t] = "addSender" /\ pc'[t] = "idle" /\ other[t] \in Receivers /\ call[t].snd \in Senders
      /\ Dying(t) = NULL /\ mutex[call[t].snd] = t /\ conn' = conn
  BY <1>a DEF AddSender, Return, Goto, ThreadsTyped, Dying, Leaving, Closing, Connecting, IInv, OrderInv,
     CallShape, OtherShape, LocksHeld, HoldsSender
<1>d. Between(s, r)' = Between(s, r)
  BY <1>c DEF Between, List
<1>e. ~HalfDone(t, s, r)' /\ ~Swept(t, s, r)' /\ ~Purged(t, s, r)' /\ ~Swept(t, s, r) /\ ~Purged(t, s, r)
  BY <1>c DEF HalfDone, Swept, Purged, Leaving, Closing
<1>1. CASE s = call[t].snd /\ r = other[t]
  <2>1. HalfDone(t, s, r)
    BY <1>1, <1>c DEF HalfDone
  <2>2. Cardinality(Between(s, r)) = senders[r][s] + 1
    BY <1>a, <2>1 DEF HalvesOf
  <2>3. senders'[r][s] = senders[r][s] + 1
    BY <1>a, <1>1, <1>c DEF AddSender, ListsTyped
  <2>4. \A u \in Threads : ~Swept(u, s, r) /\ ~Purged(u, s, r) /\ (HalfDone(u, s, r) => u = t)
    BY <1>1, <1>c, <2>1, HalfDoneHolds, PairOwned DEF IInv
  <2>5. \A u \in Threads : ~Swept(u, s, r)' /\ ~Purged(u, s, r)' /\ ~HalfDone(u, s, r)'
    BY <1>b, <1>e, <2>4 DEF SameMarks
  <2> QED BY <1>d, <2>2, <2>3, <2>5 DEF HalvesOf
<1>2. CASE ~(s = call[t].snd /\ r = other[t])
  <2>1. senders'[r][s] = senders[r][s]
    BY <1>a, <1>2, <1>c DEF AddSender, ListsTyped
  <2>2. SameMarks(t, s, r)
    BY <1>2, <1>e DEF SameMarks, HalfDone
  <2> QED BY <1>a, <1>b, <1>d, <2>1, <2>2, PairKept
<1> QED BY <1>1, <1>2

\* internal_disconnect() erases the first half.  It finds an entry.
LEMMA EntryFound ==
  ASSUME IInv, NEW t \in Threads, pc[t] = "eraseSender"
  PROVE  LET s == call[t].snd  r == other[t]
         IN  /\ s \in Senders /\ r \in Receivers /\ senders[r][s] > 0
             /\ Cardinality(Between(s, r)) = senders[r][s]
             /\ \A u \in Threads : ~Swept(u, s, r) /\ ~Purged(u, s, r) /\ ~HalfDone(u, s, r)
<1> DEFINE s == call[t].snd
           r == other[t]
<1> USE ObjectAssumption
<1>1. s \in Senders /\ r \in Receivers /\ mutex[s] = t /\ Dying(t) = NULL
  BY DEF IInv, OrderInv, CallShape, OtherShape, Disconnecting, LocksHeld, HoldsSender, Dying, Leaving, Closing
<1>2. iter[t] \in Matches(s, call[t]) /\ r = conn[iter[t]].rcv
  BY DEF IInv, IterShape
<1>3. s \in Used(pc[t], call[t]) /\ r \in Used(pc[t], call[t])
  BY <1>2, UsedIn DEF Points, Disconnecting
<1>4. ~HalfDone(t, s, r)
  BY DEF HalfDone
<1>5. \A u \in Threads : ~Swept(u, s, r) /\ ~Purged(u, s, r) /\ ~HalfDone(u, s, r)
  BY <1>1, <1>3, <1>4, PairOwned DEF IInv
<1>6. Cardinality(Between(s, r)) = senders[r][s]
  BY <1>1, <1>5 DEF IInv, Halves, HalvesOf
<1>7. iter[t] \in Between(s, r)
  BY <1>2 DEF Matches, Between
<1>8. Cardinality(Between(s, r)) # 0 /\ Cardinality(Between(s, r)) \in Nat
  BY <1>7, BetweenFinite, FS_EmptySet
<1> QED BY <1>1, <1>5, <1>6, <1>8

\* The entry goes before the connection.
LEMMA HalvesEraseSender ==
  ASSUME IInv, NEW t \in Threads, EraseSender(t), NEW s \in Senders, NEW r \in Receivers
  PROVE  HalvesOf(s, r)'
<1> USE ObjectAssumption
<1>a. HalvesOf(s, r) /\ ThreadsTyped /\ ListsTyped
  BY TypeGroups DEF IInv, OrderInv, Halves
<1>b. \A u \in Threads \ {t} : SameMarks(u, s, r)
  BY OthersKept DEF Step, IInv, SameMarks, Swept, Purged, HalfDone
<1>c. /\ pc[t] = "eraseSender" /\ pc'[t] = "eraseConn" /\ call' = call /\ other' = other /\ conn' = conn
      /\ other[t] \in Receivers /\ call[t].snd \in Senders
  BY <1>a, EntryFound DEF EraseSender, Goto, ThreadsTyped
<1>d. Between(s, r)' = Between(s, r)
  BY <1>c DEF Between, List
<1>1. CASE s = call[t].snd /\ r = other[t]
  <2>1. /\ Cardinality(Between(s, r)) = senders[r][s]
        /\ \A u \in Threads : ~Swept(u, s, r) /\ ~Purged(u, s, r) /\ ~HalfDone(u, s, r)
    BY <1>1, <1>c, EntryFound
  <2>2. senders'[r][s] = senders[r][s] - 1
    BY <1>a, <1>1, <1>c DEF EraseSender, ListsTyped
  <2>3. HalfDone(t, s, r)' /\ ~Swept(t, s, r)' /\ ~Purged(t, s, r)'
    BY <1>1, <1>c DEF HalfDone, Swept, Purged, Leaving, Closing
  <2>4. \A u \in Threads : ~Swept(u, s, r)' /\ ~Purged(u, s, r)'
    BY <1>b, <2>1, <2>3 DEF SameMarks
  <2>5. Cardinality(Between(s, r)') = senders'[r][s] + 1
    BY <1>a, <1>d, <2>1, <2>2 DEF ListsTyped
  <2> QED BY <2>3, <2>4, <2>5 DEF HalvesOf
<1>2. CASE ~(s = call[t].snd /\ r = other[t])
  <2>1. senders'[r][s] = senders[r][s]
    BY <1>a, <1>2, <1>c DEF EraseSender, ListsTyped
  <2>2. SameMarks(t, s, r)
    BY <1>2, <1>c DEF SameMarks, HalfDone, Swept, Purged, Leaving, Closing
  <2> QED BY <1>a, <1>b, <1>d, <2>1, <2>2, PairKept
<1> QED BY <1>1, <1>2

\* internal_disconnect() erases the second half.
LEMMA HalvesEraseConn ==
  ASSUME IInv, NEW t \in Threads, EraseConn(t), NEW s \in Senders, NEW r \in Receivers
  PROVE  HalvesOf(s, r)'
<1> USE ObjectAssumption
<1>a. HalvesOf(s, r) /\ ThreadsTyped /\ ListsTyped
  BY TypeGroups DEF IInv, OrderInv, Halves
<1>b. \A u \in Threads \ {t} : SameMarks(u, s, r)
  BY OthersKept DEF Step, IInv, SameMarks, Swept, Purged, HalfDone
<1>c. /\ pc[t] = "eraseConn" /\ pc'[t] = "scan" /\ senders' = senders
      /\ call[t].snd \in Senders
      /\ iter[t] \in Between(call[t].snd, other[t])
      /\ conn' = [conn EXCEPT ![iter[t]] = Blank]
  BY <1>a DEF EraseConn, Goto, ThreadsTyped, IInv, OrderInv, CallShape, Disconnecting, IterShape, Matches, Between
<1>d. /\ conn'[iter[t]].snd = NULL /\ iter[t] \in Conns
      /\ \A c \in Conns \ {iter[t]} : conn'[c] = conn[c]
  BY <1>a, <1>c DEF ListsTyped, Between, List, Blank
<1>e. ~HalfDone(t, s, r)' /\ ~Swept(t, s, r)' /\ ~Purged(t, s, r)' /\ ~Swept(t, s, r) /\ ~Purged(t, s, r)
  BY <1>c DEF HalfDone, Swept, Purged, Leaving, Closing
<1>1. CASE s = call[t].snd /\ r = other[t]
  <2>1. HalfDone(t, s, r)
    BY <1>1, <1>c DEF HalfDone
  <2>2. Cardinality(Between(s, r)) = senders[r][s] + 1
    BY <1>a, <2>1 DEF HalvesOf
  <2>3. Between(s, r)' = Between(s, r) \ {iter[t]}
    BY <1>1, <1>d DEF Between, List, Objects
  <2>4. Cardinality(Between(s, r)') = senders'[r][s]
    <3>1. senders[r][s] \in Nat
      BY <1>a DEF ListsTyped
    <3>2. iter[t] \in Between(s, r) /\ IsFiniteSet(Between(s, r))
      BY <1>1, <1>c, BetweenFinite
    <3>3. Cardinality(Between(s, r) \ {iter[t]}) = Cardinality(Between(s, r)) - 1
      BY <3>2, FS_RemoveElement
    <3> QED BY <1>c, <2>2, <2>3, <3>1, <3>3
  <2>5. \A u \in Threads : ~Swept(u, s, r) /\ ~Purged(u, s, r) /\ (HalfDone(u, s, r) => u = t)
    BY <2>1, HalfDoneHolds, PairOwned DEF IInv
  <2>6. \A u \in Threads : ~Swept(u, s, r)' /\ ~Purged(u, s, r)' /\ ~HalfDone(u, s, r)'
    BY <1>b, <1>e, <2>5 DEF SameMarks
  <2> QED BY <2>4, <2>6 DEF HalvesOf
<1>2. CASE ~(s = call[t].snd /\ r = other[t])
  <2>1. Between(s, r)' = Between(s, r)
    BY <1>2, <1>c, <1>d DEF Between, List, Objects
  <2>2. SameMarks(t, s, r)
    BY <1>2, <1>e DEF SameMarks, HalfDone
  <2> QED BY <1>a, <1>b, <1>c, <2>1, <2>2, PairKept
<1> QED BY <1>1, <1>2

\* ~SignalBase erases all entries in a receiver.
LEMMA HalvesSweep ==
  ASSUME IInv, NEW t \in Threads, Sweep(t), NEW s \in Senders, NEW r \in Receivers
  PROVE  HalvesOf(s, r)'
<1> USE ObjectAssumption
<1>a. HalvesOf(s, r) /\ ThreadsTyped /\ ListsTyped
  BY TypeGroups DEF IInv, OrderInv, Halves
<1>b. \A u \in Threads \ {t} : SameMarks(u, s, r)
  BY OthersKept DEF Step, IInv, SameMarks, Swept, Purged, HalfDone
<1>c. /\ pc[t] = "sweep" /\ pc'[t] = "leave" /\ call' = call /\ conn' = conn
      /\ other[t] \in Receivers /\ call[t].snd \in Senders
      /\ Dying(t) = call[t].snd
  BY <1>a, DyingIs DEF Sweep, Goto, ThreadsTyped, IInv, OrderInv, CallShape, OtherShape, Leaving
<1>d. Between(s, r)' = Between(s, r)
  BY <1>c DEF Between, List
<1>1. CASE s = call[t].snd /\ r = other[t]
  <2>1. senders'[r][s] = 0
    BY <1>a, <1>1, <1>c DEF Sweep, ListsTyped
  <2>2. Swept(t, s, r)' /\ ~Purged(t, s, r)' /\ ~HalfDone(t, s, r)'
    <3>1. visits'[t][r] = visits[t][r] + 1 /\ visits[t][r] \in Nat
      BY <1>a, <1>1, <1>c DEF Sweep, ThreadsTyped, Objects
    <3> QED BY <1>1, <1>c, <3>1 DEF Swept, Purged, HalfDone, Leaving, Closing
  <2>3. \A u \in Threads \ {t} : ~HalfDone(u, s, r)
    <3>1. \A u \in Threads : HalfDone(u, s, r) => s \in Used(pc[u], call[u])
      BY HalfDoneHolds DEF IInv
    <3> QED BY <1>1, <1>c, <3>1 DEF IInv, NotDisturbed, Objects
  <2>4. \A u \in Threads \ {t} : Purged(u, s, r) => Between(s, r) = {}
    BY <1>a DEF HalvesOf
  <2> QED BY <1>b, <1>d, <2>1, <2>2, <2>3, <2>4 DEF SameMarks, HalvesOf
<1>2. CASE ~(s = call[t].snd /\ r = other[t])
  <2>1. senders'[r][s] = senders[r][s]
    BY <1>a, <1>2, <1>c DEF Sweep, ListsTyped
  <2>2. SameMarks(t, s, r)
    <3>1. s = call[t].snd => visits'[t][r] = visits[t][r]
      BY <1>a, <1>2, <1>c DEF Sweep, ThreadsTyped, Objects
    <3> QED BY <1>c, <3>1 DEF SameMarks, HalfDone, Swept, Purged, Leaving, Closing
  <2> QED BY <1>a, <1>b, <1>d, <2>1, <2>2, PairKept
<1> QED BY <1>1, <1>2

\* ~SlotBase erases all connections in a sender.
LEMMA HalvesPurge ==
  ASSUME IInv, NEW t \in Threads, Purge(t), NEW s \in Senders, NEW r \in Receivers
  PROVE  HalvesOf(s, r)'
<1> USE ObjectAssumption
<1>a. HalvesOf(s, r) /\ ThreadsTyped /\ ListsTyped
  BY TypeGroups DEF IInv, OrderInv, Halves
<1>b. \A u \in Threads \ {t} : SameMarks(u, s, r)
  BY OthersKept DEF Step, IInv, SameMarks, Swept, Purged, HalfDone
<1>c. /\ pc[t] = "purge" /\ pc'[t] = "close" /\ call' = call /\ senders' = senders
      /\ other[t] \in Senders /\ call[t].rcv \in Receivers
      /\ Dying(t) = call[t].rcv
      /\ conn' = [c \in Conns |-> IF c \in Between(other[t], call[t].rcv) THEN Blank ELSE conn[c]]
  BY <1>a, DyingIs DEF Purge, Goto, ThreadsTyped, IInv, OrderInv, CallShape, OtherShape, Closing
<1>1. CASE s = other[t] /\ r = call[t].rcv
  <2>1. Between(s, r)' = {}
    BY <1>1, <1>c DEF Between, List, Blank, Objects
  <2>2. Purged(t, s, r)' /\ ~Swept(t, s, r)' /\ ~HalfDone(t, s, r)'
    <3>1. visits'[t][s] = visits[t][s] + 1 /\ visits[t][s] \in Nat
      BY <1>a, <1>1, <1>c DEF Purge, ThreadsTyped, Objects
    <3> QED BY <1>1, <1>c, <3>1 DEF Swept, Purged, HalfDone, Leaving, Closing
  <2>3. \A u \in Threads \ {t} : ~HalfDone(u, s, r)
    <3>1. \A u \in Threads : HalfDone(u, s, r) => r \in Used(pc[u], call[u])
      BY HalfDoneHolds DEF IInv
    <3> QED BY <1>1, <1>c, <3>1 DEF IInv, NotDisturbed, Objects
  <2>4. \A u \in Threads \ {t} : Swept(u, s, r) => senders'[r][s] = 0
    BY <1>a, <1>c DEF HalvesOf
  <2> QED BY <1>b, <2>1, <2>2, <2>3, <2>4 DEF SameMarks, HalvesOf
<1>2. CASE ~(s = other[t] /\ r = call[t].rcv)
  <2>1. Between(s, r)' = Between(s, r)
    BY <1>2, <1>c DEF Between, List, Blank, Objects
  <2>2. SameMarks(t, s, r)
    <3>1. r = call[t].rcv => visits'[t][s] = visits[t][s]
      BY <1>a, <1>2, <1>c DEF Purge, ThreadsTyped, Objects
    <3> QED BY <1>c, <3>1 DEF SameMarks, HalfDone, Swept, Purged, Leaving, Closing
  <2> QED BY <1>a, <1>b, <1>c, <2>1, <2>2, PairKept
<1> QED BY <1>1, <1>2

\* ~SignalBase destroys the list of the sender.
LEMMA HalvesLeaveEnd ==
  ASSUME IInv, NEW t \in Threads, LeaveEnd(t), NEW s \in Senders, NEW r \in Receivers
  PROVE  HalvesOf(s, r)'
<1> USE ObjectAssumption
<1>a. HalvesOf(s, r) /\ ThreadsTyped /\ ListsTyped
  BY TypeGroups DEF IInv, OrderInv, Halves
<1>b. \A u \in Threads \ {t} : SameMarks(u, s, r)
  BY OthersKept DEF Step, IInv, SameMarks, Swept, Purged, HalfDone
<1>c. /\ pc[t] = "leave" /\ pc'[t] = "idle" /\ senders' = senders
      /\ call[t].snd \in Senders /\ Dying(t) = call[t].snd
      /\ conn' = [c \in Conns |-> IF c \in List(call[t].snd) THEN Blank ELSE conn[c]]
  BY <1>a, DyingIs DEF LeaveEnd, Return, Goto, ThreadsTyped, IInv, OrderInv, CallShape, Leaving
<1>d. ~HalfDone(t, s, r)' /\ ~Swept(t, s, r)' /\ ~Purged(t, s, r)'
  BY <1>c DEF HalfDone, Swept, Purged, Leaving, Closing
<1>1. CASE s = call[t].snd
  <2>1. Between(s, r)' = {}
    BY <1>1, <1>c DEF Between, List, Blank, Objects
  <2>2. senders'[r][s] = 0
    BY <1>1, <1>c, SweepComplete
  <2>3. \A u \in Threads \ {t} : ~HalfDone(u, s, r)
    <3>1. \A u \in Threads : HalfDone(u, s, r) => s \in Used(pc[u], call[u])
      BY HalfDoneHolds DEF IInv
    <3> QED BY <1>1, <1>c, <3>1 DEF IInv, NotDisturbed, Objects
  <2> QED BY <1>b, <1>d, <2>1, <2>2, <2>3, FS_EmptySet DEF SameMarks, HalvesOf
<1>2. CASE s # call[t].snd
  <2>1. Between(s, r)' = Between(s, r)
    BY <1>2, <1>c DEF Between, List, Blank, Objects
  <2>2. SameMarks(t, s, r)
    BY <1>2, <1>c, <1>d DEF SameMarks, HalfDone, Swept, Purged, Leaving, Closing
  <2> QED BY <1>a, <1>b, <1>c, <2>1, <2>2, PairKept
<1> QED BY <1>1, <1>2

\* ~SlotBase destroys the list of the receiver.
LEMMA HalvesCloseEnd ==
  ASSUME IInv, NEW t \in Threads, CloseEnd(t), NEW s \in Senders, NEW r \in Receivers
  PROVE  HalvesOf(s, r)'
<1> USE ObjectAssumption
<1>a. HalvesOf(s, r) /\ ThreadsTyped /\ ListsTyped
  BY TypeGroups DEF IInv, OrderInv, Halves
<1>b. \A u \in Threads \ {t} : SameMarks(u, s, r)
  BY OthersKept DEF Step, IInv, SameMarks, Swept, Purged, HalfDone
<1>c. /\ pc[t] = "close" /\ pc'[t] = "idle" /\ conn' = conn
      /\ call[t].rcv \in Receivers /\ Dying(t) = call[t].rcv
      /\ senders' = [senders EXCEPT ![call[t].rcv] = [q \in Senders |-> 0]]
  BY <1>a, DyingIs DEF CloseEnd, Return, Goto, ThreadsTyped, IInv, OrderInv, CallShape, Closing
<1>d. ~HalfDone(t, s, r)' /\ ~Swept(t, s, r)' /\ ~Purged(t, s, r)'
  BY <1>c DEF HalfDone, Swept, Purged, Leaving, Closing
<1>e. Between(s, r)' = Between(s, r)
  BY <1>c DEF Between, List
<1>1. CASE r = call[t].rcv
  <2>1. Between(s, r) = {}
    BY <1>1, PurgeComplete
  <2>2. senders'[r][s] = 0
    BY <1>1, <1>a, <1>c DEF ListsTyped
  <2>3. \A u \in Threads \ {t} : ~HalfDone(u, s, r)
    <3>1. \A u \in Threads : HalfDone(u, s, r) => r \in Used(pc[u], call[u])
      BY HalfDoneHolds DEF IInv
    <3> QED BY <1>1, <1>c, <3>1 DEF IInv, NotDisturbed, Objects
  <2> QED BY <1>b, <1>d, <1>e, <2>1, <2>2, <2>3, FS_EmptySet DEF SameMarks, HalvesOf
<1>2. CASE r # call[t].rcv
  <2>1. senders'[r][s] = senders[r][s]
    BY <1>2, <1>a, <1>c DEF ListsTyped
  <2>2. SameMarks(t, s, r)
    BY <1>2, <1>c, <1>d DEF SameMarks, HalfDone, Swept, Purged, Leaving, Closing
  <2> QED BY <1>a, <1>b, <1>e, <2>1, <2>2, PairKept
<1> QED BY <1>1, <1>2

\* Every step keeps the account of the halves of every pair.
LEMMA HalvesStep == IInv /\ [Next]_vars => Halves'
<1> SUFFICES ASSUME IInv, [Next]_vars, NEW s \in Senders, NEW r \in Receivers PROVE HalvesOf(s, r)'
  BY DEF Halves
<1> USE ObjectAssumption
<1>a. OrderInv /\ HalvesOf(s, r) /\ ThreadsTyped
  BY TypeGroups DEF IInv, OrderInv, Halves
<1>1. ASSUME NEW t \in Threads, StartConnect(t, FALSE) \/ StartDisconnect(t) \/ StartDestroy(t)
      PROVE  HalvesOf(s, r)'
  <2>1. PICK p \in {"connect", "disconnect", "leave", "close"}, a \in Call : Begin(t, p, a)
    BY <1>1, <1>a, StartTyped DEF Start, OrderInv
  <2>2. \A u \in Threads \ {t} : SameMarks(u, s, r)
    BY <1>a, <2>1 DEF Begin, Goto, ThreadsTyped, SameMarks, Swept, Purged, HalfDone
  <2>3. SameMarks(t, s, r)
    <3>1. visits'[t] = [o \in Objects |-> 0] /\ visits[t] = visits'[t] /\ pc[t] = "idle" /\ pc'[t] = p
      BY <1>a, <2>1 DEF Begin, Goto, ThreadsTyped, IInv, VisitsShape, Leaving, Closing
    <3> QED BY <3>1 DEF SameMarks, Swept, Purged, HalfDone, Objects
  <2>4. Between(s, r)' = Between(s, r) /\ senders' = senders
    BY <2>1 DEF Begin, Between, List
  <2> QED BY <1>a, <2>2, <2>3, <2>4, PairKept
<1>2. ASSUME NEW t \in Threads, Step(t) PROVE HalvesOf(s, r)'
  <2>1. \A u \in Threads \ {t} : SameMarks(u, s, r)
    BY <1>2, <1>a, OthersKept DEF SameMarks, Swept, Purged, HalfDone
  <2>2. CASE Connect(t) \/ AddLock(t) \/ Disconnect(t) \/ ScanFinds(t) \/ LockFound(t)
             \/ ConnectNot(t) \/ ScanEnds(t)
    <3>1. Between(s, r)' = Between(s, r) /\ senders' = senders
      BY <2>2 DEF Connect, AddLock, Disconnect, ScanFinds, LockFound, ConnectNot, ScanEnds, Between, List
    <3>2. \/ pc[t] = "addLock" /\ pc'[t] = "addSender" /\ call' = call /\ other' = other
          \/ /\ pc[t] \in {"connect", "disconnect", "scan", "found"}
             /\ pc'[t] \in {"add", "scan", "found", "eraseSender", "idle"}
      BY <1>a, <2>2 DEF Connect, AddLock, Disconnect, ScanFinds, LockFound, ConnectNot, ScanEnds, Lock,
         Goto, Return, ThreadsTyped
    <3>3. SameMarks(t, s, r)
      BY <3>2 DEF SameMarks, Swept, Purged, HalfDone, Leaving, Closing
    <3> QED BY <1>a, <2>1, <3>1, <3>3, PairKept
  <2>3. CASE LeaveNext(t) \/ LeaveLock(t) \/ CloseNext(t) \/ CloseLock(t)
    <3>1. Between(s, r)' = Between(s, r) /\ senders' = senders /\ call' = call /\ visits' = visits
      BY <2>3 DEF LeaveNext, LeaveLock, CloseNext, CloseLock, Between, List
    <3>2. (pc[t] \in Leaving /\ pc'[t] \in Leaving) \/ (pc[t] \in Closing /\ pc'[t] \in Closing)
      BY <1>a, <2>3 DEF LeaveNext, LeaveLock, CloseNext, CloseLock, Lock, Goto, ThreadsTyped, Leaving, Closing
    <3>3. SameMarks(t, s, r)
      BY <3>1, <3>2 DEF SameMarks, Swept, Purged, HalfDone, Leaving, Closing
    <3> QED BY <1>a, <2>1, <3>1, <3>3, PairKept
  <2> QED BY <1>2, <2>2, <2>3, HalvesAdd, HalvesAddSender, HalvesEraseSender, HalvesEraseConn, HalvesSweep,
          HalvesPurge, HalvesLeaveEnd, HalvesCloseEnd DEF Step
<1>3. CASE (\E o \in Objects : Construct(o)) \/ UNCHANGED vars
  <2>1. \A u \in Threads : SameMarks(u, s, r)
    BY <1>3 DEF Construct, vars, SameMarks, Swept, Purged, HalfDone
  <2>2. Between(s, r)' = Between(s, r) /\ senders' = senders
    BY <1>3 DEF Construct, vars, Between, List
  <2> QED BY <1>a, <2>1, <2>2, PairKept
<1> QED BY <1>1, <1>2, <1>3 DEF Next

\* Destructors leave neither a connection nor an entry behind.
LEMMA LeftStep == IInv /\ [Next]_vars => NothingLeft'
<1> SUFFICES ASSUME IInv, [Next]_vars PROVE NothingLeft'
  OBVIOUS
<1> USE ObjectAssumption
<1>a. ThreadsTyped /\ ListsTyped /\ OrderInv /\ NothingLeft /\ TypeOK
  BY TypeGroups DEF IInv, OrderInv
<1>1. CASE UNCHANGED <<conn, senders>> /\ alive \subseteq alive'
  BY <1>a, <1>1 DEF NothingLeft
<1>2. ASSUME NEW t \in Threads, Add(t) \/ AddSender(t) PROVE NothingLeft'
  <2>1. /\ call[t].snd \in Used(pc[t], call[t]) /\ call[t].rcv \in Used(pc[t], call[t])
        /\ pc[t] \in Connecting
    BY <1>2, UsedIn DEF Add, AddSender, Points, Connecting
  <2>2. call[t].snd \in alive /\ call[t].rcv \in alive /\ call[t].snd \in Senders /\ call[t].rcv \in Receivers
    BY <1>a, <2>1 DEF IInv, UsedExist, OrderInv, CallShape
  <2>3. CASE Add(t)
    <3>1. PICK c \in Conns :
            conn' = [conn EXCEPT ![c] = [snd |-> call[t].snd, sig |-> call[t].sig,
                                         slot |-> call[t].slot, rcv |-> call[t].rcv]]
      BY <2>3 DEF Add
    <3>2. conn'[c].snd = call[t].snd /\ conn'[c].rcv = call[t].rcv
      BY <1>a, <3>1 DEF ListsTyped
    <3>3. alive' = alive /\ senders' = senders /\ \A d \in Conns \ {c} : conn'[d] = conn[d]
      BY <2>3, <1>a, <3>1 DEF Add, ListsTyped
    <3> QED BY <1>a, <2>2, <3>2, <3>3 DEF NothingLeft
  <2>4. CASE AddSender(t)
    <3>1. other[t] = call[t].rcv
      BY <1>a, <2>4 DEF AddSender, OrderInv, OtherShape
    <3>2. \A r \in Receivers, s \in Senders :
            senders'[r][s] = senders[r][s] \/ (r = call[t].rcv /\ s = call[t].snd)
      BY <1>a, <2>2, <2>4, <3>1 DEF AddSender, ListsTyped
    <3>3. alive' = alive /\ conn' = conn
      BY <2>4 DEF AddSender
    <3> QED BY <1>a, <2>2, <3>2, <3>3 DEF NothingLeft
  <2> QED BY <1>2, <2>3, <2>4
<1>3. ASSUME NEW t \in Threads, EraseSender(t) \/ EraseConn(t) \/ Sweep(t) \/ Purge(t) PROVE NothingLeft'
  <2>1. Step(t) /\ ~Add(t) /\ ~AddSender(t) /\ alive' = alive
    BY <1>3 DEF Step, Add, AddSender, EraseSender, EraseConn, Sweep, Purge
  <2>2. \A c \in Conns : conn'[c] \in {conn[c], Blank}
    BY <1>a, <2>1, ConnsErased
  <2>3. \A r \in Receivers, s \in Senders : senders'[r][s] > 0 => senders[r][s] > 0
    <3>1. ASSUME NEW r \in Receivers, NEW s \in Senders, senders'[r][s] > 0 PROVE senders[r][s] > 0
      <4>1. senders'[r][s] <= senders[r][s] /\ senders'[r][s] \in Nat /\ senders[r][s] \in Nat
        BY <1>a, <2>1, SendersErased DEF ListsTyped
      <4> QED BY <3>1, <4>1
    <3> QED BY <3>1
  <2> QED BY <1>a, <2>1, <2>2, <2>3 DEF NothingLeft
<1>4. ASSUME NEW t \in Threads, LeaveEnd(t) PROVE NothingLeft'
  <2>1. /\ alive' = alive \ {call[t].snd} /\ call[t].snd \in Senders /\ senders' = senders
        /\ conn' = [c \in Conns |-> IF c \in List(call[t].snd) THEN Blank ELSE conn[c]]
    BY <1>a, <1>4 DEF LeaveEnd, OrderInv, CallShape, Leaving
  <2>2. \A c \in Conns : conn'[c] # Blank =>
          conn'[c] = conn[c] /\ conn[c].snd # call[t].snd /\ conn[c].rcv \in Receivers
    BY <1>a, <2>1 DEF ListsTyped, List, Connection
  <2>3. \A r \in Receivers : senders[r][call[t].snd] = 0
    BY <1>4, SweepComplete
  <2> QED BY <1>a, <2>1, <2>2, <2>3 DEF NothingLeft
<1>5. ASSUME NEW t \in Threads, CloseEnd(t) PROVE NothingLeft'
  <2>1. /\ alive' = alive \ {call[t].rcv} /\ call[t].rcv \in Receivers /\ conn' = conn
        /\ senders' = [senders EXCEPT ![call[t].rcv] = [s \in Senders |-> 0]]
    BY <1>a, <1>5 DEF CloseEnd, OrderInv, CallShape, Closing
  <2>2. \A s \in Senders : Between(s, call[t].rcv) = {}
    BY <1>5, PurgeComplete
  <2>3. \A c \in Conns : conn[c] # Blank => conn[c].rcv # call[t].rcv /\ conn[c].snd \in Senders
    BY <1>a, <2>2 DEF Between, List, ListsTyped, Connection
  <2>4. \A r \in Receivers, s \in Senders :
          senders'[r][s] > 0 => r # call[t].rcv /\ senders[r][s] > 0
    BY <1>a, <2>1 DEF ListsTyped
  <2> QED BY <1>a, <2>1, <2>3, <2>4 DEF NothingLeft
<1>6. ASSUME NEW t \in Threads, Step(t) PROVE NothingLeft'
  BY <1>1, <1>2, <1>3, <1>4, <1>5, <1>6 DEF Step, Connect, ConnectNot, AddLock, Disconnect, ScanFinds,
     ScanEnds, LockFound, LeaveNext, LeaveLock, CloseNext, CloseLock
<1>7. ASSUME NEW t \in Threads, StartConnect(t, FALSE) \/ StartDisconnect(t) \/ StartDestroy(t)
      PROVE  NothingLeft'
  <2>1. \E p \in {"connect", "disconnect", "leave", "close"}, a \in Call : Begin(t, p, a)
    BY <1>7, <1>a, StartTyped DEF Start
  <2> QED BY <1>1, <2>1 DEF Begin
<1>8. CASE (\E o \in Objects : Construct(o)) \/ UNCHANGED vars
  BY <1>1, <1>8 DEF Construct, vars
<1> QED BY <1>6, <1>7, <1>8 DEF Next

-----------------------------------------------------------------------------
(* The inductive invariant *)

\* The initial state satisfies the invariant.
LEMMA InvInit == Init => IInv
<1> SUFFICES ASSUME Init PROVE IInv
  OBVIOUS
<1> USE ObjectAssumption
<1>1. /\ \A t \in Threads : pc[t] = "idle" /\ ~call[t].bento /\ visits[t] = [o \in Objects |-> 0]
      /\ \A c \in Conns : conn[c] = Blank
      /\ \A r \in Receivers, s \in Senders : senders[r][s] = 0
  BY DEF Init, NoCall
<1>2. LocksHeld /\ IterShape /\ VisitsShape /\ UniqueInv
  BY <1>1 DEF LocksHeld, HoldsSender, HoldsOther, IterShape, VisitsShape, UniqueInv, NotAddedTwice
<1>3. \A t \in Threads : Dying(t) = NULL /\ Used(pc[t], call[t]) = {}
  BY <1>1 DEF Dying, Used, Connecting, Disconnecting, Leaving, Closing
<1>4. UsedExist /\ NotDisturbed /\ NothingLeft
  BY <1>1, <1>3 DEF UsedExist, NotDisturbed, NothingLeft
<1>5. Halves
  <2> SUFFICES ASSUME NEW s \in Senders, NEW r \in Receivers PROVE HalvesOf(s, r)
    BY DEF Halves
  <2>1. Between(s, r) = {}
    BY <1>1 DEF Between, List, Blank, Objects
  <2>2. \A t \in Threads : ~HalfDone(t, s, r)
    BY <1>1 DEF HalfDone
  <2> QED BY <1>1, <2>1, <2>2, FS_EmptySet DEF HalvesOf
<1> QED BY InitOrder, <1>2, <1>4, <1>5 DEF IInv

\* Every step keeps the invariant.
LEMMA InvStep == IInv /\ [Next]_vars => IInv'
BY OrderStep, LocksHeldStep, IterStep, ExistStep, DisturbStep, VisitsStep, HalvesStep, LeftStep, UniqueStep
   DEF IInv

\* A pair that nobody has half written or destroys has as many entries as connections.
LEMMA InvHalvesAgree == IInv => HalvesAgree
<1> SUFFICES ASSUME IInv, NEW s \in Senders, NEW r \in Receivers, mutex[s] = NULL,
                    \A t \in Threads : Dying(t) \notin {s, r}
             PROVE  senders[r][s] = Cardinality(Between(s, r))
  BY DEF HalvesAgree
<1>1. \A t \in Threads : ~HalfDone(t, s, r)
  <2>1. \A t \in Threads : t # NULL
    BY ObjectAssumption
  <2> QED BY <2>1, HalfDoneHolds DEF IInv
<1>2. \A t \in Threads : ~Swept(t, s, r) /\ ~Purged(t, s, r)
  BY VisitorDies DEF IInv
<1>3. HalvesOf(s, r)
  BY DEF IInv, Halves
<1> QED BY <1>1, <1>2, <1>3 DEF HalvesOf

-----------------------------------------------------------------------------
(* The theorems *)

\* IInv holds in every reachable state.
THEOREM Inductive == Spec => []IInv
BY InvInit, InvStep, PTL DEF Spec

\* Every variable of Connections stays in its domain.
THEOREM TypeCorrect == Spec => []TypeOK
<1>1. OrderInv => TypeOK
  BY DEF OrderInv
<1> QED BY <1>1, InitOrder, OrderStep, PTL DEF Spec

\* connect(), disconnect() and the destructors never deadlock.
THEOREM DeadlockFree == Spec => []NoWaitCycle
BY InitOrder, OrderStep, OrderImpliesNoWaitCycle, PTL DEF Spec

\* Both halves of the connections of a pair agree whenever the mutex of the
\* sender is free and neither object is being destroyed, for any number of
\* threads that connect, disconnect and destroy.
THEOREM HalvesAlwaysAgree == Spec => []HalvesAgree
BY Inductive, InvHalvesAgree, PTL

\* internal_disconnect() finds the entry that it erases.
THEOREM EntriesFound == Spec => []FindSucceeds
<1>1. IInv => FindSucceeds
  BY EntryFound DEF FindSucceeds
<1> QED BY <1>1, Inductive, PTL

\* Nothing leads to an object that is gone.
THEOREM NeverDangling == Spec => []NoDangling
<1>1. IInv => NoDangling
  BY DEF IInv, NothingLeft, NoDangling
<1> QED BY <1>1, Inductive, PTL

\* A connection with uniqueConnection is not added twice.
THEOREM UniqueConnections == Spec => []NotAddedTwice
<1>1. IInv => NotAddedTwice
  BY DEF IInv, UniqueInv
<1> QED BY <1>1, Inductive, PTL

=============================================================================
